----------------------------- MODULE MidiDevice -----------------------------
(***************************************************************************)
(* cw::midi::device: the thread that plays the MIDI files of the file      *)
(* device and polls the ALSA ports, the ring in which it leaves every      *)
(* message for the audio thread, and the calls of the application: files   *)
(* are loaded on ports, a first and a last message are set, and playing is *)
(* started, stopped and paused.  No lock is held by any of them.           *)
(*                                                                         *)
(* Time is counted in small units and stands still at Top, when every     *)
(* message is due.  start_delay_micros is never set and is zero.  A call of *)
(* the application is one action; each access of the thread to what the    *)
(* calls change is one.                                                    *)
(***************************************************************************)
EXTENDS Integers, Sequences, FiniteSets, SequencesExt

CONSTANTS
  Ports,       \* ports of the file device
  Songs,       \* for each port, what can be loaded on it: sequences of times
  Live,        \* what poll() can find on the ALSA ports: sequences of messages
  NoMsg,       \* the content of an unused cell of the ring
  BufN,        \* create(): bufferMsgCnt
  Ahead,       \* create(): fileDevReadAheadMicros
  MaxSleep,    \* half of thread_timeout_microsecs
  Top,         \* bound: the clock stops here
  MaxSets      \* bound: calls that change what is to be played, or start anew
               \* while the thread plays, without the ring and with it

LiveMsgs == UNION { ToSet(k) : k \in Live }

ASSUME MidiDeviceAssumption ==
  /\ Ports \subseteq Nat /\ Ports # {}
  /\ \A s \in UNION { Songs[port] : port \in Ports } :
       /\ s \in Seq(0 .. Top) /\ s # <<>>
       /\ \A i \in 2 .. Len(s) : s[i - 1] <= s[i]
  /\ \A k \in Live : k \in Seq(LiveMsgs) /\ k # <<>>
  /\ NoMsg \notin [port : Ports, idx : Nat, t : 0 .. Top]
  /\ BufN \in Nat \ {0} /\ Ahead \in Nat /\ MaxSleep \in Nat \ {0} /\ Top \in Nat /\ MaxSets \in [BOOLEAN -> Nat]

VARIABLES
  msgA,        \* file_dev_t: the messages of all files in order of time
  loaded,      \* ports that have a file: its msgN is not 0
  enabled,     \* ports whose enable_fl is set
  beg, end,    \* beg_msg_idx and end_msg_idx
  wr, rd,      \* next_wr_msg_idx and next_rd_msg_idx
  state,       \* fileDevStateId
  offset,      \* offset_micros
  last,        \* last_posn_micros
  elapsed,     \* the time since start_time
  pc,          \* where the thread is
  self,        \* the local variables of the thread
  enableBufFl, \* create(): the messages are left in the ring
  buf, ii, oi, \* the ring: buf, buf_ii and buf_oi
  win,         \* what getBuffer() returned, <<index, count>>
  begMsg, endMsg, plan, calm, wrong, sets, due, full  \* history, see below

fileVars == <<msgA, loaded, enabled, beg, end>>
nextVars == <<wr, rd>>
playVars == <<state, offset, last, elapsed>>
ringVars == <<enableBufFl, buf, ii>>
readVars == <<oi, win>>
planVars == <<begMsg, endMsg, plan, calm, wrong, sets>>
dueVars == <<due, full>>
vars == <<fileVars, nextVars, playVars, pc, self, ringVars, readVars, planVars, dueVars>>

(***************************************************************************)
(* History.  begMsg, endMsg: the messages that were last set as the first  *)
(* and the last.  plan: the indexes of the messages still to be played.    *)
(* calm: since the last start() no call has changed what is to be played,  *)
(* nor was the thread in exec() when start() was called.  wrong: another   *)
(* message was played.  due: the messages in the ring that the audio       *)
(* thread has not cleared.  full: the device has logged that the ring is   *)
(* full.                                                                   *)
(***************************************************************************)
None == -1                         \* kInvalidIdx

\* msgA is indexed from 0 in the program.
MsgN == Len(msgA)
Msg(i) == msgA[i + 1]

Idle == [el |-> 0, pos |-> 0, base |-> 0, lim |-> 0, next |-> 0, cnt |-> 0,
         pkt |-> <<>>, msg |-> NoMsg, out |-> <<>>, n |-> 0, at |-> 0, oi |-> 0, ret |-> "look"]

Init ==
  /\ msgA = <<>> /\ loaded = {} /\ enabled = {} /\ beg = None /\ end = None /\ wr = None /\ rd = None
  /\ state = "stopped" /\ offset = 0 /\ last = 0 /\ elapsed = 0
  /\ pc = "look" /\ self = Idle
  /\ enableBufFl \in BOOLEAN
  /\ buf = [i \in 0 .. (BufN - 1) |-> NoMsg] /\ ii = 0 /\ oi = 0
  /\ win = <<0, 0>>
  /\ begMsg = NoMsg /\ endMsg = NoMsg /\ plan = {} /\ calm = TRUE /\ wrong = FALSE /\ sets = 0
  /\ due = <<>> /\ full = FALSE

Least(a, b) == IF a < b THEN a ELSE b

\* The program runs: no assertion has aborted it, and no array was released under
\* exec(), after which anything may happen.
Alive == pc \notin {"aborted", "undefined"}

\* The thread is not in file_dev::exec().
InPoll == pc \in {"look", "poll"} \/ (pc = "cell" /\ self.ret = "look")

------------------------------------------------------------------------------
(* _thread_func() and file_dev::exec() *)

Look ==
  /\ pc = "look"
  /\ pc' = IF state = "playing" THEN "time" ELSE "poll"
  /\ UNCHANGED <<fileVars, nextVars, playVars, self, ringVars, readVars, planVars, dueVars>>

\* elapsedMicros(start_time, current_time())
Time ==
  /\ pc = "time"
  /\ self' = [self EXCEPT !.el = elapsed]
  /\ pc' = "exec"
  /\ UNCHANGED <<fileVars, nextVars, playVars, ringVars, readVars, planVars, dueVars>>

\* The time of a message after that of message b; the difference is unsigned.
Never == Top + Ahead + 1
MsgTime(i, b) == IF Msg(i).t < Msg(b).t THEN Never ELSE Msg(i).t - Msg(b).t

AtEndEarly == wr = None \/ wr >= MsgN - 1 \/ (end # None /\ wr > end)   \* mutant: off by one
AtEnd == wr = None \/ wr >= MsgN \/ (end # None /\ wr > end)

\* offset_micros is read, and exec() begins: nothing is left to be played ...
Eof ==
  /\ pc = "exec" /\ AtEnd
  /\ last' = Least(offset + self.el + MaxSleep, Top)
  /\ self' = Idle
  /\ pc' = "poll"
  /\ UNCHANGED <<fileVars, nextVars, state, offset, elapsed, ringVars, readVars, planVars,
                 dueVars>>

\* ... or something is.  The program aborts unless base_msg_idx <= next_wr_msg_idx.
Exec ==
  /\ pc = "exec" /\ ~AtEnd
  /\ LET b == IF beg = None THEN 0 ELSE beg
     IN  /\ self' = [self EXCEPT !.el = 0, !.pos = Least(offset + self.el, Top), !.base = b,
                       !.lim = IF end = None THEN MsgN - 1 ELSE end, !.next = MsgTime(wr, b)]
         /\ pc' = IF b <= wr THEN "scan" ELSE "aborted"
  /\ UNCHANGED <<fileVars, nextVars, playVars, ringVars, readVars, planVars, dueVars>>

\* The message at wr is due, or will be within the read-ahead time.
InTime == self.next <= self.pos + Ahead

\* The last message to be played has been taken.
PastEnd == wr >= MsgN \/ (self.cnt > 0 /\ wr > self.lim)

\* The loop takes one more message.
Scan ==
  /\ pc = "scan" /\ InTime /\ ~PastEnd
  /\ wr' = wr + 1
  /\ self' = [self EXCEPT !.cnt = @ + 1,
                !.next = IF wr + 1 < MsgN THEN MsgTime(wr + 1, self.base) ELSE @]
  /\ UNCHANGED <<fileVars, rd, playVars, pc, ringVars, readVars, planVars, dueVars>>

\* The loop ends.  The message it ends at must be later than now ...
Later == wr >= MsgN \/ self.next > self.pos
Scanned ==
  /\ pc = "scan" /\ ~(InTime /\ ~PastEnd) /\ Later
  /\ self' = [self EXCEPT !.el = IF wr >= MsgN THEN MaxSleep
                                 ELSE Least(MaxSleep, self.next - self.pos)]
  /\ pc' = IF self.cnt > 0 THEN "pack" ELSE "sleep"
  /\ UNCHANGED <<fileVars, nextVars, playVars, ringVars, readVars, planVars, dueVars>>

\* ... or the program aborts, before what the loop has taken is sent.
Abort ==
  /\ pc = "scan" /\ ~(InTime /\ ~PastEnd) /\ ~Later
  /\ pc' = "aborted"
  /\ UNCHANGED <<fileVars, nextVars, playVars, self, ringVars, readVars, planVars, dueVars>>

------------------------------------------------------------------------------
(* _packetize_and_transmit_msgs() *)

MorePkt == rd < wr /\ Len(self.pkt) < self.cnt

\* A packet has messages of one port.
Fits == \A k \in DOMAIN self.pkt : self.pkt[k].port = Msg(rd).port

\* The next message joins the packet, or is left out: its port is disabled.
Pack ==
  /\ pc = "pack" /\ MorePkt
  /\ Msg(rd).port \in enabled => Fits
  /\ self' = [self EXCEPT !.pkt = IF Msg(rd).port \in enabled THEN Append(@, Msg(rd)) ELSE @]
  /\ rd' = rd + 1
  /\ UNCHANGED <<fileVars, wr, playVars, pc, ringVars, readVars, planVars, dueVars>>

\* Packet k is given to the client's callback, or to _callback(), which loads
\* buf_ii and buf_oi; then the thread goes on at s.ret.
Call(k, s) ==
  IF enableBufFl
  THEN self' = [s EXCEPT !.out = k, !.at = ii, !.oi = oi] /\ pc' = "cell"
  ELSE self' = [s EXCEPT !.ret = "look"] /\ pc' = s.ret

\* The index of a message in an array, None if it is not there.
IndexIn(A, port, idx) ==
  IF \E i \in DOMAIN A : A[i].port = port /\ A[i].idx = idx
  THEN (CHOOSE i \in DOMAIN A : A[i].port = port /\ A[i].idx = idx) - 1
  ELSE None

\* What is played is compared with the plan: the messages of packet k are the
\* next ones, in order.
Posn(m) == IndexIn(msgA, m.port, m.idx)
Posns(k) == { Posn(k[j]) : j \in DOMAIN k }
InOrder(k) ==
  /\ Posns(k) \subseteq plan
  /\ \A i, j \in DOMAIN k : i < j => Posn(k[i]) < Posn(k[j])
  /\ \A p \in Posns(k), q \in plan \ Posns(k) : p < q
Played(k) ==
  /\ wrong' = (wrong \/ ~InOrder(k))
  /\ plan' = plan \ Posns(k)
  /\ UNCHANGED <<begMsg, endMsg, calm, sets>>

\* The next message is of another port: the packet is sent first ...
Flush ==
  /\ pc = "pack" /\ MorePkt
  /\ Msg(rd).port \in enabled /\ ~Fits
  /\ Played(self.pkt)
  /\ Call(self.pkt, [self EXCEPT !.pkt = <<>>, !.msg = Msg(rd), !.ret = "flushed"])
  /\ UNCHANGED <<fileVars, nextVars, playVars, ringVars, readVars, dueVars>>

\* ... and the message begins the next one.
Flushed ==
  /\ pc = "flushed"
  /\ self' = [self EXCEPT !.pkt = <<self.msg>>, !.msg = NoMsg]
  /\ rd' = rd + 1
  /\ pc' = "pack"
  /\ UNCHANGED <<fileVars, wr, playVars, ringVars, readVars, planVars, dueVars>>

\* No message is left: the last packet is sent.
Packed ==
  /\ pc = "pack" /\ ~MorePkt
  /\ IF self.pkt = <<>> THEN pc' = "sleep" /\ UNCHANGED <<self, planVars>>
     ELSE /\ Played(self.pkt)
          /\ Call(self.pkt, [self EXCEPT !.pkt = <<>>, !.ret = "sleep"])
  /\ UNCHANGED <<fileVars, nextVars, playVars, ringVars, readVars, dueVars>>

\* exec() has returned: last_posn_micros = file_posn_micros + sleep_micros
Sleep ==
  /\ pc = "sleep"
  /\ last' = Least(self.pos + self.el, Top)
  /\ self' = Idle
  /\ pc' = "poll"
  /\ UNCHANGED <<fileVars, nextVars, state, offset, elapsed, ringVars, readVars, planVars,
                 dueVars>>

\* poll() ends, at the latest when the time to sleep is over ...
Wake ==
  /\ pc = "poll"
  /\ pc' = "look"
  /\ UNCHANGED <<fileVars, nextVars, playVars, self, ringVars, readVars, planVars, dueVars>>

\* ... or the parser has called back with messages of an ALSA port.
Input(k) ==
  /\ pc = "poll"
  /\ Call(k, self)
  /\ UNCHANGED <<fileVars, nextVars, playVars, ringVars, readVars, planVars, dueVars>>

------------------------------------------------------------------------------
(* _callback(): the ring *)

NextCell(i) == IF i + 1 = BufN THEN 0 ELSE i + 1

\* A message is copied.  That the ring is full is logged.  The copying goes on,
\* and the audio thread then finds the ring empty, or old messages in it: what
\* happens from there is not modelled.
Cell ==
  /\ pc = "cell" /\ self.n < Len(self.out) /\ ~full
  /\ buf' = [buf EXCEPT ![self.at] = self.out[self.n + 1]]
  /\ self' = [self EXCEPT !.n = @ + 1, !.at = NextCell(@)]
  /\ full' = (full \/ NextCell(self.at) = self.oi)
  /\ UNCHANGED <<fileVars, nextVars, playVars, pc, enableBufFl, ii, readVars, planVars, due>>

\* buf_ii.store(); then the callback of the client is called.
Store ==
  /\ pc = "cell" /\ self.n = Len(self.out) /\ ~full
  /\ ii' = self.at
  /\ due' = due \o self.out
  /\ self' = [self EXCEPT !.out = <<>>, !.n = 0, !.at = 0, !.oi = 0, !.ret = "look"]
  /\ pc' = self.ret
  /\ UNCHANGED <<fileVars, nextVars, playVars, enableBufFl, buf, readVars, planVars, full>>

Run ==
  \/ Look \/ Time \/ Eof \/ Exec \/ Scan \/ Scanned \/ Abort
  \/ Pack \/ Flush \/ Flushed \/ Packed \/ Sleep
  \/ Wake \/ (\E k \in Live : Input(k))
  \/ Cell \/ Store

------------------------------------------------------------------------------
(* The audio thread *)

CountAll == IF ii >= oi THEN ii - oi ELSE ii + BufN - oi     \* mutant: past the end
Count == IF ii >= oi THEN ii - oi ELSE BufN - oi

GetBuffer ==
  /\ Alive /\ ~full /\ win[2] = 0 /\ Count > 0
  /\ win' = <<oi, Count>>
  /\ UNCHANGED <<fileVars, nextVars, playVars, pc, self, ringVars, oi, planVars, dueVars>>

\* The messages that are cleared are still there, but nobody reads them again.
ClearBuffer ==
  /\ Alive /\ ~full /\ win[2] > 0
  /\ oi' = (oi + win[2]) % BufN
  /\ win' = <<0, 0>>
  /\ due' = SubSeq(due, win[2] + 1, Len(due))
  /\ buf' = [i \in DOMAIN buf |-> IF i \in win[1] .. (win[1] + win[2] - 1) THEN NoMsg ELSE buf[i]]
  /\ UNCHANGED <<fileVars, nextVars, playVars, pc, self, enableBufFl, ii, planVars, full>>

------------------------------------------------------------------------------
(* Calls of the application *)

\* A call that changes what is played is expected when playing is stopped.
Counted == sets < MaxSets[enableBufFl] /\ sets' = sets + 1

Disturbs ==
  /\ Alive
  /\ calm' = (calm /\ state = "stopped" /\ InPoll)
  /\ plan' = {}
  /\ Counted

\* The messages of a song, in any order that is sorted by time: std::sort() does
\* not keep the order of messages of the same time.
Messages(port, song) == { [port |-> port, idx |-> i - 1, t |-> song[i]] : i \in DOMAIN song }
Sorted(M) ==
  { s \in [1 .. Cardinality(M) -> M] :
      /\ ToSet(s) = M
      /\ \A i \in 2 .. Len(s) : s[i - 1].t <= s[i].t }

\* What was set as the first or the last message is gone with its file.
Forget(port) ==
  /\ begMsg' = IF begMsg # NoMsg /\ begMsg.port = port THEN NoMsg ELSE begMsg
  /\ endMsg' = IF endMsg # NoMsg /\ endMsg.port = port THEN NoMsg ELSE endMsg

\* beg_msg_idx or end_msg_idx after a new array was made: the same message,
\* unless its file was closed.
KeepIndex(i, port, A) == i                                \* mutant: not looked for again
Restored(i, port, A) ==
  IF i = None \/ Msg(i).port = port THEN None ELSE IndexIn(A, Msg(i).port, Msg(i).idx)

\* _load_messages(): openMidiFile() and loadMsgPacket(), when the thread is not
\* in exec(), or does not come to it before the array is sorted.  The messages of
\* ports that have no file are dropped.
Load(port, song) ==
  /\ InPoll
  /\ \E A \in Sorted({ m \in ToSet(msgA) : m.port # port /\ m.port \in loaded }
                      \cup Messages(port, song)) :
       /\ msgA' = A
       /\ beg' = Restored(beg, port, A)
       /\ end' = Restored(end, port, A)
  /\ wr' = IF beg' = None THEN 0 ELSE beg'
  /\ rd' = wr'
  /\ loaded' = loaded \cup {port}
  /\ enabled' = enabled \cup {port}
  /\ Forget(port)
  /\ Disturbs
  /\ UNCHANGED <<playVars, pc, self, ringVars, readVars, wrong, dueVars>>

\* The old array is released and the new one sorted while the thread is in exec()
\* or comes to it: that is undefined, and what follows is not modelled.
LoadUnder ==
  /\ state = "playing" \/ ~InPoll
  /\ Disturbs
  /\ pc' = "undefined" /\ self' = Idle
  /\ UNCHANGED <<fileVars, nextVars, playVars, ringVars, readVars, begMsg, endMsg, wrong, dueVars>>

\* openMidiFile() of a file that cannot be opened: the file of the port is
\* closed, but its messages stay in the array, and its port enabled.  Nothing
\* changes at a port that has no file.
LoadFails(port) ==
  /\ port \in loaded
  /\ loaded' = loaded \ {port}
  /\ beg' = IF beg # None /\ Msg(beg).port = port THEN None ELSE beg
  /\ end' = IF end # None /\ Msg(end).port = port THEN None ELSE end
  /\ Forget(port)
  /\ Disturbs
  /\ UNCHANGED <<msgA, enabled, nextVars, playVars, pc, self, ringVars, readVars, wrong, dueVars>>

\* portEnable() of a port that has a file
PortEnable(port, on) ==
  /\ port \in loaded
  /\ enabled' = IF on THEN enabled \cup {port} ELSE enabled \ {port}
  /\ enabled' # enabled
  /\ Disturbs
  /\ UNCHANGED <<msgA, loaded, beg, end, nextVars, playVars, pc, self, ringVars, readVars, begMsg,
                 endMsg, wrong, dueVars>>

\* seekToMsg() of message i, of a port that has a file
SeekToMsg(i) ==
  /\ Msg(i).port \in loaded
  /\ beg' = i /\ wr' = i /\ rd' = i
  /\ begMsg' = Msg(i)
  /\ Disturbs
  /\ UNCHANGED <<msgA, loaded, enabled, end, playVars, pc, self, ringVars, readVars, endMsg, wrong,
                 dueVars>>

\* setEndMsg() of message i, of a port that has a file
SetEndMsg(i) ==
  /\ Msg(i).port \in loaded
  /\ end' = i
  /\ endMsg' = Msg(i)
  /\ Disturbs
  /\ UNCHANGED <<msgA, loaded, enabled, beg, nextVars, playVars, pc, self, ringVars, readVars,
                 begMsg, wrong, dueVars>>

\* What is to be played: from the first to the last message, on enabled ports.
Plan ==
  LET b == IF begMsg = NoMsg THEN 0 ELSE IndexIn(msgA, begMsg.port, begMsg.idx)
      e == IF endMsg = NoMsg THEN MsgN - 1 ELSE IndexIn(msgA, endMsg.port, endMsg.idx)
  IN  { i \in b .. e : Msg(i).port \in enabled }

Start ==
  /\ Alive /\ state # "playing"
  /\ wr' = IF beg = None THEN 0 ELSE beg
  /\ rd' = wr'
  /\ elapsed' = 0 /\ offset' = 0 /\ last' = 0
  /\ state' = "playing"
  /\ plan' = Plan /\ calm' = InPoll /\ wrong' = FALSE
  /\ IF InPoll THEN UNCHANGED sets ELSE Counted
  /\ UNCHANGED <<fileVars, pc, self, ringVars, readVars, begMsg, endMsg, dueVars>>

Stop ==
  /\ Alive
  /\ state' = "stopped"
  /\ UNCHANGED <<fileVars, nextVars, offset, last, elapsed, pc, self, ringVars, readVars,
                 planVars, dueVars>>

\* pause(true) goes back to the position the thread left, which is ahead by the
\* time it was going to sleep.
Pause ==
  /\ Alive /\ state = "playing"
  /\ offset' = last
  /\ state' = "paused"
  /\ UNCHANGED <<fileVars, nextVars, last, elapsed, pc, self, ringVars, readVars, planVars,
                 dueVars>>

\* pause(false)
Unpause ==
  /\ Alive /\ state = "paused"
  /\ elapsed' = 0
  /\ state' = "playing"
  /\ UNCHANGED <<fileVars, nextVars, offset, last, pc, self, ringVars, readVars, planVars,
                 dueVars>>

\* Time passes unnoticed when the thread does not look at it.
Tick ==
  /\ Alive
  /\ state = "playing" \/ pc = "time"
  /\ elapsed < Top
  /\ elapsed' = elapsed + 1
  /\ UNCHANGED <<fileVars, nextVars, state, offset, last, pc, self, ringVars, readVars,
                 planVars, dueVars>>

Next ==
  \/ Run \/ Tick
  \/ GetBuffer \/ ClearBuffer
  \/ \E port \in Ports : \E song \in Songs[port] : Load(port, song)
  \/ LoadUnder
  \/ \E port \in Ports : LoadFails(port)
  \/ \E port \in Ports, on \in BOOLEAN : PortEnable(port, on)
  \/ \E i \in 0 .. (MsgN - 1) : SeekToMsg(i) \/ SetEndMsg(i)
  \/ Start \/ Stop \/ Pause \/ Unpause

Spec == Init /\ [][Next]_vars

(***************************************************************************)
(* The thread is scheduled, poll() has a limit and time passes.  Nobody    *)
(* has to call anything.                                                   *)
(***************************************************************************)
FairSpec == Spec /\ WF_vars(Run) /\ WF_vars(Tick)

------------------------------------------------------------------------------
(* Properties *)

FileMsgs == [port : Ports, idx : Nat, t : 0 .. Top]
Msgs == FileMsgs \cup LiveMsgs
Cells == 0 .. (BufN - 1)

Locals ==
  [el : Nat, pos : Nat, base : Nat, lim : Int, next : Nat, cnt : Nat, pkt : Seq(FileMsgs),
   msg : FileMsgs \cup {NoMsg}, out : Seq(Msgs), n : Nat, at : Cells, oi : Cells,
   ret : {"look", "flushed", "sleep"}]

\* TypeOK: every variable has its type; the indexes into msgA are
\* in range and the ring is written and read inside its bounds.
TypeFile ==
  /\ msgA \in Seq(FileMsgs) /\ loaded \subseteq Ports /\ enabled \subseteq Ports
  /\ beg \in None .. (MsgN - 1) /\ end \in None .. (MsgN - 1)
  /\ wr \in None .. MsgN /\ rd \in None .. MsgN
TypePlay ==
  /\ state \in {"stopped", "playing", "paused"}
  /\ offset \in Nat /\ last \in Nat /\ elapsed \in Nat
TypeThread ==
  /\ pc \in {"look", "time", "exec", "scan", "pack", "flushed", "sleep", "poll", "cell", "aborted",
            "undefined"}
  /\ self \in Locals
TypeRing ==
  /\ enableBufFl \in BOOLEAN
  /\ buf \in [Cells -> Msgs \cup {NoMsg}] /\ ii \in Cells /\ oi \in Cells
  /\ win \in Cells \X (0 .. BufN)
  /\ due \in Seq(Msgs) /\ full \in BOOLEAN
TypeHistory ==
  /\ begMsg \in FileMsgs \cup {NoMsg} /\ endMsg \in FileMsgs \cup {NoMsg}
  /\ plan \subseteq Int /\ calm \in BOOLEAN /\ wrong \in BOOLEAN /\ sets \in Nat
TypeOK == TypeFile /\ TypePlay /\ TypeThread /\ TypeRing /\ TypeHistory

\* RingExact: as long as the device has not logged that the ring is full, what
\* getBuffer() returned is the oldest messages of files and ALSA ports, in the
\* order in which they were delivered, and they stay what they are until
\* clearBuffer(), although the ring is written at the same time.
RingExact ==
  ~full =>
    /\ (ii - oi) % BufN = Len(due)
    /\ win[2] <= Len(due)
    /\ \A k \in 1 .. win[2] : win[1] + k <= BufN /\ buf[win[1] + k - 1] = due[k]

\* The message after the one that was set as the last is due.
DueAfterEnd == end # None /\ wr = end + 1 /\ wr < MsgN /\ self.next <= self.pos

\* PlaysInOrder: unless a call changes what is to be played while the device is
\* not stopped, or start() meets the thread in exec(), the messages from the one
\* that was set as the first to the one that was set as the last leave in order,
\* each once, on enabled ports only, through pauses and stops, and although other
\* files were loaded, or could not be, after the two were set.  An assertion of
\* exec() aborts the program only if a last message is set and the message after
\* it is due when the last one is taken: what was taken then does not leave.
PlaysInOrder == calm => ~wrong /\ (pc = "aborted" => DueAfterEnd)

\* AllPlayed: all of them leave, unless playing is stopped or paused, the ring is
\* full, or the program has aborted at the last message that was set.
AllPlayed ==
  calm /\ state = "playing" ~>
    \/ plan = {} \/ state # "playing" \/ ~calm \/ full
    \/ pc = "aborted" /\ end # None
=============================================================================
