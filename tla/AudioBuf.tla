------------------------------ MODULE AudioBuf ------------------------------
(***************************************************************************)
(* cw::audio::buf, one device: a ring per channel between the audio driver *)
(* and the client, for input and for output.  The driver's threads call    *)
(* update() with a packet, which puts samples into the input rings and     *)
(* takes samples from the output rings; the client thread, an audio group  *)
(* of io, waits until the device is ready, works on the samples in place   *)
(* between get() and advance(), and hands them over with advance().  There *)
(* is no lock: an index belongs to one thread, the fullness `fn' to both.  *)
(*                                                                         *)
(* One action is one access to `fn' or one use of the samples, with the    *)
(* change of the thread's own index next to it.  A sample is its number in *)
(* the stream of its channel; gains, tones, meters and muting change what  *)
(* a sample is and are left out.                                           *)
(***************************************************************************)
EXTENDS Integers, Sequences

CONSTANTS
  ChN,            \* channels of the device, in each direction
  Dsp,            \* setup(): dspFrameCnt, the samples get() gives access to
  BufCnt,         \* setup(): bufCnt
  FramesPerCycle, \* setup(): inFramesPerCycle, outFramesPerCycle
  PrimeCycles,    \* primeOutput(): audioCycleCnt; 0 if it is not called
  InFrames,       \* the sizes of input packets
  MaxPkt          \* bound: packets in each direction

ASSUME AudioBufAssumption ==
  /\ ChN \in Nat \ {0}
  /\ Dsp \in Nat \ {0}
  /\ BufCnt \in Nat \ {0}
  /\ FramesPerCycle \in Nat \ {0}
  /\ PrimeCycles \in 0 .. BufCnt
  /\ InFrames \subseteq 1 .. FramesPerCycle
  /\ MaxPkt \in Nat

Dirs == {"in", "out"}
Chs  == 1 .. ChN

\* The length of a ring.
n == (BufCnt * FramesPerCycle) + ((BufCnt * FramesPerCycle) % Dsp)

\* The silence that is ready to be played at the start.
Primed == FramesPerCycle * PrimeCycles

(***************************************************************************)
(* get() and advance() move through a ring in steps of Dsp and do not look *)
(* at its end: the steps have to end there.  setup() means to see to that, *)
(* but the length it rounds is a multiple of Dsp only if the remainder is  *)
(* zero or half of Dsp; and primeOutput() leaves the index where it ends.  *)
(***************************************************************************)
Whole == n % Dsp = 0 /\ Primed % Dsp = 0 /\ Primed < n

VARIABLES
  ii, oi,      \* cmApCh: next in, next out
  fn,          \* cmApCh: the number of samples in the ring
  b,           \* cmApCh: the ring
  faultCnt,    \* cmApIO: overflows or underflows
  pc,          \* where the driver's thread of each direction is in update(),
  ch, frames,  \* ... the channel it is at, the packet's audioFramesCnt
  cpc, cch,    \* where the client is, the channel it is at
  put, took,   \* history: samples that entered and left each ring
  pktN         \* packets so far

ringVars   == <<ii, oi, fn, b>>
driverVars == <<pc, ch, frames, pktN>>
clientVars == <<cpc, cch>>
vars == <<ringVars, faultCnt, driverVars, clientVars, put, took>>

Cells == 0 .. (n - 1)

\* Where the m-th sample from index i on is, for an index that is inside the
\* ring or just past its end.
At(i, m) == IF i + m >= n THEN i + m - n ELSE i + m

\* setup(), and primeOutput(): the silence is part of the stream.
Start(d) == IF d = "out" THEN Primed ELSE 0

Init ==
  /\ ii = [d \in Dirs |-> [c \in Chs |-> Start(d)]]
  /\ oi = [d \in Dirs |-> [c \in Chs |-> 0]]
  /\ fn = [d \in Dirs |-> [c \in Chs |-> Start(d)]]
  /\ b = [d \in Dirs |-> [c \in Chs |->
           [x \in Cells |-> IF x < Start(d) THEN x + 1 ELSE 0]]]
  /\ faultCnt = [d \in Dirs |-> 0]
  /\ pc = [d \in Dirs |-> "idle"]
  /\ ch = [d \in Dirs |-> 1]
  /\ frames = [d \in Dirs |-> 0]
  /\ cpc = "wait" /\ cch = 1
  /\ put = [d \in Dirs |-> [c \in Chs |-> Start(d)]]
  /\ took = [d \in Dirs |-> [c \in Chs |-> 0]]
  /\ pktN = [d \in Dirs |-> 0]

------------------------------------------------------------------------------
(* update() *)

\* A packet: the input device delivers what it has, the output device asks
\* for a full cycle.
Update(d) ==
  /\ pc[d] = "idle"
  /\ pktN[d] < MaxPkt
  /\ \E f \in (IF d = "in" THEN InFrames ELSE {FramesPerCycle}) :
       frames' = [frames EXCEPT ![d] = f]
  /\ pktN' = [pktN EXCEPT ![d] = @ + 1]
  /\ pc' = [pc EXCEPT ![d] = "load"]
  /\ ch' = [ch EXCEPT ![d] = 1]
  /\ UNCHANGED <<ringVars, faultCnt, clientVars, put, took>>

NextCh(d) ==
  IF ch[d] < ChN
  THEN pc' = [pc EXCEPT ![d] = "load"] /\ ch' = [ch EXCEPT ![d] = @ + 1]
  ELSE pc' = [pc EXCEPT ![d] = "idle"] /\ ch' = [ch EXCEPT ![d] = 1]

Fault(d) == faultCnt' = [faultCnt EXCEPT ![d] = @ + 1]

OverflowsLate(m, f) == m + f > n + 1        \* mutant: off by one
Overflows(m, f) == m + f > n

\* fn is loaded: is there room for the packet?  If not it is ignored.
LoadIn ==
  LET full == Overflows(fn["in"][ch["in"]], frames["in"])
  IN  /\ pc["in"] = "load"
      /\ IF full
         THEN Fault("in") /\ NextCh("in")
         ELSE /\ pc' = [pc EXCEPT !["in"] = "copy"]
              /\ UNCHANGED <<faultCnt, ch>>
      /\ UNCHANGED <<ringVars, frames, pktN, clientVars, put, took>>

TakeAll(m, f) == f                          \* mutant: the count is not reduced
TakeSome(m, f) == IF f > m THEN m ELSE f

Silent(d) == UNCHANGED faultCnt             \* mutant: the underflow is not counted
Underrun(d) == Fault(d)

\* fn is loaded: are there samples for the packet?  If not it, and what the
\* channels that follow put into it, is made shorter; an empty channel zeroes
\* the packet.
LoadOut ==
  LET m == fn["out"][ch["out"]]
      f == frames["out"]
  IN  /\ pc["out"] = "load"
      /\ IF f > m THEN Underrun("out") ELSE UNCHANGED faultCnt
      /\ IF m = 0 /\ f > 0
         THEN NextCh("out") /\ UNCHANGED frames
         ELSE /\ frames' = [frames EXCEPT !["out"] = TakeSome(m, f)]
              /\ pc' = [pc EXCEPT !["out"] = "copy"]
              /\ UNCHANGED ch
      /\ UNCHANGED <<ringVars, pktN, clientVars, put, took>>

\* The samples from stream position k on are written at index i and after;
\* what lies past the end of the ring is not in b.
Written(ring, i, f, k) ==
  [x \in Cells |-> IF x >= i /\ x < i + f THEN k + 1 + (x - i) ELSE ring[x]]

\* The packet is copied, in one segment or in two.
CopyIn ==
  LET c  == ch["in"]
      i  == ii["in"][c]
      f  == frames["in"]
      n0 == IF n - i < f THEN n - i ELSE f
      k  == put["in"][c]
  IN  /\ pc["in"] = "copy"
      /\ b' = [b EXCEPT !["in"][c] =
                 Written(Written(@, i, n0, k), 0, f - n0, k + n0)]
      /\ pc' = [pc EXCEPT !["in"] = "count"]
      /\ UNCHANGED <<ii, oi, fn, faultCnt, ch, frames, pktN, clientVars, put,
                     took>>

CopyOut ==
  /\ pc["out"] = "copy"
  /\ pc' = [pc EXCEPT !["out"] = "count"]
  /\ UNCHANGED <<ringVars, faultCnt, ch, frames, pktN, clientVars, put, took>>

\* An index after f samples; it may be left just past the end of the ring.
PastRestart(i, f) == IF n - i < f THEN 0 ELSE i + f   \* mutant: n1 forgotten
Past(i, f) == IF n - i < f THEN f - (n - i) ELSE i + f

\* ii, and fn.fetch_add()
CountIn ==
  LET c == ch["in"]
      f == frames["in"]
  IN  /\ pc["in"] = "count"
      /\ ii' = [ii EXCEPT !["in"][c] = Past(@, f)]
      /\ fn' = [fn EXCEPT !["in"][c] = @ + f]
      /\ put' = [put EXCEPT !["in"][c] = @ + f]
      /\ NextCh("in")
      /\ UNCHANGED <<oi, b, faultCnt, frames, pktN, clientVars, took>>

\* oi, and fn.fetch_sub()
CountOut ==
  LET c == ch["out"]
      f == frames["out"]
  IN  /\ pc["out"] = "count"
      /\ oi' = [oi EXCEPT !["out"][c] = Past(@, f)]
      /\ fn' = [fn EXCEPT !["out"][c] = @ - f]
      /\ took' = [took EXCEPT !["out"][c] = @ + f]
      /\ NextCh("out")
      /\ UNCHANGED <<ii, b, faultCnt, frames, pktN, clientVars, put>>

------------------------------------------------------------------------------
(* The client: isDeviceReady(), get(), the work, advance() *)

HasInput(m) == m >= Dsp

HasRoomAlways(m) == TRUE               \* mutant: room is not tested
HasRoom(m) == n - m >= Dsp

\* The driver only adds to the input and takes from the output, so a channel
\* that was found ready stays so while the others are looked at.
IsDeviceReady ==
  /\ cpc = "wait"
  /\ \A c \in Chs : HasInput(fn["in"][c]) /\ HasRoom(fn["out"][c])
  /\ cpc' = "work"
  /\ UNCHANGED <<ringVars, faultCnt, driverVars, cch, put, took>>

\* The client fills the output buffers it got, from ii on.
Work ==
  /\ cpc = "work"
  /\ b' = [b EXCEPT !["out"] =
             [c \in Chs |-> Written(@[c], ii["out"][c], Dsp, put["out"][c])]]
  /\ cpc' = "advanceIn" /\ cch' = 1
  /\ UNCHANGED <<ii, oi, fn, faultCnt, driverVars, put, took>>

Advanced(i) == (i + Dsp) % n

NextClientCh(stay, leave) ==
  IF cch < ChN THEN cpc' = stay /\ cch' = cch + 1
               ELSE cpc' = leave /\ cch' = 1

\* advance(kInFl), one channel after the other: oi, and fn.fetch_sub()
AdvanceIn ==
  /\ cpc = "advanceIn"
  /\ oi' = [oi EXCEPT !["in"][cch] = Advanced(@)]
  /\ fn' = [fn EXCEPT !["in"][cch] = @ - Dsp]
  /\ took' = [took EXCEPT !["in"][cch] = @ + Dsp]
  /\ NextClientCh("advanceIn", "advanceOut")
  /\ UNCHANGED <<ii, b, faultCnt, driverVars, put>>

\* advance(kOutFl): ii, and fn.fetch_add()
AdvanceOut ==
  /\ cpc = "advanceOut"
  /\ ii' = [ii EXCEPT !["out"][cch] = Advanced(@)]
  /\ fn' = [fn EXCEPT !["out"][cch] = @ + Dsp]
  /\ put' = [put EXCEPT !["out"][cch] = @ + Dsp]
  /\ NextClientCh("advanceOut", "wait")
  /\ UNCHANGED <<oi, b, faultCnt, driverVars, took>>

------------------------------------------------------------------------------
Client == IsDeviceReady \/ Work \/ AdvanceIn \/ AdvanceOut

Next ==
  \/ \E d \in Dirs : Update(d)
  \/ LoadIn \/ CopyIn \/ CountIn
  \/ LoadOut \/ CopyOut \/ CountOut
  \/ Client

Spec == Init /\ [][Next]_vars

------------------------------------------------------------------------------
(* Properties *)

TypeRings ==
  /\ ii \in [Dirs -> [Chs -> 0 .. n]]
  /\ oi \in [Dirs -> [Chs -> 0 .. n]]
  /\ fn \in [Dirs -> [Chs -> 0 .. n]]
  /\ b \in [Dirs -> [Chs -> [Cells -> Nat]]]

TypeThreads ==
  /\ pc \in [Dirs -> {"idle", "load", "copy", "count"}]
  /\ ch \in [Dirs -> Chs]
  /\ frames \in [Dirs -> 0 .. FramesPerCycle]
  /\ cpc \in {"wait", "work", "advanceIn", "advanceOut"}
  /\ cch \in Chs

TypeCounts ==
  /\ put \in [Dirs -> [Chs -> Nat]]
  /\ took \in [Dirs -> [Chs -> Nat]]
  /\ faultCnt \in [Dirs -> Nat]
  /\ pktN \in [Dirs -> 0 .. MaxPkt]

TypeOK == TypeRings /\ TypeThreads /\ TypeCounts

\* FullExact: the fullness, which two threads change, agrees with the two
\* indexes, which one thread changes each, and with what went in and out,
\* whatever packets were dropped or cut short.
FullExact ==
  \A d \in Dirs, c \in Chs :
    /\ put[d][c] = took[d][c] + fn[d][c]
    /\ ii[d][c] - oi[d][c] - fn[d][c] \in {-(n + n), -n, 0, n}

\* The m samples of a ring from index i on are those after position k.
Holds(ring, i, m, k) == \A x \in 0 .. (m - 1) : ring[At(i, x)] = k + 1 + x

\* ClientWindow: while the client works between get() and advance(), what it
\* reads is inside the ring and is the next Dsp samples, and what it writes is
\* inside the ring.
ClientWindow ==
  Whole /\ cpc = "work" =>
    \A c \in Chs :
      /\ oi["in"][c] + Dsp <= n
      /\ Holds(b["in"][c], oi["in"][c], Dsp, took["in"][c])
      /\ ii["out"][c] + Dsp <= n

\* DriverWindow: when the driver takes samples for a packet they are the next
\* ones the client has written and handed over, whatever the client is writing.
DriverWindow ==
  Whole /\ pc["out"] = "copy" =>
    LET c == ch["out"]
    IN  Holds(b["out"][c], oi["out"][c], frames["out"], took["out"][c])

\* ImplementsFifo: each ring is a bounded queue of samples.
Kept(d, c) == [m \in 1 .. fn[d][c] |-> b[d][c][At(oi[d][c], m - 1)]]
Fifo(d, c) == INSTANCE SampleFifo WITH
  Cap <- n, First <- Start(d), kept <- Kept(d, c), last <- put[d][c]
ImplementsFifo ==
  /\ \A d \in Dirs, c \in Chs : Fifo(d, c)!Init
  /\ [][\A d \in Dirs, c \in Chs :
           Fifo(d, c)!Next \/ UNCHANGED Fifo(d, c)!vars]_vars

\* FaultFirst: between packets and advances the channels of a direction are at
\* the same place in their streams, as long as no fault was counted.
FaultFirst ==
  cpc = "wait" =>
    \A d \in Dirs : pc[d] = "idle" /\ faultCnt[d] = 0 =>
      \A c, e \in Chs : put[d][c] = put[d][e] /\ took[d][c] = took[d][e]
=============================================================================
