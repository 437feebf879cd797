-------------------------- MODULE MidiDeviceProofs --------------------------
(***************************************************************************)
(* Proofs about MidiDevice, for any files, any ring and any ALSA packets:  *)
(* the types, that the ring gives the audio thread what was delivered, and *)
(* that what is played is in order.                                        *)
(***************************************************************************)
EXTENDS MidiDevice, FiniteSetTheorems, WellFoundedInduction, TLAPS

------------------------------------------------------------------------------
(* Sequences and sets of messages *)

LEMMA ElementOf ==
  ASSUME NEW S, NEW s \in Seq(S), NEW i \in 1 .. Len(s)
  PROVE  s[i] \in S
  OBVIOUS

LEMMA AppendType ==
  ASSUME NEW S, NEW s \in Seq(S), NEW e \in S
  PROVE  Append(s, e) \in Seq(S)
  OBVIOUS

LEMMA ConcatIs ==
  ASSUME NEW S, NEW s \in Seq(S), NEW t \in Seq(S)
  PROVE  /\ s \o t \in Seq(S) /\ Len(s \o t) = Len(s) + Len(t)
         /\ \A k \in 1 .. Len(s) : (s \o t)[k] = s[k]
         /\ \A k \in Len(s) + 1 .. Len(s) + Len(t) : (s \o t)[k] = t[k - Len(s)]
  OBVIOUS

LEMMA RestIs ==
  ASSUME NEW S, NEW s \in Seq(S), NEW n \in 0 .. Len(s)
  PROVE  /\ SubSeq(s, n + 1, Len(s)) \in Seq(S)
         /\ Len(SubSeq(s, n + 1, Len(s))) = Len(s) - n
         /\ \A k \in 1 .. Len(s) - n : SubSeq(s, n + 1, Len(s))[k] = s[n + k]
  OBVIOUS

LEMMA WiderSeq ==
  ASSUME NEW S, NEW T, S \subseteq T, NEW s \in Seq(S)
  PROVE  s \in Seq(T)
  OBVIOUS

LEMMA MsgType ==
  ASSUME TypeFile, NEW i \in 0 .. MsgN - 1
  PROVE  Msg(i) \in FileMsgs
  BY DEF TypeFile, MsgN, Msg

LEMMA ToSetFinite ==
  ASSUME NEW S, NEW s \in Seq(S)
  PROVE  IsFiniteSet(ToSet(s)) /\ ToSet(s) \subseteq S
<1>1. s \in [1 .. Len(s) -> ToSet(s)] /\ Len(s) \in Nat
  BY DEF ToSet
<1>2. s \in Surjection(1 .. Len(s), ToSet(s))
  BY <1>1 DEF Surjection, ToSet
<1>3. ExistsSurjection(1 .. Len(s), ToSet(s))
  BY <1>2 DEF ExistsSurjection
<1>4. IsFiniteSet(ToSet(s))
  BY <1>1, <1>3, FS_NatSurjection
<1>5. QED
  BY <1>4 DEF ToSet

LEMMA MessagesFinite ==
  ASSUME NEW port \in Ports, NEW song \in Songs[port]
  PROVE  /\ IsFiniteSet(Messages(port, song)) /\ Messages(port, song) \subseteq FileMsgs
<1>1. song \in Seq(0 .. Top)
  BY MidiDeviceAssumption
<1> DEFINE f == [i \in 1 .. Len(song) |-> [port |-> port, idx |-> i - 1, t |-> song[i]]]
<1>2. Len(song) \in Nat /\ DOMAIN song = 1 .. Len(song)
  BY <1>1
<1>3. f \in Surjection(1 .. Len(song), Messages(port, song))
  BY <1>2 DEF Surjection, Messages
<1>4. ExistsSurjection(1 .. Len(song), Messages(port, song))
  BY <1>3 DEF ExistsSurjection
<1>5. IsFiniteSet(Messages(port, song))
  BY <1>2, <1>4, FS_NatSurjection
<1>6. Messages(port, song) \subseteq FileMsgs
  <2>1. \A i \in 1 .. Len(song) : i - 1 \in Nat /\ song[i] \in 0 .. Top
    <3>1. \A i \in 1 .. Len(song) : song[i] \in 0 .. Top
      BY <1>1, <1>2, ElementOf
    <3>2. \A i \in 1 .. Len(song) : i - 1 \in Nat
      BY <1>2
    <3>3. QED
      BY <3>1, <3>2
  <2>2. \A i \in DOMAIN song : [port |-> port, idx |-> i - 1, t |-> song[i]] \in FileMsgs
    BY <1>2, <2>1 DEF FileMsgs
  <2>3. QED
    BY <2>2 DEF Messages
<1>7. QED
  BY <1>5, <1>6

\* A sorted array has messages of the set it was made from.
LEMMA SortedType ==
  ASSUME NEW M, M \subseteq FileMsgs, IsFiniteSet(M), NEW A \in Sorted(M)
  PROVE  A \in Seq(FileMsgs)
<1>1. Cardinality(M) \in Nat
  BY FS_CardinalityType
<1>2. A \in [1 .. Cardinality(M) -> M]
  BY DEF Sorted
<1>3. QED
  BY <1>1, <1>2

LEMMA IndexInRange ==
  ASSUME NEW A \in Seq(FileMsgs), NEW port, NEW idx
  PROVE  IndexIn(A, port, idx) \in None .. (Len(A) - 1)
<1>1. CASE \E i \in DOMAIN A : A[i].port = port /\ A[i].idx = idx
  <2> DEFINE j == CHOOSE i \in DOMAIN A : A[i].port = port /\ A[i].idx = idx
  <2>1. j \in DOMAIN A
    BY <1>1
  <2>2. j \in 1 .. Len(A) /\ Len(A) \in Nat
    BY <2>1
  <2>3. IndexIn(A, port, idx) = j - 1
    BY <1>1 DEF IndexIn
  <2>4. QED
    BY <2>2, <2>3 DEF None
<1>2. CASE ~ \E i \in DOMAIN A : A[i].port = port /\ A[i].idx = idx
  BY <1>2 DEF IndexIn, None
<1>3. QED
  BY <1>1, <1>2

\* The messages of the other files.
Kept(port) == { m \in ToSet(msgA) : m.port # port /\ m.port \in loaded }

LEMMA LoadedType ==
  ASSUME TypeFile, NEW port \in Ports, NEW song \in Songs[port],
         NEW A \in Sorted(Kept(port) \cup Messages(port, song))
  PROVE  /\ A \in Seq(FileMsgs) /\ Len(A) \in Nat
         /\ \A i : Restored(i, port, A) \in None .. (Len(A) - 1)
<1> DEFINE old == Kept(port)
<1>1. IsFiniteSet(ToSet(msgA)) /\ ToSet(msgA) \subseteq FileMsgs
  BY ToSetFinite DEF TypeFile
<1>2. IsFiniteSet(old) /\ old \subseteq FileMsgs
  <2>1. old \in SUBSET ToSet(msgA)
    BY DEF Kept
  <2>2. QED
    BY <1>1, <2>1, FS_Subset
<1>3. IsFiniteSet(Messages(port, song)) /\ Messages(port, song) \subseteq FileMsgs
  BY MessagesFinite
<1>4. IsFiniteSet(old \cup Messages(port, song))
  BY <1>2, <1>3, FS_Union
<1>5. A \in Seq(FileMsgs)
  BY <1>2, <1>3, <1>4, SortedType
<1>6. \A i : Restored(i, port, A) \in None .. (Len(A) - 1)
  <2> TAKE i
  <2>1. CASE i = None \/ Msg(i).port = port
    BY <1>5, <2>1 DEF Restored, None
  <2>2. CASE ~(i = None \/ Msg(i).port = port)
    BY <1>5, <2>2, IndexInRange DEF Restored
  <2>3. QED
    BY <2>1, <2>2
<1>7. QED
  BY <1>5, <1>6

------------------------------------------------------------------------------
(* Types *)

InFlush == pc = "flushed" \/ (pc = "cell" /\ self.ret = "flushed")

\* What is true of the indexes at the places where the thread uses them.
PlaceOK ==
  /\ wr = None <=> rd = None
  /\ pc \in {"scan", "pack"} => wr # None
  /\ pc = "scan" => self.base < MsgN
  /\ InFlush => rd \in 0 .. MsgN - 1 /\ self.msg \in FileMsgs
  /\ pc # "cell" => self.ret = "look" /\ self.n = 0

TypeInv == TypeOK /\ PlaceOK

LEMMA LenNat == TypeFile => MsgN \in Nat
  BY DEF TypeFile, MsgN

LEMMA TimeType ==
  ASSUME TypeFile, NEW i \in 0 .. MsgN - 1, NEW b \in 0 .. MsgN - 1
  PROVE  MsgTime(i, b) \in Nat
<1>1. Msg(i).t \in 0 .. Top /\ Msg(b).t \in 0 .. Top
  BY MsgType DEF FileMsgs
<1>2. QED
  BY <1>1, MidiDeviceAssumption DEF MsgTime, Never

LEMMA CallType ==
  ASSUME TypeRing, NEW k \in Seq(Msgs), NEW s \in Locals, s.n = 0, Call(k, s)
  PROVE  /\ self' \in Locals /\ self'.n = 0 /\ self'.msg = s.msg
         /\ \/ pc' = "cell" /\ self'.ret = s.ret
            \/ pc' = s.ret /\ self'.ret = "look"
<1>1. CASE enableBufFl
  <2>1. self' = [s EXCEPT !.out = k, !.at = ii, !.oi = oi] /\ pc' = "cell"
    BY <1>1 DEF Call
  <2>2. QED
    BY <2>1 DEF Locals, TypeRing
<1>2. CASE ~enableBufFl
  <2>1. self' = [s EXCEPT !.ret = "look"] /\ pc' = s.ret
    BY <1>2 DEF Call
  <2>2. QED
    BY <2>1 DEF Locals
<1>3. QED
  BY <1>1, <1>2

LEMMA InitTypes == Init => TypeInv
<1> SUFFICES ASSUME Init PROVE TypeInv
  OBVIOUS
<1>1. TypeFile
  BY DEF Init, TypeFile, MsgN, None
<1>2. TypePlay
  BY DEF Init, TypePlay
<1>3. TypeThread /\ PlaceOK
  <2>1. BufN \in Nat \ {0}
    BY MidiDeviceAssumption
  <2>2. Idle \in Locals /\ Idle.ret = "look" /\ Idle.n = 0
    BY <2>1 DEF Idle, Locals, Cells
  <2>3. QED
    BY <2>2 DEF Init, TypeThread, PlaceOK, InFlush
<1>4. TypeRing
  <2>1. BufN \in Nat \ {0}
    BY MidiDeviceAssumption
  <2>2. 0 \in Cells /\ win \in Cells \X (0 .. BufN)
    BY <2>1 DEF Init, Cells
  <2>3. buf \in [Cells -> Msgs \cup {NoMsg}]
    BY DEF Init, Cells
  <2>4. full \in BOOLEAN /\ enableBufFl \in BOOLEAN /\ ii = 0 /\ oi = 0
    BY Zenon DEF Init
  <2>5. due = <<>> /\ <<>> \in Seq(Msgs)
    BY DEF Init
  <2>6. QED
    BY <2>2, <2>3, <2>4, <2>5 DEF TypeRing
<1>5. TypeHistory
  BY DEF Init, TypeHistory
<1>6. QED
  BY <1>1, <1>2, <1>3, <1>4, <1>5 DEF TypeInv, TypeOK

\* The thread looks at the clock and the transport.
LEMMA ClockTypes ==
  ASSUME TypeInv, Look \/ Time \/ Eof \/ Sleep \/ Wake
  PROVE  TypeInv'
<1> USE DEF TypeInv, TypeOK
<1>1. BufN \in Nat \ {0} /\ Top \in Nat /\ MaxSleep \in Nat
  BY MidiDeviceAssumption
<1>2. Idle \in Locals /\ Idle.ret = "look" /\ Idle.n = 0
  BY <1>1 DEF Idle, Locals, Cells
<1>3. CASE Look
  BY <1>3 DEF Look, TypeFile, TypePlay, TypeThread, TypeRing, TypeHistory, PlaceOK, InFlush, MsgN,
     fileVars, nextVars, playVars, ringVars, readVars, planVars, dueVars
<1>4. CASE Time
  <2>1. self' \in Locals /\ self'.ret = self.ret /\ self'.n = self.n
    BY <1>4 DEF Time, TypeThread, TypePlay, Locals
  <2>2. QED
    BY <1>4, <2>1 DEF Time, TypeFile, TypePlay, TypeThread, TypeRing, TypeHistory, PlaceOK, InFlush,
       MsgN, fileVars, nextVars, playVars, ringVars, readVars, planVars, dueVars
<1>5. CASE Eof
  <2>1. last' \in Nat
    BY <1>1, <1>5, SMTT(60) DEF Eof, Least, TypePlay, TypeThread, Locals
  <2>2. QED
    BY <1>2, <1>5, <2>1 DEF Eof, TypeFile, TypePlay, TypeThread, TypeRing, TypeHistory, PlaceOK,
       InFlush, MsgN, fileVars, nextVars, ringVars, readVars, planVars, dueVars
<1>6. CASE Sleep
  <2>1. last' \in Nat
    BY <1>1, <1>6 DEF Sleep, Least, TypePlay, TypeThread, Locals
  <2>2. QED
    BY <1>2, <1>6, <2>1 DEF Sleep, TypeFile, TypePlay, TypeThread, TypeRing, TypeHistory, PlaceOK,
       InFlush, MsgN, fileVars, nextVars, ringVars, readVars, planVars, dueVars
<1>7. CASE Wake
  BY <1>7 DEF Wake, TypeFile, TypePlay, TypeThread, TypeRing, TypeHistory, PlaceOK, InFlush, MsgN,
     fileVars, nextVars, playVars, ringVars, readVars, planVars, dueVars
<1>8. QED
  BY <1>3, <1>4, <1>5, <1>6, <1>7

\* exec() takes what is due.
LEMMA ExecTypes ==
  ASSUME TypeInv, Exec \/ Scan \/ Scanned \/ Abort
  PROVE  TypeInv'
<1> USE DEF TypeInv, TypeOK
<1>1. BufN \in Nat \ {0} /\ Top \in Nat /\ MaxSleep \in Nat /\ MsgN \in Nat
  BY MidiDeviceAssumption, LenNat
<1>2. CASE Exec
  <2> DEFINE b == IF beg = None THEN 0 ELSE beg
  <2>1. wr \in 0 .. MsgN - 1 /\ wr # None
    BY <1>1, <1>2, SMTT(60) DEF Exec, AtEnd, TypeFile, None
  <2>2. b \in 0 .. MsgN - 1
    BY <1>1, <2>1 DEF TypeFile, None
  <2>3. MsgTime(wr, b) \in Nat
    BY <2>1, <2>2, TimeType
  <2>4. Least(offset + self.el, Top) \in Nat
    BY <1>1 DEF Least, TypePlay, TypeThread, Locals
  <2>5. (IF end = None THEN MsgN - 1 ELSE end) \in Int
    BY <1>1 DEF TypeFile, None
  <2>6. self' = [self EXCEPT !.el = 0, !.pos = Least(offset + self.el, Top), !.base = b,
                   !.lim = IF end = None THEN MsgN - 1 ELSE end, !.next = MsgTime(wr, b)]
    BY <1>2 DEF Exec
  <2> HIDE DEF b
  <2>7. /\ self' \in Locals /\ self'.base = b
        /\ self'.ret = self.ret /\ self'.n = self.n
    <3> DEFINE new == MsgTime(wr, b)
               pos == Least(offset + self.el, Top)
               lim == IF end = None THEN MsgN - 1 ELSE end
    <3>1. b \in Nat /\ new \in Nat /\ pos \in Nat /\ lim \in Int /\ self \in Locals
      BY <2>2, <2>3, <2>4, <2>5 DEF TypeThread
    <3>2. self' = [self EXCEPT !.el = 0, !.pos = pos, !.base = b, !.lim = lim, !.next = new]
      BY <2>6
    <3> HIDE DEF new, pos, lim
    <3>3. QED
      BY <3>1, <3>2 DEF Locals
  <2>9. b < MsgN
    BY <2>2, <1>1
  <2>10. pc = "exec" /\ pc' \in {"scan", "aborted"}
    BY <1>2 DEF Exec
  <2>11. TypeFile' /\ TypePlay' /\ TypeRing' /\ TypeHistory' /\ MsgN' = MsgN
    BY <1>2 DEF Exec, TypeFile, TypePlay, TypeRing, TypeHistory, MsgN,
       fileVars, nextVars, playVars, ringVars, readVars, planVars, dueVars
  <2>12. PlaceOK'
    BY <1>2, <2>1, <2>7, <2>9, <2>10, <2>11 DEF PlaceOK, InFlush, Exec, nextVars
  <2>13. QED
    BY <2>7, <2>10, <2>11, <2>12 DEF TypeThread
<1>3. CASE Scan
  <2>1. wr \in 0 .. MsgN - 1
    BY <1>1, <1>3, SMTT(60) DEF Scan, PastEnd, PlaceOK, TypeFile, None
  <2>2. self.base \in 0 .. MsgN - 1
    BY <1>1, <1>3 DEF Scan, PlaceOK, TypeThread, Locals
  <2>3. wr + 1 < MsgN => MsgTime(wr + 1, self.base) \in Nat
    BY <1>1, <2>1, <2>2, TimeType
  <2>4. self' \in Locals /\ self'.base = self.base /\ self'.ret = self.ret /\ self'.n = self.n
    <3> DEFINE new == IF wr + 1 < MsgN THEN MsgTime(wr + 1, self.base) ELSE self.next
    <3>1. new \in Nat /\ self \in Locals /\ self.cnt + 1 \in Nat
      BY <2>3 DEF TypeThread, Locals
    <3>2. self' = [self EXCEPT !.cnt = self.cnt + 1, !.next = new]
      BY <1>3 DEF Scan
    <3> HIDE DEF new
    <3>3. QED
      BY <3>1, <3>2 DEF Locals
  <2>5. TypeFile' /\ MsgN' = MsgN /\ wr' # None
    BY <1>1, <1>3, <2>1, SMTT(60) DEF Scan, TypeFile, MsgN, None, fileVars
  <2>6. rd' = rd /\ wr # None /\ pc = "scan" /\ pc' = pc
    BY <1>3, <2>1 DEF Scan, None
  <2>7. TypePlay' /\ TypeRing' /\ TypeHistory'
    BY <1>3 DEF Scan, TypePlay, TypeRing, TypeHistory,
       playVars, ringVars, readVars, planVars, dueVars
  <2>8. PlaceOK'
    BY <2>4, <2>5, <2>6 DEF PlaceOK, InFlush
  <2>9. QED
    BY <2>4, <2>5, <2>6, <2>7, <2>8 DEF TypeThread
<1>4. CASE Scanned
  <2>1. (IF wr >= MsgN THEN MaxSleep ELSE Least(MaxSleep, self.next - self.pos)) \in Nat
    BY <1>1, <1>4 DEF Scanned, Later, Least, TypeThread, Locals
  <2>2. self' \in Locals /\ self'.ret = self.ret /\ self'.n = self.n
    BY <1>4, <2>1 DEF Scanned, TypeThread, Locals
  <2>4. pc = "scan" /\ pc' \in {"pack", "sleep"}
    BY <1>4 DEF Scanned
  <2>5. TypeFile' /\ TypePlay' /\ TypeRing' /\ TypeHistory' /\ MsgN' = MsgN /\ wr' = wr /\ rd' = rd
    BY <1>4 DEF Scanned, TypeFile, TypePlay, TypeRing, TypeHistory, MsgN,
       fileVars, nextVars, playVars, ringVars, readVars, planVars, dueVars
  <2>6. PlaceOK'
    BY <2>2, <2>4, <2>5 DEF PlaceOK, InFlush
  <2>7. QED
    BY <2>2, <2>4, <2>5, <2>6 DEF TypeThread
<1>5. CASE Abort
  <2>1. pc' = "aborted" /\ pc = "scan" /\ UNCHANGED <<self, wr, rd>>
    BY <1>5 DEF Abort, nextVars
  <2>2. TypeFile' /\ TypePlay' /\ TypeRing' /\ TypeHistory'
    BY <1>5 DEF Abort, TypeFile, TypePlay, TypeRing, TypeHistory, MsgN,
       fileVars, nextVars, playVars, ringVars, readVars, planVars, dueVars
  <2>3. QED
    BY <2>1, <2>2 DEF TypeThread, PlaceOK, InFlush
<1>6. QED
  BY <1>2, <1>3, <1>4, <1>5

\* What Played() leaves alone, and Call() as the actions use it.
LEMMA PlayedTypes ==
  ASSUME TypeHistory, NEW k, Played(k)
  PROVE  TypeHistory'
<1>1. wrong' \in BOOLEAN
  BY DEF Played
<1>2. QED
  BY <1>1 DEF Played, TypeHistory

LEMMA FilePacket == \A k \in Seq(FileMsgs) : k \in Seq(Msgs)
  BY WiderSeq DEF Msgs

LEMMA LivePacket == \A k \in Live : k \in Seq(Msgs)
<1> TAKE k \in Live
<1>1. k \in Seq(LiveMsgs)
  BY MidiDeviceAssumption
<1>2. QED
  BY <1>1, WiderSeq DEF Msgs

\* Packets are made and sent.
LEMMA PacketTypes ==
  ASSUME TypeInv, Pack \/ Flush \/ Flushed \/ Packed \/ (\E k \in Live : Input(k))
  PROVE  TypeInv'
<1> USE DEF TypeInv, TypeOK
<1>1. MsgN \in Nat
  BY LenNat
<1>2. pc = "pack" /\ MorePkt => rd \in 0 .. MsgN - 1 /\ Msg(rd) \in FileMsgs /\ wr # None
  <2>1. pc = "pack" /\ MorePkt => rd \in 0 .. MsgN - 1 /\ wr # None
    BY <1>1 DEF MorePkt, PlaceOK, TypeFile, None
  <2>2. QED
    BY <2>1, MsgType
<1>3. CASE Pack
  <2>1. Append(self.pkt, Msg(rd)) \in Seq(FileMsgs)
    BY <1>2, <1>3, AppendType DEF Pack, TypeThread, Locals
  <2>2. self' \in Locals /\ self'.ret = self.ret /\ self'.n = self.n
    BY <1>3, <2>1 DEF Pack, TypeThread, Locals
  <2>3. rd' \in 0 .. MsgN /\ rd' # None /\ wr' = wr /\ pc = "pack" /\ pc' = pc
    BY <1>1, <1>2, <1>3 DEF Pack, None
  <2>4. TypeFile' /\ TypePlay' /\ TypeRing' /\ TypeHistory'
    BY <1>3, <2>3, SMTT(60) DEF Pack, TypeFile, TypePlay, TypeRing, TypeHistory, MsgN, None,
       fileVars, playVars, ringVars, readVars, planVars, dueVars
  <2>5. PlaceOK'
    BY <1>2, <1>3, <2>2, <2>3 DEF Pack, PlaceOK, InFlush
  <2>6. QED
    BY <2>2, <2>3, <2>4, <2>5 DEF TypeThread
<1>4. CASE Flush
  <2> DEFINE s == [self EXCEPT !.pkt = <<>>, !.msg = Msg(rd), !.ret = "flushed"]
  <2>1. pc = "pack" /\ MorePkt /\ Played(self.pkt) /\ Call(self.pkt, s)
    BY <1>4 DEF Flush
  <2>2. s \in Locals /\ s.n = 0 /\ s.ret = "flushed" /\ s.msg = Msg(rd)
    <3>1. self \in Locals /\ self.n = 0 /\ Msg(rd) \in FileMsgs /\ <<>> \in Seq(FileMsgs)
      BY <1>2, <2>1 DEF TypeThread, PlaceOK
    <3>2. QED
      BY <3>1 DEF Locals
  <2>3. self.pkt \in Seq(Msgs)
    BY FilePacket DEF TypeThread, Locals
  <2>4. /\ self' \in Locals /\ self'.n = 0 /\ self'.msg = Msg(rd)
        /\ \/ pc' = "cell" /\ self'.ret = "flushed"
           \/ pc' = "flushed" /\ self'.ret = "look"
    <3> HIDE DEF s
    <3>1. QED
      BY <2>1, <2>2, <2>3, CallType
  <2>5. TypeHistory'
    BY <2>1, PlayedTypes
  <2>6. TypeFile' /\ TypePlay' /\ TypeRing' /\ wr' = wr /\ rd' = rd /\ MsgN' = MsgN
    BY <1>4 DEF Flush, TypeFile, TypePlay, TypeRing, MsgN,
       fileVars, nextVars, playVars, ringVars, readVars, dueVars
  <2>7. PlaceOK'
    BY <1>2, <2>1, <2>4, <2>6 DEF PlaceOK, InFlush
  <2>8. QED
    BY <2>4, <2>5, <2>6, <2>7 DEF TypeThread
<1>5. CASE Flushed
  <2>1. rd \in 0 .. MsgN - 1 /\ self.msg \in FileMsgs
    BY <1>5 DEF Flushed, PlaceOK, InFlush
  <2>2. <<self.msg>> \in Seq(FileMsgs)
    BY <2>1
  <2>3. self' \in Locals /\ self'.ret = self.ret /\ self'.n = self.n
    BY <1>5, <2>2 DEF Flushed, TypeThread, Locals
  <2>4. /\ rd' \in 0 .. MsgN /\ rd' # None /\ wr' = wr /\ wr # None
        /\ pc = "flushed" /\ pc' = "pack"
    BY <1>1, <1>5, <2>1 DEF Flushed, None, PlaceOK
  <2>5. TypeFile' /\ TypePlay' /\ TypeRing' /\ TypeHistory'
    BY <1>5, <2>4, SMTT(60) DEF Flushed, TypeFile, TypePlay, TypeRing, TypeHistory, MsgN, None,
       fileVars, playVars, ringVars, readVars, planVars, dueVars
  <2>6. PlaceOK'
    BY <2>3, <2>4 DEF PlaceOK, InFlush
  <2>7. QED
    BY <2>3, <2>4, <2>5, <2>6 DEF TypeThread
<1>6. CASE Packed
  <2>1. TypeFile' /\ TypePlay' /\ TypeRing' /\ wr' = wr /\ rd' = rd /\ MsgN' = MsgN
    BY <1>6 DEF Packed, TypeFile, TypePlay, TypeRing, MsgN,
       fileVars, nextVars, playVars, ringVars, readVars, dueVars
  <2>2. CASE self.pkt = <<>>
    <3>1. pc = "pack" /\ pc' = "sleep" /\ self' = self
      BY <1>6, <2>2 DEF Packed
    <3>2. TypeHistory'
      BY <1>6, <2>2 DEF Packed, TypeHistory, planVars
    <3>3. QED
      BY <2>1, <3>1, <3>2 DEF TypeThread, PlaceOK, InFlush
  <2>3. CASE self.pkt # <<>>
    <3> DEFINE s == [self EXCEPT !.pkt = <<>>, !.ret = "sleep"]
    <3>1. pc = "pack" /\ Played(self.pkt) /\ Call(self.pkt, s)
      BY <1>6, <2>3 DEF Packed
    <3>2. s \in Locals /\ s.n = 0 /\ s.ret = "sleep"
      <4>1. self \in Locals /\ self.n = 0 /\ <<>> \in Seq(FileMsgs)
        BY <3>1 DEF TypeThread, PlaceOK
      <4>2. QED
        BY <4>1 DEF Locals
    <3>3. self.pkt \in Seq(Msgs)
      BY FilePacket DEF TypeThread, Locals
    <3>4. /\ self' \in Locals /\ self'.n = 0
          /\ \/ pc' = "cell" /\ self'.ret = "sleep"
             \/ pc' = "sleep" /\ self'.ret = "look"
      <4> HIDE DEF s
      <4>1. QED
        BY <3>1, <3>2, <3>3, CallType
    <3>5. TypeHistory'
      BY <3>1, PlayedTypes
    <3>6. QED
      BY <2>1, <3>1, <3>4, <3>5 DEF TypeThread, PlaceOK, InFlush
  <2>4. QED
    BY <2>2, <2>3
<1>7. CASE \E k \in Live : Input(k)
  <2>1. PICK k \in Live : Input(k)
    BY <1>7
  <2>2. pc = "poll" /\ self.ret = "look" /\ self.n = 0 /\ Call(k, self)
    BY <2>1 DEF Input, PlaceOK
  <2>3. /\ self' \in Locals /\ self'.n = 0
        /\ \/ pc' = "cell" /\ self'.ret = "look"
           \/ pc' = "look" /\ self'.ret = "look"
    BY <2>2, LivePacket, CallType DEF TypeThread
  <2>4. /\ TypeFile' /\ TypePlay' /\ TypeRing' /\ TypeHistory'
        /\ wr' = wr /\ rd' = rd /\ MsgN' = MsgN
    BY <2>1 DEF Input, TypeFile, TypePlay, TypeRing, TypeHistory, MsgN,
       fileVars, nextVars, playVars, ringVars, readVars, planVars, dueVars
  <2>5. QED
    BY <2>2, <2>3, <2>4 DEF TypeThread, PlaceOK, InFlush
<1>8. QED
  BY <1>3, <1>4, <1>5, <1>6, <1>7

LEMMA NextCellType ==
  ASSUME NEW i \in Cells
  PROVE  NextCell(i) \in Cells
  BY MidiDeviceAssumption DEF Cells, NextCell

\* The ring is written and read.
LEMMA RingTypes ==
  ASSUME TypeInv, Cell \/ Store \/ GetBuffer \/ ClearBuffer
  PROVE  TypeInv'
<1> USE DEF TypeInv, TypeOK
<1>1. BufN \in Nat \ {0}
  BY MidiDeviceAssumption
<1>2. CASE Cell
  <2>1. self.out[self.n + 1] \in Msgs /\ self.at \in Cells /\ self.n + 1 \in Nat
    BY <1>2 DEF Cell, TypeThread, Locals
  <2>2. self' = [self EXCEPT !.n = self.n + 1, !.at = NextCell(self.at)]
    BY <1>2 DEF Cell
  <2>3. NextCell(self.at) \in Cells
    BY <2>1, NextCellType
  <2>4. self' \in Locals /\ self'.ret = self.ret /\ self'.msg = self.msg
    BY <2>1, <2>2, <2>3 DEF TypeThread, Locals
  <2>5. TypeRing'
    BY <1>2, <2>1 DEF Cell, TypeRing, readVars
  <2>6. /\ TypeFile' /\ TypePlay' /\ TypeHistory' /\ MsgN' = MsgN
        /\ wr' = wr /\ rd' = rd /\ pc = "cell" /\ pc' = pc
    BY <1>2 DEF Cell, TypeFile, TypePlay, TypeHistory, MsgN,
       fileVars, nextVars, playVars, planVars
  <2>7. QED
    BY <2>4, <2>5, <2>6 DEF TypeThread, PlaceOK, InFlush
<1>3. CASE Store
  <2>1. self' = [self EXCEPT !.out = <<>>, !.n = 0, !.at = 0, !.oi = 0, !.ret = "look"]
    BY <1>3 DEF Store
  <2>2. /\ self' \in Locals /\ self'.ret = "look" /\ self'.n = 0 /\ self'.msg = self.msg
        /\ self.at \in Cells /\ self.out \in Seq(Msgs)
        /\ self.ret \in {"look", "flushed", "sleep"}
    <3>1. self \in Locals /\ 0 \in Cells /\ <<>> \in Seq(Msgs)
      BY <1>1 DEF TypeThread, Cells
    <3>2. QED
      BY <2>1, <3>1 DEF Locals
  <2>3. TypeRing'
    <3>1. due \o self.out \in Seq(Msgs)
      BY <2>2, ConcatIs DEF TypeRing
    <3>2. QED
      BY <1>3, <2>2, <3>1 DEF Store, TypeRing, readVars
  <2>4. /\ TypeFile' /\ TypePlay' /\ TypeHistory' /\ MsgN' = MsgN
        /\ wr' = wr /\ rd' = rd /\ pc = "cell" /\ pc' = self.ret
    BY <1>3 DEF Store, TypeFile, TypePlay, TypeHistory, MsgN,
       fileVars, nextVars, playVars, planVars
  <2>5. QED
    BY <2>2, <2>3, <2>4 DEF TypeThread, PlaceOK, InFlush
<1>4. CASE GetBuffer
  <2>1. Count \in 0 .. BufN
    BY <1>1 DEF Count, TypeRing, Cells
  <2>2. TypeRing'
    BY <1>4, <2>1 DEF GetBuffer, TypeRing, ringVars, dueVars
  <2>3. QED
    BY <1>4, <2>2 DEF GetBuffer, TypeFile, TypePlay, TypeThread, TypeHistory, PlaceOK, InFlush,
       MsgN, fileVars, nextVars, playVars, planVars
<1>5. CASE ClearBuffer
  <2>1. oi' \in Cells
    BY <1>1, <1>5, SMTT(60) DEF ClearBuffer, TypeRing, Cells
  <2>2. due' \in Seq(Msgs)
    <3>1. win[2] + 1 \in Nat \ {0}
      BY <1>1 DEF TypeRing
    <3>2. QED
      BY <1>5, <3>1 DEF ClearBuffer, TypeRing
  <2>3. buf' \in [Cells -> Msgs \cup {NoMsg}]
    BY <1>5 DEF ClearBuffer, TypeRing
  <2>4. TypeRing'
    <3>1. 0 \in Cells /\ 0 \in 0 .. BufN
      BY <1>1 DEF Cells
    <3>2. QED
      BY <1>5, <2>1, <2>2, <2>3, <3>1 DEF ClearBuffer, TypeRing
  <2>5. QED
    BY <1>5, <2>4 DEF ClearBuffer, TypeFile, TypePlay, TypeThread, TypeHistory, PlaceOK, InFlush,
       MsgN, fileVars, nextVars, playVars, planVars
<1>6. QED
  BY <1>2, <1>3, <1>4, <1>5

LEMMA PlanType == TypeFile => Plan \subseteq Int
<1> SUFFICES ASSUME TypeFile PROVE Plan \subseteq Int
  OBVIOUS
<1> DEFINE b == IF begMsg = NoMsg THEN 0 ELSE IndexIn(msgA, begMsg.port, begMsg.idx)
           e == IF endMsg = NoMsg THEN MsgN - 1 ELSE IndexIn(msgA, endMsg.port, endMsg.idx)
<1>1. \A port, idx : IndexIn(msgA, port, idx) \in Int
  BY IndexInRange DEF TypeFile, None
<1>2. b \in Int /\ e \in Int
  BY <1>1, LenNat
<1>3. Plan = { i \in b .. e : Msg(i).port \in enabled }
  BY DEF Plan
<1> HIDE DEF b, e
<1>4. QED
  BY <1>2, <1>3

\* The transport, and the clock.
LEMMA TransportTypes ==
  ASSUME TypeInv, Start \/ Stop \/ Pause \/ Unpause \/ Tick
  PROVE  TypeInv'
<1> USE DEF TypeInv, TypeOK
<1>1. MsgN \in Nat
  BY LenNat
<1>2. CASE Start
  <2>1. /\ wr' \in 0 .. MsgN /\ rd' = wr' /\ wr' # None
        /\ MsgN > 0 => wr' \in 0 .. MsgN - 1
    BY <1>1, <1>2 DEF Start, TypeFile, None
  <2>2. TypeFile' /\ MsgN' = MsgN
    BY <1>1, <1>2, <2>1 DEF Start, TypeFile, MsgN, None, fileVars
  <2>3. TypePlay'
    BY <1>2 DEF Start, TypePlay
  <2>4. calm' \in BOOLEAN /\ wrong' \in BOOLEAN
    BY <1>2 DEF Start, InPoll
  <2>5. sets' \in Nat
    BY <1>2 DEF Start, Counted, TypeHistory
  <2>6. TypeHistory' /\ TypeThread' /\ TypeRing' /\ self' = self /\ pc' = pc
    BY <1>2, <2>4, <2>5, PlanType DEF Start, TypeHistory, TypeThread, TypeRing, ringVars, readVars, dueVars
  <2>7. InFlush' => InFlush
    BY <2>6 DEF InFlush
  <2>8. InFlush => MsgN > 0
    BY <1>1 DEF PlaceOK
  <2>9. PlaceOK'
    BY <2>1, <2>2, <2>6, <2>7, <2>8 DEF PlaceOK
  <2>10. QED
    BY <2>2, <2>3, <2>6, <2>9
<1>3. CASE Stop \/ Pause \/ Unpause \/ Tick
  <2>1. TypePlay'
    BY <1>3 DEF Stop, Pause, Unpause, Tick, TypePlay
  <2>2. UNCHANGED <<fileVars, nextVars, pc, self, ringVars, readVars, planVars, dueVars>>
    BY <1>3 DEF Stop, Pause, Unpause, Tick
  <2>3. QED
    BY <2>1, <2>2 DEF TypeFile, TypeThread, TypeRing, TypeHistory,
       PlaceOK, InFlush, MsgN, fileVars, nextVars, ringVars, readVars, planVars, dueVars
<1>4. QED
  BY <1>2, <1>3

LEMMA DisturbsType ==
  ASSUME TypeHistory, Disturbs
  PROVE  calm' \in BOOLEAN /\ sets' \in Nat /\ plan' \subseteq Int
<1>1. calm' \in BOOLEAN
  BY DEF Disturbs
<1>2. sets' \in Nat
  BY DEF Disturbs, Counted, TypeHistory
<1>3. plan' \subseteq Int
  BY DEF Disturbs
<1>4. QED
  BY <1>1, <1>2, <1>3

\* What is to be played is set.
LEMMA SettingTypes ==
  ASSUME TypeInv,
         \/ \E port \in Ports, on \in BOOLEAN : PortEnable(port, on)
         \/ \E i \in 0 .. (MsgN - 1) : SeekToMsg(i) \/ SetEndMsg(i)
  PROVE  TypeInv'
<1> USE DEF TypeInv, TypeOK
<1>1. MsgN \in Nat
  BY LenNat
<1>2. ASSUME NEW port \in Ports, NEW on \in BOOLEAN, PortEnable(port, on) PROVE TypeInv'
  <2>1. calm' \in BOOLEAN /\ sets' \in Nat /\ plan' \subseteq Int
    BY <1>2, DisturbsType DEF PortEnable
  <2>2. enabled' \subseteq Ports
    BY <1>2 DEF PortEnable, TypeFile
  <2>3. QED
    BY <1>2, <2>1, <2>2 DEF PortEnable, TypeFile, TypePlay, TypeThread, TypeRing, TypeHistory,
       PlaceOK, InFlush, MsgN, nextVars, playVars, ringVars, readVars, dueVars
<1>3. ASSUME NEW i \in 0 .. (MsgN - 1), SeekToMsg(i) PROVE TypeInv'
  <2>1. calm' \in BOOLEAN /\ sets' \in Nat /\ plan' \subseteq Int
    BY <1>3, DisturbsType DEF SeekToMsg
  <2>2. begMsg' \in FileMsgs
    BY <1>3, MsgType DEF SeekToMsg
  <2>3. MsgN' = MsgN /\ beg' = i /\ wr' = i /\ rd' = i /\ i # None
    BY <1>1, <1>3 DEF SeekToMsg, MsgN, None
  <2>4. TypeFile'
    BY <1>1, <1>3, <2>3 DEF SeekToMsg, TypeFile, MsgN, None
  <2>5. TypeHistory' /\ TypePlay' /\ TypeThread' /\ TypeRing' /\ self' = self /\ pc' = pc
    BY <1>3, <2>1, <2>2 DEF SeekToMsg, TypeHistory, TypePlay, TypeThread, TypeRing,
       playVars, ringVars, readVars, dueVars
  <2>6. PlaceOK'
    BY <2>3, <2>5 DEF PlaceOK, InFlush
  <2>7. QED
    BY <2>4, <2>5, <2>6
<1>4. ASSUME NEW i \in 0 .. (MsgN - 1), SetEndMsg(i) PROVE TypeInv'
  <2>1. calm' \in BOOLEAN /\ sets' \in Nat /\ plan' \subseteq Int
    BY <1>4, DisturbsType DEF SetEndMsg
  <2>2. endMsg' \in FileMsgs
    BY <1>4, MsgType DEF SetEndMsg
  <2>3. MsgN' = MsgN /\ end' = i /\ i \in None .. (MsgN - 1)
    BY <1>1, <1>4 DEF SetEndMsg, MsgN, None
  <2>4. TypeFile' /\ wr' = wr /\ rd' = rd
    BY <1>4, <2>3 DEF SetEndMsg, TypeFile, nextVars
  <2>5. TypeHistory' /\ TypePlay' /\ TypeThread' /\ TypeRing' /\ self' = self /\ pc' = pc
    BY <1>4, <2>1, <2>2 DEF SetEndMsg, TypeHistory, TypePlay, TypeThread, TypeRing,
       playVars, ringVars, readVars, dueVars
  <2>6. PlaceOK'
    BY <2>3, <2>4, <2>5 DEF PlaceOK, InFlush
  <2>7. QED
    BY <2>4, <2>5, <2>6
<1>5. QED
  BY <1>2, <1>3, <1>4

LEMMA LoadTypes ==
  ASSUME TypeInv, NEW port \in Ports, NEW song \in Songs[port], Load(port, song)
  PROVE  TypeInv'
<1> USE DEF TypeInv, TypeOK
<1>1. PICK A \in Sorted(Kept(port) \cup Messages(port, song)) :
        msgA' = A /\ beg' = Restored(beg, port, A) /\ end' = Restored(end, port, A)
  BY DEF Load, Kept
<1>2. /\ A \in Seq(FileMsgs) /\ Len(A) \in Nat
      /\ beg' \in None .. (Len(A) - 1) /\ end' \in None .. (Len(A) - 1)
  BY <1>1, LoadedType
<1>3. MsgN' = Len(A)
  BY <1>1 DEF MsgN
<1>4. wr' \in 0 .. Len(A) /\ wr' # None /\ rd' = wr'
  BY <1>2 DEF Load, None
<1>5. TypeFile'
  BY <1>1, <1>2, <1>3, <1>4, SMTT(60) DEF Load, TypeFile, None
<1>6. calm' \in BOOLEAN /\ sets' \in Nat /\ plan' \subseteq Int
  BY DisturbsType DEF Load
<1>7. TypeHistory' /\ TypePlay' /\ TypeThread' /\ TypeRing' /\ self' = self /\ pc' = pc
  BY <1>6 DEF Load, Forget, TypeHistory, TypePlay, TypeThread, TypeRing,
     playVars, ringVars, readVars, dueVars
<1>8. PlaceOK'
  BY <1>4, <1>7 DEF Load, PlaceOK, InPoll, InFlush
<1>9. QED
  BY <1>5, <1>7, <1>8

\* A load that meets the thread, and one that fails.
LEMMA LostTypes ==
  ASSUME TypeInv, LoadUnder \/ \E port \in Ports : LoadFails(port)
  PROVE  TypeInv'
<1> USE DEF TypeInv, TypeOK
<1>1. BufN \in Nat \ {0} /\ MsgN \in Nat
  BY MidiDeviceAssumption, LenNat
<1>2. CASE LoadUnder
  <2>1. Idle \in Locals /\ Idle.ret = "look" /\ Idle.n = 0
    BY <1>1 DEF Idle, Locals, Cells
  <2>2. calm' \in BOOLEAN /\ sets' \in Nat /\ plan' \subseteq Int
    BY <1>2, DisturbsType DEF LoadUnder
  <2>3. pc' = "undefined" /\ self' = Idle /\ UNCHANGED <<wr, rd>>
    BY <1>2 DEF LoadUnder, nextVars
  <2>4. TypeFile' /\ TypePlay' /\ TypeRing' /\ TypeHistory'
    BY <1>2, <2>2 DEF LoadUnder, TypeFile, TypePlay, TypeRing, TypeHistory, MsgN,
       fileVars, nextVars, playVars, ringVars, readVars, dueVars
  <2>5. QED
    BY <2>1, <2>3, <2>4 DEF TypeThread, PlaceOK, InFlush
<1>3. ASSUME NEW port \in Ports, LoadFails(port) PROVE TypeInv'
  <2>1. calm' \in BOOLEAN /\ sets' \in Nat /\ plan' \subseteq Int
    BY <1>3, DisturbsType DEF LoadFails
  <2>2. MsgN' = MsgN /\ UNCHANGED <<msgA, enabled, wr, rd, pc, self>> /\ loaded' \subseteq Ports
    BY <1>3 DEF LoadFails, MsgN, nextVars, TypeFile
  <2>3. beg' \in None .. (MsgN - 1) /\ end' \in None .. (MsgN - 1)
    BY <1>1, <1>3 DEF LoadFails, TypeFile, None
  <2>4. TypeFile'
    BY <2>2, <2>3 DEF TypeFile
  <2>5. TypePlay' /\ TypeThread' /\ TypeRing' /\ TypeHistory'
    BY <1>3, <2>1 DEF LoadFails, Forget, TypePlay, TypeThread, TypeRing, TypeHistory,
       playVars, ringVars, readVars, dueVars
  <2>6. PlaceOK'
    BY <2>2 DEF PlaceOK, InFlush
  <2>7. QED
    BY <2>4, <2>5, <2>6
<1>4. QED
  BY <1>2, <1>3

LEMMA TypeStep == TypeInv /\ [Next]_vars => TypeInv'
<1> SUFFICES ASSUME TypeInv, [Next]_vars PROVE TypeInv'
  OBVIOUS
<1>1. CASE UNCHANGED vars
  BY <1>1 DEF TypeInv, TypeOK, TypeFile, TypePlay, TypeThread, TypeRing, TypeHistory, PlaceOK,
     InFlush, MsgN, vars, fileVars, nextVars, playVars, ringVars, readVars, planVars, dueVars
<1>2. CASE Next
  BY <1>2, ClockTypes, ExecTypes, PacketTypes, RingTypes, TransportTypes, SettingTypes,
     LoadTypes, LostTypes DEF Next, Run
<1>3. QED
  BY <1>1, <1>2

\* MidiTypeCorrect: every variable has its type, for any files and any ring: the
\* thread of the device never uses an index outside the array of messages or the
\* ring, whatever the application calls in the meantime.  A load that meets the thread
\* in exec(), or may, releases the array under it: the model says no more
\* from there on, and neither does the theorem.
THEOREM MidiTypeCorrect == Spec => []TypeOK
<1>1. Init => TypeInv
  BY InitTypes
<1>2. TypeInv /\ [Next]_vars => TypeInv'
  BY TypeStep
<1>3. TypeInv => TypeOK
  BY DEF TypeInv
<1>4. QED
  BY <1>1, <1>2, <1>3, PTL DEF Spec

------------------------------------------------------------------------------
(* The ring *)

\* The k-th cell after cell a, and how far cell b is behind cell a.
At(a, k) == IF a + k < BufN THEN a + k ELSE a + k - BufN
Dist(a, b) == IF a <= b THEN b - a ELSE b - a + BufN

LEMMA DistMod ==
  ASSUME NEW a \in Cells, NEW b \in Cells
  PROVE  (b - a) % BufN = Dist(a, b)
<1>1. BufN \in Nat \ {0} /\ a \in 0 .. (BufN - 1) /\ b \in 0 .. (BufN - 1)
  BY MidiDeviceAssumption DEF Cells
<1>2. QED
  BY <1>1 DEF Dist

LEMMA AtMod ==
  ASSUME NEW a \in Cells, NEW k \in 0 .. BufN
  PROVE  (a + k) % BufN = At(a, k)
<1>1. BufN \in Nat \ {0} /\ a \in 0 .. (BufN - 1)
  BY MidiDeviceAssumption DEF Cells
<1>2. QED
  BY <1>1 DEF At

\* The cells from buf_oi to buf_ii hold what was delivered and not cleared.
DueOK ==
  /\ Len(due) = Dist(oi, ii)
  /\ \A k \in 1 .. Len(due) : buf[At(oi, k - 1)] = due[k]

\* What the audio thread reads is the beginning of that, in one piece.
WinOK == win[2] > 0 => win[1] = oi /\ win[2] <= Len(due) /\ oi + win[2] <= BufN

\* The thread has written the first self.n messages of the packet behind buf_ii;
\* buf_oi as it loaded it may be behind by now, and there is room up to it.
PacketOK ==
  pc = "cell" =>
    /\ self.n <= Len(self.out)
    /\ self.at = At(ii, self.n)
    /\ Dist(self.oi, oi) + Len(due) + self.n < BufN
    /\ \A k \in 1 .. self.n : buf[At(ii, k - 1)] = self.out[k]

RingInv == ~full => DueOK /\ WinOK /\ PacketOK

ringState == <<buf, ii, oi, win, due, full>>

LEMMA RingSame ==
  ASSUME RingInv, UNCHANGED ringState, pc' = "cell" => pc = "cell" /\ self' = self
  PROVE  RingInv'
BY DEF RingInv, DueOK, WinOK, PacketOK, ringState, At, Dist

LEMMA RingCall ==
  ASSUME TypeInv, RingInv, UNCHANGED ringState,
         NEW k \in Seq(Msgs), NEW s \in Locals, s.n = 0, Call(k, s)
  PROVE  RingInv'
<1>1. CASE enableBufFl
  <2>1. pc' = "cell" /\ self' = [s EXCEPT !.out = k, !.at = ii, !.oi = oi]
    BY <1>1 DEF Call
  <2>2. /\ self'.n = 0 /\ self'.out = k /\ self'.at = ii /\ self'.oi = oi
    BY <2>1 DEF Locals
  <2>3. /\ BufN \in Nat \ {0} /\ ii \in 0 .. (BufN - 1) /\ oi \in 0 .. (BufN - 1)
        /\ Len(k) \in Nat /\ buf' = buf /\ ii' = ii /\ oi' = oi /\ due' = due
    BY MidiDeviceAssumption DEF TypeInv, TypeOK, TypeRing, Cells, ringState
  <2>4. (DueOK <=> DueOK') /\ (WinOK <=> WinOK') /\ full' = full
    BY DEF DueOK, WinOK, ringState, At, Dist
  <2>5. DueOK => PacketOK'
    <3> SUFFICES ASSUME DueOK PROVE PacketOK'
      OBVIOUS
    <3>1. self'.at = At(ii, 0)
      BY <2>2, <2>3 DEF At
    <3>2. Dist(oi, oi) = 0 /\ Len(due) < BufN /\ Len(due) \in Nat
      BY <2>3 DEF DueOK, Dist
    <3>3. Dist(oi, oi) + Len(due) + 0 < BufN
      BY <2>3, <3>2
    <3>4. QED
      BY <2>2, <2>3, <3>1, <3>3 DEF PacketOK, At, Dist
  <2>6. QED
    BY <2>4, <2>5 DEF RingInv
<1>2. CASE ~enableBufFl
  <2>1. pc' # "cell"
    BY <1>2 DEF Call, Locals
  <2>2. QED
    BY <2>1, RingSame
<1>3. QED
  BY <1>1, <1>2

LEMMA RingTyped ==
  ASSUME TypeInv
  PROVE  /\ BufN \in Nat \ {0}
         /\ ii \in Cells /\ oi \in Cells /\ DOMAIN buf = Cells
         /\ buf \in [Cells -> Msgs \cup {NoMsg}]
         /\ due \in Seq(Msgs) /\ Len(due) \in Nat /\ win[2] \in Nat /\ win[2] <= BufN
         /\ self.oi \in Cells /\ self.at \in Cells /\ self.n \in Nat
         /\ self.out \in Seq(Msgs) /\ Len(self.out) \in Nat
         /\ self.ret \in {"look", "flushed", "sleep"}
<1>1. BufN \in Nat \ {0}
  BY MidiDeviceAssumption
<1>2. /\ ii \in Cells /\ oi \in Cells /\ buf \in [Cells -> Msgs \cup {NoMsg}]
      /\ due \in Seq(Msgs) /\ win[2] \in 0 .. BufN
  BY DEF TypeInv, TypeOK, TypeRing
<1>3. /\ self.oi \in Cells /\ self.at \in Cells /\ self.n \in Nat
      /\ self.out \in Seq(Msgs) /\ self.ret \in {"look", "flushed", "sleep"}
  BY DEF TypeInv, TypeOK, TypeThread, Locals
<1>4. Len(due) \in Nat /\ Len(self.out) \in Nat
  BY <1>2, <1>3
<1>5. QED
  BY <1>1, <1>2, <1>3, <1>4

\* The number of cells from one cell to another is a natural number.
LEMMA DistType ==
  ASSUME NEW a \in Cells, NEW b \in Cells
  PROVE  Dist(a, b) \in Nat
<1>1. BufN \in Nat \ {0} /\ a \in 0 .. (BufN - 1) /\ b \in 0 .. (BufN - 1)
  BY MidiDeviceAssumption DEF Cells
<1>2. QED
  BY <1>1 DEF Dist

\* Cells o and i are the read and the write index, d messages are between them,
\* n were written behind i, and r is where o was, or is.
LEMMA Written ==
  ASSUME NEW o \in Cells, NEW i \in Cells, NEW r \in Cells, NEW d \in Nat, NEW n \in Nat,
         d = Dist(o, i), Dist(r, o) + d + n < BufN
  PROVE  /\ At(i, n) \in Cells
         /\ \A k \in 1 .. d : At(o, k - 1) # At(i, n) /\ At(o, k - 1) \in Cells
         /\ \A k \in 1 .. n : At(i, k - 1) # At(i, n) /\ At(i, k - 1) \in Cells
         /\ \A k \in 1 .. n : At(i, k - 1) = At(o, (d + k) - 1)
         /\ Dist(o, At(i, n)) = d + n
         /\ NextCell(At(i, n)) # r =>
              Dist(r, o) + d + (n + 1) < BufN /\ NextCell(At(i, n)) = At(i, n + 1)
<1>1. BufN \in Nat \ {0} /\ Cells = 0 .. (BufN - 1)
  BY MidiDeviceAssumption DEF Cells
<1>2. d + n < BufN
  BY <1>1 DEF Dist
<1>3. At(i, n) \in Cells
  BY <1>1, <1>2 DEF At
<1>4. \A k \in 1 .. d : At(o, k - 1) # At(i, n) /\ At(o, k - 1) \in Cells
  BY <1>1, <1>2 DEF At, Dist
<1>5. \A k \in 1 .. n : At(i, k - 1) # At(i, n) /\ At(i, k - 1) \in Cells
  BY <1>1, <1>2 DEF At, Dist
<1>6. \A k \in 1 .. n : At(i, k - 1) = At(o, (d + k) - 1)
  BY <1>1, <1>2 DEF At, Dist
<1>7. Dist(o, At(i, n)) = d + n
  BY <1>1, <1>2 DEF At, Dist
<1>8. NextCell(At(i, n)) # r => Dist(r, o) + d + (n + 1) < BufN
  BY <1>1, <1>2 DEF At, Dist, NextCell
<1>9. NextCell(At(i, n)) = At(i, n + 1)
  BY <1>1, <1>2 DEF At, NextCell
<1>10. QED
  BY <1>3, <1>4, <1>5, <1>6, <1>7, <1>8, <1>9

\* The first c of the d messages are cleared.
LEMMA Cleared ==
  ASSUME NEW o \in Cells, NEW i \in Cells, NEW r \in Cells, NEW d \in Nat, NEW c \in Nat,
         d = Dist(o, i), c <= d, o + c <= BufN
  PROVE  /\ At(o, c) \in Cells
         /\ Dist(At(o, c), i) = d - c
         /\ \A k \in c + 1 .. BufN : At(o, k - 1) \in Cells /\ At(o, k - 1) \notin o .. (o + c - 1)
         /\ \A k \in 1 .. d - c : At(At(o, c), k - 1) = At(o, (c + k) - 1)
         /\ \A n \in Nat : Dist(r, o) + d + n < BufN => Dist(r, At(o, c)) + (d - c) + n < BufN
<1>1. BufN \in Nat \ {0} /\ Cells = 0 .. (BufN - 1)
  BY MidiDeviceAssumption DEF Cells
<1>2. d < BufN
  BY <1>1 DEF Dist
<1>3. At(o, c) \in Cells
  BY <1>1, <1>2 DEF At
<1>4. Dist(At(o, c), i) = d - c
  BY <1>1, <1>2 DEF At, Dist
<1>5. \A k \in c + 1 .. BufN : At(o, k - 1) \in Cells /\ At(o, k - 1) \notin o .. (o + c - 1)
  BY <1>1, <1>2 DEF At
<1>6. \A k \in 1 .. d - c : At(At(o, c), k - 1) = At(o, (c + k) - 1)
  BY <1>1, <1>2 DEF At, Dist
<1>7. \A n \in Nat : Dist(r, o) + d + n < BufN => Dist(r, At(o, c)) + (d - c) + n < BufN
  BY <1>1, <1>2 DEF At, Dist
<1>8. QED
  BY <1>3, <1>4, <1>5, <1>6, <1>7

LEMMA CellRing ==
  ASSUME TypeInv, RingInv, Cell
  PROVE  RingInv'
<1> SUFFICES ASSUME ~full' PROVE DueOK' /\ WinOK' /\ PacketOK'
  BY DEF RingInv
<1>1. /\ pc = "cell" /\ pc' = "cell" /\ ~full /\ NextCell(self.at) # self.oi
      /\ self.n < Len(self.out)
      /\ buf' = [buf EXCEPT ![self.at] = self.out[self.n + 1]]
      /\ self' = [self EXCEPT !.n = self.n + 1, !.at = NextCell(self.at)]
      /\ ii' = ii /\ oi' = oi /\ due' = due /\ win' = win
  BY DEF Cell, readVars
<1>2. DueOK /\ WinOK /\ PacketOK
  BY <1>1 DEF RingInv
<1>3. /\ self'.n = self.n + 1 /\ self'.at = NextCell(self.at)
      /\ self'.oi = self.oi /\ self'.out = self.out
  BY <1>1 DEF TypeInv, TypeOK, TypeThread, Locals
<1>4. /\ self.at = At(ii, self.n)
      /\ Dist(self.oi, oi) + Len(due) + self.n < BufN
      /\ Len(due) = Dist(oi, ii)
  BY <1>1, <1>2 DEF PacketOK, DueOK
<1>5. /\ \A k \in 1 .. Len(due) : At(oi, k - 1) # self.at /\ At(oi, k - 1) \in Cells
      /\ \A k \in 1 .. self.n : At(ii, k - 1) # self.at /\ At(ii, k - 1) \in Cells
      /\ Dist(self.oi, oi) + Len(due) + (self.n + 1) < BufN
      /\ NextCell(self.at) = At(ii, self.n + 1)
  BY <1>1, <1>4, RingTyped, Written, SMTT(60)
<1>6. DueOK'
  <2>1. \A k \in 1 .. Len(due) : buf'[At(oi, k - 1)] = due[k]
    BY <1>1, <1>2, <1>5, RingTyped DEF DueOK
  <2>2. QED
    BY <1>1, <1>4, <2>1 DEF DueOK, At, Dist
<1>7. WinOK'
  BY <1>1, <1>2 DEF WinOK
<1>8. \A k \in 1 .. self.n + 1 : buf'[At(ii, k - 1)] = self.out[k]
  <2>1. \A k \in 1 .. self.n : buf'[At(ii, k - 1)] = self.out[k]
    BY <1>1, <1>2, <1>5, RingTyped DEF PacketOK
  <2>2. buf'[At(ii, self.n)] = self.out[self.n + 1]
    BY <1>1, <1>4, RingTyped
  <2>3. \A k \in 1 .. self.n + 1 : k \in 1 .. self.n \/ k = self.n + 1
    BY RingTyped
  <2>4. (self.n + 1) - 1 = self.n
    BY RingTyped
  <2>5. QED
    BY <2>1, <2>2, <2>3, <2>4
<1>9. PacketOK'
  <2>1. self'.n <= Len(self'.out)
    BY <1>1, <1>3, RingTyped
  <2>2. QED
    BY <1>1, <1>3, <1>5, <1>8, <2>1 DEF PacketOK, At, Dist
<1>10. QED
  BY <1>6, <1>7, <1>9

LEMMA StoreRing ==
  ASSUME TypeInv, RingInv, Store
  PROVE  RingInv'
<1> SUFFICES ASSUME ~full' PROVE DueOK' /\ WinOK' /\ PacketOK'
  BY DEF RingInv
<1>1. /\ pc = "cell" /\ ~full /\ self.n = Len(self.out) /\ pc' = self.ret
      /\ ii' = self.at /\ due' = due \o self.out /\ buf' = buf /\ oi' = oi /\ win' = win
  BY DEF Store, readVars
<1>2. DueOK /\ WinOK /\ PacketOK
  BY <1>1 DEF RingInv
<1>3. /\ Len(due') = Len(due) + self.n
      /\ \A k \in 1 .. Len(due) : due'[k] = due[k]
      /\ \A k \in Len(due) + 1 .. Len(due) + self.n : due'[k] = self.out[k - Len(due)]
  BY <1>1, RingTyped, ConcatIs
<1>4. /\ ii' = At(ii, self.n)
      /\ Dist(self.oi, oi) + Len(due) + self.n < BufN
      /\ Len(due) = Dist(oi, ii)
  BY <1>1, <1>2 DEF PacketOK, DueOK
<1>5. /\ Dist(oi, ii') = Len(due) + self.n
      /\ \A k \in 1 .. self.n : At(ii, k - 1) = At(oi, (Len(due) + k) - 1)
  BY <1>4, RingTyped, Written, SMTT(60)
<1>6. \A k \in 1 .. Len(due) + self.n : buf[At(oi, k - 1)] = due'[k]
  <2> TAKE k \in 1 .. Len(due) + self.n
  <2>1. CASE k \in 1 .. Len(due)
    BY <1>2, <1>3, <2>1 DEF DueOK
  <2>2. CASE k \notin 1 .. Len(due)
    <3> DEFINE j == k - Len(due)
    <3>1. /\ j \in 1 .. self.n /\ k = Len(due) + j
          /\ k \in Len(due) + 1 .. Len(due) + self.n
      BY <2>2, RingTyped
    <3>2. due'[k] = self.out[j]
      BY <1>3, <3>1
    <3>3. At(ii, j - 1) = At(oi, (Len(due) + j) - 1)
      BY <1>5, <3>1
    <3> HIDE DEF j
    <3>4. buf[At(ii, j - 1)] = self.out[j]
      BY <1>1, <1>2, <3>1 DEF PacketOK
    <3>5. QED
      BY <3>1, <3>2, <3>3, <3>4
  <2>3. QED
    BY <2>1, <2>2
<1>7. DueOK'
  BY <1>1, <1>3, <1>5, <1>6 DEF DueOK, At, Dist
<1>8. WinOK'
  BY <1>1, <1>2, <1>3, RingTyped DEF WinOK
<1>9. PacketOK'
  BY <1>1, RingTyped DEF PacketOK
<1>10. QED
  BY <1>7, <1>8, <1>9

LEMMA GetRing ==
  ASSUME TypeInv, RingInv, GetBuffer
  PROVE  RingInv'
<1>1. /\ ~full /\ full' = full /\ win' = <<oi, Count>> /\ buf' = buf /\ ii' = ii /\ oi' = oi
      /\ due' = due /\ pc' = pc /\ self' = self
  BY DEF GetBuffer, ringVars, dueVars
<1>2. DueOK /\ PacketOK
  BY <1>1 DEF RingInv
<1>3. Count <= Dist(oi, ii) /\ oi + Count <= BufN
  BY RingTyped, SMTT(60) DEF Count, Dist, Cells
<1>4. WinOK'
  BY <1>1, <1>2, <1>3 DEF WinOK, DueOK
<1>5. DueOK' /\ PacketOK'
  BY <1>1, <1>2 DEF DueOK, PacketOK, At, Dist
<1>6. QED
  BY <1>4, <1>5 DEF RingInv

LEMMA ClearRing ==
  ASSUME TypeInv, RingInv, ClearBuffer
  PROVE  RingInv'
<1> DEFINE c == win[2]
<1>1. /\ ~full /\ full' = full /\ c > 0 /\ oi' = (oi + c) % BufN /\ win' = <<0, 0>>
      /\ due' = SubSeq(due, c + 1, Len(due))
      /\ buf' = [i \in DOMAIN buf |-> IF i \in win[1] .. (win[1] + c - 1) THEN NoMsg ELSE buf[i]]
      /\ ii' = ii /\ pc' = pc /\ self' = self
  BY DEF ClearBuffer
<1>2. DueOK /\ WinOK /\ PacketOK
  BY <1>1 DEF RingInv
<1>3. win[1] = oi /\ c <= Len(due) /\ oi + c <= BufN /\ Len(due) = Dist(oi, ii) /\ c \in 0 .. BufN
      /\ c \in Nat
  BY <1>1, <1>2, RingTyped DEF WinOK, DueOK
<1> HIDE DEF c
<1>4. oi' = At(oi, c)
  BY <1>1, <1>3, AtMod, RingTyped
<1>5. /\ Len(due') = Len(due) - c
      /\ \A k \in 1 .. Len(due) - c : due'[k] = due[c + k]
  <2>1. c \in 0 .. Len(due)
    BY <1>3, RingTyped
  <2>2. QED
    BY <1>1, <2>1, RestIs, RingTyped
<1>6. /\ Dist(oi', ii) = Len(due) - c
      /\ \A k \in c + 1 .. BufN : At(oi, k - 1) \in Cells /\ At(oi, k - 1) \notin oi .. (oi + c - 1)
      /\ \A k \in 1 .. Len(due) - c : At(oi', k - 1) = At(oi, (c + k) - 1)
      /\ Dist(self.oi, oi) + Len(due) + self.n < BufN
           => Dist(self.oi, oi') + (Len(due) - c) + self.n < BufN
  BY <1>3, <1>4, Cleared, RingTyped, SMTT(60)
\* The cells behind those that are cleared keep their messages.
<1>7. \A k \in c + 1 .. BufN : buf'[At(oi, k - 1)] = buf[At(oi, k - 1)]
  BY <1>1, <1>3, <1>6, RingTyped
<1>8. Len(due) < BufN
  BY <1>3, RingTyped, SMTT(60) DEF Dist, Cells
<1>9. \A k \in 1 .. Len(due) - c : buf'[At(oi', k - 1)] = due'[k]
  <2> TAKE k \in 1 .. Len(due) - c
  <2>1. c + k \in c + 1 .. BufN /\ c + k \in 1 .. Len(due)
    BY <1>3, <1>8, RingTyped
  <2>2. buf[At(oi, (c + k) - 1)] = due[c + k]
    BY <1>2, <2>1 DEF DueOK
  <2>3. buf'[At(oi, (c + k) - 1)] = buf[At(oi, (c + k) - 1)]
    BY <1>7, <2>1
  <2>4. QED
    BY <1>5, <1>6, <2>2, <2>3
<1>10. DueOK'
  BY <1>1, <1>5, <1>6, <1>9 DEF DueOK, At, Dist
<1>11. WinOK'
  BY <1>1 DEF WinOK
<1>12. PacketOK'
  <2> SUFFICES ASSUME pc = "cell"
               PROVE  /\ self.n <= Len(self.out) /\ self.at = At(ii, self.n)
                      /\ Dist(self.oi, oi') + (Len(due) - c) + self.n < BufN
                      /\ \A k \in 1 .. self.n : buf'[At(ii, k - 1)] = self.out[k]
    BY <1>1, <1>5 DEF PacketOK, At, Dist
  <2>1. /\ self.n <= Len(self.out) /\ self.at = At(ii, self.n)
        /\ Dist(self.oi, oi) + Len(due) + self.n < BufN
    BY <1>2 DEF PacketOK
  <2>2. \A k \in 1 .. self.n : At(ii, k - 1) = At(oi, (Len(due) + k) - 1)
    BY <1>3, <2>1, Written, RingTyped, SMTT(60)
  <2>3. Dist(self.oi, oi) \in Nat
    BY DistType, RingTyped
  <2>4. \A k \in 1 .. self.n : Len(due) + k \in c + 1 .. BufN
    BY <1>3, <2>1, <2>3, RingTyped, SMTT(60)
  <2>5. \A k \in 1 .. self.n : buf'[At(ii, k - 1)] = self.out[k]
    <3> TAKE k \in 1 .. self.n
    <3> DEFINE j == Len(due) + k
    <3>1. j \in c + 1 .. BufN /\ At(ii, k - 1) = At(oi, j - 1)
      BY <2>2, <2>4
    <3> HIDE DEF j
    <3>2. buf'[At(oi, j - 1)] = buf[At(oi, j - 1)]
      BY <1>7, <3>1
    <3>3. buf[At(ii, k - 1)] = self.out[k]
      BY <1>2 DEF PacketOK
    <3>4. QED
      BY <3>1, <3>2, <3>3
  <2>6. QED
    BY <1>6, <2>1, <2>5
<1>13. QED
  BY <1>1, <1>10, <1>11, <1>12 DEF RingInv

LEMMA SendRing ==
  ASSUME TypeInv, RingInv, Flush \/ Packed \/ (\E k \in Live : Input(k))
  PROVE  RingInv'
<1>1. UNCHANGED ringState
  BY DEF Flush, Packed, Input, ringState, ringVars, readVars, dueVars
<1>2. self \in Locals /\ self.pkt \in Seq(Msgs)
  BY FilePacket DEF TypeInv, TypeOK, TypeThread, Locals
<1>3. CASE Flush
  <2> DEFINE s == [self EXCEPT !.pkt = <<>>, !.msg = Msg(rd), !.ret = "flushed"]
  <2>1. pc = "pack" /\ MorePkt /\ Call(self.pkt, s)
    BY <1>3 DEF Flush
  <2>2. rd \in 0 .. MsgN - 1 /\ self.n = 0
    BY <2>1, LenNat, SMTT(60) DEF MorePkt, TypeInv, TypeOK, PlaceOK, TypeFile, None
  <2>3. Msg(rd) \in FileMsgs /\ <<>> \in Seq(FileMsgs)
    BY <2>2, MsgType DEF TypeInv, TypeOK
  <2>4. s \in Locals /\ s.n = 0
    BY <1>2, <2>2, <2>3 DEF Locals
  <2> HIDE DEF s
  <2>5. QED
    BY <1>1, <1>2, <2>1, <2>4, RingCall
<1>4. CASE Packed
  <2>1. CASE self.pkt = <<>>
    BY <1>1, <1>4, <2>1, RingSame DEF Packed
  <2>2. CASE self.pkt # <<>>
    <3> DEFINE s == [self EXCEPT !.pkt = <<>>, !.ret = "sleep"]
    <3>1. pc = "pack" /\ Call(self.pkt, s)
      BY <1>4, <2>2 DEF Packed
    <3>2. self.n = 0 /\ <<>> \in Seq(FileMsgs)
      BY <3>1 DEF TypeInv, PlaceOK
    <3>3. s \in Locals /\ s.n = 0
      BY <1>2, <3>2 DEF Locals
    <3> HIDE DEF s
    <3>4. QED
      BY <1>1, <1>2, <3>1, <3>3, RingCall
  <2>3. QED
    BY <2>1, <2>2
<1>5. CASE \E k \in Live : Input(k)
  <2>1. PICK k \in Live : Input(k)
    BY <1>5
  <2>2. pc = "poll" /\ Call(k, self) /\ self.n = 0 /\ k \in Seq(Msgs)
    BY <2>1, LivePacket DEF Input, TypeInv, PlaceOK
  <2>3. QED
    BY <1>1, <1>2, <2>2, RingCall
<1>6. QED
  BY <1>3, <1>4, <1>5

\* RingExactAlways: for any ring and any packets, until the device reports that
\* the ring is full the audio thread is given the messages in the order in which
\* they were delivered, and no cell it was given is written before it is cleared.
THEOREM RingExactAlways == Spec => []RingExact
<1>1. Init => TypeInv /\ RingInv
  <2> SUFFICES ASSUME Init PROVE RingInv
    BY InitTypes
  <2>1. BufN \in Nat \ {0}
    BY MidiDeviceAssumption
  <2>2. QED
    BY <2>1 DEF Init, RingInv, DueOK, WinOK, PacketOK, Dist
<1>2. TypeInv /\ [Next]_vars => TypeInv'
  BY TypeStep
<1>3. TypeInv /\ RingInv /\ [Next]_vars => RingInv'
  <2> SUFFICES ASSUME TypeInv, RingInv, [Next]_vars PROVE RingInv'
    OBVIOUS
  <2>1. CASE UNCHANGED vars \/ Look \/ Time \/ Eof \/ Exec \/ Scan \/ Scanned \/ Abort \/ Pack
             \/ Flushed \/ Sleep \/ Wake \/ LoadUnder
    <3>1. UNCHANGED ringState /\ (pc' = "cell" => pc = "cell" /\ self' = self)
      BY <2>1 DEF vars, Look, Time, Eof, Exec, Scan, Scanned, Abort, Pack, Flushed, Sleep, Wake,
         LoadUnder, ringState, ringVars, readVars, dueVars
    <3>2. QED
      BY <3>1, RingSame
  <2>2. CASE \/ Tick \/ Start \/ Stop \/ Pause \/ Unpause
             \/ \E port \in Ports : \E song \in Songs[port] : Load(port, song)
             \/ \E port \in Ports : LoadFails(port)
             \/ \E port \in Ports, on \in BOOLEAN : PortEnable(port, on)
             \/ \E i \in 0 .. (MsgN - 1) : SeekToMsg(i) \/ SetEndMsg(i)
    <3>1. UNCHANGED ringState /\ pc' = pc /\ self' = self
      BY <2>2 DEF Tick, Start, Stop, Pause, Unpause, Load, LoadFails, PortEnable,
         SeekToMsg, SetEndMsg,
         ringState, ringVars, readVars, dueVars
    <3>2. QED
      BY <3>1, RingSame
  <2>3. CASE Flush \/ Packed \/ \E k \in Live : Input(k)
    BY <2>3, SendRing
  <2>4. CASE Cell \/ Store \/ GetBuffer \/ ClearBuffer
    BY <2>4, CellRing, StoreRing, GetRing, ClearRing
  <2>5. QED
    BY <2>1, <2>2, <2>3, <2>4 DEF Next, Run
<1>4. TypeInv /\ RingInv => RingExact
  <2> SUFFICES ASSUME TypeInv, RingInv, ~full
               PROVE  /\ (ii - oi) % BufN = Len(due)
                      /\ win[2] <= Len(due)
                      /\ \A k \in 1 .. win[2] : win[1] + k <= BufN /\ buf[win[1] + k - 1] = due[k]
    BY DEF RingExact
  <2>1. DueOK /\ WinOK
    BY DEF RingInv
  <2>2. (ii - oi) % BufN = Len(due)
    BY <2>1, DistMod, RingTyped DEF DueOK
  <2>3. win[2] <= Len(due)
    BY <2>1, RingTyped DEF WinOK
  <2>4. \A k \in 1 .. win[2] : win[1] + k <= BufN /\ buf[win[1] + k - 1] = due[k]
    <3> TAKE k \in 1 .. win[2]
    <3>1. /\ win[1] = oi /\ oi + win[2] <= BufN /\ k \in 1 .. Len(due) /\ k \in Nat
      BY <2>1, <2>3, RingTyped DEF WinOK
    <3>2. oi + k <= BufN /\ At(oi, k - 1) = win[1] + k - 1
      BY <3>1, RingTyped, SMTT(60) DEF At, Cells
    <3>3. QED
      BY <2>1, <3>1, <3>2 DEF DueOK
  <2>5. QED
    BY <2>2, <2>3, <2>4
<1>5. QED
  BY <1>1, <1>2, <1>3, <1>4, PTL DEF Spec

------------------------------------------------------------------------------
(* PlaysInOrder.  No two messages of the array are the same message of the  *)
(* same file, so that a message has one index; begMsg and endMsg are where   *)
(* beg and end point.  As long as nothing disturbs the thread, the plan is   *)
(* what lies from rd to the last message, and what waits in the packet.      *)

Unique(A) ==
  \A i, j \in DOMAIN A : A[i].port = A[j].port /\ A[i].idx = A[j].idx => i = j

SetOK ==
  /\ beg # None => Msg(beg).port \in loaded
  /\ end # None => Msg(end).port \in loaded
  /\ begMsg = NoMsg <=> beg = None
  /\ beg # None => Msg(beg) = begMsg
  /\ endMsg = NoMsg <=> end = None
  /\ end # None => Msg(end) = endMsg

\* Calls that change what is to be played do not disturb the thread.
Off == state = "stopped" /\ InPoll

\* The first and the last message to be played.
Lo == IF beg = None THEN 0 ELSE beg
Hi == IF end = None THEN MsgN - 1 ELSE end

Outside == InPoll \/ pc \in {"time", "exec"}
LocalsOK ==
  /\ pc # "pack" => self.pkt = <<>>
  /\ Outside => self.cnt = 0

IndexOK ==
  /\ Lo <= rd /\ rd <= wr
  /\ pc \notin {"scan", "pack", "aborted"} /\ ~InFlush => rd = wr
  /\ pc = "scan" => self.lim = Hi /\ self.cnt = wr - rd /\ wr <= Hi + 1 /\ (self.cnt = 0 => wr <= Hi)
  /\ pc = "pack" \/ InFlush => wr <= Hi + 1 /\ wr - rd <= self.cnt - Len(self.pkt)
  /\ InFlush => rd < wr /\ self.msg = Msg(rd) /\ self.msg.port \in enabled

Rest == { i \in rd .. Hi : Msg(i).port \in enabled }
PlanOK ==
  /\ plan = Rest \cup Posns(self.pkt)
  /\ \A j \in DOMAIN self.pkt : Posn(self.pkt[j]) < rd
  /\ \A i, j \in DOMAIN self.pkt : i < j => Posn(self.pkt[i]) < Posn(self.pkt[j])

PlayInv ==
  /\ Unique(msgA) /\ SetOK /\ LocalsOK
  /\ calm => ~wrong
  /\ calm /\ ~Off => IndexOK /\ PlanOK
  /\ calm /\ pc = "aborted" => DueAfterEnd

------------------------------------------------------------------------------
(* The array *)

LEMMA IndexInIs ==
  ASSUME NEW A \in Seq(FileMsgs), Unique(A), NEW i \in DOMAIN A
  PROVE  IndexIn(A, A[i].port, A[i].idx) = i - 1
<1> DEFINE j == CHOOSE k \in DOMAIN A : A[k].port = A[i].port /\ A[k].idx = A[i].idx
<1>1. j \in DOMAIN A /\ A[j].port = A[i].port /\ A[j].idx = A[i].idx
  OBVIOUS
<1>2. j = i
  BY <1>1 DEF Unique
<1>3. QED
  BY <1>2 DEF IndexIn

LEMMA PosnIs ==
  ASSUME TypeFile, Unique(msgA), NEW i \in 0 .. MsgN - 1
  PROVE  Posn(Msg(i)) = i
<1>1. msgA \in Seq(FileMsgs) /\ i + 1 \in DOMAIN msgA /\ (i + 1) - 1 = i
  BY DEF TypeFile, MsgN
<1>2. QED
  BY <1>1, IndexInIs DEF Posn, Msg

\* A message of a set that is enough to tell it from the others.
Distinct(M) == \A m, n \in M : m.port = n.port /\ m.idx = n.idx => m = n

LEMMA SortedUnique ==
  ASSUME NEW M, IsFiniteSet(M), Distinct(M), NEW A \in Sorted(M)
  PROVE  Unique(A)
<1> DEFINE D == 1 .. Cardinality(M)
<1>1. Cardinality(M) \in Nat
  BY FS_CardinalityType
<1>2. A \in [D -> M] /\ ToSet(A) = M
  BY DEF Sorted
<1>3. A \in Surjection(D, M)
  BY <1>2 DEF Surjection, ToSet
<1>4. IsFiniteSet(D) /\ Cardinality(D) = Cardinality(M)
  BY <1>1, FS_Interval
<1>5. A \in Injection(D, M)
  BY <1>3, <1>4, FS_SurjSameCardinalityImpliesInj
<1>6. \A i, j \in D : A[i] = A[j] => i = j
  BY <1>5 DEF Injection, IsInjective
<1>7. QED
  BY <1>2, <1>6 DEF Unique, Distinct

LEMMA LoadedUnique ==
  ASSUME TypeFile, Unique(msgA), NEW port \in Ports, NEW song \in Songs[port],
         NEW A \in Sorted(Kept(port) \cup Messages(port, song))
  PROVE  Unique(A) /\ \A i \in 0 .. MsgN - 1 : Msg(i).port # port /\ Msg(i).port \in loaded =>
           Restored(i, port, A) # None /\ A[Restored(i, port, A) + 1] = Msg(i)
<1> DEFINE old == Kept(port)
           M == old \cup Messages(port, song)
<1>1. IsFiniteSet(ToSet(msgA)) /\ ToSet(msgA) \subseteq FileMsgs
  BY ToSetFinite DEF TypeFile
<1>2. IsFiniteSet(old)
  <2>1. old \in SUBSET ToSet(msgA)
    BY DEF Kept
  <2>2. QED
    BY <1>1, <2>1, FS_Subset
<1>3. IsFiniteSet(Messages(port, song))
  BY MessagesFinite
<1>4. IsFiniteSet(M)
  BY <1>2, <1>3, FS_Union
<1>5. Distinct(M)
  <2>1. \A m, n \in old : m.port = n.port /\ m.idx = n.idx => m = n
    BY DEF Unique, ToSet, Kept
  <2>2. \A m \in Messages(port, song) : m.port = port
    BY DEF Messages
  <2>3. \A m, n \in Messages(port, song) : m.idx = n.idx => m = n
    <3>1. song \in Seq(0 .. Top)
      BY MidiDeviceAssumption
    <3>2. DOMAIN song \subseteq Int
      BY <3>1
    <3>3. \A i, j \in DOMAIN song : i - 1 = j - 1 => i = j
      BY <3>2
    <3>4. QED
      BY <3>3 DEF Messages
  <2>4. \A m \in old : m.port # port
    BY DEF Kept
  <2>5. QED
    BY <2>1, <2>2, <2>3, <2>4 DEF Distinct
<1>6. Unique(A)
  BY <1>4, <1>5, SortedUnique
<1>7. A \in Seq(FileMsgs) /\ ToSet(A) = M
  BY LoadedType DEF Sorted
<1>8. ASSUME NEW i \in 0 .. MsgN - 1, Msg(i).port # port, Msg(i).port \in loaded
      PROVE  Restored(i, port, A) # None /\ A[Restored(i, port, A) + 1] = Msg(i)
  <2>1. Msg(i) \in ToSet(msgA)
    BY DEF Msg, MsgN, ToSet, TypeFile
  <2>2. Msg(i) \in ToSet(A)
    BY <1>7, <1>8, <2>1 DEF Kept
  <2>3. PICK j \in DOMAIN A : A[j] = Msg(i)
    BY <2>2 DEF ToSet
  <2>4. IndexIn(A, Msg(i).port, Msg(i).idx) = j - 1 /\ j \in Nat \ {0}
    <3>1. IndexIn(A, A[j].port, A[j].idx) = j - 1
      BY <1>6, <1>7, IndexInIs
    <3>2. j \in 1 .. Len(A) /\ Len(A) \in Nat
      BY <1>7
    <3>3. QED
      BY <2>3, <3>1, <3>2
  <2>5. Restored(i, port, A) = j - 1
    BY <1>8, <2>4 DEF Restored, None
  <2>6. QED
    BY <2>3, <2>4, <2>5 DEF None
<1>9. QED
  BY <1>6, <1>8

------------------------------------------------------------------------------
(* The invariant, step by step *)

LEMMA PlayTyped ==
  ASSUME TypeInv
  PROVE  /\ MsgN \in Nat /\ TypeFile /\ self \in Locals
         /\ beg \in None .. (MsgN - 1) /\ end \in None .. (MsgN - 1)
         /\ wr \in Int /\ rd \in Int /\ wr <= MsgN /\ rd <= MsgN
         /\ Lo \in Nat /\ Hi \in Int /\ Hi <= MsgN - 1
         /\ self.cnt \in Nat /\ self.lim \in Int /\ self.next \in Nat /\ self.pos \in Nat
         /\ self.pkt \in Seq(FileMsgs) /\ Len(self.pkt) \in Nat
         /\ DOMAIN self.pkt = 1 .. Len(self.pkt)
         /\ calm \in BOOLEAN /\ wrong \in BOOLEAN
<1>1. TypeFile /\ self \in Locals /\ MsgN \in Nat
  BY LenNat DEF TypeInv, TypeOK, TypeThread
<1>2. /\ self.cnt \in Nat /\ self.lim \in Int /\ self.next \in Nat /\ self.pos \in Nat
      /\ self.pkt \in Seq(FileMsgs)
  BY <1>1 DEF Locals
<1>3. Len(self.pkt) \in Nat /\ DOMAIN self.pkt = 1 .. Len(self.pkt)
  BY <1>2
<1>4. /\ beg \in None .. (MsgN - 1) /\ end \in None .. (MsgN - 1)
      /\ wr \in Int /\ rd \in Int /\ wr <= MsgN /\ rd <= MsgN
  BY <1>1 DEF TypeFile, None
<1>5. Lo \in Nat /\ Hi \in Int /\ Hi <= MsgN - 1
  BY <1>1, <1>4 DEF Lo, Hi, None
<1>6. calm \in BOOLEAN /\ wrong \in BOOLEAN
  BY DEF TypeInv, TypeOK, TypeHistory
<1>7. QED
  BY <1>1, <1>2, <1>3, <1>4, <1>5, <1>6

\* The numbers among them.
LEMMA PlayInts ==
  ASSUME TypeInv
  PROVE  /\ MsgN \in Nat /\ wr \in Int /\ rd \in Int /\ Lo \in Nat /\ Hi \in Int
         /\ self.cnt \in Nat /\ Len(self.pkt) \in Nat
         /\ wr <= MsgN /\ rd <= MsgN /\ Hi <= MsgN - 1
BY PlayTyped


\* The files, the array and what was set are left alone.
LEMMA FilesKept ==
  ASSUME PlayInv, UNCHANGED <<fileVars, begMsg, endMsg>>
  PROVE  /\ Unique(msgA)' /\ SetOK'
         /\ Lo' = Lo /\ Hi' = Hi /\ MsgN' = MsgN
         /\ \A i : Msg(i)' = Msg(i)
         /\ \A m : Posn(m)' = Posn(m)
<1>1. UNCHANGED <<msgA, loaded, enabled, beg, end, begMsg, endMsg>>
  BY DEF fileVars
<1>2. MsgN' = MsgN
  BY <1>1 DEF MsgN
<1>3. Lo' = Lo /\ Hi' = Hi
  BY <1>1, <1>2 DEF Lo, Hi
<1>4. \A i : Msg(i)' = Msg(i)
  BY <1>1 DEF Msg
<1>5. \A m : Posn(m)' = Posn(m)
  BY <1>1 DEF Posn, IndexIn
<1>6. Unique(msgA)' /\ SetOK'
  BY <1>1 DEF PlayInv, Unique, SetOK, Msg
<1>7. QED
  BY <1>2, <1>3, <1>4, <1>5, <1>6

\* The thread goes on, and neither takes nor sends a message.
LEMMA SamePlay ==
  ASSUME TypeInv, PlayInv, UNCHANGED <<fileVars, nextVars, begMsg, endMsg, plan, calm, wrong>>,
         self'.pkt = self.pkt, self'.cnt = self.cnt, self'.lim = self.lim, self'.msg = self.msg,
         pc' = "pack" <=> pc = "pack", pc' = "scan" <=> pc = "scan", InFlush' <=> InFlush,
         Outside' => Outside, Off => Off',
         pc' = "aborted" <=> pc = "aborted", pc' = "aborted" => self' = self
  PROVE  PlayInv'
<1>1. /\ Unique(msgA)' /\ SetOK'
      /\ Lo' = Lo /\ Hi' = Hi /\ MsgN' = MsgN
      /\ \A i : Msg(i)' = Msg(i)
      /\ \A m : Posn(m)' = Posn(m)
  BY FilesKept
<1>2. UNCHANGED <<wr, rd, plan, calm, wrong, enabled>>
  BY DEF nextVars, fileVars
<1>3. LocalsOK'
  BY DEF PlayInv, LocalsOK
<1>4. calm' => ~wrong'
  BY <1>2 DEF PlayInv
<1>5. ASSUME calm', ~Off' PROVE IndexOK' /\ PlanOK'
  <2>1. IndexOK /\ PlanOK
    BY <1>2, <1>5 DEF PlayInv
  <2>2. IndexOK'
    BY <1>1, <1>2, <2>1 DEF IndexOK
  <2>3. Posns(self.pkt)' = Posns(self.pkt) /\ Rest' = Rest
    BY <1>1, <1>2 DEF Posns, Rest
  <2>4. PlanOK'
    BY <1>1, <1>2, <2>1, <2>3 DEF PlanOK
  <2>5. QED
    BY <2>2, <2>4
<1>6. ASSUME calm', pc' = "aborted" PROVE DueAfterEnd'
  BY <1>1, <1>2, <1>6 DEF PlayInv, DueAfterEnd, fileVars
<1>7. QED
  BY <1>1, <1>3, <1>4, <1>5, <1>6 DEF PlayInv

LEMMA CallSame ==
  ASSUME NEW k, NEW s \in Locals, Call(k, s)
  PROVE  /\ self'.pkt = s.pkt /\ self'.cnt = s.cnt /\ self'.lim = s.lim /\ self'.msg = s.msg
         /\ \/ pc' = "cell" /\ self'.ret = s.ret
            \/ pc' = s.ret
<1>1. CASE enableBufFl
  BY <1>1 DEF Call, Locals
<1>2. CASE ~enableBufFl
  BY <1>2 DEF Call, Locals
<1>3. QED
  BY <1>1, <1>2

\* The ring, poll(), the clock and the transport.
LEMMA QuietPlay ==
  ASSUME TypeInv, PlayInv,
         \/ Look \/ Time \/ Wake \/ (\E k \in Live : Input(k)) \/ Cell \/ Store
         \/ GetBuffer \/ ClearBuffer \/ Tick \/ Stop \/ Pause \/ Unpause \/ UNCHANGED vars
  PROVE  PlayInv'
<1>1. UNCHANGED <<fileVars, nextVars, begMsg, endMsg, plan, calm, wrong>>
  BY DEF Look, Time, Wake, Input, Cell, Store, GetBuffer, ClearBuffer, Tick, Stop, Pause, Unpause,
     vars, planVars
<1>2. self \in Locals /\ (pc # "cell" => self.ret = "look")
      /\ self.ret \in {"look", "flushed", "sleep"}
      /\ pc \in {"look", "time", "exec", "scan", "pack", "flushed", "sleep", "poll", "cell",
                "aborted", "undefined"}
  BY DEF TypeInv, TypeOK, TypeThread, PlaceOK, Locals
<1>3. CASE Look
  BY <1>1, <1>3, SamePlay DEF Look, InFlush, Outside, Off, InPoll, playVars
<1>4. CASE Time
  <2>1. /\ self'.pkt = self.pkt /\ self'.cnt = self.cnt /\ self'.lim = self.lim
        /\ self'.msg = self.msg
    BY <1>2, <1>4 DEF Time, Locals
  <2>2. pc = "time" /\ pc' = "exec"
    BY <1>4 DEF Time
  <2>3. QED
    BY <1>1, <2>1, <2>2, SamePlay DEF InFlush, Outside, Off, InPoll
<1>5. CASE Wake
  BY <1>1, <1>5, SamePlay DEF Wake, InFlush, Outside, Off, InPoll, playVars
<1>6. CASE \E k \in Live : Input(k)
  <2>1. PICK k \in Live : Input(k)
    BY <1>6
  <2>2. pc = "poll" /\ state' = state /\ self.ret = "look"
    BY <1>2, <2>1 DEF Input, playVars
  <2>3. /\ self'.pkt = self.pkt /\ self'.cnt = self.cnt /\ self'.lim = self.lim
        /\ self'.msg = self.msg
        /\ (pc' = "cell" /\ self'.ret = "look") \/ pc' = "look"
    BY <1>2, <2>1, <2>2, CallSame DEF Input
  <2>4. QED
    BY <1>1, <2>2, <2>3, SamePlay DEF InFlush, Outside, Off, InPoll
<1>7. CASE Cell
  <2>1. /\ self'.pkt = self.pkt /\ self'.cnt = self.cnt /\ self'.lim = self.lim
        /\ self'.msg = self.msg /\ self'.ret = self.ret
    BY <1>2, <1>7 DEF Cell, Locals
  <2>2. pc = "cell" /\ pc' = pc /\ state' = state
    BY <1>7 DEF Cell, playVars
  <2>3. QED
    BY <1>1, <2>1, <2>2, SamePlay DEF InFlush, Outside, Off, InPoll
<1>8. CASE Store
  <2>1. /\ self'.pkt = self.pkt /\ self'.cnt = self.cnt /\ self'.lim = self.lim
        /\ self'.msg = self.msg
    BY <1>2, <1>8 DEF Store, Locals
  <2>2. pc = "cell" /\ pc' = self.ret /\ state' = state
    BY <1>8 DEF Store, playVars
  <2>3. QED
    BY <1>1, <1>2, <2>1, <2>2, SamePlay DEF InFlush, Outside, Off, InPoll
<1>9. CASE GetBuffer \/ ClearBuffer \/ Tick \/ Stop \/ Pause \/ Unpause \/ UNCHANGED vars
  <2>1. pc' = pc /\ self' = self
    BY <1>9 DEF GetBuffer, ClearBuffer, Tick, Stop, Pause, Unpause, vars
  <2>2. state = "stopped" => state' = "stopped"
    BY <1>9 DEF GetBuffer, ClearBuffer, Tick, Stop, Pause, Unpause, vars, playVars
  <2>3. QED
    BY <1>1, <2>1, <2>2, SamePlay DEF InFlush, Outside, Off, InPoll
<1>10. QED
  BY <1>3, <1>4, <1>5, <1>6, <1>7, <1>8, <1>9

LEMMA LeavePlay ==
  ASSUME TypeInv, PlayInv, Eof \/ Sleep
  PROVE  PlayInv'
<1>1. /\ UNCHANGED <<fileVars, nextVars, begMsg, endMsg, plan, calm, wrong, state>>
      /\ pc \in {"exec", "sleep"} /\ pc' = "poll" /\ self' = Idle
  BY DEF Eof, Sleep, planVars
<1>2. /\ Unique(msgA)' /\ SetOK'
      /\ Lo' = Lo /\ Hi' = Hi /\ MsgN' = MsgN
      /\ \A i : Msg(i)' = Msg(i)
  BY <1>1, FilesKept
<1>3. self'.pkt = <<>> /\ self'.cnt = 0 /\ self'.ret = "look"
  BY <1>1 DEF Idle
<1>4. LocalsOK'
  BY <1>3 DEF LocalsOK
<1>5. UNCHANGED <<wr, rd, plan, calm, wrong, enabled>>
  BY <1>1 DEF nextVars, fileVars
<1>6. ASSUME calm' PROVE IndexOK' /\ PlanOK'
  <2>1. ~Off /\ ~InFlush
    BY <1>1 DEF Off, InPoll, InFlush
  <2>2. IndexOK /\ PlanOK /\ self.pkt = <<>>
    BY <1>1, <1>5, <1>6, <2>1 DEF PlayInv, LocalsOK
  <2>3. IndexOK'
    BY <1>1, <1>2, <1>5, <2>1, <2>2 DEF IndexOK, InFlush
  <2>4. Rest' = Rest /\ Posns(self.pkt) = {} /\ Posns(self.pkt)' = {}
    BY <1>2, <1>3, <1>5, <2>2 DEF Rest, Posns
  <2>5. PlanOK'
    BY <1>3, <1>5, <2>2, <2>4 DEF PlanOK
  <2>6. QED
    BY <2>3, <2>5
<1>7. QED
  BY <1>1, <1>2, <1>4, <1>5, <1>6 DEF PlayInv

LEMMA ExecPlay ==
  ASSUME TypeInv, PlayInv, Exec
  PROVE  PlayInv'
<1> DEFINE b == IF beg = None THEN 0 ELSE beg
           lim == IF end = None THEN MsgN - 1 ELSE end
           pos == Least(offset + self.el, Top)
           new == MsgTime(wr, b)
<1>1. /\ UNCHANGED <<fileVars, nextVars, begMsg, endMsg, plan, calm>>
      /\ pc = "exec" /\ pc' = (IF b <= wr THEN "scan" ELSE "aborted") /\ ~AtEnd /\ wrong' = wrong
      /\ self' = [self EXCEPT !.el = 0, !.pos = pos, !.base = b, !.lim = lim, !.next = new]
  BY DEF Exec, planVars
<1>2. b = Lo /\ lim = Hi
  BY DEF Lo, Hi
<1> HIDE DEF b, lim, pos, new
<1>3. self'.pkt = self.pkt /\ self'.cnt = self.cnt /\ self'.lim = Hi
  BY <1>1, <1>2, PlayTyped DEF Locals
<1>4. /\ Unique(msgA)' /\ SetOK'
      /\ Lo' = Lo /\ Hi' = Hi /\ MsgN' = MsgN
      /\ \A i : Msg(i)' = Msg(i)
      /\ \A m : Posn(m)' = Posn(m)
  BY <1>1, FilesKept
<1>5. UNCHANGED <<wr, rd, plan, calm, enabled>>
  BY <1>1 DEF nextVars, fileVars
<1>6. self.pkt = <<>> /\ self.cnt = 0
  BY <1>1 DEF PlayInv, LocalsOK, Outside
<1>7. LocalsOK'
  BY <1>1, <1>3, <1>6 DEF LocalsOK, Outside, InPoll
<1>8. ASSUME calm PROVE pc' = "scan" /\ ~wrong' /\ IndexOK' /\ PlanOK'
  <2>1. ~Off /\ ~InFlush
    BY <1>1 DEF Off, InPoll, InFlush
  <2>2. IndexOK /\ PlanOK /\ ~wrong
    BY <1>8, <2>1 DEF PlayInv
  <2>3. Lo <= wr /\ rd = wr
    BY <1>1, <2>1, <2>2 DEF IndexOK
  <2>4. wr <= Hi
    BY <1>1, PlayTyped, SMTT(60) DEF AtEnd, Hi
  <2>5. pc' = "scan" /\ ~wrong'
    BY <1>1, <1>2, <2>2, <2>3
  <2>6. IndexOK'
    BY <1>3, <1>4, <1>5, <1>6, <2>3, <2>4, <2>5, PlayTyped, SMTT(60) DEF IndexOK, InFlush
  <2>7. Rest' = Rest /\ Posns(self.pkt)' = Posns(self.pkt)
    BY <1>3, <1>4, <1>5 DEF Rest, Posns
  <2>8. PlanOK'
    BY <1>3, <1>4, <1>5, <2>2, <2>7 DEF PlanOK
  <2>9. QED
    BY <2>5, <2>6, <2>8
<1>9. QED
  BY <1>4, <1>5, <1>7, <1>8 DEF PlayInv

\* The loop of exec() takes a message, or ends.
LEMMA ScanPlay ==
  ASSUME TypeInv, PlayInv, Scan
  PROVE  PlayInv'
<1> DEFINE new == IF wr + 1 < MsgN THEN MsgTime(wr + 1, self.base) ELSE self.next
<1>1. /\ UNCHANGED <<fileVars, begMsg, endMsg, rd, plan, calm, wrong>>
      /\ pc = "scan" /\ pc' = "scan" /\ ~PastEnd /\ wr' = wr + 1
      /\ self' = [self EXCEPT !.cnt = self.cnt + 1, !.next = new]
  BY DEF Scan, planVars
<1> HIDE DEF new
<1>2. self'.pkt = self.pkt /\ self'.cnt = self.cnt + 1 /\ self'.lim = self.lim
  BY <1>1, PlayTyped DEF Locals
<1>3. /\ Unique(msgA)' /\ SetOK'
      /\ Lo' = Lo /\ Hi' = Hi /\ MsgN' = MsgN
      /\ \A i : Msg(i)' = Msg(i)
      /\ \A m : Posn(m)' = Posn(m)
  BY <1>1, FilesKept
<1>4. LocalsOK'
  BY <1>1, <1>2 DEF PlayInv, LocalsOK, Outside, InPoll
<1>5. enabled' = enabled
  BY <1>1 DEF fileVars
<1>6. ASSUME calm PROVE IndexOK' /\ PlanOK'
  <2>1. ~Off
    BY <1>1 DEF Off, InPoll
  <2>2. IndexOK /\ PlanOK
    BY <1>6, <2>1 DEF PlayInv
  <2>3. self.lim = Hi /\ self.cnt = wr - rd /\ wr <= Hi /\ Lo <= rd /\ rd <= wr
    BY <1>1, <2>2, PlayTyped, SMTT(60) DEF IndexOK, PastEnd
  <2>4. IndexOK'
    BY <1>1, <1>2, <1>3, <2>3, PlayTyped, SMTT(60) DEF IndexOK, InFlush
  <2>5. Rest' = Rest /\ Posns(self.pkt)' = Posns(self.pkt)
    BY <1>1, <1>2, <1>3, <1>5 DEF Rest, Posns
  <2>6. PlanOK'
    BY <1>1, <1>2, <1>3, <2>2, <2>5 DEF PlanOK
  <2>7. QED
    BY <2>4, <2>6
<1>7. QED
  BY <1>1, <1>3, <1>4, <1>6 DEF PlayInv

LEMMA ScannedPlay ==
  ASSUME TypeInv, PlayInv, Scanned \/ Abort
  PROVE  PlayInv'
<1>1. /\ UNCHANGED <<fileVars, nextVars, begMsg, endMsg, plan, calm, wrong>>
      /\ pc = "scan" /\ ~(InTime /\ ~PastEnd)
      /\ pc' \in {"pack", "sleep", "aborted"}
  BY DEF Scanned, Abort, planVars
<1>2. /\ self'.pkt = self.pkt /\ self'.cnt = self.cnt
      /\ pc' = "pack" \/ pc' = "aborted" \/ self.cnt = 0
  <2>1. CASE Scanned
    <3> DEFINE new == IF wr >= MsgN THEN MaxSleep ELSE Least(MaxSleep, self.next - self.pos)
    <3>1. self' = [self EXCEPT !.el = new] /\ (pc' = "pack" \/ ~(self.cnt > 0))
      BY <2>1 DEF Scanned
    <3> HIDE DEF new
    <3>2. QED
      BY <3>1, PlayTyped DEF Locals
  <2>2. CASE Abort
    BY <2>2 DEF Abort
  <2>3. QED
    BY <2>1, <2>2
<1>3. /\ Unique(msgA)' /\ SetOK'
      /\ Lo' = Lo /\ Hi' = Hi /\ MsgN' = MsgN
      /\ \A i : Msg(i)' = Msg(i)
      /\ \A m : Posn(m)' = Posn(m)
  BY <1>1, FilesKept
<1>4. UNCHANGED <<wr, rd, plan, calm, wrong, enabled, end>>
  BY <1>1 DEF nextVars, fileVars
<1>5. self.pkt = <<>>
  BY <1>1 DEF PlayInv, LocalsOK
<1>6. LocalsOK'
  BY <1>1, <1>2, <1>5 DEF LocalsOK, Outside, InPoll
<1>7. ASSUME calm PROVE ~wrong' /\ IndexOK' /\ PlanOK' /\ (pc' = "aborted" => DueAfterEnd')
  <2>1. ~Off
    BY <1>1 DEF Off, InPoll
  <2>2. IndexOK /\ PlanOK /\ ~wrong
    BY <1>7, <2>1 DEF PlayInv
  <2>3. /\ self.lim = Hi /\ self.cnt = wr - rd /\ wr <= Hi + 1 /\ Lo <= rd /\ rd <= wr
    BY <1>1, <2>2 DEF IndexOK
  <2>4. ASSUME pc' = "aborted" PROVE DueAfterEnd'
    <3>1. self' = self /\ wr < MsgN /\ self.next <= self.pos
      <4>1. Abort
        BY <2>4 DEF Scanned
      <4>2. QED
        BY <4>1, PlayTyped, SMTT(60) DEF Abort, Later
    <3>2. InTime
      <4>1. Ahead \in Nat
        BY MidiDeviceAssumption
      <4>2. QED
        BY <3>1, <4>1, PlayTyped, SMTT(60) DEF InTime
    <3>3. wr = Hi + 1
      BY <1>1, <2>3, <3>1, <3>2, PlayInts, SMTT(60) DEF PastEnd
    <3>4. end # None /\ wr = end + 1
      <4>1. end # None
        BY <3>1, <3>3, PlayInts DEF Hi
      <4>2. QED
        BY <3>3, <4>1 DEF Hi
    <3>5. QED
      BY <1>3, <1>4, <3>1, <3>4 DEF DueAfterEnd
  <2>5. IndexOK'
    <3>1. Len(self.pkt) = 0
      BY <1>5
    <3>2. QED
      BY <1>1, <1>2, <1>3, <1>4, <2>3, <3>1, PlayTyped DEF IndexOK, InFlush
  <2>6. Rest' = Rest /\ Posns(self.pkt)' = Posns(self.pkt)
    BY <1>2, <1>3, <1>4 DEF Rest, Posns
  <2>7. PlanOK'
    BY <1>2, <1>3, <1>4, <2>2, <2>6 DEF PlanOK
  <2>8. QED
    BY <1>1, <2>2, <2>4, <2>5, <2>7
<1>8. QED
  BY <1>1, <1>3, <1>4, <1>6, <1>7 DEF PlayInv

\* Message rd is put behind the packet, or its port is disabled.
LEMMA PackPlay ==
  ASSUME TypeInv, PlayInv, Pack
  PROVE  PlayInv'
<1> DEFINE m == Msg(rd)
           on == Msg(rd).port \in enabled
           pkt == self.pkt
           new == IF on THEN Append(pkt, m) ELSE pkt
<1>1. /\ UNCHANGED <<fileVars, wr, begMsg, endMsg, plan, calm, wrong>>
      /\ pc = "pack" /\ pc' = "pack" /\ MorePkt /\ rd' = rd + 1
      /\ self' = [self EXCEPT !.pkt = new]
  BY DEF Pack, planVars
<1>2. /\ Unique(msgA)' /\ SetOK'
      /\ Lo' = Lo /\ Hi' = Hi /\ MsgN' = MsgN
      /\ \A i : Msg(i)' = Msg(i)
      /\ \A k : Posn(k)' = Posn(k)
  BY <1>1, FilesKept
<1>3. rd \in 0 .. MsgN - 1
  <2>1. rd \in Int /\ wr \in Int /\ MsgN \in Nat /\ wr <= MsgN
    BY PlayInts
  <2>2. rd < wr /\ rd # None
    BY <1>1 DEF MorePkt, TypeInv, PlaceOK
  <2>3. None <= rd
    BY PlayTyped, <2>1 DEF TypeFile, None
  <2>4. QED
    BY <2>1, <2>2, <2>3 DEF None
<1>4. m \in FileMsgs /\ Posn(m) = rd
  BY <1>3, PlayTyped, MsgType, PosnIs DEF PlayInv
<1>5. enabled' = enabled
  BY <1>1 DEF fileVars
<1> HIDE DEF m
<1>6. /\ on => /\ Len(new) = Len(pkt) + 1 /\ DOMAIN new = 1 .. Len(pkt) + 1
               /\ \A j \in 1 .. Len(pkt) : new[j] = pkt[j]
               /\ new[Len(pkt) + 1] = m
      /\ ~on => new = pkt
  BY <1>4, PlayTyped, SMTT(60)
<1>7. self'.pkt = new /\ self'.cnt = self.cnt
  BY <1>1, PlayTyped DEF Locals
<1> HIDE DEF new, pkt
<1>8. LocalsOK'
  BY <1>1 DEF LocalsOK, Outside, InPoll
<1>9. ASSUME calm PROVE IndexOK' /\ PlanOK'
  <2>1. ~Off
    BY <1>1 DEF Off, InPoll
  <2>2. IndexOK /\ PlanOK
    BY <1>9, <2>1 DEF PlayInv
  <2>3. /\ wr <= Hi + 1 /\ wr - rd <= self.cnt - Len(pkt) /\ Lo <= rd /\ rd < wr
    BY <1>1, <2>2 DEF IndexOK, MorePkt, pkt
  <2>4. Len(new) \in Nat /\ Len(new) <= Len(pkt) + 1 /\ Len(pkt) \in Nat
    BY <1>6, PlayTyped, SMTT(60) DEF pkt
  <2>5. IndexOK'
    <3>1. rd \in Int /\ wr \in Int /\ Hi \in Int /\ Lo \in Int /\ self.cnt \in Int
      BY PlayTyped, SMTT(60)
    <3>2. Lo <= rd + 1 /\ rd + 1 <= wr /\ wr - (rd + 1) <= self.cnt - Len(new)
      BY <2>3, <2>4, <3>1
    <3>3. QED
      BY <1>1, <1>2, <1>7, <2>3, <3>2 DEF IndexOK, InFlush
  <2>6. /\ plan = Rest \cup Posns(pkt)
        /\ \A j \in DOMAIN pkt : Posn(pkt[j]) < rd
        /\ \A i, j \in DOMAIN pkt : i < j => Posn(pkt[i]) < Posn(pkt[j])
    BY <2>2 DEF PlanOK, pkt
  <2>7. Rest' = { i \in rd + 1 .. Hi : Msg(i).port \in enabled }
    BY <1>1, <1>2, <1>5 DEF Rest
  <2>8. Posns(self.pkt)' = Posns(new)
    BY <1>2, <1>7 DEF Posns
  <2>9. DOMAIN pkt = 1 .. Len(pkt) /\ \A j \in DOMAIN pkt : Posn(pkt[j]) \in Int
    <3>1. DOMAIN pkt = 1 .. Len(pkt)
      BY PlayTyped DEF pkt
    <3>2. \A k : Posn(k) \in Int
      BY PlayTyped, IndexInRange DEF Posn, TypeFile, None
    <3>3. QED
      BY <3>1, <3>2
  <2>10. PlanOK'
    <3>1. CASE on
      <4>1. Rest = Rest' \cup {rd}
        <5>1. \A i : i \in rd .. Hi <=> i \in rd + 1 .. Hi \/ i = rd
          <6>1. rd \in Int /\ wr \in Int /\ Hi \in Int /\ rd < wr /\ wr <= Hi + 1
            BY <2>3, PlayInts
          <6>2. rd <= Hi
            BY <6>1
          <6>3. QED
            BY <6>1, <6>2
        <5>2. QED
          BY <2>7, <3>1, <5>1 DEF Rest
      <4>2. Posns(new) = Posns(pkt) \cup {rd}
        <5>1. \A j \in DOMAIN new : j \in DOMAIN pkt \/ j = Len(pkt) + 1
          BY <1>6, <2>4, <2>9, <3>1
        <5>2. Len(pkt) + 1 \in DOMAIN new /\ DOMAIN pkt \subseteq DOMAIN new
          BY <1>6, <2>4, <2>9, <3>1
        <5>3. \A j \in DOMAIN pkt : new[j] = pkt[j]
          BY <1>6, <2>9, <3>1
        <5>4. Posn(new[Len(pkt) + 1]) = rd
          BY <1>4, <1>6, <3>1
        <5>5. QED
          BY <5>1, <5>2, <5>3, <5>4 DEF Posns
      <4>3. \A j \in DOMAIN new : Posn(new[j]) < rd + 1
        BY <1>3, <1>4, <1>6, <2>4, <2>6, <2>9, <3>1, SMTT(60)
      <4>4. \A i, j \in DOMAIN new : i < j => Posn(new[i]) < Posn(new[j])
        BY <1>3, <1>4, <1>6, <2>4, <2>6, <2>9, <3>1, SMTT(60)
      <4>5. QED
        BY <1>1, <1>2, <1>7, <2>6, <2>8, <4>1, <4>2, <4>3, <4>4 DEF PlanOK
    <3>2. CASE ~on
      <4>1. Rest = Rest'
        BY <2>7, <3>2, <1>3, PlayInts DEF Rest
      <4>2. \A j \in DOMAIN pkt : Posn(pkt[j]) < rd + 1
        BY <1>3, <2>6, <2>9
      <4>3. QED
        BY <1>1, <1>2, <1>6, <1>7, <2>6, <2>8, <3>2, <4>1, <4>2 DEF PlanOK
    <3>3. QED
      BY <3>1, <3>2
  <2>11. QED
    BY <2>5, <2>10
<1>10. QED
  BY <1>1, <1>2, <1>8, <1>9 DEF PlayInv

\* What waits in the packet is what is played next.
LEMMA SentInOrder ==
  ASSUME TypeInv, IndexOK, PlanOK
  PROVE  InOrder(self.pkt) /\ plan \ Posns(self.pkt) = Rest
<1>1. \A p \in Posns(self.pkt) : p < rd
  BY DEF PlanOK, Posns
<1>2. \A q \in Rest : q \in Int /\ rd <= q
  BY PlayTyped DEF Rest
<1>3. \A p \in Posns(self.pkt) : p \in Int
  <2>1. \A k : Posn(k) \in Int
    BY PlayTyped, IndexInRange DEF Posn, TypeFile, None
  <2>2. QED
    BY <2>1 DEF Posns
<1>4. \A p \in Posns(self.pkt), q \in Rest : p < q
  BY <1>1, <1>2, <1>3, PlayTyped, SMTT(60)
<1>5. plan \ Posns(self.pkt) = Rest
  BY <1>2, <1>3, <1>4 DEF PlanOK
<1>6. QED
  BY <1>4, <1>5 DEF InOrder, PlanOK

\* The packet is sent because the next message is of another port.
LEMMA FlushPlay ==
  ASSUME TypeInv, PlayInv, Flush
  PROVE  PlayInv'
<1> DEFINE s == [self EXCEPT !.pkt = <<>>, !.msg = Msg(rd), !.ret = "flushed"]
<1>1. /\ UNCHANGED <<fileVars, nextVars, begMsg, endMsg, calm>>
      /\ pc = "pack" /\ MorePkt /\ Msg(rd).port \in enabled
      /\ Call(self.pkt, s)
      /\ wrong' = (wrong \/ ~InOrder(self.pkt)) /\ plan' = plan \ Posns(self.pkt)
  BY DEF Flush, Played
<1>2. /\ Unique(msgA)' /\ SetOK'
      /\ Lo' = Lo /\ Hi' = Hi /\ MsgN' = MsgN
      /\ \A i : Msg(i)' = Msg(i)
      /\ \A k : Posn(k)' = Posn(k)
  BY <1>1, FilesKept
<1>3. rd \in 0 .. MsgN - 1
  <2>1. rd \in Int /\ wr \in Int /\ MsgN \in Nat /\ wr <= MsgN
    BY PlayInts
  <2>2. rd < wr /\ rd # None
    BY <1>1 DEF MorePkt, TypeInv, PlaceOK
  <2>3. None <= rd
    BY PlayTyped, <2>1 DEF TypeFile, None
  <2>4. QED
    BY <2>1, <2>2, <2>3 DEF None
<1>4. s \in Locals /\ s.pkt = <<>> /\ s.msg = Msg(rd) /\ s.ret = "flushed" /\ s.cnt = self.cnt
  <2>1. Msg(rd) \in FileMsgs /\ <<>> \in Seq(FileMsgs)
    BY <1>3, PlayTyped, MsgType
  <2>2. QED
    BY <2>1, PlayTyped DEF Locals
<1> HIDE DEF s
<1>5. /\ self'.pkt = <<>> /\ self'.cnt = self.cnt /\ self'.msg = Msg(rd)
      /\ (pc' = "cell" /\ self'.ret = "flushed") \/ pc' = "flushed"
  BY <1>1, <1>4, CallSame
<1>6. LocalsOK'
  BY <1>5 DEF LocalsOK, Outside, InPoll
<1>7. UNCHANGED <<wr, rd, calm, enabled>>
  BY <1>1 DEF fileVars, nextVars
<1>8. ASSUME calm PROVE ~wrong' /\ IndexOK' /\ PlanOK'
  <2>1. ~Off
    BY <1>1 DEF Off, InPoll
  <2>2. IndexOK /\ PlanOK /\ ~wrong
    BY <1>8, <2>1 DEF PlayInv
  <2>3. InOrder(self.pkt) /\ plan \ Posns(self.pkt) = Rest
    BY <2>2, SentInOrder
  <2>4. wr <= Hi + 1 /\ wr - rd <= self.cnt - Len(self.pkt) /\ Lo <= rd /\ rd < wr
    BY <1>1, <2>2 DEF IndexOK, MorePkt
  <2>5. IndexOK'
    <3>1. wr - rd <= self.cnt - 0
      BY <2>4, PlayInts, SMTT(60)
    <3>2. Len(self'.pkt) = 0
      BY <1>5
    <3>3. rd <= wr
      BY <2>4, PlayInts
    <3>4. pc' \notin {"scan", "pack"} /\ InFlush'
      BY <1>5 DEF InFlush
    <3>5. self'.msg = Msg(rd)' /\ self'.msg.port \in enabled'
      BY <1>1, <1>2, <1>5, <1>7
    <3>6. QED
      BY <1>2, <1>5, <1>7, <2>4, <3>1, <3>2, <3>3, <3>4, <3>5 DEF IndexOK
  <2>6. Rest' = Rest /\ Posns(self.pkt)' = {}
    BY <1>2, <1>5, <1>7 DEF Rest, Posns
  <2>7. PlanOK'
    BY <1>1, <1>5, <2>3, <2>6 DEF PlanOK
  <2>8. QED
    BY <1>1, <2>2, <2>3, <2>5, <2>7
<1>9. QED
  BY <1>1, <1>2, <1>5, <1>6, <1>8 DEF PlayInv

\* The message that did not fit begins the next packet.
LEMMA FlushedPlay ==
  ASSUME TypeInv, PlayInv, Flushed
  PROVE  PlayInv'
<1>1. /\ UNCHANGED <<fileVars, wr, begMsg, endMsg, plan, calm, wrong>>
      /\ pc = "flushed" /\ pc' = "pack" /\ rd' = rd + 1
      /\ self' = [self EXCEPT !.pkt = <<self.msg>>, !.msg = NoMsg]
  BY DEF Flushed, planVars
<1>2. /\ Unique(msgA)' /\ SetOK'
      /\ Lo' = Lo /\ Hi' = Hi /\ MsgN' = MsgN
      /\ \A i : Msg(i)' = Msg(i)
      /\ \A k : Posn(k)' = Posn(k)
  BY <1>1, FilesKept
<1>3. self'.pkt = <<self.msg>> /\ self'.cnt = self.cnt
  BY <1>1, PlayTyped DEF Locals
<1>4. LocalsOK'
  BY <1>1 DEF LocalsOK, Outside, InPoll
<1>5. enabled' = enabled
  BY <1>1 DEF fileVars
<1>6. ASSUME calm PROVE IndexOK' /\ PlanOK'
  <2>1. ~Off /\ InFlush /\ self.pkt = <<>>
    BY <1>1 DEF Off, InPoll, InFlush, PlayInv, LocalsOK
  <2>2. IndexOK /\ PlanOK
    BY <1>6, <2>1 DEF PlayInv
  <2>3. /\ wr <= Hi + 1 /\ wr - rd <= self.cnt - Len(self.pkt) /\ Lo <= rd /\ rd < wr
        /\ self.msg = Msg(rd) /\ Msg(rd).port \in enabled
    BY <2>1, <2>2 DEF IndexOK
  <2>4. rd \in 0 .. MsgN - 1 /\ Hi \in Int /\ rd <= Hi /\ Len(self.pkt) = 0
    <3>1. /\ rd \in Int /\ wr \in Int /\ Lo \in Nat /\ Hi \in Int /\ MsgN \in Nat
          /\ Hi <= MsgN - 1
      BY PlayInts
    <3>2. Len(self.pkt) = 0
      BY <2>1
    <3>3. QED
      BY <2>3, <3>1, <3>2
  <2>5. Posn(self.msg) = rd
    BY <2>3, <2>4, PlayTyped, PosnIs DEF PlayInv
  <2>6. IndexOK'
    <3>1. Lo <= rd + 1 /\ rd + 1 <= wr /\ wr - (rd + 1) <= self.cnt - 1
      <4>1. rd \in Int /\ wr \in Int /\ Lo \in Nat /\ self.cnt \in Nat
        BY PlayInts
      <4>2. wr - rd <= self.cnt /\ Lo <= rd /\ rd < wr
        BY <2>3, <2>4, <4>1
      <4>3. QED
        BY <4>1, <4>2
    <3>2. Len(self'.pkt) = 1
      BY <1>3
    <3>3. QED
      BY <1>1, <1>2, <1>3, <2>3, <3>1, <3>2 DEF IndexOK, InFlush
  <2>7. Rest' = { i \in rd + 1 .. Hi : Msg(i).port \in enabled }
    BY <1>1, <1>2, <1>5 DEF Rest
  <2>8. Rest = Rest' \cup {rd}
    <3>1. \A i : i \in rd .. Hi <=> i \in rd + 1 .. Hi \/ i = rd
      BY <2>4
    <3>2. QED
      BY <2>3, <2>7, <3>1 DEF Rest
  <2>9. DOMAIN <<self.msg>> = {1} /\ <<self.msg>>[1] = self.msg
    OBVIOUS
  <2>10. Posns(self.pkt) = {} /\ Posns(self.pkt)' = {rd}
    <3>1. Posns(self.pkt) = {}
      BY <2>1 DEF Posns
    <3>2. Posns(self.pkt)' = { Posn(<<self.msg>>[j]) : j \in DOMAIN <<self.msg>> }
      BY <1>2, <1>3 DEF Posns
    <3>3. QED
      BY <2>5, <2>9, <3>1, <3>2
  <2>11. plan' = Rest' \cup Posns(self.pkt)'
    BY <1>1, <2>2, <2>8, <2>10 DEF PlanOK
  <2>12. PlanOK'
    <3>1. rd < rd + 1
      BY <2>4
    <3>2. \A j \in DOMAIN self'.pkt : Posn(self.pkt[j])' < rd'
      BY <1>1, <1>2, <1>3, <2>5, <2>9, <3>1
    <3>3. \A i, j \in DOMAIN self'.pkt : ~(i < j)
      BY <1>3, <2>9
    <3>4. QED
      BY <2>11, <3>2, <3>3 DEF PlanOK
  <2>13. QED
    BY <2>6, <2>12
<1>7. QED
  BY <1>1, <1>2, <1>4, <1>6 DEF PlayInv

\* No message is left for the packet.
LEMMA PackedPlay ==
  ASSUME TypeInv, PlayInv, Packed
  PROVE  PlayInv'
<1> DEFINE s == [self EXCEPT !.pkt = <<>>, !.ret = "sleep"]
<1>1. /\ UNCHANGED <<fileVars, nextVars, begMsg, endMsg, calm>>
      /\ pc = "pack" /\ ~MorePkt
  BY DEF Packed, Played, planVars
<1>2. /\ Unique(msgA)' /\ SetOK'
      /\ Lo' = Lo /\ Hi' = Hi /\ MsgN' = MsgN
      /\ \A i : Msg(i)' = Msg(i)
      /\ \A k : Posn(k)' = Posn(k)
  BY <1>1, FilesKept
<1>3. s \in Locals /\ s.pkt = <<>> /\ s.ret = "sleep"
  <2>1. <<>> \in Seq(FileMsgs)
    OBVIOUS
  <2>2. QED
    BY <2>1, PlayTyped DEF Locals
<1>4. /\ self'.pkt = <<>>
      /\ (pc' = "cell" /\ self'.ret = "sleep") \/ pc' = "sleep"
      /\ plan' = plan \ Posns(self.pkt)
      /\ wrong' => wrong \/ ~InOrder(self.pkt)
  <2>1. CASE self.pkt = <<>>
    <3>1. pc' = "sleep" /\ self' = self /\ plan' = plan /\ wrong' = wrong
      BY <2>1 DEF Packed, planVars
    <3>2. Posns(self.pkt) = {}
      BY <2>1 DEF Posns
    <3>3. QED
      BY <2>1, <3>1, <3>2
  <2>2. CASE self.pkt # <<>>
    <3>1. /\ Call(self.pkt, s)
          /\ wrong' = (wrong \/ ~InOrder(self.pkt)) /\ plan' = plan \ Posns(self.pkt)
      BY <2>2 DEF Packed, Played
    <3> HIDE DEF s
    <3>2. /\ self'.pkt = <<>>
          /\ (pc' = "cell" /\ self'.ret = "sleep") \/ pc' = "sleep"
      BY <1>3, <3>1, CallSame
    <3>3. QED
      BY <3>1, <3>2
  <2>3. QED
    BY <2>1, <2>2
<1>5. LocalsOK'
  BY <1>4 DEF LocalsOK, Outside, InPoll
<1>6. UNCHANGED <<wr, rd, calm, enabled>>
  BY <1>1 DEF fileVars, nextVars
<1>7. ASSUME calm PROVE ~wrong' /\ IndexOK' /\ PlanOK'
  <2>1. ~Off
    BY <1>1 DEF Off, InPoll
  <2>2. IndexOK /\ PlanOK /\ ~wrong
    BY <1>7, <2>1 DEF PlayInv
  <2>3. InOrder(self.pkt) /\ plan \ Posns(self.pkt) = Rest
    BY <2>2, SentInOrder
  <2>4. wr - rd <= self.cnt - Len(self.pkt) /\ Lo <= rd /\ rd <= wr
    BY <1>1, <2>2 DEF IndexOK
  <2>5. rd = wr
    <3>1. rd \in Int /\ wr \in Int /\ self.cnt \in Nat /\ Len(self.pkt) \in Nat
      BY PlayInts
    <3>2. ~(rd < wr) \/ ~(Len(self.pkt) < self.cnt)
      BY <1>1 DEF MorePkt
    <3>3. QED
      BY <2>4, <3>1, <3>2
  <2>6. IndexOK'
    BY <1>2, <1>4, <1>6, <2>4, <2>5 DEF IndexOK, InFlush
  <2>7. Rest' = Rest /\ Posns(self.pkt)' = {}
    BY <1>2, <1>4, <1>6 DEF Rest, Posns
  <2>8. PlanOK'
    BY <1>4, <2>3, <2>7 DEF PlanOK
  <2>9. QED
    BY <1>4, <2>2, <2>3, <2>6, <2>8
<1>8. QED
  BY <1>1, <1>2, <1>4, <1>5, <1>7 DEF PlayInv

\* What is to be played is what lies between beg and end, wherever the files
\* that were loaded since have moved it.
LEMMA PlanIs ==
  ASSUME TypeInv, Unique(msgA), SetOK
  PROVE  Plan = { i \in Lo .. Hi : Msg(i).port \in enabled }
<1> DEFINE b == IF begMsg = NoMsg THEN 0 ELSE IndexIn(msgA, begMsg.port, begMsg.idx)
           e == IF endMsg = NoMsg THEN MsgN - 1 ELSE IndexIn(msgA, endMsg.port, endMsg.idx)
<1>1. \A i \in 0 .. MsgN - 1 : IndexIn(msgA, Msg(i).port, Msg(i).idx) = i
  BY PlayTyped, PosnIs DEF Posn
<1>2. b = Lo
  BY <1>1, PlayTyped, SMTT(60) DEF SetOK, Lo, None
<1>3. e = Hi
  BY <1>1, PlayTyped, SMTT(60) DEF SetOK, Hi, None
<1>4. Plan = { i \in b .. e : Msg(i).port \in enabled }
  BY DEF Plan
<1> HIDE DEF b, e
<1>5. QED
  BY <1>2, <1>3, <1>4

LEMMA StartPlay ==
  ASSUME TypeInv, PlayInv, Start
  PROVE  PlayInv'
<1>1. /\ UNCHANGED <<fileVars, begMsg, endMsg, pc, self>>
      /\ wr' = Lo /\ rd' = Lo /\ state' = "playing"
      /\ plan' = Plan /\ calm' = InPoll /\ wrong' = FALSE
  BY DEF Start, Lo
<1>2. /\ Unique(msgA)' /\ SetOK'
      /\ Lo' = Lo /\ Hi' = Hi /\ MsgN' = MsgN
      /\ \A i : Msg(i)' = Msg(i)
  BY <1>1, FilesKept
<1>3. LocalsOK'
  BY <1>1 DEF PlayInv, LocalsOK, Outside, InPoll
<1>4. enabled' = enabled
  BY <1>1 DEF fileVars
<1>5. ASSUME InPoll PROVE IndexOK' /\ PlanOK'
  <2>1. pc' \notin {"scan", "pack"} /\ ~InFlush' /\ self.pkt = <<>>
    BY <1>1, <1>5 DEF InPoll, InFlush, PlayInv, LocalsOK
  <2>2. IndexOK'
    BY <1>1, <1>2, <2>1, PlayTyped DEF IndexOK
  <2>3. Rest' = { i \in Lo .. Hi : Msg(i).port \in enabled }
    BY <1>1, <1>2, <1>4 DEF Rest
  <2>4. plan' = Rest' /\ Posns(self.pkt)' = {}
    BY <1>1, <2>1, <2>3, PlanIs DEF PlayInv, Posns
  <2>5. PlanOK'
    BY <1>1, <2>1, <2>4 DEF PlanOK
  <2>6. QED
    BY <2>2, <2>5
<1>6. pc' # "aborted"
  BY <1>1 DEF Start, Alive
<1>7. QED
  BY <1>1, <1>2, <1>3, <1>5, <1>6 DEF PlayInv

\* A call that changes what is to be played, or a load.
LEMMA DisturbsPlay ==
  ASSUME PlayInv, Disturbs, UNCHANGED <<state, pc, self, wrong>>, Unique(msgA)', SetOK'
  PROVE  PlayInv'
<1>1. LocalsOK'
  BY DEF PlayInv, LocalsOK, Outside, InPoll
<1>2. Off' <=> Off
  BY DEF Off, InPoll
<1>3. (calm' => calm /\ Off) /\ pc' # "aborted"
  BY DEF Disturbs, Off, Alive
<1>4. QED
  BY <1>1, <1>2, <1>3 DEF PlayInv

\* A load that meets the thread.
LEMMA UnderPlay ==
  ASSUME PlayInv, LoadUnder
  PROVE  PlayInv'
<1>1. UNCHANGED <<fileVars, begMsg, endMsg, wrong>> /\ ~calm' /\ pc' = "undefined" /\ self' = Idle
  BY DEF LoadUnder, Disturbs, InPoll
<1>2. Unique(msgA)' /\ SetOK'
  BY <1>1, FilesKept
<1>3. LocalsOK'
  BY <1>1 DEF LocalsOK, Idle
<1>4. QED
  BY <1>1, <1>2, <1>3 DEF PlayInv

\* A load that fails.
LEMMA FailsPlay ==
  ASSUME TypeInv, PlayInv, NEW port \in Ports, LoadFails(port)
  PROVE  PlayInv'
<1>1. /\ UNCHANGED <<msgA, state, pc, self, wrong>> /\ Disturbs /\ loaded' = loaded \ {port}
      /\ beg' = IF beg # None /\ Msg(beg).port = port THEN None ELSE beg
      /\ end' = IF end # None /\ Msg(end).port = port THEN None ELSE end
      /\ begMsg' = IF begMsg # NoMsg /\ begMsg.port = port THEN NoMsg ELSE begMsg
      /\ endMsg' = IF endMsg # NoMsg /\ endMsg.port = port THEN NoMsg ELSE endMsg
  BY DEF LoadFails, Forget, playVars
<1>2. \A i : Msg(i)' = Msg(i)
  BY <1>1 DEF Msg
<1>3. Unique(msgA)' /\ SetOK'
  BY <1>1, <1>2 DEF PlayInv, Unique, SetOK
<1>4. QED
  BY <1>1, <1>3, DisturbsPlay

LEMMA SettingPlay ==
  ASSUME TypeInv, PlayInv,
         \/ \E port \in Ports, on \in BOOLEAN : PortEnable(port, on)
         \/ \E i \in 0 .. (MsgN - 1) : SeekToMsg(i) \/ SetEndMsg(i)
  PROVE  PlayInv'
<1>1. ASSUME NEW port \in Ports, NEW on \in BOOLEAN, PortEnable(port, on) PROVE PlayInv'
  <2>1. UNCHANGED <<msgA, loaded, beg, end, begMsg, endMsg, state, pc, self, wrong>> /\ Disturbs
    BY <1>1 DEF PortEnable, playVars
  <2>2. Unique(msgA)' /\ SetOK'
    BY <2>1 DEF PlayInv, Unique, SetOK, Msg
  <2>3. QED
    BY <2>1, <2>2, DisturbsPlay
<1>2. \A i \in 0 .. (MsgN - 1) : Msg(i) # NoMsg /\ i # None
  <2>1. NoMsg \notin FileMsgs
    BY MidiDeviceAssumption DEF FileMsgs
  <2>2. QED
    BY <2>1, PlayTyped, MsgType, SMTT(60) DEF None
<1>3. ASSUME NEW i \in 0 .. (MsgN - 1), SeekToMsg(i) PROVE PlayInv'
  <2>1. /\ UNCHANGED <<msgA, loaded, end, endMsg, state, pc, self, wrong>> /\ Disturbs
        /\ beg' = i /\ begMsg' = Msg(i) /\ Msg(i).port \in loaded
    BY <1>3 DEF SeekToMsg, playVars
  <2>2. Unique(msgA)' /\ SetOK'
    BY <1>2, <2>1 DEF PlayInv, Unique, SetOK, Msg
  <2>3. QED
    BY <2>1, <2>2, DisturbsPlay
<1>4. ASSUME NEW i \in 0 .. (MsgN - 1), SetEndMsg(i) PROVE PlayInv'
  <2>1. /\ UNCHANGED <<msgA, loaded, beg, begMsg, state, pc, self, wrong>> /\ Disturbs
        /\ end' = i /\ endMsg' = Msg(i) /\ Msg(i).port \in loaded
    BY <1>4 DEF SetEndMsg, playVars
  <2>2. Unique(msgA)' /\ SetOK'
    BY <1>2, <2>1 DEF PlayInv, Unique, SetOK, Msg
  <2>3. QED
    BY <2>1, <2>2, DisturbsPlay
<1>5. QED
  BY <1>1, <1>3, <1>4

LEMMA LoadPlay ==
  ASSUME TypeInv, PlayInv, NEW port \in Ports, NEW song \in Songs[port], Load(port, song)
  PROVE  PlayInv'
<1>1. PICK A \in Sorted(Kept(port) \cup Messages(port, song)) :
        msgA' = A /\ beg' = Restored(beg, port, A) /\ end' = Restored(end, port, A)
  BY DEF Load, Kept
<1>2. /\ begMsg' = IF begMsg # NoMsg /\ begMsg.port = port THEN NoMsg ELSE begMsg
      /\ endMsg' = IF endMsg # NoMsg /\ endMsg.port = port THEN NoMsg ELSE endMsg
      /\ Disturbs /\ UNCHANGED <<state, pc, self, wrong>> /\ loaded' = loaded \cup {port}
  BY DEF Load, Forget, playVars
<1>3. Unique(A) /\ \A i \in 0 .. MsgN - 1 : Msg(i).port # port /\ Msg(i).port \in loaded =>
        Restored(i, port, A) # None /\ A[Restored(i, port, A) + 1] = Msg(i)
  BY PlayTyped, LoadedUnique DEF PlayInv
<1>4. \A i : Msg(i)' = A[i + 1]
  BY <1>1 DEF Msg
<1>5. \A i : i = None \/ Msg(i).port = port => Restored(i, port, A) = None
  BY DEF Restored
<1>6. /\ begMsg' = NoMsg <=> beg' = None
      /\ beg' # None => A[beg' + 1] = begMsg' /\ begMsg'.port \in loaded'
  <2>1. beg = None \/ beg \in 0 .. MsgN - 1
    BY PlayTyped DEF None
  <2>2. CASE beg = None \/ Msg(beg).port = port
    BY <1>1, <1>2, <1>5, <2>2 DEF PlayInv, SetOK
  <2>3. CASE beg # None /\ Msg(beg).port # port
    BY <1>1, <1>2, <1>3, <2>1, <2>3 DEF PlayInv, SetOK
  <2>4. QED
    BY <2>2, <2>3
<1>7. /\ endMsg' = NoMsg <=> end' = None
      /\ end' # None => A[end' + 1] = endMsg' /\ endMsg'.port \in loaded'
  <2>1. end = None \/ end \in 0 .. MsgN - 1
    BY PlayTyped DEF None
  <2>2. CASE end = None \/ Msg(end).port = port
    BY <1>1, <1>2, <1>5, <2>2 DEF PlayInv, SetOK
  <2>3. CASE end # None /\ Msg(end).port # port
    BY <1>1, <1>2, <1>3, <2>1, <2>3 DEF PlayInv, SetOK
  <2>4. QED
    BY <2>2, <2>3
<1>8. Unique(msgA)' /\ SetOK'
  BY <1>1, <1>3, <1>4, <1>6, <1>7 DEF SetOK, Unique
<1>9. QED
  BY <1>2, <1>8, DisturbsPlay

LEMMA PlayAlways == Spec => [](TypeInv /\ PlayInv)
<1>1. Init => TypeInv /\ PlayInv
  <2> SUFFICES ASSUME Init PROVE PlayInv
    BY InitTypes
  <2>1. /\ msgA = <<>> /\ beg = None /\ end = None /\ begMsg = NoMsg /\ endMsg = NoMsg
        /\ self = Idle /\ pc = "look" /\ state = "stopped" /\ ~wrong
    BY DEF Init
  <2>2. Unique(msgA) /\ SetOK
    BY <2>1 DEF Unique, SetOK
  <2>3. LocalsOK /\ Off
    BY <2>1 DEF LocalsOK, Off, InPoll, Idle
  <2>4. QED
    BY <2>1, <2>2, <2>3 DEF PlayInv
<1>2. TypeInv /\ [Next]_vars => TypeInv'
  BY TypeStep
<1>3. TypeInv /\ PlayInv /\ [Next]_vars => PlayInv'
  <2> SUFFICES ASSUME TypeInv, PlayInv, [Next]_vars PROVE PlayInv'
    OBVIOUS
  <2>1. CASE \/ Look \/ Time \/ Wake \/ (\E k \in Live : Input(k)) \/ Cell \/ Store
             \/ GetBuffer \/ ClearBuffer \/ Tick \/ Stop \/ Pause \/ Unpause \/ UNCHANGED vars
    BY <2>1, QuietPlay
  <2>2. CASE Eof \/ Sleep \/ Exec \/ Scan \/ Scanned \/ Abort
    BY <2>2, LeavePlay, ExecPlay, ScanPlay, ScannedPlay
  <2>3. CASE Pack \/ Flush \/ Flushed \/ Packed
    BY <2>3, PackPlay, FlushPlay, FlushedPlay, PackedPlay
  <2>4. CASE \/ Start
             \/ \E port \in Ports : \E song \in Songs[port] : Load(port, song)
             \/ LoadUnder
             \/ \E port \in Ports : LoadFails(port)
             \/ \E port \in Ports, on \in BOOLEAN : PortEnable(port, on)
             \/ \E i \in 0 .. (MsgN - 1) : SeekToMsg(i) \/ SetEndMsg(i)
    BY <2>4, StartPlay, LoadPlay, UnderPlay, FailsPlay, SettingPlay
  <2>5. QED
    BY <2>1, <2>2, <2>3, <2>4 DEF Next, Run
<1>4. QED
  BY <1>1, <1>2, <1>3, PTL DEF Spec

\* PlaysInOrderAlways: for any files, of any length and with any number of messages
\* of the same time, as long as the last start() did not meet the thread in exec()
\* and no load, seek, end or enabling was called since while the device was not
\* stopped (calm): what leaves after start() are the messages that were set to be
\* played, in order, each once, whatever the thread and the audio thread do.  No
\* assertion fails unless a last message is set and the one after it is due.
THEOREM PlaysInOrderAlways == Spec => []PlaysInOrder
<1>1. PlayInv => PlaysInOrder
  BY DEF PlayInv, PlaysInOrder
<1>2. QED
  BY <1>1, PlayAlways, PTL

------------------------------------------------------------------------------
(* Nothing is left out.  That all messages are played in the end is a         *)
(* question of liveness; what it rests on is not: between two rounds of        *)
(* exec(), what is still to be played is what exec() will find from wr on, and *)
(* as long as there is any, exec() does not take the array for played, and the *)
(* unsigned time to the next message has not wrapped: it comes due.            *)

NothingLeftOut ==
  calm /\ Outside /\ ~Off =>
    /\ plan = { i \in wr .. Hi : Msg(i).port \in enabled }
    /\ plan # {} => ~AtEnd /\ MsgTime(wr, Lo) <= Top

\* The array is in order of time.
InTimeOrder(A) == \A i, j \in DOMAIN A : i <= j => A[i].t <= A[j].t

\* It is enough that each message is no later than the next one.
LEMMA SortedInTime ==
  ASSUME NEW A \in Seq(FileMsgs), \A i \in 2 .. Len(A) : A[i - 1].t <= A[i].t
  PROVE  InTimeOrder(A)
<1>1. DOMAIN A = 1 .. Len(A) /\ Len(A) \in Nat
  OBVIOUS
<1>2. \A i \in DOMAIN A : A[i].t \in Nat
  <2>1. \A i \in DOMAIN A : A[i] \in FileMsgs
    BY <1>1, ElementOf
  <2>2. \A m \in FileMsgs : m.t \in Nat
    BY MidiDeviceAssumption DEF FileMsgs
  <2>3. QED
    BY <2>1, <2>2
<1>3. SUFFICES ASSUME NEW i \in DOMAIN A, NEW k \in DOMAIN A, i <= k, ~(A[i].t <= A[k].t)
               PROVE  FALSE
  BY DEF InTimeOrder
<1> DEFINE T == { j \in DOMAIN A : i <= j /\ ~(A[i].t <= A[j].t) }
           R == { ss \in Nat \X Nat : ss[1] < ss[2] }
<1>4. IsWellFoundedOn(R, Nat)
  BY NatLessThanWellFounded, Zenon DEF OpToRel
<1>5. T \subseteq Nat /\ T # {}
  BY <1>1, <1>3
<1> HIDE DEF R, T
<1>6. PICK j \in T : \A y \in T : ~ (<<y, j>> \in R)
  BY <1>4, <1>5, WFMin
<1>7. j \in DOMAIN A /\ i <= j /\ ~(A[i].t <= A[j].t)
  BY DEF T
<1>8. i < j
  <2>1. i # j
    BY <1>2, <1>7
  <2>2. QED
    BY <1>1, <1>7, <2>1
<1>9. j \in 2 .. Len(A) /\ j - 1 \in DOMAIN A /\ i <= j - 1 /\ j - 1 \in Nat /\ j \in Nat
  BY <1>1, <1>7, <1>8
<1>10. A[j - 1].t <= A[j].t
  BY <1>9
<1>11. ~(A[i].t <= A[j - 1].t)
  BY <1>2, <1>7, <1>9, <1>10, SMTT(60)
<1>12. j - 1 \in T
  BY <1>9, <1>11 DEF T
<1>13. <<j - 1, j>> \in R
  BY <1>9 DEF R
<1>14. QED
  BY <1>6, <1>12, <1>13

LEMMA TimeOrderStep ==
  ASSUME TypeInv, InTimeOrder(msgA), [Next]_vars
  PROVE  InTimeOrder(msgA)'
<1>1. CASE UNCHANGED msgA
  BY <1>1 DEF InTimeOrder
<1>2. ASSUME NEW port \in Ports, NEW song \in Songs[port], Load(port, song)
      PROVE  InTimeOrder(msgA)'
  <2>1. PICK A \in Sorted(Kept(port) \cup Messages(port, song)) :
          msgA' = A
    BY <1>2 DEF Load, Kept
  <2>2. A \in Seq(FileMsgs)
    BY LoadedType DEF TypeInv, TypeOK
  <2>3. \A i \in 2 .. Len(A) : A[i - 1].t <= A[i].t
    BY DEF Sorted
  <2>4. InTimeOrder(A)
    BY <2>2, <2>3, SortedInTime
  <2>5. QED
    BY <2>1, <2>4
<1>3. CASE Run
  BY <1>1, <1>3 DEF Run, Look, Time, Eof, Exec, Scan, Scanned, Abort, Pack, Flush, Flushed, Packed,
     Sleep, Wake, Input, Cell, Store, fileVars
<1>4. CASE Tick \/ GetBuffer \/ ClearBuffer \/ Start \/ Stop \/ Pause \/ Unpause \/ UNCHANGED vars
  BY <1>1, <1>4 DEF Tick, GetBuffer, ClearBuffer, Start, Stop, Pause, Unpause, vars, fileVars
<1>5. ASSUME NEW port \in Ports, NEW on \in BOOLEAN, PortEnable(port, on) PROVE InTimeOrder(msgA)'
  BY <1>1, <1>5 DEF PortEnable
<1>6. ASSUME NEW i \in 0 .. (MsgN - 1), SeekToMsg(i) \/ SetEndMsg(i) PROVE InTimeOrder(msgA)'
  BY <1>1, <1>6 DEF SeekToMsg, SetEndMsg
<1>7. ASSUME LoadUnder \/ \E port \in Ports : LoadFails(port) PROVE InTimeOrder(msgA)'
  BY <1>1, <1>7 DEF LoadUnder, LoadFails, fileVars
<1>8. QED
  BY <1>2, <1>3, <1>4, <1>5, <1>6, <1>7 DEF Next

\* Between two rounds of exec(), what is still to be played is what exec() will
\* find; while there is any it goes on, and the next message comes due.
THEOREM NothingLeftOutAlways == Spec => []NothingLeftOut
<1>1. ASSUME Init PROVE InTimeOrder(msgA)
  BY <1>1 DEF Init, InTimeOrder
<1>2. ASSUME TypeInv, PlayInv, InTimeOrder(msgA) PROVE NothingLeftOut
  <2> SUFFICES ASSUME calm, Outside, ~Off
               PROVE  /\ plan = { i \in wr .. Hi : Msg(i).port \in enabled }
                      /\ plan # {} => ~AtEnd /\ MsgTime(wr, Lo) <= Top
    BY DEF NothingLeftOut
  <2>1. IndexOK /\ PlanOK /\ LocalsOK
    BY <1>2 DEF PlayInv
  <2>2. pc \notin {"scan", "pack", "flushed", "sleep", "aborted"} /\ ~InFlush
    BY DEF Outside, InPoll, InFlush
  <2>3. Lo <= rd /\ rd = wr /\ self.pkt = <<>>
    BY <2>1, <2>2 DEF IndexOK, LocalsOK
  <2>4. Posns(self.pkt) = {}
    BY <2>3 DEF Posns
  <2>5. plan = { i \in wr .. Hi : Msg(i).port \in enabled }
    BY <2>1, <2>3, <2>4 DEF PlanOK, Rest
  <2>6. ASSUME plan # {} PROVE ~AtEnd /\ MsgTime(wr, Lo) <= Top
    <3>1. MsgN \in Nat /\ wr \in Int /\ Lo \in Nat /\ Hi \in Int /\ Hi <= MsgN - 1
      BY <1>2, PlayInts
    <3>2. wr <= Hi
      BY <2>5, <2>6, <3>1
    <3>3. ~AtEnd
      <4>1. end # None => Hi = end
        BY DEF Hi
      <4>2. wr # None /\ ~(wr >= MsgN)
        BY <2>3, <3>1, <3>2 DEF None
      <4>3. ~(end # None /\ wr > end)
        BY <3>1, <3>2, <4>1
      <4>4. QED
        BY <4>2, <4>3 DEF AtEnd
    <3>4. /\ wr + 1 \in DOMAIN msgA /\ Lo + 1 \in DOMAIN msgA /\ Lo + 1 <= wr + 1
          /\ wr \in 0 .. MsgN - 1 /\ Lo \in 0 .. MsgN - 1
      <4>1. DOMAIN msgA = 1 .. MsgN
        BY <1>2 DEF TypeInv, TypeOK, TypeFile, MsgN
      <4>2. QED
        BY <2>3, <3>1, <3>2, <4>1
    <3>5. Msg(Lo).t <= Msg(wr).t
      BY <1>2, <3>4 DEF InTimeOrder, Msg
    <3>6. Msg(Lo) \in FileMsgs /\ Msg(wr) \in FileMsgs
      BY <1>2, <3>4, MsgType DEF TypeInv, TypeOK
    <3>7. Msg(Lo).t \in 0 .. Top /\ Msg(wr).t \in 0 .. Top /\ Top \in Nat
      BY <3>6, MidiDeviceAssumption DEF FileMsgs
    <3>8. MsgTime(wr, Lo) <= Top
      BY <3>5, <3>7 DEF MsgTime
    <3>9. QED
      BY <3>3, <3>8
  <2>7. QED
    BY <2>5, <2>6
<1>3. QED
  BY <1>1, <1>2, PlayAlways, TimeOrderStep, PTL DEF Spec
=============================================================================
