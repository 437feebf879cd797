-------------------------- MODULE MidiParserProofs --------------------------
(* Proofs about MidiParser, for every buffer and every size of a message.   *)
EXTENDS MidiParser, TLAPS

Cell == [item : Items, at : 1 .. MsgN]

Fields == {"state", "status", "data0", "dataCnt", "dataIdx", "buf", "msgCnt",
           "out", "failed"}

\* A parser in which no assertion failed.
Sound(s) ==
  /\ DOMAIN s = Fields
  /\ s.state \in {"status", "data", "statusOrData", "expectEOX"}
  /\ s.data0 \in Data \cup {Unused}
  /\ s.buf \in Seq(Cell) /\ Len(s.buf) <= BufN
  /\ s.msgCnt \in Nat
  /\ s.failed = FALSE

\* What bytes a sysex message left in the buffer leave room for a message.
Roomy(s) == s.msgCnt = 0 => Len(s.buf) <= BufN - MsgN

\* None is left when its end came.
NoSysEx(s) == s.msgCnt = 0 => s.buf = <<>>

\* Inside one it has no messages, and room for a byte.
SysExRoom(s) == s.msgCnt = 0 /\ Len(s.buf) < BufN

\* Where the next data byte belongs.
DataGood(s) ==
  s.state \in {"data", "statusOrData"} =>
    /\ s.status \in {"note", "pgm"} /\ s.dataCnt = ByteCount(s.status)
    /\ \/ s.dataIdx = 0
       \/ s.dataIdx = 1 /\ s.dataCnt = 2 /\ s.state = "data"

\* What holds of the parser after each byte.
Good(s) ==
  /\ Sound(s)
  /\ s.state = "expectEOX" => SysExRoom(s)
  /\ s.state # "expectEOX" => Roomy(s)
  /\ DataGood(s)

------------------------------------------------------------------------------
(* The buffer *)

LEMMA MsgType ==
  ASSUME NEW st \in Plain \cup {"sysex", "garbage"}, NEW a \in Bytes \cup {Unused},
         NEW b \in Data \cup {Unused}
  PROVE  Msg(st, a, b) \in Items
  BY DEF Items

LEMMA CellsType ==
  ASSUME NEW m \in Items
  PROVE  Cells(m) \in Seq(Cell) /\ Len(Cells(m)) = MsgN
<1>1. \A i \in 1 .. MsgN : [item |-> m, at |-> i] \in Cell
  BY DEF Cell
<1>2. QED
  BY <1>1, MidiParserAssumption DEF Cells

LEMMA ConcatType ==
  ASSUME NEW S, NEW s \in Seq(S), NEW t \in Seq(S)
  PROVE  s \o t \in Seq(S) /\ Len(s \o t) = Len(s) + Len(t)
  OBVIOUS

LEMMA EmptyRoomy ==
  ASSUME NEW s, NoSysEx(s)
  PROVE  Roomy(s)
BY MidiParserAssumption DEF NoSysEx, Roomy

\* Transmitting the messages leaves an empty buffer, if there are any.
LEMMA TransmitSound ==
  ASSUME NEW s, Sound(s)
  PROVE  /\ Sound(TransmitChMsgs(s)) /\ TransmitChMsgs(s).msgCnt = 0
         /\ s.msgCnt # 0 \/ NoSysEx(s) => TransmitChMsgs(s).buf = <<>>
         /\ s.msgCnt = 0 => TransmitChMsgs(s).buf = s.buf
         /\ \A f \in Fields \ {"buf", "msgCnt", "out"} : TransmitChMsgs(s)[f] = s[f]
<1>1. CASE s.msgCnt = 0
  BY <1>1 DEF TransmitChMsgs, NoSysEx
<1>2. CASE s.msgCnt # 0
  <2>1. PICK o : TransmitChMsgs(s) = [s EXCEPT !.out = o, !.buf = <<>>, !.msgCnt = 0]
    BY <1>2, ZenonT(60) DEF TransmitChMsgs
  <2>2. PICK e \in Seq(Cell) : e = <<>> /\ Len(e) <= BufN
    <3>1. <<>> \in Seq(Cell) /\ Len(<<>>) = 0
      OBVIOUS
    <3>2. 0 <= BufN
      BY MidiParserAssumption
    <3>3. QED
      BY <3>1, <3>2
  <2>3. TransmitChMsgs(s) = [s EXCEPT !.out = o, !.buf = e, !.msgCnt = 0]
    BY <2>1, <2>2
  <2>4. PICK r : r = TransmitChMsgs(s)
    OBVIOUS
  <2>5. /\ DOMAIN r = Fields /\ r.buf = e /\ r.msgCnt = 0
        /\ \A f \in Fields \ {"buf", "msgCnt", "out"} : r[f] = s[f]
    BY <2>3, <2>4 DEF Sound, Fields
  <2>6. Sound(r)
    BY <2>2, <2>5 DEF Sound, Fields
  <2>7. QED
    BY <1>2, <2>2, <2>4, <2>5, <2>6
<1>3. QED
  BY <1>1, <1>2

\* Transmitting a piece of a sysex message empties the buffer.
LEMMA SysExSound ==
  ASSUME NEW s, Sound(s)
  PROVE  /\ Sound(TransmitSysEx(s)) /\ TransmitSysEx(s).buf = <<>>
         /\ \A f \in Fields \ {"buf", "out"} : TransmitSysEx(s)[f] = s[f]
<1>1. PICK o : TransmitSysEx(s) = [s EXCEPT !.out = o, !.buf = <<>>]
  BY ZenonT(60) DEF TransmitSysEx
<1>2. <<>> \in Seq(Cell) /\ Len(<<>>) <= BufN
  BY MidiParserAssumption
<1>3. QED
  BY <1>1, <1>2 DEF Sound, Fields

\* A message always fits after what StoreChMsg transmits.
LEMMA StoreSound ==
  ASSUME NEW s, Sound(s), Roomy(s), s.status \in Plain, NEW d \in Data \cup Plain,
         s.dataCnt # 0 => d \in Data
  PROVE  /\ Sound(StoreChMsg(s, d)) /\ StoreChMsg(s, d).msgCnt # 0
         /\ \A f \in Fields \ {"buf", "msgCnt", "out", "failed"} :
              StoreChMsg(s, d)[f] = s[f]
<1> DEFINE t == IF NoRoom(s) THEN TransmitChMsgs(s) ELSE s
           m == CASE t.dataCnt = 0 -> Msg(t.status, Unused, Unused)
                  [] t.dataCnt = 1 -> Msg(t.status, d, Unused)
                  [] OTHER -> Msg(t.status, t.data0, d)
<1>1. /\ Sound(t)
      /\ \A f \in Fields \ {"buf", "msgCnt", "out"} : t[f] = s[f]
  BY TransmitSound
<1>2. BufN - Len(t.buf) >= MsgN
  <2>1. CASE NoRoom(s)
    <3>1. s.msgCnt # 0
      BY <2>1, MidiParserAssumption DEF NoRoom, Roomy, Sound
    <3>2. Len(t.buf) = 0
      BY <2>1, <3>1, TransmitSound
    <3>3. QED
      BY <3>2, MidiParserAssumption
  <2>2. CASE ~NoRoom(s)
    BY <2>2, MidiParserAssumption DEF NoRoom, Sound
  <2>3. QED
    BY <2>1, <2>2
<1>3. m \in Items
  <2>1. t.dataCnt = s.dataCnt /\ t.status \in Plain /\ t.data0 \in Data \cup {Unused}
    BY <1>1 DEF Sound, Fields
  <2>2. QED
    BY <2>1, MsgType DEF Bytes, Status
<1>4. StoreChMsg(s, d) =
        [t EXCEPT !.buf = t.buf \o Cells(m), !.msgCnt = t.msgCnt + 1,
                  !.failed = t.failed \/ BufN - Len(t.buf) < MsgN]
  BY DEF StoreChMsg
<1> HIDE DEF t, m
<1>5. PICK b \in Seq(Cell) : b = t.buf \o Cells(m) /\ Len(b) = Len(t.buf) + MsgN
  <2>1. t.buf \in Seq(Cell)
    BY <1>1 DEF Sound
  <2>2. Cells(m) \in Seq(Cell) /\ Len(Cells(m)) = MsgN
    BY <1>3, CellsType
  <2>3. t.buf \o Cells(m) \in Seq(Cell) /\ Len(t.buf \o Cells(m)) = Len(t.buf) + MsgN
    BY <2>1, <2>2, ConcatType
  <2>4. QED
    BY <2>3
<1>6. Len(b) <= BufN /\ ~(BufN - Len(t.buf) < MsgN)
  BY <1>1, <1>2, <1>5, MidiParserAssumption DEF Sound
<1>7. (t.failed \/ BufN - Len(t.buf) < MsgN) = FALSE
  BY <1>1, <1>6 DEF Sound
<1>8. PICK n \in Nat \ {0} : n = t.msgCnt + 1
  BY <1>1 DEF Sound
<1>9. StoreChMsg(s, d) = [t EXCEPT !.buf = b, !.msgCnt = n, !.failed = FALSE]
  BY <1>4, <1>5, <1>7, <1>8
<1>10. QED
  BY <1>1, <1>5, <1>6, <1>8, <1>9 DEF Sound, Fields

\* A byte of a sysex message, when there is room for it.
LEMMA ByteSound ==
  ASSUME NEW s, Sound(s), Len(s.buf) < BufN, NEW b \in Bytes
  PROVE  /\ Sound(StoreByte(s, b)) /\ Len(StoreByte(s, b).buf) = Len(s.buf) + 1
         /\ \A f \in Fields \ {"buf", "failed"} : StoreByte(s, b)[f] = s[f]
<1> DEFINE c == [item |-> SysByte(b), at |-> 1]
<1>1. c \in Cell
  BY MsgType, MidiParserAssumption DEF Cell, SysByte
<1>2. StoreByte(s, b) = [s EXCEPT !.buf = Append(s.buf, c),
                                  !.failed = s.failed \/ Len(s.buf) >= BufN]
  BY DEF StoreByte
<1> HIDE DEF c
<1>3. PICK new \in Seq(Cell) : new = Append(s.buf, c) /\ Len(new) = Len(s.buf) + 1
  <2>1. PICK old \in Seq(Cell) : old = s.buf
    BY DEF Sound
  <2>2. Append(old, c) \in Seq(Cell) /\ Len(Append(old, c)) = Len(old) + 1
    BY <1>1
  <2>3. QED
    BY <2>1, <2>2
<1>4. Len(new) <= BufN /\ (s.failed \/ Len(s.buf) >= BufN) = FALSE
  BY <1>3, MidiParserAssumption DEF Sound
<1>5. StoreByte(s, b) = [s EXCEPT !.buf = new, !.failed = FALSE]
  BY <1>2, <1>3, <1>4
<1>6. QED
  BY <1>3, <1>4, <1>5 DEF Sound, Fields

------------------------------------------------------------------------------
(* The bytes *)

\* A status that there is room for.
LEMMA StatusGood ==
  ASSUME NEW s, Good(s), NEW b \in Status,
         b # "eox" /\ s.state = "expectEOX" => ~NoRoom(s),
         b = "eox" => Len(s.buf) # BufN
  PROVE  /\ Good(StatusByte(s, b))
         /\ StatusByte(s, b).state = "expectEOX" <=> b = "sox"
<1> DEFINE t == [s EXCEPT !.status = b, !.dataCnt = ByteCount(b)]
<1>1. /\ Sound(t) /\ t.status = b /\ t.dataCnt = ByteCount(b)
      /\ \A f \in Fields \ {"status", "dataCnt"} : t[f] = s[f]
  BY DEF Good, Sound, Fields
<1>0. b # "eox" => Roomy(s) /\ Roomy(t)
  <2>1. CASE s.state = "expectEOX"
    BY <1>1, <2>1, MidiParserAssumption DEF Good, NoRoom, Roomy, Fields, Sound
  <2>2. CASE s.state # "expectEOX"
    BY <1>1, <2>2 DEF Good, Roomy, Fields
  <2>3. QED
    BY <2>1, <2>2
<1>2. CASE b = "sox"
  <2> DEFINE u == [TransmitChMsgs(t) EXCEPT !.state = "expectEOX", !.dataCnt = -1,
                                            !.dataIdx = -1]
  <2>2. /\ Sound(TransmitChMsgs(t)) /\ TransmitChMsgs(t).msgCnt = 0
        /\ Len(TransmitChMsgs(t).buf) <= BufN - MsgN
    <3>1. CASE t.msgCnt = 0
      BY <1>0, <1>1, <1>2, <3>1, TransmitSound DEF Roomy
    <3>2. CASE t.msgCnt # 0
      <4>1. Sound(TransmitChMsgs(t)) /\ TransmitChMsgs(t).msgCnt = 0
            /\ Len(TransmitChMsgs(t).buf) = 0
        BY <1>1, <3>2, TransmitSound
      <4>2. QED
        BY <4>1, MidiParserAssumption
    <3>3. QED
      BY <3>1, <3>2
  <2>3. /\ Sound(u) /\ Len(u.buf) <= BufN - MsgN /\ u.msgCnt = 0
        /\ u.state = "expectEOX"
    BY <2>2 DEF Sound, Fields
  <2>4. StatusByte(s, b) = StoreByte(u, b)
    <3>1. b # "eox" /\ b \notin Plain
      BY <1>2 DEF Plain
    <3>2. QED
      BY <1>2, <3>1, Zenon DEF StatusByte
  <2> HIDE DEF t, u
  <2>5. Len(u.buf) \in Nat /\ Len(u.buf) + 1 < BufN /\ b \in Bytes
    BY <2>3, MidiParserAssumption DEF Bytes, Sound
  <2>6. /\ Sound(StoreByte(u, b)) /\ Len(StoreByte(u, b).buf) = Len(u.buf) + 1
        /\ \A f \in Fields \ {"buf", "failed"} : StoreByte(u, b)[f] = u[f]
    <3>1. Len(u.buf) < BufN
      BY <2>5, MidiParserAssumption
    <3>2. QED
      BY <2>3, <2>5, <3>1, ByteSound
  <2>7. SysExRoom(StoreByte(u, b)) /\ StoreByte(u, b).state = "expectEOX"
    BY <2>3, <2>5, <2>6, MidiParserAssumption DEF SysExRoom, Fields
  <2>8. QED
    BY <1>2, <2>4, <2>6, <2>7 DEF Good, DataGood
<1>3. CASE b = "eox"
  <2> DEFINE u == StoreByte(t, b)
             v == TransmitSysEx(u)
  <2>1. Len(t.buf) < BufN /\ b \in Bytes
    BY <1>1, <1>3, MidiParserAssumption DEF Sound, Fields, Bytes
  <2>2. Sound(u)
    BY <1>1, <2>1, ByteSound
  <2>3. Sound(v) /\ v.buf = <<>>
    BY <2>2, SysExSound
  <2>4. StatusByte(s, b) = [v EXCEPT !.state = "status"]
    <3>1. b # "sox" /\ b \notin Plain
      BY <1>3 DEF Plain
    <3>2. QED
      BY <1>3, <3>1, Zenon DEF StatusByte
  <2> HIDE DEF t, u, v
  <2>5. PICK r : r = StatusByte(s, b)
    OBVIOUS
  <2>6. Sound(r) /\ r.buf = <<>> /\ r.state = "status"
    BY <2>3, <2>4, <2>5 DEF Sound, Fields
  <2>7. QED
    BY <1>3, <2>5, <2>6, EmptyRoomy DEF Good, NoSysEx, DataGood
<1>4. CASE b \in {"note", "pgm"}
  <2>1. ByteCount(b) > 0 /\ b \in Plain
    BY <1>4 DEF ByteCount, Plain
  <2>2. StatusByte(s, b) = [t EXCEPT !.state = "data", !.dataIdx = 0]
    BY <1>4, <2>1 DEF StatusByte
  <2> HIDE DEF t
  <2>3. PICK r : r = StatusByte(s, b)
    OBVIOUS
  <2>4. /\ Sound(r) /\ r.state = "data" /\ r.dataIdx = 0 /\ r.status = b
        /\ r.dataCnt = ByteCount(b) /\ r.buf = s.buf /\ r.msgCnt = s.msgCnt
    BY <1>1, <2>2, <2>3 DEF Sound, Fields
  <2>5. QED
    BY <1>0, <1>4, <2>3, <2>4 DEF Good, Roomy, DataGood
<1>5. CASE b = "tune"
  <2> DEFINE u == StoreChMsg(t, b)
  <2>1. ByteCount(b) = 0 /\ b \in Plain
    BY <1>5 DEF ByteCount, Plain
  <2>2. Roomy(t)
    BY <1>0, <1>5
  <2>3. Sound(u) /\ u.msgCnt # 0
    BY <1>1, <2>1, <2>2, StoreSound
  <2>4. StatusByte(s, b) = [u EXCEPT !.state = "status", !.dataIdx = -1, !.dataCnt = -1]
    BY <1>5, <2>1 DEF StatusByte
  <2> HIDE DEF t, u
  <2>5. PICK r : r = StatusByte(s, b)
    OBVIOUS
  <2>6. Sound(r) /\ r.msgCnt # 0 /\ r.state = "status"
    BY <2>3, <2>4, <2>5 DEF Sound, Fields
  <2>7. QED
    BY <1>5, <2>5, <2>6 DEF Good, Roomy, DataGood
<1>6. QED
  BY <1>2, <1>3, <1>4, <1>5 DEF Status, Plain

\* A data byte anywhere.
LEMMA DataByteGood ==
  ASSUME NEW s, Good(s), NEW d \in Data
  PROVE  /\ Good(DataByte(s, d))
         /\ DataByte(s, d).state = "expectEOX" <=> s.state = "expectEOX"
<1>1. CASE s.state \in {"data", "statusOrData"}
  <2> DEFINE u == StoreChMsg(s, d)
  <2>1. Sound(s) /\ Roomy(s) /\ s.status \in {"note", "pgm"}
    BY <1>1 DEF Good, DataGood
  <2>2. /\ Sound(u) /\ u.msgCnt # 0
        /\ \A f \in Fields \ {"buf", "msgCnt", "out", "failed"} : u[f] = s[f]
    BY <2>1, StoreSound DEF Plain
  <2>3. s.dataCnt = ByteCount(s.status) /\ s.dataCnt \in {1, 2}
    BY <1>1, <2>1 DEF Good, DataGood, ByteCount
  <2> HIDE DEF u
  <2>4. CASE s.dataIdx = 0 /\ s.dataCnt = 1
    <3>1. DataByte(s, d) = [u EXCEPT !.state = "statusOrData"]
      BY <1>1, <2>4 DEF DataByte, u
    <3>2. PICK r : r = DataByte(s, d)
      OBVIOUS
    <3>3. /\ Sound(r) /\ r.msgCnt # 0 /\ r.state = "statusOrData"
          /\ r.status = s.status /\ r.dataCnt = s.dataCnt /\ r.dataIdx = s.dataIdx
      BY <2>2, <3>1, <3>2 DEF Sound, Fields
    <3>4. QED
      BY <1>1, <2>1, <2>3, <2>4, <3>2, <3>3 DEF Good, Roomy, DataGood
  <2>5. CASE s.dataIdx = 0 /\ s.dataCnt = 2
    <3>1. DataByte(s, d) = [s EXCEPT !.state = "data", !.dataIdx = 1, !.data0 = d]
      BY <1>1, <2>5 DEF DataByte
    <3>2. PICK r : r = DataByte(s, d)
      OBVIOUS
    <3>3. /\ Sound(r) /\ r.msgCnt = s.msgCnt /\ r.buf = s.buf /\ r.state = "data"
          /\ r.status = s.status /\ r.dataCnt = 2 /\ r.dataIdx = 1
      BY <2>1, <2>5, <3>1, <3>2 DEF Sound, Fields
    <3>4. QED
      BY <1>1, <2>1, <2>3, <2>5, <3>2, <3>3 DEF Good, Roomy, DataGood
  <2>6. CASE s.state = "data" /\ s.dataIdx = 1 /\ s.dataCnt = 2
    <3>1. DataByte(s, d) = NextMsg([u EXCEPT !.state = "statusOrData"])
      BY <1>1, <2>6 DEF DataByte, u
    <3>2. PICK r : r = DataByte(s, d)
      OBVIOUS
    <3>3. /\ Sound(r) /\ r.msgCnt # 0 /\ r.state = "statusOrData"
          /\ r.status = s.status /\ r.dataCnt = s.dataCnt /\ r.dataIdx = 0
      BY <2>2, <3>1, <3>2 DEF Sound, Fields, NextMsg
    <3>4. QED
      BY <1>1, <2>1, <2>3, <2>6, <3>2, <3>3 DEF Good, Roomy, DataGood
  <2>7. QED
    BY <1>1, <2>3, <2>4, <2>5, <2>6 DEF Good, DataGood
<1>2. CASE s.state = "expectEOX"
  <2> DEFINE u == StoreByte(s, d)
  <2>1. Sound(s) /\ SysExRoom(s) /\ d \in Bytes
    BY <1>2 DEF Good, Bytes
  <2>2. Sound(u) /\ u.msgCnt = 0 /\ u.state = "expectEOX"
    BY <1>2, <2>1, ByteSound DEF SysExRoom, Fields
  <2>3. DataByte(s, d) = IF Len(u.buf) = BufN THEN TransmitSysEx(u) ELSE u
    BY <1>2 DEF DataByte
  <2> HIDE DEF u
  <2>4. CASE Len(u.buf) = BufN
    <3>1. PICK r : r = DataByte(s, d)
      OBVIOUS
    <3>2. Sound(r) /\ r.buf = <<>> /\ r.msgCnt = 0 /\ r.state = "expectEOX"
      BY <2>2, <2>3, <2>4, <3>1, SysExSound DEF Fields
    <3>3. Len(r.buf) < BufN
      BY <3>2, MidiParserAssumption
    <3>4. QED
      BY <1>2, <3>1, <3>2, <3>3 DEF Good, SysExRoom, DataGood
  <2>5. CASE Len(u.buf) # BufN
    <3>1. DataByte(s, d) = u
      BY <2>3, <2>5
    <3>2. Len(u.buf) < BufN
      BY <2>2, <2>5, MidiParserAssumption DEF Sound
    <3>3. QED
      BY <1>2, <2>2, <3>1, <3>2 DEF Good, SysExRoom, DataGood
  <2>6. QED
    BY <2>4, <2>5
<1>3. CASE s.state = "status"
  BY <1>3 DEF DataByte
<1>4. QED
  BY <1>1, <1>2, <1>3 DEF Good, Sound

\* A whole message, when the parser takes no bytes.
Triple(s, cnt, st, a, mb) ==
  [StoreChMsg([s EXCEPT !.dataCnt = cnt, !.status = st, !.data0 = a], mb)
     EXCEPT !.dataCnt = -1]

LEMMA TripleGood ==
  ASSUME NEW s, Good(s), s.state = "status", NEW st \in Plain,
         NEW mb \in Data \cup Plain, NEW cnt \in {0, 1, 2}, cnt # 0 => mb \in Data,
         NEW a \in Data \cup {Unused}
  PROVE  /\ Good(Triple(s, cnt, st, a, mb))
         /\ Triple(s, cnt, st, a, mb).state = "status"
<1> DEFINE t == [s EXCEPT !.dataCnt = cnt, !.status = st, !.data0 = a]
           u == StoreChMsg(t, mb)
           r == [u EXCEPT !.dataCnt = -1]
<1>1. r = Triple(s, cnt, st, a, mb)
  BY DEF Triple
<1>2. /\ Sound(t) /\ Roomy(t) /\ t.status \in Plain /\ t.dataCnt = cnt
      /\ t.state = "status"
  BY DEF Good, Sound, Fields, Roomy
<1> HIDE DEF t
<1>3. Sound(u) /\ u.msgCnt # 0 /\ u.state = "status"
  <2>1. t.dataCnt # 0 => mb \in Data
    BY <1>2
  <2>2. /\ Sound(u) /\ u.msgCnt # 0
        /\ \A f \in Fields \ {"buf", "msgCnt", "out", "failed"} : u[f] = t[f]
    BY <1>2, <2>1, StoreSound
  <2>3. QED
    BY <1>2, <2>2 DEF Fields
<1> HIDE DEF u
<1>4. Sound(r) /\ r.msgCnt # 0 /\ r.state = "status"
  BY <1>3 DEF Sound, Fields
<1> HIDE DEF r
<1>5. Good(r)
  BY <1>4 DEF Good, Roomy, DataGood
<1>6. QED
  BY <1>1, <1>4, <1>5

\* The end of a call. In a sysex message the buffer has no messages.
LEMMA EndGood ==
  ASSUME NEW s, Good(s)
  PROVE  Good(End(s)) /\ End(s).state = s.state
<1>1. CASE s.msgCnt = 0
  BY <1>1 DEF End, TransmitChMsgs
<1>2. CASE s.msgCnt # 0
  <2> DEFINE r == TransmitChMsgs(s)
  <2>1. Sound(s) /\ Roomy(s) /\ s.state # "expectEOX"
    BY <1>2 DEF Good, SysExRoom, Roomy
  <2>2. /\ Sound(r) /\ r.buf = <<>>
        /\ \A f \in Fields \ {"buf", "msgCnt", "out"} : r[f] = s[f]
    BY <1>2, <2>1, TransmitSound
  <2> HIDE DEF r
  <2>3. Good(r) /\ r.state = s.state
    BY <2>1, <2>2, EmptyRoomy DEF Good, NoSysEx, DataGood, Fields
  <2>4. QED
    BY <2>3 DEF End, r
<1>3. QED
  BY <1>1, <1>2

\* Giving the client its messages changes nothing else.
LEMMA GivenGood ==
  ASSUME NEW s, Good(s)
  PROVE  Good([s EXCEPT !.out = <<>>]) /\ [s EXCEPT !.out = <<>>].state = s.state
<1> DEFINE r == [s EXCEPT !.out = <<>>]
<1>1. /\ DOMAIN r = Fields
      /\ \A f \in Fields \ {"out"} : r[f] = s[f]
  BY DEF Good, Sound, Fields
<1> HIDE DEF r
<1>2. Sound(r) /\ r.state = s.state
  BY <1>1 DEF Good, Sound, Fields
<1>3. DataGood(r) /\ r.msgCnt = s.msgCnt /\ r.buf = s.buf
  BY <1>1 DEF Good, DataGood, Fields
<1>4. Good(r)
  BY <1>2, <1>3 DEF Good, SysExRoom, Roomy
<1>5. QED
  BY <1>2, <1>4 DEF r

------------------------------------------------------------------------------
(* The parser and the stream *)

\* As long as no status met a buffer without room for it.
PInv ==
  /\ mode \in {"bytes", "triples"} /\ Good(p)
  /\ mode = "triples" => p.state = "status"

LEMMA PInvInit ==
  ASSUME Init
  PROVE  PInv
<1>1. DOMAIN p = Fields /\ p.state = "status" /\ p.buf = <<>> /\ p.failed = FALSE
      /\ p.data0 = Unused /\ p.msgCnt = 0
  BY DEF Init, Fields
<1>2. p.buf \in Seq(Cell) /\ Len(p.buf) = 0
  BY <1>1
<1>3. Good(p)
  BY <1>1, <1>2, MidiParserAssumption DEF Good, Sound, Roomy, DataGood
<1>4. QED
  BY <1>1, <1>3 DEF Init, PInv

\* A byte that there is room for.
LEMMA ByteGood ==
  ASSUME PInv, NEW b \in Bytes, ~Crowds(b)
  PROVE  LET s == IF b \in Status THEN StatusByte(p, b) ELSE DataByte(p, b)
         IN  /\ Good(s)
             /\ b \in Status => (s.state = "expectEOX" <=> b = "sox")
             /\ b \in Data => (s.state = "expectEOX" <=> p.state = "expectEOX")
<1>1. CASE b \in Status
  <2>1. b \notin Data
    BY <1>1, MidiParserAssumption
  <2>2. Good(StatusByte(p, b)) /\ (StatusByte(p, b).state = "expectEOX" <=> b = "sox")
    BY <1>1, StatusGood DEF PInv, Crowds
  <2>3. QED
    BY <1>1, <2>1, <2>2
<1>2. CASE b \notin Status
  <2>1. b \in Data
    BY <1>2 DEF Bytes
  <2>2. /\ Good(DataByte(p, b))
        /\ DataByte(p, b).state = "expectEOX" <=> p.state = "expectEOX"
    BY <2>1, DataByteGood DEF PInv
  <2>3. QED
    BY <1>2, <2>2
<1>3. QED
  BY <1>1, <1>2

LEMMA PInvStep ==
  ASSUME PInv, [Next]_vars, ~crowded'
  PROVE  PInv'
<1>1. ASSUME NEW b \in Bytes, ParseByte(b)
      PROVE  PInv'
  <2> DEFINE s == IF b \in Status THEN StatusByte(p, b) ELSE DataByte(p, b)
  <2>1. /\ mode = "bytes" /\ mode' = mode /\ ~Crowds(b)
        /\ p' = [s EXCEPT !.out = <<>>]
    BY <1>1 DEF ParseByte, Given
  <2>2. Good(s)
    BY <2>1, ByteGood
  <2> HIDE DEF s
  <2>3. Good(p')
    BY <2>1, <2>2, GivenGood
  <2>4. QED
    BY <2>1, <2>3 DEF PInv, Good, Sound, SysExRoom, Roomy, DataGood
<1>2. ASSUME NEW st \in Plain, NEW a \in Data \cup {Unused}, NEW b \in Data \cup {Unused},
             a = Unused => b = Unused /\ st = "tune", MidiTriple(st, a, b)
      PROVE  PInv'
  <2> DEFINE cnt == IF a = Unused THEN 0 ELSE IF b = Unused THEN 1 ELSE 2
             mb == <<st, a, b>>[cnt + 1]
             a0 == IF cnt = 2 THEN a ELSE p.data0
             r == Triple(p, cnt, st, a0, mb)
  <2>1. mode = "triples" /\ mode' = mode /\ p' = [r EXCEPT !.out = <<>>]
    BY <1>2 DEF MidiTriple, Given, Triple
  <2>2. cnt \in {0, 1, 2} /\ (cnt # 0 => mb \in Data) /\ mb \in Data \cup Plain
    <3>1. CASE a = Unused
      <4>1. cnt = 0 /\ mb = st
        BY <3>1
      <4>2. QED
        BY <4>1
    <3>2. CASE a # Unused /\ b = Unused
      <4>1. cnt = 1 /\ mb = a /\ a \in Data
        BY <3>2
      <4>2. QED
        BY <4>1
    <3>3. CASE a # Unused /\ b # Unused
      <4>1. cnt = 2 /\ mb = b /\ b \in Data
        BY <3>3
      <4>2. QED
        BY <4>1
    <3>4. QED
      BY <3>1, <3>2, <3>3
  <2>3. a0 \in Data \cup {Unused}
    BY DEF PInv, Good, Sound
  <2>4. Good(p) /\ p.state = "status"
    BY <2>1 DEF PInv
  <2> HIDE DEF cnt, mb, a0
  <2>5. Good(r) /\ r.state = "status"
    BY <2>2, <2>3, <2>4, TripleGood
  <2> HIDE DEF r
  <2>6. Good(p') /\ p'.state = "status"
    BY <2>1, <2>5, GivenGood
  <2>7. QED
    BY <2>1, <2>6 DEF PInv, Good, Sound, SysExRoom, Roomy, DataGood
<1>3. CASE EndCall
  <2>1. mode' = mode /\ p' = [End(p) EXCEPT !.out = <<>>]
    BY <1>3 DEF EndCall, Given
  <2>2. Good(End(p)) /\ End(p).state = p.state
    BY EndGood DEF PInv
  <2>3. Good(p') /\ p'.state = p.state
    BY <2>1, <2>2, GivenGood
  <2>4. QED
    BY <2>1, <2>3 DEF PInv, Good, Sound, SysExRoom, Roomy, DataGood
<1>4. CASE UNCHANGED vars
  BY <1>4 DEF vars, PInv, Good, Sound, SysExRoom, Roomy, DataGood
<1>5. Unused \notin Data
  BY MidiParserAssumption
<1>6. CASE MidiTriple("tune", Unused, Unused)
  BY <1>2, <1>6 DEF Plain
<1>7. ASSUME NEW a \in Data, MidiTriple("pgm", a, Unused)
      PROVE  PInv'
  BY <1>2, <1>5, <1>7 DEF Plain
<1>8. ASSUME NEW a \in Data, NEW b \in Data, MidiTriple("note", a, b)
      PROVE  PInv'
  BY <1>2, <1>5, <1>8 DEF Plain
<1>9. QED
  BY <1>1, <1>3, <1>4, <1>6, <1>7, <1>8 DEF Next

------------------------------------------------------------------------------
(***************************************************************************)
(* What the client is given.  The sequence `all' has what is complete and  *)
(* was not given before: out is its beginning, and the buffer has the      *)
(* rest, as messages of MsgN cells or as the bytes of a sysex message.     *)
(***************************************************************************)
Before(out, all) == \A i \in 1 .. Len(out) : all[i] = out[i]

Msgs(out, buf, cnt, all) ==
  /\ Len(all) = Len(out) + cnt /\ Before(out, all)
  /\ Len(buf) = cnt * MsgN
  /\ \A k \in 1 .. cnt, j \in 1 .. MsgN :
       buf[((k - 1) * MsgN) + j] = [item |-> all[Len(out) + k], at |-> j]

SysBytes(out, buf, all) ==
  /\ Len(all) = Len(out) + Len(buf) /\ Before(out, all)
  /\ \A i \in 1 .. Len(buf) :
       buf[i].item = all[Len(out) + i] /\ buf[i].item.st = "sysex"

LEMMA Slot ==
  ASSUME NEW c \in Nat, NEW k \in 1 .. c, NEW j \in 1 .. MsgN
  PROVE  /\ ((k - 1) * MsgN) + j \in 1 .. (c * MsgN)
         /\ (k - 1) * MsgN \in Nat /\ k * MsgN = ((k - 1) * MsgN) + MsgN
         /\ k * MsgN <= c * MsgN
<1>0. MsgN \in Nat
  BY MidiParserAssumption
<1>1. k * MsgN = ((k - 1) * MsgN) + MsgN /\ (k - 1) * MsgN \in Nat
  BY <1>0
<1>2. PICK e \in Nat : c = k + e
  <2>1. c - k \in Nat /\ c = k + (c - k)
    OBVIOUS
  <2>2. QED
    BY <2>1
<1>3. c * MsgN = (k * MsgN) + (e * MsgN) /\ e * MsgN \in Nat /\ k * MsgN \in Nat
  BY <1>0, <1>2
<1>4. QED
  BY <1>0, <1>1, <1>3

LEMMA ItemInjective ==
  ASSUME NEW m \in Items
  PROVE  Cells(m) = [i \in 1 .. MsgN |-> [item |-> m, at |-> i]] /\ Cells(m)[1].item = m
BY MidiParserAssumption DEF Cells

\* A message that was stored is read.
LEMMA ReadIs ==
  ASSUME NEW buf \in Seq(Cell), NEW k \in Nat \ {0}, k * MsgN <= Len(buf),
         NEW m \in Items,
         \A j \in 1 .. MsgN : buf[((k - 1) * MsgN) + j] = [item |-> m, at |-> j]
  PROVE  Read(buf, k) = m
<1> DEFINE own == SubSeq(buf, ((k - 1) * MsgN) + 1, k * MsgN)
<1>1. PICK lo \in Nat : lo = (k - 1) * MsgN /\ k * MsgN = lo + MsgN
  BY Slot, MidiParserAssumption
<1>2. own = [i \in 1 .. MsgN |-> buf[lo + i]]
  <2>1. lo + 1 \in Int /\ lo + MsgN \in Int
    BY MidiParserAssumption
  <2>2. SubSeq(buf, lo + 1, lo + MsgN) = [i \in 1 .. MsgN |-> buf[lo + i]]
    BY <2>1, MidiParserAssumption
  <2>3. QED
    BY <1>1, <2>2
<1>3. [i \in 1 .. MsgN |-> buf[lo + i]] = [i \in 1 .. MsgN |-> [item |-> m, at |-> i]]
  BY <1>1
<1>4. own = Cells(m) /\ own[1].item = m
  BY <1>2, <1>3, ItemInjective
<1>5. Read(buf, k) = IF k * MsgN <= Len(buf) /\ own = Cells(own[1].item)
                     THEN own[1].item ELSE Garbage
  BY DEF Read
<1> HIDE DEF own
<1>6. QED
  BY <1>4, <1>5

\* A concatenation, as an operator the provers need not expand.
Joined(s, r) == s \o r

LEMMA JoinedItems ==
  ASSUME NEW s \in Seq(Items), NEW r \in Seq(Items)
  PROVE  /\ Joined(s, r) \in Seq(Items)
         /\ Len(Joined(s, r)) = Len(s) + Len(r)
         /\ \A j \in 1 .. Len(s) : Joined(s, r)[j] = s[j]
         /\ \A j \in 1 .. Len(r) : Joined(s, r)[Len(s) + j] = r[j]
<1>1. s \o r \in Seq(Items) /\ Len(s \o r) = Len(s) + Len(r)
  OBVIOUS
<1>2. /\ \A j \in 1 .. Len(s) : (s \o r)[j] = s[j]
      /\ \A j \in 1 .. Len(r) : (s \o r)[Len(s) + j] = r[j]
  OBVIOUS
<1>3. QED
  BY <1>1, <1>2 DEF Joined

LEMMA JoinedCells ==
  ASSUME NEW s \in Seq(Cell), NEW r \in Seq(Cell)
  PROVE  /\ Joined(s, r) \in Seq(Cell)
         /\ Len(Joined(s, r)) = Len(s) + Len(r)
         /\ \A j \in 1 .. Len(s) : Joined(s, r)[j] = s[j]
         /\ \A j \in 1 .. Len(r) : Joined(s, r)[Len(s) + j] = r[j]
<1>1. s \o r \in Seq(Cell) /\ Len(s \o r) = Len(s) + Len(r)
  OBVIOUS
<1>2. /\ \A j \in 1 .. Len(s) : (s \o r)[j] = s[j]
      /\ \A j \in 1 .. Len(r) : (s \o r)[Len(s) + j] = r[j]
  OBVIOUS
<1>3. QED
  BY <1>1, <1>2 DEF Joined

LEMMA MsgsFlush ==
  ASSUME NEW out \in Seq(Items), NEW all \in Seq(Items), NEW buf \in Seq(Cell),
         NEW cnt \in Nat, Msgs(out, buf, cnt, all)
  PROVE  LET new == out \o [k \in 1 .. cnt |-> Read(buf, k)]
         IN  new \in Seq(Items) /\ Msgs(new, <<>>, 0, all)
<1> DEFINE rd == [k \in 1 .. cnt |-> Read(buf, k)]
           new == Joined(out, rd)
<1>1. ASSUME NEW k \in 1 .. cnt
      PROVE  Read(buf, k) = all[Len(out) + k] /\ all[Len(out) + k] \in Items
  <2>1. all[Len(out) + k] \in Items
    BY DEF Msgs
  <2>2. k * MsgN <= Len(buf)
    BY Slot, MidiParserAssumption DEF Msgs
  <2>3. \A j \in 1 .. MsgN :
          buf[((k - 1) * MsgN) + j] = [item |-> all[Len(out) + k], at |-> j]
    BY DEF Msgs
  <2>4. k \in Nat \ {0}
    OBVIOUS
  <2>5. \A m \in Items :
          m = all[Len(out) + k] => Read(buf, k) = m
    BY <2>2, <2>3, <2>4, ReadIs, SMTT(60)
  <2>6. QED
    BY <2>1, <2>5
<1>2. rd \in Seq(Items) /\ Len(rd) = cnt /\ \A k \in 1 .. cnt : rd[k] = all[Len(out) + k]
  <2>1. rd \in [1 .. cnt -> Items]
    BY <1>1
  <2>2. QED
    BY <1>1, <2>1
<1> HIDE DEF rd
<1>3. /\ new \in Seq(Items) /\ Len(new) = Len(out) + cnt
      /\ \A j \in 1 .. Len(out) : new[j] = out[j]
      /\ \A j \in 1 .. cnt : new[Len(out) + j] = rd[j]
  <2>1. /\ new \in Seq(Items) /\ Len(new) = Len(out) + Len(rd)
        /\ \A j \in 1 .. Len(out) : new[j] = out[j]
        /\ \A j \in 1 .. Len(rd) : new[Len(out) + j] = rd[j]
    BY <1>2, JoinedItems, Zenon
  <2>2. QED
    BY <1>2, <2>1
<1> HIDE DEF new
<1>4. Len(all) = Len(new) + 0 /\ Len(<<>>) = 0 * MsgN
  BY <1>3, MidiParserAssumption DEF Msgs
<1>5. ASSUME NEW i \in 1 .. Len(new) PROVE all[i] = new[i]
  <2>1. CASE i <= Len(out)
    BY <1>3, <2>1 DEF Msgs, Before
  <2>2. CASE ~(i <= Len(out))
    <3>1. PICK j \in 1 .. cnt : i = Len(out) + j
      <4>1. i - Len(out) \in 1 .. cnt /\ i = Len(out) + (i - Len(out))
        BY <1>3, <2>2
      <4>2. QED
        BY <4>1
    <3>2. QED
      BY <1>2, <1>3, <3>1
  <2>3. QED
    BY <2>1, <2>2
<1>6. Msgs(new, <<>>, 0, all)
  <2>1. \A k \in 1 .. 0 : FALSE
    OBVIOUS
  <2>2. QED
    BY <1>4, <1>5, <2>1 DEF Msgs, Before
<1>7. QED
  BY <1>3, <1>6 DEF new, rd, Joined

LEMMA MsgsAdd ==
  ASSUME NEW out \in Seq(Items), NEW all \in Seq(Items), NEW buf \in Seq(Cell),
         NEW cnt \in Nat, Msgs(out, buf, cnt, all), NEW m \in Items
  PROVE  /\ all \o <<m>> \in Seq(Items)
         /\ Msgs(out, buf \o Cells(m), cnt + 1, all \o <<m>>)
<1> DEFINE more == Joined(all, <<m>>)
           b == Joined(buf, Cells(m))
<1>1. /\ more \in Seq(Items) /\ Len(more) = Len(all) + 1
      /\ \A i \in 1 .. Len(all) : more[i] = all[i]
      /\ more[Len(all) + 1] = m
  <2>1. <<m>> \in Seq(Items) /\ Len(<<m>>) = 1 /\ <<m>>[1] = m
    OBVIOUS
  <2>2. /\ more \in Seq(Items) /\ Len(more) = Len(all) + Len(<<m>>)
        /\ \A i \in 1 .. Len(all) : more[i] = all[i]
        /\ \A i \in 1 .. Len(<<m>>) : more[Len(all) + i] = <<m>>[i]
    BY <2>1, JoinedItems, Zenon
  <2> HIDE DEF more
  <2>3. QED
    BY <2>1, <2>2
<1>2. /\ Len(b) = Len(buf) + MsgN
      /\ \A i \in 1 .. Len(buf) : b[i] = buf[i]
      /\ \A j \in 1 .. MsgN : b[Len(buf) + j] = [item |-> m, at |-> j]
  <2>1. Cells(m) \in Seq(Cell) /\ Len(Cells(m)) = MsgN
    BY CellsType
  <2>2. \A j \in 1 .. MsgN : Cells(m)[j] = [item |-> m, at |-> j]
    BY DEF Cells
  <2>3. /\ Len(b) = Len(buf) + Len(Cells(m))
        /\ \A i \in 1 .. Len(buf) : b[i] = buf[i]
        /\ \A j \in 1 .. Len(Cells(m)) : b[Len(buf) + j] = Cells(m)[j]
    BY <2>1, JoinedCells, Zenon
  <2> HIDE DEF b
  <2>4. QED
    BY <2>1, <2>2, <2>3
<1> HIDE DEF more, b
<1>3. Len(more) = Len(out) + (cnt + 1) /\ Before(out, more)
  BY <1>1 DEF Msgs, Before
<1>4. Len(b) = (cnt + 1) * MsgN
  BY <1>2, MidiParserAssumption DEF Msgs
<1>5. ASSUME NEW k \in 1 .. (cnt + 1), NEW j \in 1 .. MsgN
      PROVE  b[((k - 1) * MsgN) + j] = [item |-> more[Len(out) + k], at |-> j]
  <2>1. CASE k <= cnt
    <3>1. ((k - 1) * MsgN) + j \in 1 .. Len(buf)
      <4>1. k \in 1 .. cnt
        BY <2>1
      <4>2. ((k - 1) * MsgN) + j \in 1 .. (cnt * MsgN)
        BY <4>1, Slot
      <4>3. QED
        BY <4>2 DEF Msgs
    <3>2. more[Len(out) + k] = all[Len(out) + k]
      BY <1>1, <2>1 DEF Msgs
    <3>3. buf[((k - 1) * MsgN) + j] = [item |-> all[Len(out) + k], at |-> j]
      BY <2>1 DEF Msgs
    <3>4. QED
      BY <1>2, <3>1, <3>2, <3>3
  <2>2. CASE k = cnt + 1
    <3>1. (k - 1) * MsgN = Len(buf)
      BY <2>2 DEF Msgs
    <3>2. more[Len(out) + k] = m
      BY <1>1, <2>2 DEF Msgs
    <3>3. QED
      BY <1>2, <3>1, <3>2
  <2>3. QED
    BY <2>1, <2>2
<1>6. QED
  BY <1>1, <1>3, <1>4, <1>5 DEF Msgs, more, b, Joined

LEMMA BytesFlush ==
  ASSUME NEW out \in Seq(Items), NEW all \in Seq(Items), NEW buf \in Seq(Cell),
         SysBytes(out, buf, all)
  PROVE  LET new == out \o [i \in DOMAIN buf |-> buf[i].item]
         IN  new \in Seq(Items) /\ SysBytes(new, <<>>, all)
<1> DEFINE rd == [i \in DOMAIN buf |-> buf[i].item]
           new == Joined(out, rd)
<1>1. ASSUME NEW i \in 1 .. Len(buf)
      PROVE  buf[i].item = all[Len(out) + i] /\ buf[i].item \in Items
  BY DEF SysBytes, Cell
<1>2. /\ rd \in Seq(Items) /\ Len(rd) = Len(buf)
      /\ \A i \in 1 .. Len(buf) : rd[i] = all[Len(out) + i]
  <2>1. DOMAIN buf = 1 .. Len(buf) /\ Len(buf) \in Nat
    OBVIOUS
  <2>2. rd \in [1 .. Len(buf) -> Items]
    BY <1>1, <2>1
  <2>3. QED
    BY <1>1, <2>1, <2>2
<1> HIDE DEF rd
<1>3. /\ new \in Seq(Items) /\ Len(new) = Len(out) + Len(buf)
      /\ \A j \in 1 .. Len(out) : new[j] = out[j]
      /\ \A j \in 1 .. Len(buf) : new[Len(out) + j] = rd[j]
  <2>1. /\ new \in Seq(Items) /\ Len(new) = Len(out) + Len(rd)
        /\ \A j \in 1 .. Len(out) : new[j] = out[j]
        /\ \A j \in 1 .. Len(rd) : new[Len(out) + j] = rd[j]
    BY <1>2, JoinedItems, Zenon
  <2>2. QED
    BY <1>2, <2>1
<1> HIDE DEF new
<1>4. Len(all) = Len(new) + Len(<<>>)
  BY <1>3 DEF SysBytes
<1>5. ASSUME NEW i \in 1 .. Len(new) PROVE all[i] = new[i]
  <2>1. CASE i <= Len(out)
    BY <1>3, <2>1 DEF SysBytes, Before
  <2>2. CASE ~(i <= Len(out))
    <3>1. PICK j \in 1 .. Len(buf) : i = Len(out) + j
      <4>1. i - Len(out) \in 1 .. Len(buf) /\ i = Len(out) + (i - Len(out))
        BY <1>3, <2>2
      <4>2. QED
        BY <4>1
    <3>2. QED
      BY <1>2, <1>3, <3>1
  <2>3. QED
    BY <2>1, <2>2
<1>6. SysBytes(new, <<>>, all)
  <2>1. \A i \in 1 .. Len(<<>>) : FALSE
    OBVIOUS
  <2>2. QED
    BY <1>4, <1>5, <2>1 DEF SysBytes, Before
<1>7. QED
  BY <1>3, <1>6 DEF new, rd, Joined

LEMMA BytesAdd ==
  ASSUME NEW out \in Seq(Items), NEW all \in Seq(Items), NEW buf \in Seq(Cell),
         SysBytes(out, buf, all), NEW c \in Cell, c.item.st = "sysex"
  PROVE  /\ all \o <<c.item>> \in Seq(Items)
         /\ SysBytes(out, Append(buf, c), all \o <<c.item>>)
<1> DEFINE m == c.item
           more == Joined(all, <<m>>)
           b == Append(buf, c)
<1>0. m \in Items /\ m.st = "sysex"
  BY DEF Cell
<1> HIDE DEF m
<1>1. /\ more \in Seq(Items) /\ Len(more) = Len(all) + 1
      /\ \A i \in 1 .. Len(all) : more[i] = all[i]
      /\ more[Len(all) + 1] = m
  <2>1. <<m>> \in Seq(Items) /\ Len(<<m>>) = 1 /\ <<m>>[1] = m
    BY <1>0
  <2>2. /\ more \in Seq(Items) /\ Len(more) = Len(all) + Len(<<m>>)
        /\ \A i \in 1 .. Len(all) : more[i] = all[i]
        /\ \A i \in 1 .. Len(<<m>>) : more[Len(all) + i] = <<m>>[i]
    BY <2>1, JoinedItems, Zenon
  <2> HIDE DEF more
  <2>3. QED
    BY <2>1, <2>2
<1>2. /\ Len(b) = Len(buf) + 1 /\ b[Len(buf) + 1] = c
      /\ \A i \in 1 .. Len(buf) : b[i] = buf[i]
  OBVIOUS
<1> HIDE DEF more, b
<1>3. Len(more) = Len(out) + Len(b) /\ Before(out, more)
  BY <1>1, <1>2 DEF SysBytes, Before
<1>4. ASSUME NEW i \in 1 .. Len(b)
      PROVE  b[i].item = more[Len(out) + i] /\ b[i].item.st = "sysex"
  <2>1. CASE i <= Len(buf)
    <3>1. more[Len(out) + i] = all[Len(out) + i] /\ b[i] = buf[i]
      BY <1>1, <1>2, <2>1 DEF SysBytes
    <3>2. buf[i].item = all[Len(out) + i] /\ buf[i].item.st = "sysex"
      BY <2>1 DEF SysBytes
    <3>3. QED
      BY <3>1, <3>2
  <2>2. CASE ~(i <= Len(buf))
    <3>1. i = Len(buf) + 1 /\ Len(out) + i = Len(all) + 1
      <4>1. /\ Len(all) = Len(out) + Len(buf) /\ Len(b) = Len(buf) + 1
            /\ Len(out) \in Nat /\ Len(buf) \in Nat
        BY <1>2 DEF SysBytes
      <4>2. QED
        BY <2>2, <4>1, SMTT(60)
    <3>2. QED
      BY <1>0, <1>1, <1>2, <3>1 DEF m
  <2>3. QED
    BY <2>1, <2>2
<1>5. more \in Seq(Items) /\ SysBytes(out, b, more)
  BY <1>1, <1>3, <1>4 DEF SysBytes
<1>6. QED
  BY <1>5 DEF more, b, m, Joined

\* The client gets the beginning, and the rest is due.
LEMMA Split ==
  ASSUME NEW out \in Seq(Items), NEW all \in Seq(Items), Len(out) <= Len(all),
         Before(out, all)
  PROVE  /\ IsPrefix(out, all)
         /\ SubSeq(all, Len(out) + 1, Len(all)) \in Seq(Items)
         /\ Len(SubSeq(all, Len(out) + 1, Len(all))) = Len(all) - Len(out)
         /\ \A i \in 1 .. (Len(all) - Len(out)) :
              SubSeq(all, Len(out) + 1, Len(all))[i] = all[Len(out) + i]
<1>1. SubSeq(out, 1, Len(out)) = SubSeq(all, 1, Len(out))
  <2>1. SubSeq(out, 1, Len(out)) = [i \in 1 .. Len(out) |-> out[i]]
    OBVIOUS
  <2>2. SubSeq(all, 1, Len(out)) = [i \in 1 .. Len(out) |-> all[i]]
    OBVIOUS
  <2>3. [i \in 1 .. Len(out) |-> out[i]] = [i \in 1 .. Len(out) |-> all[i]]
    BY DEF Before
  <2>4. QED
    BY <2>1, <2>2, <2>3
<1>2. IsPrefix(out, all)
  BY <1>1 DEF IsPrefix
<1>3. PICK a \in Nat, c \in Nat : a = Len(out) /\ c = Len(all) - a
  OBVIOUS
<1>4. SubSeq(all, a + 1, Len(all)) = [i \in 1 .. c |-> all[a + i]]
  BY <1>3
<1>5. \A i \in 1 .. c : all[a + i] \in Items
  BY <1>3
<1>6. [i \in 1 .. c |-> all[a + i]] \in Seq(Items)
  BY <1>5
<1>7. QED
  BY <1>2, <1>3, <1>4, <1>6

LEMMA SplitMsgs ==
  ASSUME NEW out \in Seq(Items), NEW all \in Seq(Items), NEW buf, NEW cnt \in Nat,
         Msgs(out, buf, cnt, all)
  PROVE  /\ IsPrefix(out, all)
         /\ SubSeq(all, Len(out) + 1, Len(all)) \in Seq(Items)
         /\ Msgs(<<>>, buf, cnt, SubSeq(all, Len(out) + 1, Len(all)))
<1> DEFINE rest == SubSeq(all, Len(out) + 1, Len(all))
<1>1. /\ Len(out) <= Len(all) /\ Before(out, all) /\ Len(all) - Len(out) = cnt
      /\ Len(<<>>) = 0
  BY DEF Msgs
<1>2. /\ IsPrefix(out, all) /\ rest \in Seq(Items) /\ Len(rest) = cnt
      /\ \A i \in 1 .. cnt : rest[i] = all[Len(out) + i]
  BY <1>1, Split
<1> HIDE DEF rest
<1>3. Len(rest) = Len(<<>>) + cnt /\ Before(<<>>, rest)
  BY <1>2 DEF Before
<1>4. ASSUME NEW k \in 1 .. cnt, NEW j \in 1 .. MsgN
      PROVE  buf[((k - 1) * MsgN) + j] = [item |-> rest[Len(<<>>) + k], at |-> j]
  <2>1. rest[Len(<<>>) + k] = all[Len(out) + k]
    BY <1>1, <1>2
  <2>2. QED
    BY <2>1 DEF Msgs
<1>5. Msgs(<<>>, buf, cnt, rest)
  BY <1>3, <1>4 DEF Msgs
<1>6. QED
  BY <1>2, <1>5 DEF rest

LEMMA SplitBytes ==
  ASSUME NEW out \in Seq(Items), NEW all \in Seq(Items), NEW buf \in Seq(Cell),
         SysBytes(out, buf, all)
  PROVE  /\ IsPrefix(out, all)
         /\ SubSeq(all, Len(out) + 1, Len(all)) \in Seq(Items)
         /\ SysBytes(<<>>, buf, SubSeq(all, Len(out) + 1, Len(all)))
<1> DEFINE rest == SubSeq(all, Len(out) + 1, Len(all))
<1>1. /\ Len(out) <= Len(all) /\ Before(out, all) /\ Len(all) - Len(out) = Len(buf)
      /\ Len(<<>>) = 0
  BY DEF SysBytes
<1>2. /\ IsPrefix(out, all) /\ rest \in Seq(Items) /\ Len(rest) = Len(buf)
      /\ \A i \in 1 .. Len(buf) : rest[i] = all[Len(out) + i]
  BY <1>1, Split
<1> HIDE DEF rest
<1>3. Len(rest) = Len(<<>>) + Len(buf) /\ Before(<<>>, rest)
  BY <1>2 DEF Before
<1>4. ASSUME NEW i \in 1 .. Len(buf)
      PROVE  buf[i].item = rest[Len(<<>>) + i] /\ buf[i].item.st = "sysex"
  <2>1. rest[Len(<<>>) + i] = all[Len(out) + i]
    BY <1>1, <1>2
  <2>2. QED
    BY <2>1 DEF SysBytes
<1>5. SysBytes(<<>>, buf, rest)
  BY <1>3, <1>4 DEF SysBytes
<1>6. QED
  BY <1>2, <1>5 DEF rest

------------------------------------------------------------------------------
(* What the operations of the parser do to it *)

MsgsIn(s, all) ==
  s.out \in Seq(Items) /\ all \in Seq(Items) /\ Msgs(s.out, s.buf, s.msgCnt, all)

BytesIn(s, all) ==
  /\ s.msgCnt = 0 /\ s.out \in Seq(Items) /\ all \in Seq(Items)
  /\ SysBytes(s.out, s.buf, all)

Delivers(s, all) ==
  IF s.state = "expectEOX" THEN BytesIn(s, all) ELSE MsgsIn(s, all)

LEMMA EmptyIn ==
  ASSUME NEW s, NEW all, s.buf = <<>>, s.msgCnt = 0
  PROVE  MsgsIn(s, all) <=> BytesIn(s, all)
<1>1. Len(s.buf) = 0 * MsgN /\ Len(s.buf) = 0
  BY MidiParserAssumption
<1>2. \A i \in 1 .. 0 : FALSE
  OBVIOUS
<1>3. Msgs(s.out, s.buf, 0, all) <=> SysBytes(s.out, s.buf, all)
  BY <1>1, <1>2 DEF Msgs, SysBytes
<1>4. QED
  BY <1>3 DEF MsgsIn, BytesIn

LEMMA TransmitGives ==
  ASSUME NEW s, Sound(s), NEW all, MsgsIn(s, all)
  PROVE  /\ MsgsIn(TransmitChMsgs(s), all) /\ NoSysEx(s)
         /\ TransmitChMsgs(s).buf = <<>> /\ TransmitChMsgs(s).msgCnt = 0
<1>1. NoSysEx(s)
  <2>1. ASSUME s.msgCnt = 0 PROVE s.buf = <<>>
    <3>1. Len(s.buf) = 0 /\ s.buf \in Seq(Cell)
      BY <2>1, MidiParserAssumption DEF MsgsIn, Msgs, Sound
    <3>2. QED
      BY <3>1
  <2>2. QED
    BY <2>1 DEF NoSysEx
<1>2. CASE s.msgCnt = 0
  BY <1>1, <1>2 DEF TransmitChMsgs, NoSysEx
<1>3. CASE s.msgCnt # 0
  <2> DEFINE o == s.out \o [k \in 1 .. s.msgCnt |-> Read(s.buf, k)]
  <2>1. TransmitChMsgs(s) = [s EXCEPT !.out = o, !.buf = <<>>, !.msgCnt = 0]
    BY <1>3 DEF TransmitChMsgs
  <2>2. o \in Seq(Items) /\ Msgs(o, <<>>, 0, all)
    <3>1. /\ s.out \in Seq(Items) /\ all \in Seq(Items) /\ s.buf \in Seq(Cell)
          /\ s.msgCnt \in Nat /\ Msgs(s.out, s.buf, s.msgCnt, all)
      BY DEF MsgsIn, Sound
    <3>2. QED
      BY <3>1, MsgsFlush
  <2> HIDE DEF o
  <2>3. PICK r : r = TransmitChMsgs(s)
    OBVIOUS
  <2>4. r.out = o /\ r.buf = <<>> /\ r.msgCnt = 0
    BY <2>1, <2>3 DEF Sound, Fields
  <2>5. MsgsIn(r, all)
    BY <2>2, <2>4 DEF MsgsIn
  <2>6. QED
    BY <1>1, <2>3, <2>4, <2>5
<1>4. QED
  BY <1>2, <1>3

LEMMA SysExGives ==
  ASSUME NEW s, Sound(s), NEW all, BytesIn(s, all)
  PROVE  BytesIn(TransmitSysEx(s), all)
<1> DEFINE o == s.out \o [i \in DOMAIN s.buf |-> s.buf[i].item]
<1>1. TransmitSysEx(s) = [s EXCEPT !.out = o, !.buf = <<>>]
  BY DEF TransmitSysEx
<1>2. o \in Seq(Items) /\ SysBytes(o, <<>>, all)
  <2>1. /\ s.out \in Seq(Items) /\ all \in Seq(Items) /\ s.buf \in Seq(Cell)
        /\ SysBytes(s.out, s.buf, all)
    BY DEF BytesIn, Sound
  <2>2. QED
    BY <2>1, BytesFlush
<1> HIDE DEF o
<1>3. PICK r : r = TransmitSysEx(s)
  OBVIOUS
<1>4. r.out = o /\ r.buf = <<>> /\ r.msgCnt = s.msgCnt
  BY <1>1, <1>3 DEF Sound, Fields
<1>5. BytesIn(r, all)
  BY <1>2, <1>4 DEF BytesIn
<1>6. QED
  BY <1>3, <1>5

\* The message a status or a data byte completes.
Stored(s, d) ==
  CASE s.dataCnt = 0 -> Msg(s.status, Unused, Unused)
    [] s.dataCnt = 1 -> Msg(s.status, d, Unused)
    [] OTHER -> Msg(s.status, s.data0, d)

LEMMA StoreGives ==
  ASSUME NEW s, Sound(s), s.status \in Plain, NEW d \in Data \cup Plain,
         s.dataCnt # 0 => d \in Data, NEW all, MsgsIn(s, all)
  PROVE  MsgsIn(StoreChMsg(s, d), all \o <<Stored(s, d)>>)
<1> DEFINE t == IF NoRoom(s) THEN TransmitChMsgs(s) ELSE s
           m == CASE t.dataCnt = 0 -> Msg(t.status, Unused, Unused)
                  [] t.dataCnt = 1 -> Msg(t.status, d, Unused)
                  [] OTHER -> Msg(t.status, t.data0, d)
<1>0. NoSysEx(s)
  BY TransmitGives
<1>1. /\ Sound(t) /\ MsgsIn(t, all)
      /\ \A f \in Fields \ {"buf", "msgCnt", "out"} : t[f] = s[f]
  BY <1>0, TransmitSound, TransmitGives
<1>2. t.dataCnt = s.dataCnt /\ t.status = s.status /\ t.data0 = s.data0
  BY <1>1 DEF Fields
<1>3. m = Stored(s, d)
  BY <1>2 DEF Stored
<1>4. m \in Items
  <2>1. t.status \in Plain /\ t.data0 \in Data \cup {Unused}
    BY <1>1, <1>2 DEF Sound
  <2>2. QED
    BY <1>2, <2>1, MsgType DEF Bytes, Status
<1>5. StoreChMsg(s, d) =
        [t EXCEPT !.buf = t.buf \o Cells(m), !.msgCnt = t.msgCnt + 1,
                  !.failed = t.failed \/ BufN - Len(t.buf) < MsgN]
  BY DEF StoreChMsg
<1> HIDE DEF t, m
<1>6. /\ all \o <<m>> \in Seq(Items)
      /\ Msgs(t.out, t.buf \o Cells(m), t.msgCnt + 1, all \o <<m>>)
  <2>1. /\ t.out \in Seq(Items) /\ all \in Seq(Items) /\ t.buf \in Seq(Cell)
        /\ t.msgCnt \in Nat /\ Msgs(t.out, t.buf, t.msgCnt, all)
    BY <1>1 DEF MsgsIn, Sound
  <2>2. QED
    BY <1>4, <2>1, MsgsAdd
<1>7. PICK r : r = StoreChMsg(s, d)
  OBVIOUS
<1>8. r.out = t.out /\ r.buf = t.buf \o Cells(m) /\ r.msgCnt = t.msgCnt + 1
  BY <1>1, <1>5, <1>7 DEF Sound, Fields
<1>9. MsgsIn(r, all \o <<m>>)
  BY <1>1, <1>6, <1>8 DEF MsgsIn
<1>10. QED
  BY <1>3, <1>7, <1>9

LEMMA ByteGives ==
  ASSUME NEW s, Sound(s), NEW b \in Bytes, NEW all, BytesIn(s, all)
  PROVE  BytesIn(StoreByte(s, b), all \o <<SysByte(b)>>)
<1> DEFINE c == [item |-> SysByte(b), at |-> 1]
<1>1. c \in Cell /\ c.item.st = "sysex" /\ c.item = SysByte(b)
  BY MsgType, MidiParserAssumption DEF Cell, SysByte, Msg
<1>2. StoreByte(s, b) = [s EXCEPT !.buf = Append(s.buf, c),
                                  !.failed = s.failed \/ Len(s.buf) >= BufN]
  BY DEF StoreByte
<1> HIDE DEF c
<1>3. /\ all \o <<c.item>> \in Seq(Items)
      /\ SysBytes(s.out, Append(s.buf, c), all \o <<c.item>>)
  <2>1. /\ s.out \in Seq(Items) /\ all \in Seq(Items) /\ s.buf \in Seq(Cell)
        /\ SysBytes(s.out, s.buf, all)
    BY DEF BytesIn, Sound
  <2>2. QED
    BY <1>1, <2>1, BytesAdd
<1>4. PICK r : r = StoreByte(s, b)
  OBVIOUS
<1>5. r.out = s.out /\ r.buf = Append(s.buf, c) /\ r.msgCnt = s.msgCnt
  BY <1>2, <1>4 DEF Sound, Fields
<1>6. BytesIn(r, all \o <<SysByte(b)>>)
  BY <1>1, <1>3, <1>5 DEF BytesIn
<1>7. QED
  BY <1>4, <1>6

\* What the parser takes to be complete with a status.
AtStatus(b) ==
  IF b = "tune" THEN <<Msg(b, Unused, Unused)>>
  ELSE IF b \in {"sox", "eox"} THEN <<SysByte(b)>> ELSE <<>>

\* Where the parser is in the stream.
Agree(s, h) ==
  /\ s.state = "status" => h.st = "none" /\ ~h.sysex
  /\ s.state = "expectEOX" => h.st = "none" /\ h.sysex
  /\ s.state \in {"data", "statusOrData"} =>
       /\ ~h.sysex /\ h.st = s.status
       /\ h.d = IF s.dataIdx = 0 THEN <<>> ELSE <<s.data0>>

AfterStatus(b) ==
  [st |-> IF b \in {"note", "pgm"} THEN b ELSE "none", d |-> <<>>, sysex |-> b = "sox"]

LEMMA StatusDelivers ==
  ASSUME NEW s, Good(s), NEW b \in Status, s.state = "expectEOX" <=> b = "eox",
         NEW all, Delivers(s, all)
  PROVE  /\ Delivers(StatusByte(s, b), all \o AtStatus(b))
         /\ Agree(StatusByte(s, b), AfterStatus(b))
<1> DEFINE t == [s EXCEPT !.status = b, !.dataCnt = ByteCount(b)]
<1>1. /\ Sound(t) /\ t.status = b /\ t.dataCnt = ByteCount(b)
      /\ \A f \in Fields \ {"status", "dataCnt"} : t[f] = s[f]
  BY DEF Good, Sound, Fields
<1>2. t.out = s.out /\ t.buf = s.buf /\ t.msgCnt = s.msgCnt
  BY <1>1 DEF Fields
<1>3. CASE b = "sox"
  <2> DEFINE v == TransmitChMsgs(t)
             u == [v EXCEPT !.state = "expectEOX", !.dataCnt = -1, !.dataIdx = -1]
  <2>1. MsgsIn(t, all)
    BY <1>2, <1>3 DEF Delivers, MsgsIn
  <2>2. MsgsIn(v, all) /\ NoSysEx(t) /\ v.buf = <<>> /\ v.msgCnt = 0
    BY <1>1, <2>1, TransmitGives
  <2>3. Sound(v)
    BY <1>1, TransmitSound
  <2>4. StatusByte(s, b) = StoreByte(u, b)
    <3>1. b # "eox" /\ b \notin Plain
      BY <1>3 DEF Plain
    <3>2. QED
      BY <1>3, <3>1, Zenon DEF StatusByte
  <2> HIDE DEF t, v
  <2>5. /\ Sound(u) /\ u.buf = <<>> /\ u.msgCnt = 0 /\ u.state = "expectEOX"
        /\ u.out = v.out
    BY <2>2, <2>3 DEF Sound, Fields
  <2> HIDE DEF u
  <2>6. BytesIn(u, all)
    <3>1. MsgsIn(u, all)
      BY <2>2, <2>5 DEF MsgsIn
    <3>2. QED
      BY <2>5, <3>1, EmptyIn
  <2>7. BytesIn(StoreByte(u, b), all \o <<SysByte(b)>>)
    BY <2>5, <2>6, ByteGives DEF Bytes
  <2>8. StoreByte(u, b).state = "expectEOX"
    <3>1. Len(u.buf) < BufN
      BY <2>5, MidiParserAssumption
    <3>2. QED
      BY <2>5, <3>1, ByteSound DEF Fields, Bytes
  <2>9. AtStatus(b) = <<SysByte(b)>>
    BY <1>3 DEF AtStatus
  <2>10. Agree(StatusByte(s, b), AfterStatus(b))
    BY <1>3, <2>4, <2>8 DEF Agree, AfterStatus
  <2>11. QED
    BY <2>4, <2>7, <2>8, <2>9, <2>10 DEF Delivers
<1>4. CASE b = "eox"
  <2> DEFINE u == StoreByte(t, b)
             v == TransmitSysEx(u)
  <2>1. BytesIn(t, all) /\ SysExRoom(t) /\ b \in Bytes
    BY <1>1, <1>2, <1>4 DEF Delivers, BytesIn, Good, SysExRoom, Bytes
  <2>2. Sound(u) /\ BytesIn(u, all \o <<SysByte(b)>>)
    BY <1>1, <2>1, ByteSound, ByteGives DEF SysExRoom
  <2>3. Sound(v) /\ v.buf = <<>> /\ BytesIn(v, all \o <<SysByte(b)>>)
    BY <2>2, SysExSound, SysExGives
  <2>4. MsgsIn(v, all \o <<SysByte(b)>>)
    BY <2>3, EmptyIn DEF BytesIn
  <2>5. StatusByte(s, b) = [v EXCEPT !.state = "status"]
    <3>1. b # "sox" /\ b \notin Plain
      BY <1>4 DEF Plain
    <3>2. QED
      BY <1>4, <3>1, Zenon DEF StatusByte
  <2> HIDE DEF t, u, v
  <2>6. PICK r : r = StatusByte(s, b)
    OBVIOUS
  <2>7. r.out = v.out /\ r.buf = v.buf /\ r.msgCnt = v.msgCnt /\ r.state = "status"
    BY <2>3, <2>5, <2>6 DEF Sound, Fields
  <2>8. AtStatus(b) = <<SysByte(b)>>
    BY <1>4 DEF AtStatus
  <2>9. Delivers(r, all \o <<SysByte(b)>>)
    BY <2>4, <2>7 DEF Delivers, MsgsIn
  <2>10. Agree(r, AfterStatus(b))
    BY <1>4, <2>7 DEF Agree, AfterStatus
  <2>11. QED
    BY <2>6, <2>8, <2>9, <2>10
<1>5. CASE b \in {"note", "pgm"}
  <2>1. ByteCount(b) > 0 /\ b \in Plain
    BY <1>5 DEF ByteCount, Plain
  <2>2. StatusByte(s, b) = [t EXCEPT !.state = "data", !.dataIdx = 0]
    BY <1>5, <2>1 DEF StatusByte
  <2> HIDE DEF t
  <2>3. PICK r : r = StatusByte(s, b)
    OBVIOUS
  <2>4. /\ r.state = "data" /\ r.dataIdx = 0 /\ r.status = b
        /\ r.out = t.out /\ r.buf = t.buf /\ r.msgCnt = t.msgCnt
    BY <1>1, <2>2, <2>3 DEF Sound, Fields
  <2>5. AtStatus(b) = <<>> /\ all \in Seq(Items) /\ all \o <<>> = all
    <3>1. all \in Seq(Items)
      BY DEF Delivers, MsgsIn, BytesIn
    <3>2. QED
      BY <1>5, <3>1 DEF AtStatus
  <2>6. Delivers(r, all)
    BY <1>2, <1>5, <2>4 DEF Delivers, MsgsIn
  <2>7. Agree(r, AfterStatus(b))
    BY <1>5, <2>4 DEF Agree, AfterStatus
  <2>8. QED
    BY <2>3, <2>5, <2>6, <2>7
<1>6. CASE b = "tune"
  <2> DEFINE u == StoreChMsg(t, b)
  <2>1. ByteCount(b) = 0 /\ b \in Plain
    BY <1>6 DEF ByteCount, Plain
  <2>2. MsgsIn(t, all)
    BY <1>2, <1>6 DEF Delivers, MsgsIn
  <2>3. NoSysEx(t)
    BY <1>1, <2>2, TransmitGives
  <2>4. /\ Sound(u) /\ MsgsIn(u, all \o <<Stored(t, b)>>)
    BY <1>1, <2>1, <2>2, <2>3, EmptyRoomy, StoreSound, StoreGives
  <2>5. <<Stored(t, b)>> = AtStatus(b)
    BY <1>1, <1>6, <2>1 DEF Stored, AtStatus
  <2>6. StatusByte(s, b) = [u EXCEPT !.state = "status", !.dataIdx = -1, !.dataCnt = -1]
    BY <1>6, <2>1 DEF StatusByte
  <2> HIDE DEF t, u
  <2>7. PICK r : r = StatusByte(s, b)
    OBVIOUS
  <2>8. r.out = u.out /\ r.buf = u.buf /\ r.msgCnt = u.msgCnt /\ r.state = "status"
    BY <2>4, <2>6, <2>7 DEF Sound, Fields
  <2>9. Delivers(r, all \o AtStatus(b))
    BY <2>4, <2>5, <2>8 DEF Delivers, MsgsIn
  <2>10. Agree(r, AfterStatus(b))
    BY <1>6, <2>8 DEF Agree, AfterStatus
  <2>11. QED
    BY <2>7, <2>9, <2>10
<1>7. QED
  BY <1>3, <1>4, <1>5, <1>6 DEF Status, Plain

\* What the stream has complete with a data byte, and where it is then.
AtData(h, d) ==
  CASE h.sysex -> <<SysByte(d)>>
    [] h.st = "pgm" -> <<Msg("pgm", d, Unused)>>
    [] h.st = "note" /\ h.d # <<>> -> <<Msg("note", h.d[1], d)>>
    [] OTHER -> <<>>

AfterData(h, d) ==
  IF h.st = "note" /\ h.d = <<>> THEN [h EXCEPT !.d = <<d>>]
  ELSE IF h.st \in {"note", "pgm"} THEN [h EXCEPT !.d = <<>>] ELSE h

LEMMA DataDelivers ==
  ASSUME NEW s, Good(s), NEW d \in Data, NEW all, Delivers(s, all),
         NEW h, DOMAIN h = {"st", "d", "sysex"}, Agree(s, h)
  PROVE  /\ Delivers(DataByte(s, d), all \o AtData(h, d))
         /\ Agree(DataByte(s, d), AfterData(h, d))
<1>0. all \in Seq(Items) /\ all \o <<>> = all
  <2>1. all \in Seq(Items)
    BY DEF Delivers, MsgsIn, BytesIn
  <2>2. QED
    BY <2>1
<1>1. CASE s.state \in {"data", "statusOrData"}
  <2> DEFINE u == StoreChMsg(s, d)
  <2>1. /\ Sound(s) /\ Roomy(s) /\ s.status \in {"note", "pgm"} /\ MsgsIn(s, all)
    BY <1>1 DEF Good, DataGood, Delivers
  <2>2. /\ Sound(u) /\ MsgsIn(u, all \o <<Stored(s, d)>>)
        /\ \A f \in Fields \ {"buf", "msgCnt", "out", "failed"} : u[f] = s[f]
    BY <2>1, StoreSound, StoreGives DEF Plain
  <2>3. s.dataCnt = ByteCount(s.status) /\ s.dataCnt \in {1, 2}
    BY <1>1, <2>1 DEF Good, DataGood, ByteCount
  <2>4. ~h.sysex /\ h.st = s.status /\ h.d = IF s.dataIdx = 0 THEN <<>> ELSE <<s.data0>>
    BY <1>1 DEF Agree
  <2> HIDE DEF u
  <2>5. CASE s.dataIdx = 0 /\ s.dataCnt = 1
    <3>1. DataByte(s, d) = [u EXCEPT !.state = "statusOrData"]
      BY <1>1, <2>5 DEF DataByte, u
    <3>2. PICK r : r = DataByte(s, d)
      OBVIOUS
    <3>3. /\ r.out = u.out /\ r.buf = u.buf /\ r.msgCnt = u.msgCnt
          /\ r.state = "statusOrData" /\ r.status = s.status /\ r.dataIdx = 0
      BY <2>2, <2>5, <3>1, <3>2 DEF Sound, Fields
    <3>4. s.status = "pgm" /\ s.status # "note"
      BY <2>1, <2>3, <2>5 DEF ByteCount
    <3>5. <<Stored(s, d)>> = AtData(h, d)
      BY <2>4, <2>5, <3>4 DEF Stored, AtData
    <3>6. Delivers(r, all \o AtData(h, d))
      BY <2>2, <3>3, <3>5 DEF Delivers, MsgsIn
    <3>7. AfterData(h, d).sysex = h.sysex /\ AfterData(h, d).st = h.st
          /\ AfterData(h, d).d = <<>>
      BY <2>4, <3>4 DEF AfterData
    <3>8. Agree(r, AfterData(h, d))
      BY <2>4, <3>3, <3>7 DEF Agree
    <3>9. QED
      BY <3>2, <3>6, <3>8
  <2>6. CASE s.dataIdx = 0 /\ s.dataCnt = 2
    <3>1. DataByte(s, d) = [s EXCEPT !.state = "data", !.dataIdx = 1, !.data0 = d]
      BY <1>1, <2>6 DEF DataByte
    <3>2. PICK r : r = DataByte(s, d)
      OBVIOUS
    <3>3. /\ r.out = s.out /\ r.buf = s.buf /\ r.msgCnt = s.msgCnt
          /\ r.state = "data" /\ r.status = s.status /\ r.dataIdx = 1 /\ r.data0 = d
      BY <2>1, <3>1, <3>2 DEF Sound, Fields
    <3>4. s.status = "note" /\ h.d = <<>>
      BY <2>1, <2>3, <2>4, <2>6 DEF ByteCount
    <3>5. AtData(h, d) = <<>>
      BY <2>4, <3>4 DEF AtData
    <3>6. Delivers(r, all)
      BY <2>1, <3>3 DEF Delivers, MsgsIn
    <3>7. AfterData(h, d).sysex = h.sysex /\ AfterData(h, d).st = h.st
          /\ AfterData(h, d).d = <<d>>
      BY <2>4, <3>4 DEF AfterData
    <3>8. Agree(r, AfterData(h, d))
      BY <2>4, <3>3, <3>7 DEF Agree
    <3>9. QED
      BY <1>0, <3>2, <3>5, <3>6, <3>8
  <2>7. CASE s.state = "data" /\ s.dataIdx = 1 /\ s.dataCnt = 2
    <3>1. DataByte(s, d) = NextMsg([u EXCEPT !.state = "statusOrData"])
      BY <1>1, <2>7 DEF DataByte, u
    <3>2. PICK r : r = DataByte(s, d)
      OBVIOUS
    <3>3. /\ r.out = u.out /\ r.buf = u.buf /\ r.msgCnt = u.msgCnt
          /\ r.state = "statusOrData" /\ r.status = s.status /\ r.dataIdx = 0
      BY <2>2, <3>1, <3>2 DEF Sound, Fields, NextMsg
    <3>4. s.status = "note" /\ h.d = <<s.data0>> /\ h.d # <<>> /\ h.d[1] = s.data0
      BY <2>1, <2>3, <2>4, <2>7 DEF ByteCount
    <3>5. <<Stored(s, d)>> = AtData(h, d)
      BY <2>4, <2>7, <3>4 DEF Stored, AtData
    <3>6. Delivers(r, all \o AtData(h, d))
      BY <2>2, <3>3, <3>5 DEF Delivers, MsgsIn
    <3>7. Agree(r, AfterData(h, d))
      BY <2>4, <3>3, <3>4 DEF Agree, AfterData
    <3>8. QED
      BY <3>2, <3>6, <3>7
  <2>8. QED
    BY <1>1, <2>3, <2>5, <2>6, <2>7 DEF Good, DataGood
<1>2. CASE s.state = "expectEOX"
  <2> DEFINE u == StoreByte(s, d)
  <2>1. Sound(s) /\ SysExRoom(s) /\ d \in Bytes /\ BytesIn(s, all)
    BY <1>2 DEF Good, Bytes, Delivers
  <2>2. /\ Sound(u) /\ u.state = "expectEOX"
        /\ BytesIn(u, all \o <<SysByte(d)>>)
    BY <1>2, <2>1, ByteSound, ByteGives DEF SysExRoom, Fields
  <2>3. DataByte(s, d) = IF Len(u.buf) = BufN THEN TransmitSysEx(u) ELSE u
    BY <1>2 DEF DataByte
  <2> HIDE DEF u
  <2>4. PICK r : r = DataByte(s, d)
    OBVIOUS
  <2>5. r.state = "expectEOX" /\ BytesIn(r, all \o <<SysByte(d)>>)
    <3>1. CASE Len(u.buf) = BufN
      BY <2>2, <2>3, <2>4, <3>1, SysExSound, SysExGives DEF Fields
    <3>2. CASE Len(u.buf) # BufN
      BY <2>2, <2>3, <2>4, <3>2
    <3>3. QED
      BY <3>1, <3>2
  <2>6. h.st = "none" /\ h.sysex
    BY <1>2 DEF Agree
  <2>7. AtData(h, d) = <<SysByte(d)>> /\ AfterData(h, d) = h
    BY <2>6 DEF AtData, AfterData
  <2>8. QED
    BY <2>4, <2>5, <2>6, <2>7 DEF Delivers, Agree
<1>3. CASE s.state = "status"
  <2>1. DataByte(s, d) = s
    BY <1>3 DEF DataByte
  <2>2. h.st = "none" /\ ~h.sysex
    BY <1>3 DEF Agree
  <2>3. AtData(h, d) = <<>> /\ AfterData(h, d) = h
    BY <2>2 DEF AtData, AfterData
  <2>4. QED
    BY <1>0, <2>1, <2>3
<1>4. QED
  BY <1>1, <1>2, <1>3 DEF Good, Sound

\* The beginning is given to the client.
LEMMA GivenDelivers ==
  ASSUME NEW s, Good(s), NEW all, Delivers(s, all)
  PROVE  /\ IsPrefix(s.out, all)
         /\ Delivers([s EXCEPT !.out = <<>>], SubSeq(all, Len(s.out) + 1, Len(all)))
         /\ [s EXCEPT !.out = <<>>].out = <<>>
         /\ \A f \in Fields \ {"out"} : [s EXCEPT !.out = <<>>][f] = s[f]
<1> DEFINE r == [s EXCEPT !.out = <<>>]
           rest == SubSeq(all, Len(s.out) + 1, Len(all))
<1>1. /\ r.out = <<>>
      /\ \A f \in Fields \ {"out"} : r[f] = s[f]
  BY DEF Good, Sound, Fields
<1>2. r.buf = s.buf /\ r.msgCnt = s.msgCnt /\ r.state = s.state
  BY <1>1 DEF Fields
<1>3. <<>> \in Seq(Items)
  OBVIOUS
<1> HIDE DEF r, rest
<1>4. CASE s.state = "expectEOX"
  <2>1. /\ s.out \in Seq(Items) /\ all \in Seq(Items) /\ s.buf \in Seq(Cell)
        /\ SysBytes(s.out, s.buf, all) /\ s.msgCnt = 0
    BY <1>4 DEF Delivers, BytesIn, Good, Sound
  <2>2. IsPrefix(s.out, all) /\ rest \in Seq(Items) /\ SysBytes(<<>>, s.buf, rest)
    BY <2>1, SplitBytes DEF rest
  <2>3. Delivers(r, rest)
    BY <1>1, <1>2, <1>3, <1>4, <2>1, <2>2 DEF Delivers, BytesIn
  <2>4. QED
    BY <1>1, <2>2, <2>3 DEF r, rest
<1>5. CASE s.state # "expectEOX"
  <2>1. /\ s.out \in Seq(Items) /\ all \in Seq(Items) /\ s.msgCnt \in Nat
        /\ Msgs(s.out, s.buf, s.msgCnt, all)
    BY <1>5 DEF Delivers, MsgsIn, Good, Sound
  <2>2. IsPrefix(s.out, all) /\ rest \in Seq(Items) /\ Msgs(<<>>, s.buf, s.msgCnt, rest)
    BY <2>1, SplitMsgs DEF rest
  <2>3. Delivers(r, rest)
    BY <1>1, <1>2, <1>3, <1>5, <2>1, <2>2 DEF Delivers, MsgsIn
  <2>4. QED
    BY <1>1, <2>2, <2>3 DEF r, rest
<1>6. QED
  BY <1>4, <1>5

(***************************************************************************)
(* The parser is in a sysex message exactly when the stream is, they agree *)
(* elsewhere, and with what the client was given the buffer has all of the *)
(* stream.  No channel message stays behind a call.                        *)
(***************************************************************************)
InStep ==
  /\ DOMAIN heard = {"st", "d", "sysex"} /\ heard.sysex \in BOOLEAN
  /\ mode = "bytes" => (heard.sysex <=> p.state = "expectEOX")

OrderInv ==
  /\ InStep
  /\ mode = "bytes" => Agree(p, heard)
  /\ p.out = <<>> /\ ~wrong
  /\ Delivers(p, due)
  /\ ~inCall => p.msgCnt = 0

\* A stream of whole sysex messages never meets a buffer without room.
LEMMA FitsRoom ==
  ASSUME PInv, OrderInv, mode = "bytes", NEW b \in Bytes, Fits(b)
  PROVE  /\ ~Crowds(b)
         /\ b \in Status => (p.state = "expectEOX" <=> b = "eox")
<1>1. b \in Status => (p.state = "expectEOX" <=> b = "eox")
  BY DEF OrderInv, InStep, Fits
<1>2. ~Crowds(b)
  BY <1>1 DEF Crowds, PInv, Good, SysExRoom, Status
<1>3. QED
  BY <1>1, <1>2

LEMMA StreamHeard ==
  ASSUME OrderInv, NEW b \in Bytes
  PROVE  /\ DOMAIN Hear(b) = {"st", "d", "sysex"} /\ Hear(b).sysex \in BOOLEAN
         /\ b \in Data => Hear(b).sysex = heard.sysex
         /\ b \in Status => Hear(b).sysex = (b = "sox")
<1>1. CASE b \in Status
  <2>1. b \notin Data
    BY <1>1, MidiParserAssumption
  <2>2. Hear(b) = [st |-> IF b \in {"note", "pgm"} THEN b ELSE "none", d |-> <<>>,
                   sysex |-> b = "sox"]
    BY <1>1, <2>1 DEF Hear
  <2>3. DOMAIN Hear(b) = {"st", "d", "sysex"} /\ Hear(b).sysex = (b = "sox")
    BY <2>2
  <2>4. QED
    BY <1>1, <2>1, <2>3
<1>2. CASE b \in Data
  <2>1. b \notin Status
    BY <1>2, MidiParserAssumption
  <2>2. Hear(b) = heard \/ \E e : Hear(b) = [heard EXCEPT !.d = e]
    BY <2>1 DEF Hear
  <2>3. DOMAIN Hear(b) = {"st", "d", "sysex"} /\ Hear(b).sysex = heard.sysex
    BY <2>2 DEF OrderInv, InStep
  <2>4. QED
    BY <1>2, <2>1, <2>3 DEF OrderInv, InStep
<1>3. QED
  BY <1>1, <1>2 DEF Bytes

LEMMA OrderInit ==
  ASSUME Init
  PROVE  OrderInv
<1>1. /\ p.out = <<>> /\ p.buf = <<>> /\ p.msgCnt = 0 /\ p.state = "status"
      /\ ~wrong /\ due = <<>> /\ heard.st = "none" /\ ~heard.sysex
  BY DEF Init, Silence
<1>2. /\ due \in Seq(Items) /\ p.out \in Seq(Items)
      /\ Len(p.out) = 0 /\ Len(due) = 0 /\ Len(p.buf) = 0
  BY <1>1
<1>3. SysBytes(p.out, p.buf, due)
  BY <1>2 DEF SysBytes, Before
<1>4. MsgsIn(p, due)
  BY <1>1, <1>2, <1>3, EmptyIn DEF BytesIn
<1>5. InStep
  BY <1>1 DEF Init, Silence, InStep
<1>6. QED
  BY <1>1, <1>4, <1>5 DEF OrderInv, Delivers, Agree

\* A step that leaves the parser as s, with new complete, gives the client the
\* beginning of what is due.
LEMMA OrderGiven ==
  ASSUME NEW s, Good(s), NEW new, Delivers(s, due \o new), proper', Given(s, new),
         DOMAIN heard' = {"st", "d", "sysex"}, heard'.sysex \in BOOLEAN,
         mode' = "bytes" => (heard'.sysex <=> s.state = "expectEOX"),
         mode' = "bytes" => Agree(s, heard'), ~inCall' => s.msgCnt = 0
  PROVE  OrderInv'
<1> DEFINE all == due \o new
           r == [s EXCEPT !.out = <<>>]
           rest == SubSeq(all, Len(s.out) + 1, Len(all))
<1>1. p' = r /\ due' = rest /\ wrong' = ~IsPrefix(s.out, all)
  BY DEF Given
<1>2. /\ IsPrefix(s.out, all) /\ Delivers(r, rest) /\ r.out = <<>>
      /\ \A f \in Fields \ {"out"} : r[f] = s[f]
  <2>1. Delivers(s, all)
    OBVIOUS
  <2> HIDE DEF all
  <2>2. QED
    BY <2>1, GivenDelivers
<1> HIDE DEF all, r, rest
<1>3. mode' = "bytes" => Agree(r, heard')
  BY <1>2 DEF Agree, Fields
<1>4. ~inCall' => r.msgCnt = 0
  BY <1>2 DEF Fields
<1>5. Delivers(p', due')
  BY <1>1, <1>2
<1>6. r.state = s.state
  BY <1>2 DEF Fields
<1>7. QED
  BY <1>1, <1>2, <1>3, <1>4, <1>5, <1>6
     DEF OrderInv, InStep, Agree, Delivers, MsgsIn, BytesIn, Msgs, SysBytes, Before

\* The stream, told from the parser's side.
LEMMA HeardIs ==
  ASSUME DOMAIN heard = {"st", "d", "sysex"}, heard.sysex \in BOOLEAN,
         Agree(p, heard), Good(p), NEW b \in Bytes
  PROVE  /\ b \in Status => Hear(b) = AfterStatus(b) /\ Complete(b) = AtStatus(b)
         /\ b \in Data => Hear(b) = AfterData(heard, b) /\ Complete(b) = AtData(heard, b)
<1>2. CASE b \in Status
  <2>1. b \notin Data
    BY <1>2, MidiParserAssumption
  <2>2. Hear(b) = AfterStatus(b)
    BY <1>2, <2>1 DEF Hear, AfterStatus
  <2>3. CASE b = "tune"
    BY <2>1, <2>2, <2>3 DEF Complete, AtStatus
  <2>4. CASE b \in {"sox", "eox"}
    <3>1. b # "tune"
      BY <2>4
    <3>2. QED
      BY <2>1, <2>2, <2>4, <3>1 DEF Complete, AtStatus
  <2>5. CASE b \notin {"tune", "sox", "eox"}
    <3>1. b # "tune"
      BY <2>5
    <3>2. QED
      BY <2>1, <2>2, <2>5, <3>1 DEF Complete, AtStatus
  <2>6. QED
    BY <2>1, <2>2, <2>3, <2>4, <2>5
<1>3. CASE b \in Data
  <2>1. b \notin Status /\ b \notin {"tune", "sox", "eox"}
    BY <1>3, MidiParserAssumption DEF Status, Plain
  <2>2. CASE heard.sysex
    <3>1. heard.st = "none"
      BY <2>2 DEF Agree, Good, Sound
    <3>2. Hear(b) = heard /\ AfterData(heard, b) = heard
      BY <1>3, <2>1, <3>1 DEF Hear, AfterData
    <3>3. Complete(b) = <<SysByte(b)>>
      BY <1>3, <2>1, <2>2, <3>1 DEF Complete
    <3>4. AtData(heard, b) = <<SysByte(b)>>
      BY <2>2, <3>1 DEF AtData
    <3>5. QED
      BY <2>1, <3>2, <3>3, <3>4
  <2>3. CASE ~heard.sysex
    <3>1. \/ heard.st = "none"
          \/ heard.st \in {"note", "pgm"} /\ \E e : heard.d \in {<<>>, <<e>>}
      BY <2>3 DEF Agree, Good, Sound, DataGood
    <3>2. CASE heard.st = "none"
      <4>1. Hear(b) = heard /\ AfterData(heard, b) = heard
        BY <1>3, <2>1, <3>2 DEF Hear, AfterData
      <4>2. Complete(b) = <<>> /\ AtData(heard, b) = <<>>
        BY <2>1, <2>3, <3>2 DEF Complete, AtData
      <4>3. QED
        BY <2>1, <4>1, <4>2
    <3>3. CASE heard.st = "pgm"
      <4>1. heard.d = <<>>
        BY <2>3, <3>3 DEF Agree, Good, Sound, DataGood, ByteCount
      <4>2. ByteCount(heard.st) = 1 /\ Len(heard.d) + 1 = 1
        BY <3>3, <4>1 DEF ByteCount
      <4>3. Hear(b) = [heard EXCEPT !.d = <<>>] /\ AfterData(heard, b) = [heard EXCEPT !.d = <<>>]
        BY <2>1, <3>3, <4>2 DEF Hear, AfterData
      <4>4. Complete(b) = AtData(heard, b)
        BY <1>3, <2>1, <2>3, <3>3 DEF Complete, AtData
      <4>5. QED
        BY <2>1, <4>3, <4>4
    <3>4. CASE heard.st = "note"
      <4>1. ByteCount(heard.st) = 2
        BY <3>4 DEF ByteCount
      <4>2. CASE heard.d = <<>>
        <5>1. Len(heard.d) + 1 # 2 /\ Append(heard.d, b) = <<b>>
          BY <4>2
        <5>2. Hear(b) = [heard EXCEPT !.d = <<b>>]
          BY <2>1, <3>4, <4>1, <5>1 DEF Hear
        <5>3. AfterData(heard, b) = [heard EXCEPT !.d = <<b>>]
          BY <3>4, <4>2 DEF AfterData
        <5>4. Complete(b) = <<>> /\ AtData(heard, b) = <<>>
          BY <2>1, <2>3, <3>4, <4>2 DEF Complete, AtData
        <5>5. QED
          BY <2>1, <5>2, <5>3, <5>4
      <4>3. CASE heard.d # <<>>
        <5>1. PICK e : heard.d = <<e>>
          BY <3>1, <3>4, <4>3
        <5>2. Len(heard.d) + 1 = 2
          BY <5>1
        <5>3. Hear(b) = [heard EXCEPT !.d = <<>>]
          BY <2>1, <3>4, <4>1, <5>2 DEF Hear
        <5>4. AfterData(heard, b) = [heard EXCEPT !.d = <<>>]
          BY <3>4, <4>3 DEF AfterData
        <5>5. Complete(b) = AtData(heard, b)
          BY <1>3, <2>1, <2>3, <3>4, <4>3 DEF Complete, AtData
        <5>6. QED
          BY <2>1, <5>3, <5>4, <5>5
      <4>4. QED
        BY <4>2, <4>3
    <3>5. QED
      BY <3>1, <3>2, <3>3, <3>4
  <2>4. QED
    BY <2>2, <2>3
<1>4. QED
  BY <1>2, <1>3 DEF Bytes

LEMMA OrderStep ==
  ASSUME PInv, OrderInv, [Next]_vars, proper'
  PROVE  OrderInv'
<1>1. ASSUME NEW b \in Bytes, ParseByte(b)
      PROVE  OrderInv'
  <2> DEFINE s == IF b \in Status THEN StatusByte(p, b) ELSE DataByte(p, b)
  <2>1. /\ mode = "bytes" /\ mode' = mode /\ Fits(b) /\ heard' = Hear(b)
        /\ inCall' = TRUE /\ Given(s, Complete(b))
    BY <1>1 DEF ParseByte
  <2>2. /\ Good(p) /\ Agree(p, heard) /\ Delivers(p, due)
        /\ DOMAIN heard = {"st", "d", "sysex"} /\ heard.sysex \in BOOLEAN
        /\ heard.sysex <=> p.state = "expectEOX"
    BY <2>1 DEF PInv, InStep, OrderInv
  <2>5. heard'.sysex <=> s.state = "expectEOX"
    BY <2>1, <2>2, FitsRoom, ByteGood, StreamHeard DEF Bytes
  <2>6. DOMAIN heard' = {"st", "d", "sysex"} /\ heard'.sysex \in BOOLEAN
    BY <2>1, StreamHeard
  <2>3. Good(s) /\ Delivers(s, due \o Complete(b)) /\ Agree(s, Hear(b))
    <3>1. CASE b \in Status
      <4>1. p.state = "expectEOX" <=> b = "eox"
        BY <2>1, <3>1, FitsRoom
      <4>2. Hear(b) = AfterStatus(b) /\ Complete(b) = AtStatus(b)
        BY <2>1, <2>2, <3>1, HeardIs
      <4>3. /\ Good(StatusByte(p, b))
            /\ Delivers(StatusByte(p, b), due \o AtStatus(b))
            /\ Agree(StatusByte(p, b), AfterStatus(b))
        BY <2>1, <2>2, <3>1, <4>1, FitsRoom, ByteGood, StatusDelivers
      <4>4. QED
        BY <3>1, <4>2, <4>3
    <3>2. CASE b \notin Status
      <4>1. b \in Data
        BY <3>2 DEF Bytes
      <4>2. Hear(b) = AfterData(heard, b) /\ Complete(b) = AtData(heard, b)
        BY <2>1, <2>2, <4>1, HeardIs
      <4>3. /\ Good(DataByte(p, b))
            /\ Delivers(DataByte(p, b), due \o AtData(heard, b))
            /\ Agree(DataByte(p, b), AfterData(heard, b))
        BY <2>2, <4>1, DataByteGood, DataDelivers
      <4>4. QED
        BY <3>2, <4>2, <4>3
    <3>3. QED
      BY <3>1, <3>2
  <2> HIDE DEF s
  <2>4. QED
    BY <2>1, <2>3, <2>5, <2>6, OrderGiven
<1>2. ASSUME NEW st \in Plain, NEW a \in Data \cup {Unused}, NEW b \in Data \cup {Unused},
             a = Unused => b = Unused, MidiTriple(st, a, b)
      PROVE  OrderInv'
  <2> DEFINE cnt == IF a = Unused THEN 0 ELSE IF b = Unused THEN 1 ELSE 2
             mb == <<st, a, b>>[cnt + 1]
             a0 == IF cnt = 2 THEN a ELSE p.data0
             t == [p EXCEPT !.dataCnt = cnt, !.status = st, !.data0 = a0]
             u == StoreChMsg(t, mb)
             s == Triple(p, cnt, st, a0, mb)
  <2>1. /\ mode = "triples" /\ mode' = mode /\ inCall' = TRUE
        /\ heard' = heard /\ Given(s, <<Msg(st, a, b)>>)
    BY <1>2 DEF MidiTriple, Triple
  <2>2. /\ cnt \in {0, 1, 2} /\ (cnt # 0 => mb \in Data) /\ mb \in Data \cup Plain
        /\ Msg(st, a, b) = (CASE cnt = 0 -> Msg(st, Unused, Unused)
                              [] cnt = 1 -> Msg(st, mb, Unused)
                              [] OTHER -> Msg(st, a0, mb))
    <3>1. CASE a = Unused
      <4>1. cnt = 0 /\ mb = st /\ b = Unused
        BY <1>2, <3>1
      <4>2. QED
        BY <3>1, <4>1
    <3>2. CASE a # Unused /\ b = Unused
      <4>1. cnt = 1 /\ mb = a /\ a \in Data
        BY <3>2
      <4>2. QED
        BY <3>2, <4>1
    <3>3. CASE a # Unused /\ b # Unused
      <4>1. cnt = 2 /\ mb = b /\ b \in Data /\ a0 = a
        BY <3>3
      <4>2. QED
        BY <3>3, <4>1
    <3>4. QED
      BY <3>1, <3>2, <3>3
  <2>3. Good(p) /\ p.state = "status" /\ Delivers(p, due)
    BY <2>1 DEF PInv, OrderInv
  <2>4. a0 \in Data \cup {Unused}
    BY <2>3 DEF Good, Sound
  <2> HIDE DEF cnt, mb, a0
  <2>5. Good(s) /\ s.state = "status"
    BY <2>2, <2>3, <2>4, TripleGood
  <2>6. /\ Sound(t) /\ t.status = st /\ t.dataCnt = cnt /\ t.data0 = a0
        /\ MsgsIn(t, due)
    BY <2>2, <2>3, <2>4 DEF Good, Sound, Fields, Delivers, MsgsIn
  <2>7. s = [u EXCEPT !.dataCnt = -1]
    BY DEF Triple
  <2> HIDE DEF s, t
  <2>8. NoSysEx(t)
    BY <2>6, TransmitGives
  <2>9. Sound(u) /\ MsgsIn(u, due \o <<Stored(t, mb)>>)
    BY <2>2, <2>6, <2>8, EmptyRoomy, StoreSound, StoreGives
  <2>10. Stored(t, mb) = Msg(st, a, b)
    BY <2>2, <2>6 DEF Stored
  <2> HIDE DEF u
  <2>11. s.out = u.out /\ s.buf = u.buf /\ s.msgCnt = u.msgCnt
    BY <2>7, <2>9 DEF Sound, Fields
  <2>12. Delivers(s, due \o <<Msg(st, a, b)>>)
    BY <2>5, <2>9, <2>10, <2>11 DEF Delivers, MsgsIn
  <2>13. QED
    BY <2>1, <2>5, <2>12, OrderGiven DEF OrderInv, InStep
<1>3. CASE EndCall
  <2> DEFINE s == TransmitChMsgs(p)
  <2>1. /\ mode' = mode /\ heard' = heard /\ Given(s, <<>>)
    BY <1>3 DEF EndCall, End
  <2>2. Good(p) /\ Delivers(p, due)
    BY DEF PInv, OrderInv
  <2>3. Good(s) /\ s.state = p.state
    BY <2>2, EndGood DEF End
  <2>4. /\ Delivers(s, due) /\ s.msgCnt = 0
        /\ s.status = p.status /\ s.dataIdx = p.dataIdx /\ s.data0 = p.data0
    <3>1. CASE p.state = "expectEOX"
      <4>1. p.msgCnt = 0
        BY <2>2, <3>1 DEF Delivers, BytesIn
      <4>2. s = p
        BY <4>1 DEF TransmitChMsgs
      <4>3. QED
        BY <2>2, <4>1, <4>2
    <3>2. CASE p.state # "expectEOX"
      <4>1. Sound(p) /\ MsgsIn(p, due)
        BY <2>2, <3>2 DEF Delivers, Good
      <4>2. MsgsIn(s, due) /\ NoSysEx(p) /\ s.msgCnt = 0
        BY <4>1, TransmitGives
      <4>3. \A f \in Fields \ {"buf", "msgCnt", "out"} : s[f] = p[f]
        BY <4>1, <4>2, TransmitSound
      <4>4. QED
        BY <2>3, <3>2, <4>2, <4>3 DEF Delivers, Fields
    <3>3. QED
      BY <3>1, <3>2
  <2> HIDE DEF s
  <2>5. due \o <<>> = due
    <3>1. due \in Seq(Items)
      BY <2>2 DEF Delivers, MsgsIn, BytesIn
    <3>2. QED
      BY <3>1
  <2>6. mode' = "bytes" => Agree(s, heard')
    BY <2>1, <2>3, <2>4 DEF OrderInv, Agree
  <2>7. Delivers(s, due \o <<>>)
    BY <2>4, <2>5
  <2>8. QED
    BY <2>1, <2>3, <2>4, <2>6, <2>7, OrderGiven DEF OrderInv, InStep
<1>4. CASE UNCHANGED vars
  BY <1>4 DEF vars, OrderInv, InStep, Agree, Delivers, MsgsIn, BytesIn, Msgs, SysBytes, Before
<1>5. Unused \notin Data
  BY MidiParserAssumption
<1>6. CASE MidiTriple("tune", Unused, Unused)
  BY <1>2, <1>6 DEF Plain
<1>7. ASSUME NEW a \in Data, MidiTriple("pgm", a, Unused)
      PROVE  OrderInv'
  BY <1>2, <1>5, <1>7 DEF Plain
<1>8. ASSUME NEW a \in Data, NEW b \in Data, MidiTriple("note", a, b)
      PROVE  OrderInv'
  BY <1>2, <1>5, <1>8 DEF Plain
<1>9. QED
  BY <1>1, <1>3, <1>4, <1>6, <1>7, <1>8 DEF Next

LEMMA OrderShows ==
  ASSUME PInv, OrderInv
  PROVE  InStreamOrder
<1>1. p.out = <<>> /\ ~wrong /\ Len(<<>>) = 0 /\ Good(p)
  BY DEF OrderInv, PInv
<1>2. CASE p.state = "expectEOX"
  <2>1. /\ p.msgCnt = 0 /\ due \in Seq(Items) /\ p.buf \in Seq(Cell)
        /\ SysBytes(<<>>, p.buf, due)
    BY <1>1, <1>2 DEF OrderInv, Delivers, BytesIn, Good, Sound
  <2>2. /\ Len(due) = Len(p.buf)
        /\ \A i \in 1 .. Len(p.buf) : p.buf[i].item = due[i] /\ due[i].st = "sysex"
    BY <1>1, <2>1 DEF SysBytes
  <2>3. due = [i \in DOMAIN p.buf |-> p.buf[i].item]
    BY <2>1, <2>2
  <2>4. \A i \in DOMAIN due : due[i].st = "sysex"
    BY <2>1, <2>2
  <2>5. ~(p.msgCnt > 0)
    BY <2>1
  <2>6. QED
    BY <1>1, <2>3, <2>4, <2>5, Zenon DEF InStreamOrder
<1>3. CASE p.state # "expectEOX"
  <2>1. /\ due \in Seq(Items) /\ p.buf \in Seq(Cell) /\ p.msgCnt \in Nat
        /\ Msgs(<<>>, p.buf, p.msgCnt, due)
    BY <1>1, <1>3 DEF OrderInv, Delivers, MsgsIn, Good, Sound
  <2>2. Len(due) = p.msgCnt /\ DOMAIN due = 1 .. p.msgCnt
    BY <1>1, <2>1 DEF Msgs
  <2>3. ASSUME NEW k \in 1 .. p.msgCnt PROVE Read(p.buf, k) = due[k]
    <3>1. due[k] \in Items /\ k \in Nat \ {0}
      BY <2>1, <2>2
    <3>2. k * MsgN <= Len(p.buf)
      <4>1. k * MsgN <= p.msgCnt * MsgN
        BY <2>1, Slot, MidiParserAssumption, SMTT(60)
      <4>2. QED
        BY <2>1, <4>1 DEF Msgs
    <3>3. \A j \in 1 .. MsgN :
            p.buf[((k - 1) * MsgN) + j] = [item |-> due[k], at |-> j]
      BY <1>1, <2>1 DEF Msgs
    <3>4. QED
      BY <2>1, <3>1, <3>2, <3>3, ReadIs
  <2>4. due = [k \in 1 .. p.msgCnt |-> Read(p.buf, k)]
    BY <2>1, <2>2, <2>3
  <2>5. CASE p.msgCnt > 0
    <3>1. inCall
      BY <2>5 DEF OrderInv
    <3>2. QED
      BY <1>1, <2>4, <2>5, <3>1 DEF InStreamOrder
  <2>6. CASE ~(p.msgCnt > 0)
    <3>1. p.msgCnt = 0 /\ p.buf = <<>>
      <4>1. p.msgCnt = 0 /\ Len(p.buf) = 0
        BY <2>1, <2>6, MidiParserAssumption DEF Msgs
      <4>2. QED
        BY <2>1, <4>1
    <3>2. due = <<>> /\ DOMAIN due = {} /\ DOMAIN p.buf = {}
      BY <2>1, <2>2, <3>1
    <3>3. due = [i \in DOMAIN p.buf |-> p.buf[i].item]
      BY <3>2
    <3>4. QED
      BY <1>1, <2>6, <3>2, <3>3 DEF InStreamOrder
  <2>7. QED
    BY <2>5, <2>6
<1>4. QED
  BY <1>2, <1>3

------------------------------------------------------------------------------
IInv ==
  /\ ~crowded => PInv
  /\ proper => ~crowded /\ OrderInv
  /\ p.failed => crowded

LEMMA IInvInit == Init => IInv
<1>1. ASSUME Init
      PROVE  IInv
  <2>1. PInv /\ OrderInv
    BY <1>1, PInvInit, OrderInit
  <2>2. QED
    BY <1>1, <2>1 DEF IInv, Init
<1>2. QED
  BY <1>1

LEMMA IInvStep == IInv /\ [Next]_vars => IInv'
<1>1. SUFFICES ASSUME IInv, [Next]_vars
               PROVE  IInv'
  OBVIOUS
<1>2. /\ ~crowded' => ~crowded
      /\ proper' => proper
      /\ proper' /\ ~crowded => ~crowded'
  <2>1. ASSUME NEW b \in Bytes, ParseByte(b)
        PROVE  /\ ~crowded' => ~crowded
               /\ proper' => proper /\ Fits(b)
               /\ ~crowded /\ ~Crowds(b) => ~crowded'
               /\ mode = "bytes"
    BY <2>1 DEF ParseByte
  <2>2. ASSUME NEW b \in Bytes, ParseByte(b)
        PROVE  /\ ~crowded' => ~crowded
               /\ proper' => proper
               /\ proper' /\ ~crowded => ~crowded'
    BY <1>1, <2>1, <2>2, FitsRoom DEF IInv
  <2>3. CASE EndCall \/ UNCHANGED vars \/ MidiTriple("tune", Unused, Unused)
             \/ (\E a \in Data : MidiTriple("pgm", a, Unused))
             \/ (\E a, b \in Data : MidiTriple("note", a, b))
    <3>1. UNCHANGED <<proper, crowded>>
      BY <2>3, ZenonT(60) DEF EndCall, MidiTriple, vars
    <3>2. QED
      BY <3>1
  <2>4. QED
    BY <1>1, <2>2, <2>3 DEF Next
<1>3. ~crowded' => PInv'
  BY <1>1, <1>2, PInvStep DEF IInv
<1>4. proper' => ~crowded' /\ OrderInv'
  BY <1>1, <1>2, OrderStep DEF IInv
<1>5. ~crowded' => ~p'.failed
  BY <1>3 DEF PInv, Good, Sound
<1>6. QED
  BY <1>3, <1>4, <1>5 DEF IInv

\* For every size of the buffer and of a message, and every stream of bytes,
\* however it is cut into calls: none of the assertions in parseMidiData() and
\* _cmMpParserStoreChMsg() fails, unless a status, not its end, came inside a
\* system-exclusive message whose bytes left no room for a message in the buffer, or
\* an end of nothing met a full one.
THEOREM AssertionsHold == Spec => []NoAssertFails
<1>1. IInv => NoAssertFails
  BY DEF IInv, NoAssertFails
<1>2. QED
  BY <1>1, IInvInit, IInvStep, PTL DEF Spec

\* For every size of the buffer and of a message, in the same streams: the
\* parser never writes past the end of its buffer.
THEOREM BufferNotOverrun == Spec => [](Len(p.buf) <= BufN \/ crowded)
<1>1. IInv => Len(p.buf) <= BufN \/ crowded
  BY DEF IInv, PInv, Good, Sound
<1>2. QED
  BY <1>1, IInvInit, IInvStep, PTL DEF Spec

\* For every size of the buffer and of a message, in every stream whose system-exclusive
\* messages come whole and with no status inside, and
\* however it is cut into calls: the client is given the complete messages
\* of the stream in order, each once, and no channel message stays in the
\* buffer when a call is over.
THEOREM AlwaysInStreamOrder == Spec => []InStreamOrder
<1>1. IInv => InStreamOrder
  <2>1. ASSUME IInv, proper
        PROVE  InStreamOrder
    BY <2>1, OrderShows DEF IInv
  <2>2. QED
    BY <2>1 DEF InStreamOrder
<1>2. QED
  BY <1>1, IInvInit, IInvStep, PTL DEF Spec

=============================================================================
