----------------------------- MODULE MidiParser -----------------------------
(***************************************************************************)
(* cw::midi::parser: the MIDI bytes, or the ready-made messages, of one    *)
(* input port become packets for the client's callback.  Messages collect  *)
(* in a buffer that is transmitted when it is full and at the end of a     *)
(* call; a system-exclusive message uses the same buffer, grows over the   *)
(* calls and is transmitted in pieces if it does not fit.                  *)
(*                                                                         *)
(* One action is one byte of parseMidiData(), with the callbacks it makes, *)
(* the end of a call, or a call of midiTriple().  Statuses stand for their *)
(* kinds: "note" has two data bytes, "pgm" one and "tune" none.  Time      *)
(* stamps and channels are left out, and so is errCnt, which is only       *)
(* reported.                                                               *)
(***************************************************************************)
EXTENDS Integers, Sequences, SequencesExt

CONSTANTS
  Data,         \* data bytes
  BufN,         \* create(): bufByteCnt
  MsgN,         \* sizeof(msg_t), in the same unit
  MaxStale      \* bound: count of messages with which an end may come that ends nothing

Plain == {"note", "pgm", "tune"}
Status == Plain \cup {"sox", "eox"}         \* kSysExMdId, kSysComEoxMdId
Bytes == Status \cup Data

\* statusToByteCount()
ByteCount(st) == CASE st = "note" -> 2 [] st = "pgm" -> 1 [] OTHER -> 0

Unused == "unused"

ASSUME MidiParserAssumption ==
  /\ Data # {} /\ Data \cap (Status \cup {Unused}) = {}
  /\ MsgN \in Nat \ {0, 1} /\ BufN \in Nat /\ BufN >= MsgN
  /\ MaxStale \in Nat

Msg(st, a, b) == [st |-> st, d0 |-> a, d1 |-> b]
SysByte(b) == Msg("sysex", b, Unused)

VARIABLES
  p,       \* parser_t; buf has the bytes below bufIdx
  inCall,  \* parseMidiData(), or the driver's loop of midiTriple(), is running
  mode,    \* which of the two functions the port's driver uses
  heard,   \* history: the message the stream is in, by the MIDI standard
  due,     \* history: messages and sysex bytes that are complete, but were
           \* not given to the client
  wrong,   \* history: the client was given something else
  proper,  \* history: the stream is one of whole sysex messages, see Fits;
           \* heard, due and wrong are kept as long as it is
  crowded  \* history: a status came where the buffer had no room for it, see Crowds

vars == <<p, inCall, mode, heard, due, wrong, proper, crowded>>

Silence == [st |-> "none", d |-> <<>>, sysex |-> FALSE]

Init ==
  /\ p = [state |-> "status", status |-> "none", data0 |-> Unused,
          dataCnt |-> -1, dataIdx |-> -1, buf |-> <<>>, msgCnt |-> 0,
          out |-> <<>>, failed |-> FALSE]
  /\ inCall = FALSE
  /\ mode \in {"bytes", "triples"}
  /\ heard = Silence
  /\ due = <<>>
  /\ wrong = FALSE /\ proper = TRUE /\ crowded = FALSE

------------------------------------------------------------------------------
(* The buffer *)

\* The bytes of a message in the buffer, and the messages a reader of
\* pkt.msgArray finds.
Cells(m) == [i \in 1 .. MsgN |-> [item |-> m, at |-> i]]
Garbage == Msg("garbage", Unused, Unused)
Read(buf, k) ==
  LET own == SubSeq(buf, ((k - 1) * MsgN) + 1, k * MsgN)
  IN  IF k * MsgN <= Len(buf) /\ own = Cells(own[1].item)
      THEN own[1].item ELSE Garbage

\* mutant: the count of messages is kept
TransmitKept(s) ==
  [s EXCEPT !.out = @ \o [k \in 1 .. s.msgCnt |-> Read(s.buf, k)], !.buf = <<>>]

\* _cmMpTransmitChMsgs()
TransmitChMsgs(s) ==
  IF s.msgCnt = 0 THEN s
  ELSE [s EXCEPT !.out = @ \o [k \in 1 .. s.msgCnt |-> Read(s.buf, k)],
                 !.buf = <<>>, !.msgCnt = 0]

\* _cmMpTransmitSysEx(): msgCnt is left as it is.
TransmitSysEx(s) ==
  [s EXCEPT !.out = @ \o [i \in DOMAIN s.buf |-> s.buf[i].item], !.buf = <<>>]

NoRoom(s) == BufN - Len(s.buf) < MsgN

\* _cmMpParserStoreChMsg()
StoreChMsg(s, d) ==
  LET t == IF NoRoom(s) THEN TransmitChMsgs(s) ELSE s
      m == CASE t.dataCnt = 0 -> Msg(t.status, Unused, Unused)
             [] t.dataCnt = 1 -> Msg(t.status, d, Unused)
             [] OTHER -> Msg(t.status, t.data0, d)
  IN  [t EXCEPT !.buf = @ \o Cells(m), !.msgCnt = @ + 1,
                !.failed = @ \/ BufN - Len(t.buf) < MsgN]

\* A byte of a sysex message; the assertion is bufIdx < bufByteCnt.
StoreByte(s, b) ==
  [s EXCEPT !.buf = Append(@, [item |-> SysByte(b), at |-> 1]),
            !.failed = @ \/ Len(s.buf) >= BufN]

------------------------------------------------------------------------------
(* parseMidiData(), one byte *)

StatusByte(s, b) ==
  LET t == [s EXCEPT !.status = b, !.dataCnt = ByteCount(b)]
  IN  CASE b = "sox" ->
             StoreByte([TransmitChMsgs(t) EXCEPT !.state = "expectEOX",
                          !.dataCnt = -1, !.dataIdx = -1], b)
        [] b = "eox" ->
             [TransmitSysEx(StoreByte(t, b)) EXCEPT !.state = "status"]
        [] b \in Plain /\ ByteCount(b) > 0 ->
             [t EXCEPT !.state = "data", !.dataIdx = 0]
        [] OTHER ->
             [StoreChMsg(t, b) EXCEPT !.state = "status", !.dataIdx = -1,
                !.dataCnt = -1]

StaleIdx(s) == s                            \* mutant: dataIdx stays at 1
NextMsg(s) == [s EXCEPT !.dataIdx = 0]

DataByte(s, d) ==
  CASE s.state \in {"data", "statusOrData"} /\ s.dataIdx = 0 /\ s.dataCnt = 1 ->
         [StoreChMsg(s, d) EXCEPT !.state = "statusOrData"]
    [] s.state \in {"data", "statusOrData"} /\ s.dataIdx = 0 /\ s.dataCnt = 2 ->
         [s EXCEPT !.state = "data", !.dataIdx = 1, !.data0 = d]
    [] s.state = "data" /\ s.dataIdx = 1 /\ s.dataCnt = 2 ->
         NextMsg([StoreChMsg(s, d) EXCEPT !.state = "statusOrData"])
    [] s.state = "expectEOX" ->
         LET t == StoreByte(s, d)
         IN  IF Len(t.buf) = BufN THEN TransmitSysEx(t) ELSE t
    [] s.state = "status" -> s
    [] OTHER -> [s EXCEPT !.failed = TRUE]

------------------------------------------------------------------------------
(* The stream, by the MIDI standard *)

\* A system-exclusive message has its end before another status comes, and no
\* end comes without one.  (Bytes of the other messages may be lost: a status may
\* come early, and data without one.  A real-time status inside a system-exclusive
\* message is legal MIDI, but not of this kind.)
Fits(b) == b \in Status => (heard.sysex <=> b = "eox")

\* A status, not its end, comes in a system-exclusive message whose bytes leave no
\* room for a message in the buffer; or an end, of nothing, meets a full buffer.
Crowds(b) ==
  \/ b \in Status \ {"eox"} /\ p.state = "expectEOX" /\ NoRoom(p)
  \/ b = "eox" /\ Len(p.buf) = BufN

Hear(b) ==
  IF b \in Data /\ heard.st = "none" THEN heard
  ELSE IF b \in Status
  THEN [st |-> IF b \in {"note", "pgm"} THEN b ELSE "none", d |-> <<>>,
        sysex |-> b = "sox"]
  ELSE [heard EXCEPT !.d = IF Len(@) + 1 = ByteCount(heard.st) THEN <<>>
                           ELSE Append(@, b)]

\* What is complete with a byte.
Complete(b) ==
  CASE b = "tune" -> <<Msg(b, Unused, Unused)>>
    [] b \in {"sox", "eox"} \/ (b \in Data /\ heard.sysex) -> <<SysByte(b)>>
    [] b \in Data /\ heard.st = "pgm" -> <<Msg("pgm", b, Unused)>>
    [] b \in Data /\ heard.st = "note" /\ heard.d # <<>> ->
         <<Msg("note", heard.d[1], b)>>
    [] OTHER -> <<>>

\* The client's callback gets s.out.
Given(s, new) ==
  LET all == due \o new
  IN  /\ p' = [s EXCEPT !.out = <<>>]
      /\ wrong' = (proper' /\ ~IsPrefix(s.out, all))
      /\ due' = IF proper' THEN SubSeq(all, Len(s.out) + 1, Len(all)) ELSE <<>>

------------------------------------------------------------------------------
(* Actions *)

\* No step is modelled after a failed assertion or a wrong packet.
Running == ~p.failed /\ ~wrong

ParseByte(b) ==
  /\ Running /\ mode = "bytes"
  /\ b = "eox" => p.msgCnt <= MaxStale
  /\ proper' = (proper /\ Fits(b))
  /\ crowded' = (crowded \/ Crowds(b))
  /\ Given(IF b \in Status THEN StatusByte(p, b) ELSE DataByte(p, b),
           Complete(b))
  /\ heard' = IF proper' THEN Hear(b) ELSE Silence
  /\ inCall' = TRUE
  /\ UNCHANGED mode

\* midiTriple(): 0xff stands for a data byte that is not used.
MidiTriple(st, a, b) ==
  LET cnt == IF a = Unused THEN 0 ELSE IF b = Unused THEN 1 ELSE 2
      s == [p EXCEPT !.dataCnt = cnt, !.status = st,
                     !.data0 = IF cnt = 2 THEN a ELSE @]
      mb == <<st, a, b>>[cnt + 1]
  IN  /\ Running /\ mode = "triples"
      /\ UNCHANGED <<mode, heard, proper, crowded>>
      /\ Given([StoreChMsg(s, mb) EXCEPT !.dataCnt = -1], <<Msg(st, a, b)>>)
      /\ inCall' = TRUE

End(s) == TransmitChMsgs(s)

\* The end of parseMidiData(), or transmit() after the driver's loop.
EndCall ==
  /\ Running /\ inCall
  /\ UNCHANGED <<mode, heard, proper, crowded>>
  /\ Given(End(p), <<>>)
  /\ inCall' = FALSE

Next ==
  \/ \E b \in Bytes : ParseByte(b)
  \/ MidiTriple("tune", Unused, Unused)
  \/ \E a \in Data : MidiTriple("pgm", a, Unused)
  \/ \E a, b \in Data : MidiTriple("note", a, b)
  \/ EndCall

Spec == Init /\ [][Next]_vars

------------------------------------------------------------------------------
(* Properties *)

Items == {Msg(st, a, b) : st \in Plain \cup {"sysex", "garbage"},
                          a \in Bytes \cup {Unused}, b \in Data \cup {Unused}}

\* Every variable has its type; the buffer is not overrun.
TypeOK ==
  /\ p.state \in {"status", "data", "statusOrData", "expectEOX"}
  /\ p.status \in Status \cup {"none"}
  /\ p.data0 \in Data \cup {Unused}
  /\ p.dataCnt \in -1 .. 2 /\ p.dataIdx \in -1 .. 1
  /\ p.buf \in Seq([item : Items, at : 1 .. MsgN]) /\ Len(p.buf) <= BufN
  /\ p.msgCnt \in 0 .. (MaxStale + BufN)
  /\ p.out = <<>>
  /\ p.failed \in BOOLEAN
  /\ inCall \in BOOLEAN /\ mode \in {"bytes", "triples"} /\ wrong \in BOOLEAN
  /\ proper \in BOOLEAN /\ crowded \in BOOLEAN
  /\ heard \in [st : {"none", "note", "pgm"}, d : {<<>>} \cup {<<a>> : a \in Data},
                sysex : BOOLEAN]
  /\ due \in Seq(Items)

\* However the stream is cut into calls, whichever channel messages are cut
\* short and however full the buffer is, as long as system-exclusive messages come
\* whole, with no status inside: the client is given the complete
\* messages of the stream in its order, each once, and nothing else: what it
\* was not given is what the buffer holds, and when a call is over that is no
\* channel message, which would wait for the next input of the port.
InStreamOrder ==
  proper =>
    /\ ~wrong
    /\ due = IF p.msgCnt > 0 THEN [k \in 1 .. p.msgCnt |-> Read(p.buf, k)]
             ELSE [i \in DOMAIN p.buf |-> p.buf[i].item]
    /\ ~inCall => \A i \in DOMAIN due : due[i].st = "sysex"

\* In every stream of bytes, with statuses inside system-exclusive messages, with
\* messages whose end is lost and with ends of nothing: no assertion of the parser
\* fails, unless a status came inside a system-exclusive message (a real-time
\* status, or the next one after a lost end) whose bytes left no room for a message
\* in the buffer, or an end of nothing met a buffer that is full to the last byte.
NoAssertFails == p.failed => crowded
=============================================================================
