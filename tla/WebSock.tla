------------------------------ MODULE WebSock ------------------------------
(***************************************************************************)
(* cw::websock: the outgoing messages of the websocket server.  send(), of *)
(* any thread, puts a message on a queue; exec(), of one thread, links it  *)
(* into the list of its protocol, asks libwebsockets to tell it when the   *)
(* sessions of the protocol can be written, writes one message per session *)
(* and such call, and removes messages that all sessions have been given.  *)
(* Messages are numbered as they are sent, sessions as they are opened.    *)
(* The queue (NbMpScQueue) keeps order and loses nothing.                  *)
(***************************************************************************)
EXTENDS Integers, Sequences, FiniteSets

CONSTANTS
  ProtocolN,   \* protocols that send
  MaxSend,     \* bound: messages
  MaxOpen      \* bound: sessions

ASSUME WebSockAssumption ==
  ProtocolN \in Nat \ {0} /\ MaxSend \in Nat /\ MaxOpen \in Nat

Protocols == 1 .. ProtocolN
Sessions == 1 .. MaxOpen
Messages == 1 .. MaxSend
All == 0             \* kInvalidId as a session: to all sessions of the protocol
InvalidId == -1      \* kInvalidId as a msgId
Null == 0

VARIABLES
  protocolId, to,  \* msg_t: the protocol and the session of each message
  msgId,           \* msg_t: its place in the list, InvalidId before
  sessionN,        \* msg_t: the sessions that have been given it
  sent, popped,    \* the queue: messages popped + 1 to sent
  peek,            \* the queue: what peek() returns next, Null: the oldest
  list,            \* protocolState_t: its messages, endMsg to begMsg
  nextNewMsgId,    \* protocolState_t
  opened, live,    \* the number of sessions opened, and those not closed
  protocol,        \* session_t: its protocol
  nextMsgId,       \* session_t
  requested,       \* sessions to be told when they can be written
  pc,              \* exec(): where it is
  cur, turn,       \* exec(): its message, and its loop counter
  got, aud, lossy, calm    \* history, see below

msgVars == <<protocolId, to, msgId, sessionN>>
queueVars == <<sent, popped, peek>>
listVars == <<list, nextNewMsgId>>
sessVars == <<opened, live, protocol, nextMsgId, requested>>
execVars == <<pc, cur, turn>>
wsHist == <<got, aud, lossy, calm>>
wsVars == <<msgVars, queueVars, listVars, sessVars, execVars, wsHist>>

(***************************************************************************)
(* History.  got: the messages written to each open session.  aud: the     *)
(* sessions that were open when each message was linked, and are.  lossy:  *)
(* a session was closed after it had been given a message that is still in *)
(* the list.  calm: none was opened while its list held a message, or was  *)
(* asked for again before it could be written.                             *)
(***************************************************************************)

Elems(s) == {s[i] : i \in DOMAIN s}
Of(p) == {s \in live : protocol[s] = p}
Meant(m, s) == to[m] \in {All, s}

\* protocolState_t: sessionN counts the sessions of the protocol.
SessionN(p) == Cardinality(Of(p))

WsInit ==
  /\ protocolId = [m \in Messages |-> 0] /\ to = [m \in Messages |-> All]
  /\ msgId = [m \in Messages |-> InvalidId] /\ sessionN = [m \in Messages |-> 0]
  /\ sent = 0 /\ popped = 0 /\ peek = Null
  /\ list = [p \in Protocols |-> <<>>] /\ nextNewMsgId = [p \in Protocols |-> 0]
  /\ opened = 0 /\ live = {} /\ protocol = [s \in Sessions |-> 0]
  /\ nextMsgId = [s \in Sessions |-> 0] /\ requested = {}
  /\ pc = "wait" /\ cur = Null /\ turn = 0
  /\ got = [s \in Sessions |-> <<>>] /\ aud = [m \in Messages |-> {}]
  /\ lossy = FALSE /\ calm = TRUE

------------------------------------------------------------------------------
(* send() *)

Send(p, s) ==
  /\ sent < MaxSend
  /\ sent' = sent + 1
  /\ protocolId' = [protocolId EXCEPT ![sent'] = p]
  /\ to' = [to EXCEPT ![sent'] = s]
  /\ UNCHANGED <<msgId, sessionN, popped, peek, listVars, sessVars, execVars, wsHist>>

------------------------------------------------------------------------------
(* _internalCallback(): what libwebsockets calls while _exec() serves sockets *)

Serving == pc \in {"serve", "wait"}

\* LWS_CALLBACK_ESTABLISHED: the record of the session has been zeroed.
Established(p) ==
  /\ Serving
  /\ opened < MaxOpen
  /\ opened' = opened + 1
  /\ live' = live \cup {opened'}
  /\ protocol' = [protocol EXCEPT ![opened'] = p]
  /\ calm' = (calm /\ list[p] = <<>>)
  /\ UNCHANGED <<msgVars, queueVars, listVars, nextMsgId, requested, execVars, got, aud, lossy>>

NewAll(s) == DOMAIN list[protocol[s]]      \* mutant: what it was given is not left out

\* The places in the list of the messages that the session has not been given.
New(s) == {i \in DOMAIN list[protocol[s]] : msgId[list[protocol[s]][i]] >= nextMsgId[s]}

\* The first of them that is for this session: none after it is looked at.
Mine(s) == {i \in New(s) : Meant(list[protocol[s]][i], s)}
First(s) == CHOOSE i \in Mine(s) : \A j \in Mine(s) : i <= j
Given(s) == IF Mine(s) = {} THEN New(s) ELSE {i \in New(s) : i <= First(s)}

Counted(s) == {list[protocol[s]][i] : i \in Given(s)}

\* LWS_CALLBACK_SERVER_WRITEABLE: the first message for the session is written,
\* those for others before it are skipped, and each counts as sent.
Writeable(s) ==
  /\ Serving
  /\ s \in requested
  /\ requested' = requested \ {s}
  /\ sessionN' = [m \in Messages |-> sessionN[m] + IF m \in Counted(s) THEN 1 ELSE 0]
  /\ IF Given(s) = {} THEN UNCHANGED nextMsgId
     ELSE \E m \in Counted(s) :
            /\ \A k \in Counted(s) : msgId[k] <= msgId[m]
            /\ nextMsgId' = [nextMsgId EXCEPT ![s] = msgId[m] + 1]
  /\ got' = IF Mine(s) = {} THEN got
            ELSE [got EXCEPT ![s] = Append(@, list[protocol[s]][First(s)])]
  /\ UNCHANGED <<protocolId, to, msgId, queueVars, listVars, opened, live, protocol,
                 execVars, aud, lossy, calm>>

\* The record of the session is gone, after it was counted for some messages.
Gone(s, counted) ==
  /\ live' = live \ {s}
  /\ requested' = requested \ {s}
  /\ sessionN' = [m \in Messages |-> sessionN[m] + IF m \in counted THEN 1 ELSE 0]
  /\ lossy' = (lossy \/ \E m \in Elems(list[protocol[s]]) :
                          m \in counted \/ msgId[m] < nextMsgId[s])
  /\ nextMsgId' = [nextMsgId EXCEPT ![s] = 0] /\ got' = [got EXCEPT ![s] = <<>>]
  /\ protocol' = [protocol EXCEPT ![s] = 0]
  /\ aud' = [m \in Messages |-> aud[m] \ {s}]
  /\ UNCHANGED <<protocolId, to, msgId, queueVars, listVars, opened, execVars, calm>>

\* LWS_CALLBACK_CLOSED
Closed(s) == Serving /\ s \in live /\ Gone(s, {})

\* LWS_CALLBACK_SERVER_WRITEABLE, when lws_write() fails: those before the
\* message count as sent, and the session is closed.
WriteFails(s) ==
  /\ Serving
  /\ s \in requested
  /\ Mine(s) # {}
  /\ Gone(s, Counted(s) \ {list[protocol[s]][First(s)]})

------------------------------------------------------------------------------
(* exec() *)

Goto(l) == pc' = l

SentAny(m, p) == sessionN[m] > 0                \* mutant: sent to one is enough
SentToAll(m, p) == sessionN[m] >= SessionN(p)

\* _cleanProtocolStateList(): so many messages are removed from the head of the
\* list, and from the queue: those that were sent to all sessions, as long as
\* the oldest message of the queue has the same id.
CleanN(p) ==
  LET Ok(i) == /\ i <= Len(list[p]) /\ popped + i <= sent
               /\ SentToAll(list[p][i], p)
               /\ msgId[popped + i] = msgId[list[p][i]]
  IN CHOOSE n \in 0 .. Len(list[p]) :
       (\A i \in 1 .. n : Ok(i)) /\ ~Ok(n + 1)

CleanedNot(p) == list[p]                   \* mutant: the list keeps what the queue drops
Cleaned(p) == SubSeq(list[p], CleanN(p) + 1, Len(list[p]))

\* _exec() ends when it has served the sockets that poll() found ready; one
\* whose peer does not read is not among them.  exec() ends with _timed_exec_2() and its
\* next call begins with _exec(): one "wait" here.
EndServing ==
  /\ Serving
  /\ IF pc = "serve" THEN Goto("request") /\ UNCHANGED turn
     ELSE Goto("clean") /\ turn' = 1
  /\ UNCHANGED <<msgVars, queueVars, listVars, sessVars, cur, wsHist>>

\* The list of each protocol is cleaned; then peek_reset().
Clean ==
  /\ pc = "clean"
  /\ list' = [list EXCEPT ![turn] = Cleaned(turn)]
  /\ popped' = popped + CleanN(turn)
  /\ turn' = turn + 1
  /\ IF turn = ProtocolN THEN Goto("peek") /\ peek' = Null ELSE UNCHANGED <<pc, peek>>
  /\ UNCHANGED <<msgVars, sent, nextNewMsgId, sessVars, cur, wsHist>>

\* peek(): the oldest message comes after the last one.
Peeked == IF peek # Null THEN peek ELSE IF popped < sent THEN popped + 1 ELSE Null

PeekNext == IF Peeked < sent THEN Peeked + 1 ELSE Null

\* m->msg is set if it has been seen before.
Fresh == Peeked # Null /\ msgId[Peeked] = InvalidId

\* There is no message, or it has been seen before: _timed_exec_2()
PeekEnd ==
  /\ pc = "peek"
  /\ ~Fresh
  /\ peek' = IF Peeked = Null THEN Null ELSE PeekNext
  /\ Goto("wait")
  /\ cur' = Null /\ turn' = 0
  /\ UNCHANGED <<msgVars, sent, popped, listVars, sessVars, wsHist>>

\* A new message: the list is cleaned, and the message put at its end.
Link ==
  /\ pc = "peek"
  /\ Fresh
  /\ LET p == protocolId[Peeked] IN
     /\ list' = [list EXCEPT ![p] = Append(Cleaned(p), Peeked)]
     /\ popped' = popped + CleanN(p)
     /\ msgId' = [msgId EXCEPT ![Peeked] = nextNewMsgId[p]]
     /\ nextNewMsgId' = [nextNewMsgId EXCEPT ![p] = @ + 1]
     /\ aud' = [aud EXCEPT ![Peeked] = Of(p)]
  /\ peek' = PeekNext
  /\ cur' = Peeked /\ turn' = 0
  /\ Goto("request")
  /\ UNCHANGED <<protocolId, to, sessionN, sent, sessVars, got, lossy, calm>>

AskFewer(p) == turn + 1 < SessionN(p)      \* mutant: off by one
AskMore(p) == turn < SessionN(p)

\* lws_callback_on_writable_all_protocol() and _exec(), once for each session.
AskAll ==
  /\ pc = "request"
  /\ LET p == protocolId[cur] IN
     IF AskMore(p)
     THEN /\ requested' = requested \cup Of(p) /\ turn' = turn + 1 /\ Goto("serve")
          /\ calm' = (calm /\ requested \cap Of(p) = {})
     ELSE Goto("peek") /\ UNCHANGED <<requested, turn, calm>>
  /\ UNCHANGED <<msgVars, queueVars, listVars, opened, live, protocol, nextMsgId, cur,
                 got, aud, lossy>>

ExecStep == EndServing \/ Clean \/ PeekEnd \/ Link \/ AskAll

WsNext ==
  \/ \E p \in Protocols : \E s \in {All} \cup Of(p) : Send(p, s)
  \/ \E p \in Protocols : Established(p)
  \/ \E s \in Sessions : Closed(s) \/ WriteFails(s) \/ Writeable(s)
  \/ ExecStep

WsSpec == WsInit /\ [][WsNext]_wsVars

\* exec() is called again and again, poll() returns, and finds a socket that
\* is polled again and again writable at last, unless it is closed.
WsFairness == WF_wsVars(ExecStep) /\ \A s \in Sessions : SF_wsVars(Writeable(s))

WsFairSpec == WsSpec /\ WsFairness

------------------------------------------------------------------------------
(* Properties *)

\* WsTypeOK: every variable has its type.
WsTypeOK ==
  /\ protocolId \in [Messages -> {0} \cup Protocols]
  /\ to \in [Messages -> {All} \cup Sessions]
  /\ msgId \in [Messages -> {InvalidId} \cup Nat]
  /\ sessionN \in [Messages -> 0 .. MaxOpen]
  /\ sent \in 0 .. MaxSend /\ popped \in 0 .. sent /\ peek \in 0 .. sent
  /\ list \in [Protocols -> Seq(Messages)]
  /\ nextNewMsgId \in [Protocols -> Nat]
  /\ opened \in 0 .. MaxOpen /\ live \subseteq 1 .. opened
  /\ protocol \in [Sessions -> {0} \cup Protocols]
  /\ nextMsgId \in [Sessions -> Nat] /\ requested \subseteq live
  /\ pc \in {"clean", "peek", "request", "serve", "wait"}
  /\ cur \in 0 .. MaxSend /\ turn \in Nat
  /\ got \in [Sessions -> Seq(Messages)] /\ aud \in [Messages -> SUBSET Sessions]
  /\ lossy \in BOOLEAN /\ calm \in BOOLEAN

\* NoDangling: a list refers only to messages that are still in the queue, whose
\* memory is theirs: it holds as long as one protocol sends.
NoDangling ==
  /\ \A p \in Protocols : Elems(list[p]) \subseteq (popped + 1) .. sent
  /\ peek # Null => peek > popped

\* InOrder: a session is written its messages in the order they were sent, each
\* once, and only those of its protocol that are meant for it.
InOrder ==
  [][\A s \in live : LET m == got'[s][Len(got'[s])] IN
       Len(got'[s]) > Len(got[s]) =>
         /\ protocolId[m] = protocol[s] /\ Meant(m, s)
         /\ \A k \in Elems(got[s]) : k < m]_wsVars

\* NoneLost: a message is removed only when each session it was for has been
\* written it or was closed, unless one was closed after it was counted.
NoneLost ==
  ~lossy => \A m \in 1 .. popped : \A s \in aud[m] : Meant(m, s) => m \in Elems(got[s])

\* AllSent: each message that was sent is removed, and by NoneLost was written,
\* in the end, if no session opens, or is slow to read, at a bad time.
AllSent == \A m \in Messages : sent >= m ~> popped >= m \/ ~calm
=============================================================================
