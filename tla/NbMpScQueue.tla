----------------------------- MODULE NbMpScQueue -----------------------------
(***************************************************************************)
(* cw::nbmpscq: the lock-free multi-producer, single-consumer blob queue   *)
(* under the logger and the websocket.  Blobs are copied into nodes that   *)
(* are carved out of a fixed list of blocks (fetch_add on block_t::index)  *)
(* and the nodes are linked into a list by exchanging `head'.  The         *)
(* consumer returns a block to the producers (_clean) when the block is    *)
(* marked full and its element count is zero.                              *)
(*                                                                         *)
(* One action is one access to shared memory, sequentially consistent,     *)
(* with the thread-local work next to it; a node is named by the block and *)
(* the offset it starts at.                                                *)
(***************************************************************************)
EXTENDS Integers, Sequences, FiniteSets

CONSTANTS
  Producers,   \* threads that call push()
  BlkN,        \* initBlkN: blocks in blockL
  BlkBytes,    \* blkByteN: size of a block, in units of the node alignment
  NodeBytes,   \* the node sizes (header and blob, rounded up) push() is given
  MaxPush      \* bound: pushes per producer

ASSUME QueueAssumption ==
  /\ BlkN \in Nat \ {0}
  /\ BlkBytes \in Nat \ {0}
  /\ NodeBytes \subseteq Nat \ {0}
  /\ MaxPush \in Nat

Blocks == 1 .. BlkN
Stub   == <<0, 0>>     \* the dummy node, in no block
Nil    == <<0, 1>>     \* nullptr
BlockNodes == Blocks \X (0 .. BlkBytes - 1)
Nodes  == BlockNodes \cup {Stub}
NoBlob == <<>>         \* memory no push has written
Msgs   == Producers \X (0 .. MaxPush)    \* the k-th blob of a producer

VARIABLES
  full, index, eleN,  \* block_t: full_flag, index, eleN
  cleanBlkN,          \* nbmpscq_t: blocks waiting for _clean
  head, tail, peek,   \* nbmpscq_t: last-in, first-out, peek iterator
  next, blob, bytes,  \* node_t in block memory: link, payload, size
  pc, blk, node, prev,\* push(): where a producer is, its block, node, old head
  want, pushN, rc,    \* push(): the size asked for, pushes so far, last result
  cpc, cblk,          \* advance(): where the consumer is, the block it cleans
  invalid,            \* the kInvalidStateRC reports made so far
  walk, order, taken, sent, got, raced   \* history, see below

blockVars == <<full, index, eleN>>
memVars   == <<next, blob, bytes>>
prodVars  == <<pc, blk, node, prev, want, pushN, rc>>
peekVars  == <<peek, walk>>
histVars  == <<order, taken, sent, got>>
vars == <<blockVars, cleanBlkN, head, tail, memVars, prodVars, cpc, cblk,
          invalid, peekVars, histVars, raced>>

(***************************************************************************)
(* History.  order is every node `head' has held, oldest first; the nodes  *)
(* after position taken + 1 have been pushed and not yet taken, the one at *)
(* taken + 1 is the tail.  sent and got are the messages pushed and taken. *)
(* walk is the number of records returned since the peek iterator was last *)
(* unset, or -1 when the tail has moved in the meantime.                   *)
(* raced records that a block was reset while an allocation in it was      *)
(* still in use: from there on two nodes may share memory and the content  *)
(* of both is undefined.                                                   *)
(***************************************************************************)
Chain == { order[i] : i \in (taken + 1) .. Len(order) }

Pending(p) == pc[p] \in {"write", "swap"}     \* owns a node not in the list

Live == Chain \cup { node[p] : p \in { q \in Producers : Pending(q) } }

LiveIn(b) == { n \in Live : n[1] = b }

Empty == next[tail] = Nil       \* is_empty()

Init ==
  /\ full = [b \in Blocks |-> FALSE]
  /\ index = [b \in Blocks |-> 0]
  /\ eleN = [b \in Blocks |-> 0]
  /\ cleanBlkN = 0
  /\ head = Stub /\ tail = Stub /\ peek = Nil
  /\ next = [n \in Nodes |-> Nil]
  /\ blob = [n \in Nodes |-> NoBlob]
  /\ bytes = [n \in Nodes |-> 0]
  /\ pc = [p \in Producers |-> "idle"]
  /\ blk = [p \in Producers |-> 1]
  /\ node = [p \in Producers |-> <<1, 0>>]
  /\ prev = [p \in Producers |-> Stub]
  /\ want = [p \in Producers |-> 0]
  /\ pushN = [p \in Producers |-> 0]
  /\ rc = [p \in Producers |-> "ok"]
  /\ cpc = "idle" /\ cblk = 1
  /\ invalid = {}
  /\ walk = 0
  /\ order = <<Stub>> /\ taken = 0
  /\ sent = <<>> /\ got = <<>>
  /\ raced = FALSE

------------------------------------------------------------------------------
(* push() *)

\* The size check and the start of the walk down blockL.
PushBegin(p) ==
  /\ pc[p] = "idle"
  /\ pushN[p] < MaxPush
  /\ \E n \in NodeBytes :
       /\ want' = [want EXCEPT ![p] = n]
       /\ IF n > BlkBytes
          THEN /\ rc' = [rc EXCEPT ![p] = "invalidArg"]
               /\ UNCHANGED <<pc, blk>>
          ELSE /\ pc' = [pc EXCEPT ![p] = "scan"]
               /\ blk' = [blk EXCEPT ![p] = 1]
               /\ UNCHANGED rc
  /\ pushN' = [pushN EXCEPT ![p] = @ + 1]
  /\ UNCHANGED <<blockVars, cleanBlkN, head, tail, memVars, node, prev, cpc,
                 cblk, invalid, peekVars, histVars, raced>>

\* b = b->link; the walk ends with kBufTooSmallRC after the last block.
NextBlock(p) ==
  IF blk[p] < BlkN
  THEN /\ blk' = [blk EXCEPT ![p] = @ + 1]
       /\ pc' = [pc EXCEPT ![p] = "scan"]
       /\ UNCHANGED rc
  ELSE /\ pc' = [pc EXCEPT ![p] = "idle"]
       /\ rc' = [rc EXCEPT ![p] = "bufTooSmall"]
       /\ UNCHANGED blk

\* full_flag.load()
PushScan(p) ==
  /\ pc[p] = "scan"
  /\ IF full[blk[p]]
     THEN NextBlock(p)
     ELSE pc' = [pc EXCEPT ![p] = "alloc"] /\ UNCHANGED <<blk, rc>>
  /\ UNCHANGED <<blockVars, cleanBlkN, head, tail, memVars, node, prev, want,
                 pushN, cpc, cblk, invalid, peekVars, histVars, raced>>

FitsStart(idx, n) == idx < BlkBytes        \* mutant: the end is not tested
Fits(idx, n) == idx < BlkBytes /\ idx + n <= BlkBytes

\* index.fetch_add(): the node is the producer's if it ends inside the block.
PushAlloc(p) ==
  LET b   == blk[p]
      idx == index[b]
  IN  /\ pc[p] = "alloc"
      /\ index' = [index EXCEPT ![b] = idx + want[p]]
      /\ IF Fits(idx, want[p])
         THEN /\ node' = [node EXCEPT ![p] = <<b, idx>>]
              /\ pc' = [pc EXCEPT ![p] = "write"]
         ELSE pc' = [pc EXCEPT ![p] = "mark"] /\ UNCHANGED node
      /\ UNCHANGED <<full, eleN, cleanBlkN, head, tail, memVars, blk, prev,
                     want, pushN, rc, cpc, cblk, invalid, peekVars, histVars,
                     raced>>

AlwaysFirst(b) == TRUE       \* mutant: the old value of the flag is ignored
FirstToMark(b) == ~full[b]

\* full_flag.exchange(true): whoever sets it announces a block to clean.
PushMark(p) ==
  /\ pc[p] = "mark"
  /\ full' = [full EXCEPT ![blk[p]] = TRUE]
  /\ IF FirstToMark(blk[p])
     THEN pc' = [pc EXCEPT ![p] = "announce"] /\ UNCHANGED <<blk, rc>>
     ELSE NextBlock(p)
  /\ UNCHANGED <<index, eleN, cleanBlkN, head, tail, memVars, node, prev, want,
                 pushN, cpc, cblk, invalid, peekVars, histVars, raced>>

\* cleanBlkN.fetch_add(1)
PushAnnounce(p) ==
  /\ pc[p] = "announce"
  /\ cleanBlkN' = cleanBlkN + 1
  /\ NextBlock(p)
  /\ UNCHANGED <<blockVars, head, tail, memVars, node, prev, want, pushN, cpc,
                 cblk, invalid, peekVars, histVars, raced>>

\* The header, the memcpy, eleN.fetch_add(1) and n->next = nullptr.
PushWrite(p) ==
  LET n == node[p]
  IN  /\ pc[p] = "write"
      /\ blob' = [blob EXCEPT ![n] = <<p, pushN[p]>>]
      /\ bytes' = [bytes EXCEPT ![n] = want[p]]
      /\ next' = [next EXCEPT ![n] = Nil]
      /\ eleN' = [eleN EXCEPT ![n[1]] = @ + 1]
      /\ pc' = [pc EXCEPT ![p] = "swap"]
      /\ UNCHANGED <<full, index, cleanBlkN, head, tail, blk, node, prev, want,
                     pushN, rc, cpc, cblk, invalid, peekVars, histVars, raced>>

\* head.exchange(n): the push takes its place in the order.
PushSwap(p) ==
  /\ pc[p] = "swap"
  /\ prev' = [prev EXCEPT ![p] = head]
  /\ head' = node[p]
  /\ order' = Append(order, node[p])
  /\ sent' = Append(sent, <<p, pushN[p]>>)
  /\ pc' = [pc EXCEPT ![p] = "link"]
  /\ UNCHANGED <<blockVars, cleanBlkN, tail, memVars, blk, node, want, pushN,
                 rc, cpc, cblk, invalid, peekVars, taken, got, raced>>

LinkLost(m, n) == UNCHANGED next                      \* mutant: no store
LinkNext(m, n) == next' = [next EXCEPT ![m] = n]

\* prev->next.store(n): the node becomes reachable from the tail.
PushLink(p) ==
  /\ pc[p] = "link"
  /\ LinkNext(prev[p], node[p])
  /\ pc' = [pc EXCEPT ![p] = "idle"]
  /\ rc' = [rc EXCEPT ![p] = "ok"]
  /\ UNCHANGED <<blockVars, cleanBlkN, head, tail, blob, bytes, blk, node, prev,
                 want, pushN, cpc, cblk, invalid, peekVars, histVars, raced>>

PushStep(p) ==
  \/ PushScan(p) \/ PushAlloc(p) \/ PushMark(p) \/ PushAnnounce(p)
  \/ PushWrite(p) \/ PushSwap(p) \/ PushLink(p)

------------------------------------------------------------------------------
(* advance() and _clean() *)

BlobOfStub(n) == blob[tail]      \* mutant: the blob of the node passed over
InitBlob(n) == blob[n]

Release(b) == eleN' = [eleN EXCEPT ![b] = @ - 1]

\* tail = tail->next; the old tail's block loses an element.
Advance ==
  LET b == tail[1]
      n == next[tail]
  IN  /\ cpc = "idle"
      /\ ~Empty
      /\ tail' = n
      /\ got' = Append(got, InitBlob(n))
      /\ taken' = taken + 1
      /\ IF tail = Stub
         THEN UNCHANGED <<eleN, invalid>>
         ELSE /\ Release(b)
              /\ invalid' = IF eleN[b] < 1 THEN invalid \cup {"eleN"} ELSE invalid
      /\ walk' = IF peek = Nil THEN 0 ELSE -1
      /\ cpc' = "check"
      /\ UNCHANGED <<full, index, cleanBlkN, head, memVars, prodVars, cblk,
                     peek, order, sent, raced>>

\* advance() on an empty queue goes straight to the test for _clean; when no
\* block is waiting the call has no effect and is left out.  A consumer may make
\* this call, but the logger and the websocket look first and do not.
AdvanceNone ==
  /\ cpc = "idle"
  /\ Empty
  /\ cleanBlkN > 0
  /\ cpc' = "check"
  /\ UNCHANGED <<blockVars, cleanBlkN, head, tail, memVars, prodVars, cblk,
                 invalid, peekVars, histVars, raced>>

\* cleanBlkN.load() > 0
AdvanceCheck ==
  /\ cpc = "check"
  /\ cpc' = IF cleanBlkN > 0 THEN "clean" ELSE "idle"
  /\ cblk' = 1
  /\ UNCHANGED <<blockVars, cleanBlkN, head, tail, memVars, prodVars, invalid,
                 peekVars, histVars, raced>>

CleanNext ==
  IF cblk < BlkN
  THEN cpc' = "clean" /\ cblk' = cblk + 1
  ELSE cpc' = "idle" /\ cblk' = 1

CleanableNever(b) == full[b] /\ eleN[b] < 0    \* mutant: off by one
Cleanable(b) == full[b] /\ eleN[b] <= 0

CleanSkip ==
  /\ cpc = "clean"
  /\ ~Cleanable(cblk)
  /\ CleanNext
  /\ UNCHANGED <<blockVars, cleanBlkN, head, tail, memVars, prodVars, invalid,
                 peekVars, histVars, raced>>

\* cleanBlkN.fetch_add(-1) for a full block without elements.
CleanClaim ==
  /\ cpc = "clean"
  /\ Cleanable(cblk)
  /\ cleanBlkN' = cleanBlkN - 1
  /\ invalid' = IF cleanBlkN < 1 THEN invalid \cup {"cleanBlkN"} ELSE invalid
  /\ cpc' = "eleN"
  /\ UNCHANGED <<blockVars, head, tail, memVars, prodVars, cblk, peekVars,
                 histVars, raced>>

\* The three stores that hand the block back: eleN, index, full_flag.
CleanEle ==
  /\ cpc = "eleN"
  /\ eleN' = [eleN EXCEPT ![cblk] = 0]
  /\ raced' = (raced \/ LiveIn(cblk) # {})
  /\ cpc' = "index"
  /\ UNCHANGED <<full, index, cleanBlkN, head, tail, memVars, prodVars, cblk,
                 invalid, peekVars, histVars>>

CleanIndex ==
  /\ cpc = "index"
  /\ index' = [index EXCEPT ![cblk] = 0]
  /\ raced' = (raced \/ LiveIn(cblk) # {})
  /\ cpc' = "full"
  /\ UNCHANGED <<full, eleN, cleanBlkN, head, tail, memVars, prodVars, cblk,
                 invalid, peekVars, histVars>>

CleanFull ==
  /\ cpc = "full"
  /\ full' = [full EXCEPT ![cblk] = FALSE]
  /\ CleanNext
  /\ UNCHANGED <<index, eleN, cleanBlkN, head, tail, memVars, prodVars, invalid,
                 peekVars, histVars, raced>>

CleanStep ==
  AdvanceCheck \/ CleanSkip \/ CleanClaim \/ CleanEle \/ CleanIndex \/ CleanFull

------------------------------------------------------------------------------
(* peek() and peek_reset() *)

PeekFromTail == IF peek = Nil THEN tail ELSE peek       \* mutant: the stub
PeekFrom == IF peek = Nil THEN next[tail] ELSE peek

Peek ==
  LET n == PeekFrom
  IN  /\ cpc = "idle"
      /\ peek' = IF n = Nil THEN peek ELSE next[n]
      /\ walk' = IF n = Nil \/ next[n] = Nil THEN 0
                 ELSE IF walk < 0 THEN walk ELSE walk + 1
      /\ UNCHANGED <<blockVars, cleanBlkN, head, tail, memVars, prodVars, cpc,
                     cblk, invalid, histVars, raced>>

PeekReset ==
  /\ cpc = "idle"
  /\ peek # Nil
  /\ peek' = Nil
  /\ walk' = 0
  /\ UNCHANGED <<blockVars, cleanBlkN, head, tail, memVars, prodVars, cpc, cblk,
                 invalid, histVars, raced>>

------------------------------------------------------------------------------
Consumer == Advance \/ AdvanceNone \/ CleanStep

Next ==
  \/ \E p \in Producers : PushBegin(p) \/ PushStep(p)
  \/ Consumer
  \/ Peek
  \/ PeekReset

Spec == Init /\ [][Next]_vars

(***************************************************************************)
(* A thread that is inside push() or advance() goes on, and the consumer's *)
(* loop polls the queue: Log's _exec and websock's exec() do.  Nobody has  *)
(* to push, to peek or to advance an empty queue.                          *)
(***************************************************************************)
Fairness ==
  /\ \A p \in Producers : WF_vars(PushStep(p))
  /\ WF_vars(Advance \/ CleanStep)

FairSpec == Spec /\ Fairness

\* The behaviours in which no reset hits a block in use.
QuietNext == Next /\ ~raced'
QuietSpec == Init /\ [][QuietNext]_vars
QuietFairSpec == QuietSpec /\ Fairness

------------------------------------------------------------------------------
(* Properties *)

TypeBlocks ==
  /\ full \in [Blocks -> BOOLEAN]
  /\ index \in [Blocks -> Nat]
  /\ eleN \in [Blocks -> Int]
  /\ cleanBlkN \in Int

TypeList ==
  /\ head \in Nodes
  /\ tail \in Nodes
  /\ next \in [Nodes -> Nodes \cup {Nil}]
  /\ blob \in [Nodes -> Msgs \cup {NoBlob}]
  /\ bytes \in [Nodes -> Nat]

TypeProducers ==
  /\ pc \in [Producers -> {"idle", "scan", "alloc", "mark", "announce", "write",
                           "swap", "link"}]
  /\ blk \in [Producers -> Blocks]
  /\ node \in [Producers -> BlockNodes]
  /\ prev \in [Producers -> Nodes]
  /\ want \in [Producers -> Nat]
  /\ pushN \in [Producers -> 0 .. MaxPush]
  /\ rc \in [Producers -> {"ok", "invalidArg", "bufTooSmall"}]

TypeConsumer ==
  /\ cpc \in {"idle", "check", "clean", "eleN", "index", "full"}
  /\ cblk \in Blocks
  /\ invalid \subseteq {"eleN", "cleanBlkN"}
  /\ peek \in Nodes \cup {Nil}
  /\ walk \in Nat \cup {-1}

TypeHistory ==
  /\ order \in Seq(Nodes)
  /\ taken \in Nat
  /\ sent \in Seq(Msgs)
  /\ got \in Seq(Msgs \cup {NoBlob})
  /\ raced \in BOOLEAN

TypeOK ==
  TypeBlocks /\ TypeList /\ TypeProducers /\ TypeConsumer /\ TypeHistory

(***************************************************************************)
(* As long as no reset hit a block in use:                                 *)
(*                                                                         *)
(* NoOverlap: a node in use lies inside its block and shares no byte with  *)
(* another, wherever producers are preempted between index.fetch_add() and *)
(* the link.                                                               *)
(***************************************************************************)
Span(n, k) == n[2] .. (n[2] + k - 1)

LiveSpans ==
  { <<n, bytes[n]>> : n \in Chain \ {Stub} }
    \cup { <<node[p], want[p]>> : p \in { q \in Producers : Pending(q) } }

NoOverlap ==
  ~raced => \A s \in LiveSpans :
    /\ Span(s[1], s[2]) \subseteq 0 .. (BlkBytes - 1)
    /\ \A t \in LiveSpans : s # t /\ s[1][1] = t[1][1] =>
         Span(s[1], s[2]) \cap Span(t[1], t[2]) = {}

\* ListIntact: from the tail, following next, the consumer finds the nodes in
\* the order in which they were exchanged into head; a link is missing only
\* while the producer that made the exchange has not stored it.
ListIntact ==
  ~raced =>
    /\ tail = order[taken + 1]
    /\ head = order[Len(order)]
    /\ \A i \in (taken + 1) .. (Len(order) - 1) :
         \/ next[order[i]] = order[i + 1]
         \/ /\ next[order[i]] = Nil
            /\ \E p \in Producers : pc[p] = "link" /\ prev[p] = order[i]
                                   /\ node[p] = order[i + 1]

\* Fifo: what the consumer took is exactly the beginning of what was pushed.
Fifo ==
  ~raced =>
    /\ Len(got) <= Len(sent)
    /\ \A i \in 1 .. Len(got) : got[i] = sent[i]

\* CleanAccounting: cleanBlkN is the number of full blocks, except for those a
\* producer has marked and not announced and the one _clean is resetting.
CleanAccounting ==
  cleanBlkN = Cardinality({ b \in Blocks : full[b] })
              - Cardinality({ p \in Producers : pc[p] = "announce" })
              - (IF cpc \in {"eleN", "index", "full"} THEN 1 ELSE 0)

\* PeekInOrder: as long as nothing is taken since the first, successive peeks
\* return the stored records one by one, in the order they will be taken, while
\* producers append and links are missing.  An iterator kept across advance() is
\* not restarted: where it points is not followed.
PeekInOrder ==
  ~raced /\ peek # Nil /\ walk >= 0 =>
    taken + walk + 2 <= Len(order) /\ peek = order[taken + walk + 2]

\* The queue implements the abstract queue as long as no reset hits a block in
\* use; under fairness everything pushed is taken.
Abstract == INSTANCE MpScFifo
ImplementsFifo == Abstract!Safe
DeliversAll == Abstract!Spec

\* FullIsTemporary: "Retry push if queue is temporarily full" (test_nbmpscqueue):
\* if every block is marked and announced while there is something left to take,
\* a consumer that only advances a queue with messages gives a block back.  It
\* does not if the last message was taken before: then it never calls advance(),
\* and the queue stays full; nor if there is but one block, which the last node
\* taken keeps.
AllFull == \A b \in Blocks : full[b]
Left == taken + 1 < Len(order)

FullIsTemporary ==
  AllFull /\ Left /\ (\A p \in Producers : pc[p] # "announce") ~> ~AllFull

(***************************************************************************)
(* A statement of the source that does not hold.                           *)
(*                                                                         *)
(* _clean: "it is safe to reset the block because all elements have been   *)
(* removed (eleN==0) and no other threads will be accessing it".           *)
(***************************************************************************)
ResetIsSafe == ~raced
=============================================================================
