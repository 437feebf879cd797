-------------------------- MODULE NbMpScQueueProofs --------------------------
(* Theorems about NbMpScQueue and their proofs. *)
EXTENDS NbMpScQueue, FiniteSetTheorems, TLAPS

------------------------------------------------------------------------------
(* Type correctness *)

\* Every variable of the queue keeps its type, for any number of producers,
\* blocks and sizes: in particular the tail is never null and a node handed
\* out by index.fetch_add() starts inside a block.
THEOREM TypeCorrect == Spec => []TypeOK
<1>1. Init => TypeOK
  <2> SUFFICES ASSUME Init
               PROVE  TypeOK
    OBVIOUS
  <2>1. TypeBlocks /\ TypeConsumer
    BY QueueAssumption DEF Init, TypeBlocks, TypeConsumer, Blocks
  <2>2. TypeList
    BY DEF Init, TypeList, Nodes
  <2>3. 1 \in Blocks /\ <<1, 0>> \in BlockNodes /\ Stub \in Nodes
    BY QueueAssumption DEF Blocks, BlockNodes, Nodes
  <2>4. TypeProducers
    BY <2>3, QueueAssumption DEF Init, TypeProducers
  <2>5. order \in Seq(Nodes) /\ sent \in Seq(Msgs) /\ got \in Seq(Msgs \cup {NoBlob})
    BY <2>3 DEF Init
  <2>6. TypeHistory
    BY <2>5 DEF Init, TypeHistory
  <2> QED
    BY <2>1, <2>2, <2>4, <2>6 DEF TypeOK
<1>2. TypeOK /\ [Next]_vars => TypeOK'
  <2> SUFFICES ASSUME TypeOK, [Next]_vars
               PROVE  TypeOK'
    OBVIOUS
  <2> USE DEF TypeOK
  <2>1. ASSUME NEW p \in Producers, PushBegin(p)
        PROVE  TypeOK'
    <3>1. TypeProducers'
      BY <2>1, QueueAssumption DEF PushBegin, TypeProducers, prodVars, Blocks
    <3>2. TypeBlocks' /\ TypeList' /\ TypeConsumer' /\ TypeHistory'
      BY <2>1 DEF PushBegin, TypeBlocks, TypeList, TypeConsumer, TypeHistory, blockVars, memVars, peekVars, histVars
    <3> QED
      BY <3>1, <3>2 DEF TypeOK
  <2>2. ASSUME NEW p \in Producers, PushScan(p)
        PROVE  TypeOK'
    <3>1. TypeProducers'
      BY <2>2, QueueAssumption DEF PushScan, TypeProducers, prodVars, NextBlock, Blocks
    <3>2. TypeBlocks' /\ TypeList' /\ TypeConsumer' /\ TypeHistory'
      BY <2>2 DEF PushScan, TypeBlocks, TypeList, TypeConsumer, TypeHistory, blockVars, memVars, peekVars, histVars
    <3> QED
      BY <3>1, <3>2 DEF TypeOK
  <2>3. ASSUME NEW p \in Producers, PushAlloc(p)
        PROVE  TypeOK'
    <3>1. TypeBlocks'
      BY <2>3, QueueAssumption DEF PushAlloc, TypeBlocks, blockVars, TypeProducers, Fits
    <3>2. TypeProducers'
      <4>1. CASE Fits(index[blk[p]], want[p])
        <5>1. blk[p] \in Blocks /\ index[blk[p]] \in 0 .. (BlkBytes - 1)
          BY <4>1, QueueAssumption DEF TypeBlocks, TypeProducers, Fits
        <5>2. <<blk[p], index[blk[p]]>> \in BlockNodes
          BY <5>1 DEF BlockNodes
        <5> QED
          BY <2>3, <4>1, <5>2 DEF PushAlloc, TypeProducers
      <4>2. CASE ~Fits(index[blk[p]], want[p])
        BY <2>3, <4>2 DEF PushAlloc, TypeProducers
      <4> QED
        BY <4>1, <4>2
    <3>3. TypeList' /\ TypeConsumer' /\ TypeHistory'
      BY <2>3 DEF PushAlloc, TypeList, TypeConsumer, TypeHistory, memVars, peekVars, histVars
    <3> QED
      BY <3>1, <3>2, <3>3 DEF TypeOK
  <2>4. ASSUME NEW p \in Producers, PushMark(p)
        PROVE  TypeOK'
    <3>1. TypeBlocks'
      BY <2>4, QueueAssumption DEF PushMark, TypeBlocks, blockVars
    <3>2. TypeProducers'
      BY <2>4, QueueAssumption DEF PushMark, TypeProducers, prodVars, NextBlock, Blocks
    <3>3. TypeList' /\ TypeConsumer' /\ TypeHistory'
      BY <2>4 DEF PushMark, TypeList, TypeConsumer, TypeHistory, memVars, peekVars, histVars
    <3> QED
      BY <3>1, <3>2, <3>3 DEF TypeOK
  <2>5. ASSUME NEW p \in Producers, PushAnnounce(p)
        PROVE  TypeOK'
    <3>1. TypeBlocks'
      BY <2>5, QueueAssumption DEF PushAnnounce, TypeBlocks, blockVars
    <3>2. TypeProducers'
      BY <2>5, QueueAssumption DEF PushAnnounce, TypeProducers, prodVars, NextBlock, Blocks
    <3>3. TypeList' /\ TypeConsumer' /\ TypeHistory'
      BY <2>5 DEF PushAnnounce, TypeList, TypeConsumer, TypeHistory, memVars, peekVars, histVars
    <3> QED
      BY <3>1, <3>2, <3>3 DEF TypeOK
  <2>6. ASSUME NEW p \in Producers, PushWrite(p)
        PROVE  TypeOK'
    <3>1. TypeBlocks'
      <4>1. node[p][1] \in Blocks
        BY DEF TypeProducers, BlockNodes
      <4> QED
        BY <4>1, <2>6 DEF PushWrite, TypeBlocks, blockVars
    <3>2. TypeList'
      BY <2>6 DEF PushWrite, TypeList, memVars, TypeProducers, Msgs, Nodes
    <3>3. TypeProducers'
      BY <2>6, QueueAssumption DEF PushWrite, TypeProducers, prodVars
    <3>4. TypeConsumer' /\ TypeHistory'
      BY <2>6 DEF PushWrite, TypeConsumer, TypeHistory, peekVars, histVars
    <3> QED
      BY <3>1, <3>2, <3>3, <3>4 DEF TypeOK
  <2>7. ASSUME NEW p \in Producers, PushSwap(p)
        PROVE  TypeOK'
    <3>1. TypeList'
      BY <2>7 DEF PushSwap, TypeList, memVars, TypeProducers, Nodes
    <3>2. TypeProducers'
      BY <2>7, QueueAssumption DEF PushSwap, TypeProducers, prodVars, TypeList
    <3>3. TypeHistory'
      BY <2>7 DEF PushSwap, TypeHistory, histVars, TypeProducers, Msgs, Nodes
    <3>4. TypeBlocks' /\ TypeConsumer'
      BY <2>7 DEF PushSwap, TypeBlocks, TypeConsumer, blockVars, peekVars
    <3> QED
      BY <3>1, <3>2, <3>3, <3>4 DEF TypeOK
  <2>8. ASSUME NEW p \in Producers, PushLink(p)
        PROVE  TypeOK'
    <3>1. TypeList'
      BY <2>8 DEF PushLink, TypeList, memVars, LinkNext, TypeProducers, Nodes
    <3>2. TypeProducers'
      BY <2>8, QueueAssumption DEF PushLink, TypeProducers, prodVars
    <3>3. TypeBlocks' /\ TypeConsumer' /\ TypeHistory'
      BY <2>8 DEF PushLink, TypeBlocks, TypeConsumer, TypeHistory, blockVars, peekVars, histVars
    <3> QED
      BY <3>1, <3>2, <3>3 DEF TypeOK
  <2>9. CASE Advance
    <3>1. TypeBlocks'
      BY <2>9, QueueAssumption DEF Advance, TypeBlocks, blockVars, Release
    <3>2. TypeList'
      BY <2>9 DEF Advance, TypeList, memVars, Empty
    <3>3. TypeConsumer'
      BY <2>9, QueueAssumption DEF Advance, TypeConsumer, peekVars
    <3>4. TypeHistory'
      BY <2>9 DEF Advance, TypeHistory, histVars, TypeList, Empty, InitBlob
    <3>5. TypeProducers'
      BY <2>9 DEF Advance, TypeProducers, prodVars
    <3> QED
      BY <3>1, <3>2, <3>3, <3>4, <3>5 DEF TypeOK
  <2>10. CASE AdvanceNone
    <3>1. TypeConsumer'
      BY <2>10, QueueAssumption DEF AdvanceNone, TypeConsumer, peekVars
    <3>2. TypeBlocks' /\ TypeList' /\ TypeProducers' /\ TypeHistory'
      BY <2>10 DEF AdvanceNone, TypeBlocks, TypeList, TypeProducers, TypeHistory, blockVars, memVars, prodVars, histVars
    <3> QED
      BY <3>1, <3>2 DEF TypeOK
  <2>11. CASE AdvanceCheck
    <3>1. TypeConsumer'
      BY <2>11, QueueAssumption DEF AdvanceCheck, TypeConsumer, peekVars, Blocks
    <3>2. TypeBlocks' /\ TypeList' /\ TypeProducers' /\ TypeHistory'
      BY <2>11 DEF AdvanceCheck, TypeBlocks, TypeList, TypeProducers, TypeHistory, blockVars, memVars, prodVars, histVars
    <3> QED
      BY <3>1, <3>2 DEF TypeOK
  <2>12. CASE CleanSkip
    <3>1. TypeConsumer'
      BY <2>12, QueueAssumption DEF CleanSkip, TypeConsumer, peekVars, CleanNext, Blocks
    <3>2. TypeBlocks' /\ TypeList' /\ TypeProducers' /\ TypeHistory'
      BY <2>12 DEF CleanSkip, TypeBlocks, TypeList, TypeProducers, TypeHistory, blockVars, memVars, prodVars, histVars
    <3> QED
      BY <3>1, <3>2 DEF TypeOK
  <2>13. CASE CleanClaim
    <3>1. TypeBlocks'
      BY <2>13, QueueAssumption DEF CleanClaim, TypeBlocks, blockVars
    <3>2. TypeConsumer'
      BY <2>13, QueueAssumption DEF CleanClaim, TypeConsumer, peekVars
    <3>3. TypeList' /\ TypeProducers' /\ TypeHistory'
      BY <2>13 DEF CleanClaim, TypeList, TypeProducers, TypeHistory, memVars, prodVars, histVars
    <3> QED
      BY <3>1, <3>2, <3>3 DEF TypeOK
  <2>14. CASE CleanEle
    <3>1. TypeBlocks'
      BY <2>14 DEF CleanEle, TypeBlocks, TypeConsumer
    <3>2. TypeConsumer'
      BY <2>14, QueueAssumption DEF CleanEle, TypeConsumer, peekVars
    <3>3. TypeHistory'
      BY <2>14 DEF CleanEle, TypeHistory, histVars
    <3>4. TypeList' /\ TypeProducers'
      BY <2>14 DEF CleanEle, TypeList, TypeProducers, memVars, prodVars
    <3> QED
      BY <3>1, <3>2, <3>3, <3>4 DEF TypeOK
  <2>15. CASE CleanIndex
    <3>1. TypeBlocks'
      BY <2>15, QueueAssumption DEF CleanIndex, TypeBlocks, blockVars
    <3>2. TypeConsumer'
      BY <2>15, QueueAssumption DEF CleanIndex, TypeConsumer, peekVars
    <3>3. TypeHistory'
      BY <2>15 DEF CleanIndex, TypeHistory, histVars
    <3>4. TypeList' /\ TypeProducers'
      BY <2>15 DEF CleanIndex, TypeList, TypeProducers, memVars, prodVars
    <3> QED
      BY <3>1, <3>2, <3>3, <3>4 DEF TypeOK
  <2>16. CASE CleanFull
    <3>1. TypeBlocks'
      BY <2>16, QueueAssumption DEF CleanFull, TypeBlocks, blockVars
    <3>2. TypeConsumer'
      BY <2>16, QueueAssumption DEF CleanFull, TypeConsumer, peekVars, CleanNext, Blocks
    <3>3. TypeList' /\ TypeProducers' /\ TypeHistory'
      BY <2>16 DEF CleanFull, TypeList, TypeProducers, TypeHistory, memVars, prodVars, histVars
    <3> QED
      BY <3>1, <3>2, <3>3 DEF TypeOK
  <2>17. CASE Peek
    <3>1. TypeConsumer'
      <4>1. PeekFrom \in Nodes \cup {Nil}
        BY DEF PeekFrom, TypeConsumer, TypeList
      <4>2. peek' \in Nodes \cup {Nil}
        BY <2>17, <4>1 DEF Peek, TypeConsumer, TypeList
      <4>3. walk' \in Nat \cup {-1}
        BY <2>17 DEF Peek, TypeConsumer
      <4> QED
        BY <2>17, <4>2, <4>3 DEF Peek, TypeConsumer
    <3>2. TypeBlocks' /\ TypeList' /\ TypeProducers' /\ TypeHistory'
      BY <2>17 DEF Peek, TypeBlocks, TypeList, TypeProducers, TypeHistory, blockVars, memVars, prodVars, histVars
    <3> QED
      BY <3>1, <3>2 DEF TypeOK
  <2>18. CASE PeekReset
    <3>1. TypeConsumer'
      BY <2>18, QueueAssumption DEF PeekReset, TypeConsumer, peekVars
    <3>2. TypeBlocks' /\ TypeList' /\ TypeProducers' /\ TypeHistory'
      BY <2>18 DEF PeekReset, TypeBlocks, TypeList, TypeProducers, TypeHistory, blockVars, memVars, prodVars, histVars
    <3> QED
      BY <3>1, <3>2 DEF TypeOK
  <2>19. CASE UNCHANGED vars
    BY <2>19 DEF vars, blockVars, memVars, prodVars, peekVars, histVars,
       TypeBlocks, TypeList, TypeProducers, TypeConsumer, TypeHistory
  <2> QED
    BY <2>1, <2>2, <2>3, <2>4, <2>5, <2>6, <2>7, <2>8, <2>9, <2>10, <2>11, <2>12, <2>13, <2>14, <2>15, <2>16, <2>17, <2>18, <2>19
       DEF Next, PushStep, Consumer, CleanStep
<1> QED
  BY <1>1, <1>2, PTL DEF Spec

------------------------------------------------------------------------------
(* The list, as long as no reset hits a block in use *)

\* The positions of order that are in the list: the stub and what is stored.
Window == (taken + 1) .. Len(order)

\* A producer with a node it has not linked yet.
Owner(p) == pc[p] \in {"write", "swap", "link"}

ListInv ==
  /\ taken < Len(order)
  /\ tail = order[taken + 1]
  /\ head = order[Len(order)]
  /\ Len(sent) = Len(order) - 1
  /\ Len(got) = taken

\* No node is in two places at once.
DistinctInv ==
  /\ \A i, j \in Window : order[i] = order[j] => i = j
  /\ \A i \in Window : \A p \in Producers : Pending(p) => order[i] # node[p]
  /\ \A p, q \in Producers : Owner(p) /\ Owner(q) /\ node[p] = node[q] => p = q

\* Every node in use ends at or before its block's index and no two overlap.
SpanInv ==
  /\ \A s \in LiveSpans :
       /\ s[1] \in BlockNodes
       /\ s[2] \in Nat \ {0}
       /\ s[1][2] + s[2] <= index[s[1][1]]
       /\ s[1][2] + s[2] <= BlkBytes
  /\ \A s, t \in LiveSpans :
       \/ s = t
       \/ s[1][1] # t[1][1]
       \/ s[1][2] + s[2] <= t[1][2]
       \/ t[1][2] + t[2] <= s[1][2]
  /\ \A p \in Producers : pc[p] # "idle" => want[p] # 0
  /\ \A p \in Producers : pc[p] = "swap" => bytes[node[p]] = want[p]

BlobInv ==
  /\ \A i \in 1 .. taken : got[i] = sent[i]
  /\ \A i \in (taken + 2) .. Len(order) : blob[order[i]] = sent[i - 1]
  /\ \A p \in Producers : pc[p] = "swap" => blob[node[p]] = <<p, pushN[p]>>

LinkInv ==
  /\ next[head] = Nil
  /\ \A p \in Producers : pc[p] = "swap" => next[node[p]] = Nil
  /\ \A i \in (taken + 1) .. (Len(order) - 1) :
       \/ next[order[i]] = order[i + 1]
       \/ /\ next[order[i]] = Nil
          /\ \E p \in Producers : pc[p] = "link" /\ prev[p] = order[i]
                                 /\ node[p] = order[i + 1]
  /\ \A p \in Producers : pc[p] = "link" =>
       \E i \in (taken + 1) .. (Len(order) - 1) :
         prev[p] = order[i] /\ node[p] = order[i + 1] /\ next[order[i]] = Nil

IInv == ListInv /\ DistinctInv /\ SpanInv /\ BlobInv /\ LinkInv

QuietInv == ~raced => IInv

\* What the steps that touch neither the list nor a node in use have in common.
LEMMA Frame ==
  ASSUME TypeOK, IInv,
         UNCHANGED <<order, taken, tail, head, sent, got, next, blob, bytes,
                     node, prev>>,
         \A s \in LiveSpans : index'[s[1][1]] >= index[s[1][1]],
         \A b \in Blocks : index'[b] \in Nat,
         \A q \in Producers :
           \/ pc'[q] = pc[q] /\ want'[q] = want[q] /\ pushN'[q] = pushN[q]
           \/ ~Owner(q) /\ ~Owner(q)' /\ (pc'[q] # "idle" => want'[q] # 0)
  PROVE  IInv'
<1> USE DEF IInv
<1>1. \A q \in Producers : /\ Owner(q)' <=> Owner(q)
                           /\ Owner(q) => pc'[q] = pc[q] /\ want'[q] = want[q]
                                           /\ pushN'[q] = pushN[q]
                           /\ Pending(q)' <=> Pending(q)
                           /\ Pending(q) => Owner(q)
                           /\ pc[q] \in {"swap", "link"} <=> pc'[q] \in {"swap", "link"}
  BY DEF Owner, Pending
<1>2. ListInv'
  BY DEF ListInv
<1>3. DistinctInv'
  BY <1>1 DEF DistinctInv, Window
<1>4. BlobInv'
  BY <1>1 DEF BlobInv, Owner
<1>5. LinkInv'
  BY <1>1, SMTT(60) DEF LinkInv, Owner
<1>6. SpanInv'
  <2>1. LiveSpans' = LiveSpans
    BY <1>1 DEF LiveSpans, Chain
  <2>2. \A s \in LiveSpans : index[s[1][1]] \in Nat /\ s[1][2] \in Nat
    BY DEF SpanInv, BlockNodes, TypeOK, TypeBlocks
  <2>3. \A s \in LiveSpans : index'[s[1][1]] \in Nat
    BY DEF SpanInv, BlockNodes
  <2>4. \A s \in LiveSpans : s[1][2] + s[2] <= index'[s[1][1]]
    BY <2>2, <2>3 DEF SpanInv
  <2>5. \A q \in Producers : /\ pc'[q] # "idle" => want'[q] # 0
                             /\ pc'[q] = "swap" => bytes'[node'[q]] = want'[q]
    BY <1>1 DEF SpanInv, Owner
  <2> QED
    BY <2>1, <2>4, <2>5 DEF SpanInv
<1> QED
  BY <1>2, <1>3, <1>4, <1>5, <1>6

\* A fresh allocation starts at or after the end of every node in use.
LEMMA AllocStep ==
  ASSUME TypeOK, IInv, NEW p \in Producers, PushAlloc(p),
         Fits(index[blk[p]], want[p])
  PROVE  IInv'
<1> DEFINE b == blk[p]
           n == <<b, index[b]>>
<1> USE DEF IInv
<1>1. /\ b \in Blocks /\ index[b] \in 0 .. (BlkBytes - 1) /\ n \in BlockNodes
      /\ want[p] \in Nat \ {0} /\ index[b] + want[p] <= BlkBytes
  BY QueueAssumption DEF Fits, TypeOK, TypeBlocks, TypeProducers, PushAlloc,
     BlockNodes, SpanInv
<1>2. /\ UNCHANGED <<order, taken, tail, head, sent, got, next, blob, bytes,
                     prev, want, pushN>>
      /\ index' = [index EXCEPT ![b] = index[b] + want[p]]
      /\ node' = [node EXCEPT ![p] = n]
      /\ pc' = [pc EXCEPT ![p] = "write"]
      /\ pc[p] = "alloc"
  BY DEF PushAlloc, memVars, histVars
<1>3. /\ pc'[p] = "write" /\ node'[p] = n
      /\ \A q \in Producers : q # p => pc'[q] = pc[q] /\ node'[q] = node[q]
  BY <1>2 DEF TypeOK, TypeProducers
<1>4. \A s \in LiveSpans : s[1] # n
  BY <1>1 DEF SpanInv, BlockNodes
<1>5. \A i \in Window : order[i] # n
  <2> SUFFICES ASSUME NEW i \in Window, order[i] = n
               PROVE  FALSE
    OBVIOUS
  <2>1. order[i] # Stub
    BY <1>1 DEF Stub, Blocks
  <2>2. <<order[i], bytes[order[i]]>> \in LiveSpans
    BY <2>1 DEF LiveSpans, Chain, Window
  <2> QED
    BY <2>2, <1>4
<1>6. \A q \in Producers : Owner(q) => node[q] # n
  <2> SUFFICES ASSUME NEW q \in Producers, Owner(q)
               PROVE  node[q] # n
    OBVIOUS
  <2>1. CASE Pending(q)
    <3>1. <<node[q], want[q]>> \in LiveSpans
      BY <2>1 DEF LiveSpans
    <3> QED
      BY <3>1, <1>4
  <2>2. CASE pc[q] = "link"
    <3>1. PICK i \in (taken + 1) .. (Len(order) - 1) : node[q] = order[i + 1]
      BY <2>2 DEF LinkInv
    <3>2. i + 1 \in Window
      BY <3>1 DEF Window, ListInv, TypeOK, TypeHistory
    <3> QED
      BY <3>1, <3>2, <1>5
  <2> QED
    BY <2>1, <2>2 DEF Owner, Pending
<1>7. ListInv'
  BY <1>2 DEF ListInv
<1>8. DistinctInv'
  BY <1>2, <1>3, <1>5, <1>6 DEF DistinctInv, Window, Owner, Pending
<1>9. BlobInv'
  BY <1>2, <1>3 DEF BlobInv
<1>10. LinkInv'
  BY <1>2, <1>3, SMTT(60) DEF LinkInv
<1>11. SpanInv'
  <2>1. LiveSpans' = LiveSpans \cup {<<n, want[p]>>}
    <3>1. \A q \in Producers : Pending(q)' <=> Pending(q) \/ q = p
      BY <1>3 DEF Pending
    <3>2. ~Pending(p)
      BY <1>2 DEF Pending
    <3> QED
      BY <1>2, <1>3, <3>1, <3>2 DEF LiveSpans, Chain
  <2>2. index'[b] = index[b] + want[p] /\ \A c \in Blocks : c # b => index'[c] = index[c]
    BY <1>1, <1>2 DEF TypeOK, TypeBlocks
  <2>3. \A s \in LiveSpans' :
          /\ s[1] \in BlockNodes
          /\ s[2] \in Nat \ {0}
          /\ s[1][2] + s[2] <= index'[s[1][1]]
          /\ s[1][2] + s[2] <= BlkBytes
    <3>1. \A s \in LiveSpans : s[1][2] \in Nat /\ s[1][1] \in Blocks
      BY DEF SpanInv, BlockNodes
    <3>2. \A s \in LiveSpans : s[1][2] + s[2] <= index'[s[1][1]]
      BY <2>2, <3>1, <1>1 DEF SpanInv, TypeOK, TypeBlocks
    <3> QED
      BY <2>1, <2>2, <3>2, <1>1 DEF SpanInv
  <2>4. \A s, t \in LiveSpans' :
          \/ s = t
          \/ s[1][1] # t[1][1]
          \/ s[1][2] + s[2] <= t[1][2]
          \/ t[1][2] + t[2] <= s[1][2]
    BY <2>1, <1>1 DEF SpanInv
  <2>5. \A q \in Producers : /\ pc'[q] # "idle" => want'[q] # 0
                             /\ pc'[q] = "swap" => bytes'[node'[q]] = want'[q]
    BY <1>1, <1>2, <1>3 DEF SpanInv
  <2> QED
    BY <2>3, <2>4, <2>5 DEF SpanInv
<1> QED
  BY <1>7, <1>8, <1>9, <1>10, <1>11

\* Writing a node that is not in the list disturbs no other node.
LEMMA WriteStep ==
  ASSUME TypeOK, IInv, NEW p \in Producers, PushWrite(p)
  PROVE  IInv'
<1> DEFINE n == node[p]
<1> USE DEF IInv
<1>1. /\ UNCHANGED <<order, taken, tail, head, sent, got, node, prev, want,
                     pushN, index>>
      /\ blob' = [blob EXCEPT ![n] = <<p, pushN[p]>>]
      /\ bytes' = [bytes EXCEPT ![n] = want[p]]
      /\ next' = [next EXCEPT ![n] = Nil]
      /\ pc[p] = "write" /\ pc' = [pc EXCEPT ![p] = "swap"]
  BY DEF PushWrite, histVars
<1>2. /\ pc'[p] = "swap" /\ Pending(p)
      /\ \A q \in Producers : q # p => pc'[q] = pc[q]
      /\ \A q \in Producers : (Pending(q)' <=> Pending(q)) /\ (Owner(q)' <=> Owner(q))
  BY <1>1 DEF TypeOK, TypeProducers, Pending, Owner
<1>3. n \in Nodes
  BY DEF TypeOK, TypeProducers, Nodes
<1>4. /\ blob'[n] = <<p, pushN[p]>> /\ bytes'[n] = want[p] /\ next'[n] = Nil
      /\ \A m \in Nodes : m # n =>
           blob'[m] = blob[m] /\ bytes'[m] = bytes[m] /\ next'[m] = next[m]
  BY <1>1, <1>3 DEF TypeOK, TypeList
<1>5. \A i \in Window : order[i] # n /\ order[i] \in Nodes
  BY <1>2 DEF DistinctInv, Window, TypeOK, TypeHistory
<1>6. \A q \in Producers : Owner(q) /\ q # p => node[q] # n /\ node[q] \in Nodes
  BY <1>2 DEF DistinctInv, Owner, Pending, TypeOK, TypeProducers, Nodes
<1>7. ListInv'
  BY <1>1 DEF ListInv
<1>8. DistinctInv'
  BY <1>1, <1>2 DEF DistinctInv, Window
<1>9. BlobInv'
  <2>1. \A i \in (taken + 2) .. Len(order) : i \in Window
    BY DEF Window, TypeOK, TypeHistory
  <2>2. \A i \in (taken + 2) .. Len(order) : blob'[order[i]] = sent[i - 1]
    BY <2>1, <1>4, <1>5 DEF BlobInv
  <2>3. \A q \in Producers : pc'[q] = "swap" => blob'[node[q]] = <<q, pushN[q]>>
    BY <1>2, <1>4, <1>6 DEF BlobInv, Owner
  <2> QED
    BY <1>1, <2>2, <2>3 DEF BlobInv
<1>10. LinkInv'
  <2>1. /\ Len(order) \in Window
        /\ \A i \in (taken + 1) .. (Len(order) - 1) : i \in Window
    BY DEF Window, ListInv, TypeOK, TypeHistory
  <2>2. next'[head] = Nil /\ \A i \in (taken + 1) .. (Len(order) - 1) :
                                next'[order[i]] = next[order[i]]
    BY <2>1, <1>4, <1>5 DEF LinkInv, ListInv
  <2>3. \A q \in Producers : pc'[q] = "swap" => next'[node[q]] = Nil
    BY <1>2, <1>4, <1>6 DEF LinkInv, Owner
  <2>4. \A q \in Producers : pc'[q] = "link" <=> pc[q] = "link"
    BY <1>1, <1>2
  <2> QED
    BY <1>1, <2>2, <2>3, <2>4 DEF LinkInv
<1>11. SpanInv'
  <2>1. \A m \in Chain : m # n /\ m \in Nodes
    BY <1>5 DEF Chain, Window
  <2>2. LiveSpans' = LiveSpans
    <3>1. Chain' = Chain
      BY <1>1 DEF Chain
    <3>2. \A m \in Chain : bytes'[m] = bytes[m]
      BY <1>4, <2>1
    <3>3. { <<m, bytes[m]>> : m \in Chain \ {Stub} }'
          = { <<m, bytes[m]>> : m \in Chain \ {Stub} }
      BY <3>1, <3>2
    <3>4. { <<node[q], want[q]>> : q \in { r \in Producers : Pending(r) } }'
          = { <<node[q], want[q]>> : q \in { r \in Producers : Pending(r) } }
      BY <1>1, <1>2
    <3> QED
      BY <3>3, <3>4 DEF LiveSpans
  <2>3. \A q \in Producers : /\ pc'[q] # "idle" => want'[q] # 0
                             /\ pc'[q] = "swap" => bytes'[node'[q]] = want'[q]
    BY <1>1, <1>2, <1>4, <1>6 DEF SpanInv, Owner
  <2> QED
    BY <1>1, <2>2, <2>3 DEF SpanInv
<1> QED
  BY <1>7, <1>8, <1>9, <1>10, <1>11

\* head.exchange(): a node moves from its producer to the end of the list.
LEMMA SwapStep ==
  ASSUME TypeOK, IInv, NEW p \in Producers, PushSwap(p)
  PROVE  IInv'
<1> DEFINE n == node[p]
           k == Len(order)
<1> USE DEF IInv
<1>1. /\ UNCHANGED <<taken, tail, got, next, blob, bytes, node, want, pushN, index>>
      /\ prev' = [prev EXCEPT ![p] = head]
      /\ head' = n
      /\ order' = Append(order, n)
      /\ sent' = Append(sent, <<p, pushN[p]>>)
      /\ pc[p] = "swap" /\ pc' = [pc EXCEPT ![p] = "link"]
  BY DEF PushSwap, blockVars, memVars
<1>2. /\ pc'[p] = "link" /\ prev'[p] = head /\ Pending(p) /\ ~Pending(p)'
      /\ \A q \in Producers : q # p => pc'[q] = pc[q] /\ prev'[q] = prev[q]
                                       /\ (Pending(q)' <=> Pending(q))
      /\ \A q \in Producers : Owner(q)' <=> Owner(q)
  BY <1>1 DEF TypeOK, TypeProducers, Pending, Owner
<1>3. /\ k \in Nat /\ Len(order') = k + 1 /\ order'[k + 1] = n
      /\ \A i \in 1 .. k : order'[i] = order[i]
      /\ Len(sent) \in Nat /\ Len(sent') = Len(sent) + 1
      /\ sent'[Len(sent) + 1] = <<p, pushN[p]>>
      /\ \A i \in 1 .. Len(sent) : sent'[i] = sent[i]
      /\ taken \in Nat /\ n \in BlockNodes
  BY <1>1 DEF TypeOK, TypeHistory, TypeProducers
<1>4. Window' = Window \cup {k + 1} /\ Window \subseteq 1 .. k /\ k \in Window
  BY <1>1, <1>3 DEF Window, ListInv
<1>5. ListInv'
  BY <1>1, <1>3 DEF ListInv
<1>6. \A i \in Window : order[i] # n
  BY <1>2 DEF DistinctInv
<1>7. DistinctInv'
  <2>1. \A i, j \in Window' : order'[i] = order'[j] => i = j
    BY <1>3, <1>4, <1>6 DEF DistinctInv
  <2>2. \A i \in Window' : \A q \in Producers : Pending(q)' => order'[i] # node[q]
    BY <1>1, <1>2, <1>3, <1>4 DEF DistinctInv, Owner, Pending
  <2>3. \A q, r \in Producers : Owner(q)' /\ Owner(r)' /\ node[q] = node[r] => q = r
    BY <1>2 DEF DistinctInv
  <2> QED
    BY <1>1, <2>1, <2>2, <2>3 DEF DistinctInv
<1>8. BlobInv'
  <2>0. Len(sent) = k - 1 /\ 1 .. taken \subseteq 1 .. Len(sent)
    BY <1>3 DEF ListInv
  <2>1. \A i \in 1 .. taken : got[i] = sent'[i]
    BY <1>3, <2>0 DEF BlobInv
  <2>2. \A i \in (taken + 2) .. (k + 1) : blob[order'[i]] = sent'[i - 1]
    <3> SUFFICES ASSUME NEW i \in (taken + 2) .. (k + 1)
                 PROVE  blob[order'[i]] = sent'[i - 1]
      OBVIOUS
    <3>1. CASE i = k + 1
      <4>1. order'[i] = n /\ i - 1 = Len(sent) + 1
        BY <1>3, <2>0, <3>1
      <4>2. blob[n] = <<p, pushN[p]>>
        BY <1>1 DEF BlobInv
      <4> QED
        BY <1>3, <4>1, <4>2
    <3>2. CASE i # k + 1
      <4>1. i \in (taken + 2) .. k /\ i \in 1 .. k /\ i - 1 \in 1 .. Len(sent)
        BY <1>3, <2>0, <3>2
      <4>2. order'[i] = order[i] /\ sent'[i - 1] = sent[i - 1]
        BY <1>3, <4>1
      <4> QED
        BY <4>1, <4>2 DEF BlobInv
    <3> QED
      BY <3>1, <3>2
  <2>3. \A q \in Producers : pc'[q] = "swap" => pc[q] = "swap"
    BY <1>1, <1>2
  <2> QED
    BY <1>1, <1>3, <2>1, <2>2, <2>3 DEF BlobInv
<1>9. LinkInv'
  <2>1. next[head] = Nil /\ next[n] = Nil /\ head = order[k]
    BY <1>1 DEF LinkInv, ListInv
  <2>2. \A q \in Producers : pc'[q] = "swap" => pc[q] = "swap"
    BY <1>1, <1>2
  <2>3. ASSUME NEW i \in (taken + 1) .. k
        PROVE  \/ next[order'[i]] = order'[i + 1]
               \/ /\ next[order'[i]] = Nil
                  /\ \E q \in Producers : pc'[q] = "link" /\ prev'[q] = order'[i]
                                         /\ node[q] = order'[i + 1]
    <3>1. CASE i = k
      BY <1>2, <1>3, <2>1, <3>1
    <3>2. CASE i < k
      <4>0. i \in (taken + 1) .. (k - 1) /\ i \in 1 .. k /\ i + 1 \in 1 .. k
        BY <1>3, <3>2
      <4>1. order'[i] = order[i] /\ order'[i + 1] = order[i + 1]
        BY <1>3, <4>0
      <4>2. \A q \in Producers : pc[q] = "link" => q # p
        BY <1>1
      <4> QED
        <5>1. CASE next[order[i]] = order[i + 1]
          BY <4>1, <5>1
        <5>2. CASE next[order[i]] # order[i + 1]
          <6>1. PICK q \in Producers : pc[q] = "link" /\ prev[q] = order[i]
                                       /\ node[q] = order[i + 1]
            BY <4>0, <5>2 DEF LinkInv
          <6>2. next[order[i]] = Nil
            BY <4>0, <5>2 DEF LinkInv
          <6> QED
            BY <1>2, <4>1, <4>2, <6>1, <6>2
        <5> QED
          BY <5>1, <5>2
    <3> QED
      BY <1>3, <3>1, <3>2
  <2>4. ASSUME NEW q \in Producers, pc'[q] = "link"
        PROVE  \E i \in (taken + 1) .. k : /\ prev'[q] = order'[i]
                                          /\ node[q] = order'[i + 1]
                                          /\ next[order'[i]] = Nil
    <3>1. CASE q = p
      BY <1>2, <1>3, <1>4, <2>1, <3>1, SMTT(60) DEF Window
    <3>2. CASE q # p
      <4>1. PICK i \in (taken + 1) .. (k - 1) :
              prev[q] = order[i] /\ node[q] = order[i + 1] /\ next[order[i]] = Nil
        BY <1>2, <2>4, <3>2 DEF LinkInv
      <4>2. /\ i \in (taken + 1) .. k
            /\ order'[i] = order[i] /\ order'[i + 1] = order[i + 1]
        BY <1>3, <4>1
      <4> QED
        BY <1>2, <3>2, <4>1, <4>2
    <3> QED
      BY <3>1, <3>2
  <2>5. Len(order') - 1 = k
    BY <1>3
  <2>6. \A q \in Producers : pc'[q] = "swap" => next'[node'[q]] = Nil
    BY <1>1, <2>2 DEF LinkInv
  <2> QED
    <3>1. next' = next /\ taken' = taken /\ node' = node /\ head' = n
      BY <1>1
    <3> QED
      BY <3>1, <2>1, <2>3, <2>4, <2>5, <2>6 DEF LinkInv
<1>10. SpanInv'
  <2>1. Chain' = Chain \cup {n}
    BY <1>1, <1>3, <1>4 DEF Chain, Window
  <2>2. bytes[n] = want[p] /\ n # Stub
    BY <1>1, <1>3 DEF SpanInv, BlockNodes, Blocks, Stub
  <2>3. { r \in Producers : Pending(r) } = { r \in Producers : Pending(r)' } \cup {p}
    BY <1>2
  <2>4. LiveSpans' = LiveSpans
    BY <1>1, <2>1, <2>2, <2>3 DEF LiveSpans
  <2>5. \A q \in Producers : /\ pc'[q] # "idle" => want'[q] # 0
                             /\ pc'[q] = "swap" => bytes'[node'[q]] = want'[q]
    BY <1>1, <1>2 DEF SpanInv
  <2> QED
    BY <1>1, <2>4, <2>5 DEF SpanInv
<1> QED
  BY <1>5, <1>7, <1>8, <1>9, <1>10

\* prev->next.store(): only the link the producer owes is set.
LEMMA LinkStep ==
  ASSUME TypeOK, IInv, NEW p \in Producers, PushLink(p)
  PROVE  IInv'
<1> USE DEF IInv
<1>1. /\ UNCHANGED <<order, taken, tail, head, sent, got, blob, bytes, node,
                     prev, want, pushN, index>>
      /\ next' = [next EXCEPT ![prev[p]] = node[p]]
      /\ pc[p] = "link" /\ pc' = [pc EXCEPT ![p] = "idle"]
  BY DEF PushLink, LinkNext, blockVars, histVars
<1>2. /\ pc'[p] = "idle" /\ Owner(p) /\ ~Owner(p)' /\ ~Pending(p) /\ ~Pending(p)'
      /\ \A q \in Producers : q # p => pc'[q] = pc[q] /\ (Owner(q)' <=> Owner(q))
      /\ \A q \in Producers : Pending(q)' <=> Pending(q)
  BY <1>1 DEF TypeOK, TypeProducers, Pending, Owner
<1>3. PICK i \in (taken + 1) .. (Len(order) - 1) :
        prev[p] = order[i] /\ node[p] = order[i + 1] /\ next[order[i]] = Nil
  BY <1>1 DEF LinkInv
<1>4. /\ taken \in Nat /\ Len(order) \in Nat
      /\ i \in Window /\ i + 1 \in Window /\ Len(order) \in Window
      /\ i # Len(order)
      /\ \A j \in (taken + 1) .. (Len(order) - 1) : j \in Window /\ j + 1 \in Window
      /\ \A j \in Window : order[j] \in Nodes
  BY <1>3, SMTT(60) DEF Window, ListInv, TypeOK, TypeHistory
<1>5. /\ next'[order[i]] = order[i + 1]
      /\ \A m \in Nodes : m # order[i] => next'[m] = next[m]
  BY <1>1, <1>3, <1>4 DEF TypeOK, TypeList
<1>6. \A j \in Window : j # i => next'[order[j]] = next[order[j]]
  BY <1>4, <1>5 DEF DistinctInv
<1>7. \A q \in Producers : Pending(q) => next'[node[q]] = next[node[q]]
  BY <1>4, <1>5 DEF DistinctInv, TypeOK, TypeProducers, Nodes
<1>8. ListInv' /\ BlobInv'
  BY <1>1, <1>2 DEF ListInv, BlobInv
<1>9. DistinctInv'
  BY <1>1, <1>2 DEF DistinctInv, Window
<1>10. LinkInv'
  <2>1. next'[head] = Nil
    BY <1>4, <1>6 DEF LinkInv, ListInv
  <2>2. \A q \in Producers : pc'[q] = "swap" => next'[node[q]] = Nil
    BY <1>2, <1>7 DEF LinkInv, Pending
  <2>3. ASSUME NEW j \in (taken + 1) .. (Len(order) - 1)
        PROVE  \/ next'[order[j]] = order[j + 1]
               \/ /\ next'[order[j]] = Nil
                  /\ \E q \in Producers : pc'[q] = "link" /\ prev[q] = order[j]
                                         /\ node[q] = order[j + 1]
    <3>1. CASE j = i
      BY <1>5, <3>1
    <3>2. CASE j # i
      <4>1. next'[order[j]] = next[order[j]]
        BY <1>4, <1>6, <3>2
      <4>2. CASE next[order[j]] = order[j + 1]
        BY <4>1, <4>2
      <4>3. CASE next[order[j]] # order[j + 1]
        <5>1. next[order[j]] = Nil
          BY <4>3 DEF LinkInv
        <5>2. PICK q \in Producers : pc[q] = "link" /\ prev[q] = order[j]
                                     /\ node[q] = order[j + 1]
          BY <4>3 DEF LinkInv
        <5>3. q # p
          BY <1>3, <1>4, <3>2, <5>2 DEF DistinctInv
        <5> QED
          BY <1>2, <4>1, <5>1, <5>2, <5>3
      <4> QED
        BY <4>2, <4>3
    <3> QED
      BY <3>1, <3>2
  <2>4. ASSUME NEW q \in Producers, pc'[q] = "link"
        PROVE  \E j \in (taken + 1) .. (Len(order) - 1) :
                 prev[q] = order[j] /\ node[q] = order[j + 1] /\ next'[order[j]] = Nil
    <3>1. q # p /\ pc[q] = "link"
      BY <1>2, <2>4
    <3>2. PICK j \in (taken + 1) .. (Len(order) - 1) :
            prev[q] = order[j] /\ node[q] = order[j + 1] /\ next[order[j]] = Nil
      BY <3>1 DEF LinkInv
    <3>3. node[q] # node[p]
      BY <3>1, <1>1 DEF DistinctInv, Owner
    <3>4. j # i
      BY <1>3, <3>2, <3>3
    <3> QED
      BY <1>4, <1>6, <3>2, <3>4
  <2> QED
    BY <1>1, <2>1, <2>2, <2>3, <2>4 DEF LinkInv
<1>11. SpanInv'
  <2>1. LiveSpans' = LiveSpans
    BY <1>1, <1>2 DEF LiveSpans, Chain
  <2>2. \A q \in Producers : /\ pc'[q] # "idle" => want'[q] # 0
                             /\ pc'[q] = "swap" => bytes'[node'[q]] = want'[q]
    BY <1>1, <1>2 DEF SpanInv
  <2> QED
    BY <1>1, <2>1, <2>2 DEF SpanInv
<1> QED
  BY <1>8, <1>9, <1>10, <1>11

\* The consumer takes the node after the stub, which is the oldest stored one.
LEMMA AdvanceStep ==
  ASSUME TypeOK, IInv, Advance
  PROVE  IInv'
<1> DEFINE n == next[tail]
<1> USE DEF IInv
<1>1. /\ UNCHANGED <<order, head, sent, next, blob, bytes, node, prev, want,
                     pushN, pc, index>>
      /\ tail' = n /\ n # Nil
      /\ got' = Append(got, blob[n])
      /\ taken' = taken + 1
  BY DEF Advance, InitBlob, Empty, memVars, prodVars
<1>2. taken \in Nat /\ Len(order) \in Nat /\ taken + 1 # Len(order)
  BY <1>1 DEF ListInv, LinkInv, TypeOK, TypeHistory
<1>3. /\ taken + 1 \in (taken + 1) .. (Len(order) - 1)
      /\ taken + 2 \in (taken + 2) .. Len(order)
  BY <1>2 DEF ListInv
<1>4. n = order[taken + 2]
  <2>1. \/ next[order[taken + 1]] = order[taken + 1 + 1]
        \/ next[order[taken + 1]] = Nil
    BY <1>3 DEF LinkInv
  <2>2. taken + 1 + 1 = taken + 2
    BY <1>2
  <2> QED
    BY <1>1, <2>1, <2>2 DEF ListInv
<1>5. blob[n] = sent[taken + 1]
  BY <1>2, <1>3, <1>4 DEF BlobInv
<1>6. /\ Len(got') = taken + 1 /\ got'[taken + 1] = blob[n]
      /\ \A i \in 1 .. taken : got'[i] = got[i]
  BY <1>1 DEF ListInv, TypeOK, TypeHistory
<1>7. Window' \subseteq Window
  BY <1>1, <1>2 DEF Window
<1>8. ListInv'
  BY <1>1, <1>2, <1>3, <1>4, <1>6 DEF ListInv
<1>9. DistinctInv'
  BY <1>1, <1>7 DEF DistinctInv, Owner, Pending
<1>10. BlobInv'
  BY <1>1, <1>2, <1>5, <1>6 DEF BlobInv
<1>11. LinkInv'
  <2>1. ASSUME NEW q \in Producers, pc[q] = "link"
        PROVE  \E j \in (taken + 2) .. (Len(order) - 1) :
                 prev[q] = order[j] /\ node[q] = order[j + 1] /\ next[order[j]] = Nil
    <3>1. PICK j \in (taken + 1) .. (Len(order) - 1) :
            prev[q] = order[j] /\ node[q] = order[j + 1] /\ next[order[j]] = Nil
      BY <2>1 DEF LinkInv
    <3>2. j # taken + 1
      BY <1>1, <3>1 DEF ListInv
    <3>3. j \in (taken + 2) .. (Len(order) - 1)
      BY <1>2, <3>1, <3>2
    <3> QED
      BY <3>1, <3>3
  <2>2. (taken + 2) .. (Len(order) - 1) \subseteq (taken + 1) .. (Len(order) - 1)
    BY <1>2
  <2>3. taken' + 1 = taken + 2
    BY <1>1, <1>2
  <2> QED
    BY <1>1, <2>1, <2>2, <2>3 DEF LinkInv
<1>12. SpanInv'
  <2>1. Chain' \subseteq Chain
    BY <1>1, <1>7 DEF Chain, Window
  <2>2. LiveSpans' \subseteq LiveSpans
    BY <1>1, <2>1 DEF LiveSpans, Pending
  <2> QED
    BY <1>1, <2>2 DEF SpanInv
<1> QED
  BY <1>8, <1>9, <1>10, <1>11, <1>12

LEMMA InitInv == Init => IInv
<1> SUFFICES ASSUME Init
             PROVE  IInv
  OBVIOUS
<1>1. Len(order) = 1 /\ order[1] = Stub /\ taken = 0 /\ Len(sent) = 0 /\ Len(got) = 0
  BY DEF Init
<1>2. Window = {1} /\ Chain = {Stub}
  BY <1>1 DEF Window, Chain
<1>3. \A p \in Producers : ~Owner(p) /\ ~Pending(p) /\ pc[p] = "idle"
  BY DEF Init, Owner, Pending
<1>4. LiveSpans = {}
  BY <1>2, <1>3 DEF LiveSpans
<1>5. ListInv /\ DistinctInv /\ SpanInv
  BY <1>1, <1>2, <1>3, <1>4 DEF Init, ListInv, DistinctInv, SpanInv
<1>6. BlobInv
  BY <1>1, <1>3 DEF BlobInv
<1>7. next[head] = Nil
  BY DEF Init, Nodes
<1>8. LinkInv
  BY <1>1, <1>3, <1>7 DEF LinkInv
<1> QED
  BY <1>5, <1>6, <1>8 DEF IInv

\* A node of a live span is in use.
LEMMA SpanLive == \A s \in LiveSpans : s[1] \in Live
BY DEF LiveSpans, Live

LEMMA StepInv ==
  ASSUME TypeOK, QuietInv, [Next]_vars
  PROVE  QuietInv'
<1> SUFFICES ASSUME ~raced'
             PROVE  IInv'
  BY DEF QuietInv
<1>1. ~raced /\ IInv
  <2>1. raced => raced'
    BY DEF Next, PushStep, Consumer, CleanStep, vars, TypeOK, TypeHistory,
       PushBegin, PushScan, PushAlloc, PushMark, PushAnnounce, PushWrite, PushSwap,
       PushLink, Advance, AdvanceNone, AdvanceCheck, CleanSkip, CleanClaim,
       CleanEle, CleanIndex, CleanFull, Peek, PeekReset
  <2> QED
    BY <2>1 DEF QuietInv
<1>2. \A s \in LiveSpans : index[s[1][1]] \in Nat /\ s[1][1] \in Blocks
  BY <1>1 DEF IInv, SpanInv, BlockNodes, TypeOK, TypeBlocks
<1>3. \A b \in Blocks : index[b] \in Nat
  BY DEF TypeOK, TypeBlocks
<1>4. \A p \in Producers : pc[p] # "idle" => want[p] # 0
  BY <1>1 DEF IInv, SpanInv
<1>5. ASSUME NEW p \in Producers, PushBegin(p)
      PROVE  IInv'
  <2>1. UNCHANGED <<order, taken, tail, head, sent, got, next, blob, bytes, node,
                    prev, index>>
    BY <1>5 DEF PushBegin, blockVars, memVars, histVars
  <2>2. ~Owner(p) /\ ~Owner(p)' /\ (pc'[p] # "idle" => want'[p] # 0)
    BY <1>5, <1>4, QueueAssumption DEF PushBegin, Owner, TypeOK, TypeProducers
  <2>3. \A q \in Producers : q # p =>
          pc'[q] = pc[q] /\ want'[q] = want[q] /\ pushN'[q] = pushN[q]
    BY <1>5 DEF PushBegin, TypeOK, TypeProducers
  <2> QED
    BY <2>1, <2>2, <2>3, <1>1, <1>2, <1>3, Frame
<1>6. ASSUME NEW p \in Producers, PushScan(p)
      PROVE  IInv'
  <2>1. UNCHANGED <<order, taken, tail, head, sent, got, next, blob, bytes, node,
                    prev, index>>
    BY <1>6 DEF PushScan, blockVars, memVars, histVars
  <2>2. ~Owner(p) /\ ~Owner(p)' /\ (pc'[p] # "idle" => want'[p] # 0)
    BY <1>6, <1>4, QueueAssumption DEF PushScan, NextBlock, Owner, TypeOK, TypeProducers
  <2>3. \A q \in Producers : q # p =>
          pc'[q] = pc[q] /\ want'[q] = want[q] /\ pushN'[q] = pushN[q]
    BY <1>6 DEF PushScan, NextBlock, TypeOK, TypeProducers
  <2> QED
    BY <2>1, <2>2, <2>3, <1>1, <1>2, <1>3, Frame
<1>7. ASSUME NEW p \in Producers, PushMark(p)
      PROVE  IInv'
  <2>1. UNCHANGED <<order, taken, tail, head, sent, got, next, blob, bytes, node,
                    prev, index>>
    BY <1>7 DEF PushMark, blockVars, memVars, histVars
  <2>2. ~Owner(p) /\ ~Owner(p)' /\ (pc'[p] # "idle" => want'[p] # 0)
    BY <1>7, <1>4, QueueAssumption DEF PushMark, NextBlock, Owner, TypeOK, TypeProducers
  <2>3. \A q \in Producers : q # p =>
          pc'[q] = pc[q] /\ want'[q] = want[q] /\ pushN'[q] = pushN[q]
    BY <1>7 DEF PushMark, NextBlock, TypeOK, TypeProducers
  <2> QED
    BY <2>1, <2>2, <2>3, <1>1, <1>2, <1>3, Frame
<1>8. ASSUME NEW p \in Producers, PushAnnounce(p)
      PROVE  IInv'
  <2>1. UNCHANGED <<order, taken, tail, head, sent, got, next, blob, bytes, node,
                    prev, index>>
    BY <1>8 DEF PushAnnounce, blockVars, memVars, histVars
  <2>2. ~Owner(p) /\ ~Owner(p)' /\ (pc'[p] # "idle" => want'[p] # 0)
    BY <1>8, <1>4, QueueAssumption DEF PushAnnounce, NextBlock, Owner, TypeOK, TypeProducers
  <2>3. \A q \in Producers : q # p =>
          pc'[q] = pc[q] /\ want'[q] = want[q] /\ pushN'[q] = pushN[q]
    BY <1>8 DEF PushAnnounce, NextBlock, TypeOK, TypeProducers
  <2> QED
    BY <2>1, <2>2, <2>3, <1>1, <1>2, <1>3, Frame
<1>9. ASSUME NEW p \in Producers, PushAlloc(p)
      PROVE  IInv'
  <2>1. CASE Fits(index[blk[p]], want[p])
    BY <1>1, <1>9, <2>1, AllocStep
  <2>2. CASE ~Fits(index[blk[p]], want[p])
    <3>1. UNCHANGED <<order, taken, tail, head, sent, got, next, blob, bytes,
                      node, prev, want, pushN>>
      BY <1>9, <2>2 DEF PushAlloc, memVars, histVars
    <3>2. \A b \in Blocks : index'[b] \in Nat /\ index'[b] >= index[b]
      BY <1>9, <1>3 DEF PushAlloc, TypeOK, TypeBlocks, TypeProducers
    <3>3. ~Owner(p) /\ ~Owner(p)' /\ (pc'[p] # "idle" => want'[p] # 0)
      BY <1>9, <1>4, <2>2 DEF PushAlloc, Owner, TypeOK, TypeProducers
    <3>4. \A q \in Producers : q # p => pc'[q] = pc[q]
      BY <1>9, <2>2 DEF PushAlloc, TypeOK, TypeProducers
    <3> QED
      BY <3>1, <3>2, <3>3, <3>4, <1>1, <1>2, Frame
  <2> QED
    BY <2>1, <2>2
<1>10. CASE CleanIndex
  <2>1. UNCHANGED <<order, taken, tail, head, sent, got, next, blob, bytes, node,
                    prev, pc, want, pushN>>
    BY <1>10 DEF CleanIndex, memVars, prodVars, histVars
  <2>2. \A b \in Blocks : index'[b] \in Nat /\ (b # cblk => index'[b] = index[b])
    BY <1>10, <1>3 DEF CleanIndex, TypeOK, TypeBlocks, TypeConsumer
  <2>3. LiveIn(cblk) = {}
    BY <1>10 DEF CleanIndex
  <2>4. \A s \in LiveSpans : s[1][1] # cblk
    BY <2>3, SpanLive DEF LiveIn
  <2> QED
    BY <2>1, <2>2, <2>4, <1>1, <1>2, Frame
<1>11. CASE AdvanceNone
  <2>1. UNCHANGED <<order, taken, tail, head, sent, got, next, blob, bytes, node,
                    prev, pc, want, pushN, index>>
    BY <1>11 DEF AdvanceNone, blockVars, memVars, prodVars, histVars
  <2> QED
    BY <2>1, <1>1, <1>2, <1>3, Frame
<1>12. CASE AdvanceCheck
  <2>1. UNCHANGED <<order, taken, tail, head, sent, got, next, blob, bytes, node,
                    prev, pc, want, pushN, index>>
    BY <1>12 DEF AdvanceCheck, blockVars, memVars, prodVars, histVars
  <2> QED
    BY <2>1, <1>1, <1>2, <1>3, Frame
<1>13. CASE CleanSkip
  <2>1. UNCHANGED <<order, taken, tail, head, sent, got, next, blob, bytes, node,
                    prev, pc, want, pushN, index>>
    BY <1>13 DEF CleanSkip, blockVars, memVars, prodVars, histVars
  <2> QED
    BY <2>1, <1>1, <1>2, <1>3, Frame
<1>14. CASE CleanClaim
  <2>1. UNCHANGED <<order, taken, tail, head, sent, got, next, blob, bytes, node,
                    prev, pc, want, pushN, index>>
    BY <1>14 DEF CleanClaim, blockVars, memVars, prodVars, histVars
  <2> QED
    BY <2>1, <1>1, <1>2, <1>3, Frame
<1>15. CASE CleanEle
  <2>1. UNCHANGED <<order, taken, tail, head, sent, got, next, blob, bytes, node,
                    prev, pc, want, pushN, index>>
    BY <1>15 DEF CleanEle, memVars, prodVars, histVars
  <2> QED
    BY <2>1, <1>1, <1>2, <1>3, Frame
<1>16. CASE CleanFull
  <2>1. UNCHANGED <<order, taken, tail, head, sent, got, next, blob, bytes, node,
                    prev, pc, want, pushN, index>>
    BY <1>16 DEF CleanFull, memVars, prodVars, histVars
  <2> QED
    BY <2>1, <1>1, <1>2, <1>3, Frame
<1>17. CASE Peek
  <2>1. UNCHANGED <<order, taken, tail, head, sent, got, next, blob, bytes, node,
                    prev, pc, want, pushN, index>>
    BY <1>17 DEF Peek, blockVars, memVars, prodVars, histVars
  <2> QED
    BY <2>1, <1>1, <1>2, <1>3, Frame
<1>18. CASE PeekReset
  <2>1. UNCHANGED <<order, taken, tail, head, sent, got, next, blob, bytes, node,
                    prev, pc, want, pushN, index>>
    BY <1>18 DEF PeekReset, blockVars, memVars, prodVars, histVars
  <2> QED
    BY <2>1, <1>1, <1>2, <1>3, Frame
<1>19. CASE UNCHANGED vars
  <2>1. UNCHANGED <<order, taken, tail, head, sent, got, next, blob, bytes, node,
                    prev, pc, want, pushN, index>>
    BY <1>19 DEF vars, blockVars, memVars, prodVars, histVars
  <2> QED
    BY <2>1, <1>1, <1>2, <1>3, Frame
<1> QED
  BY <1>1, <1>5, <1>6, <1>7, <1>8, <1>9, <1>10, <1>11, <1>12, <1>13, <1>14, <1>15, <1>16, <1>17, <1>18, <1>19,
     WriteStep, SwapStep, LinkStep, AdvanceStep
     DEF Next, PushStep, Consumer, CleanStep

\* In every reachable state in which no reset has hit a block in use, the list
\* and the nodes of the queue are intact.
THEOREM QuietInvariant == Spec => []QuietInv
<1>1. Init => QuietInv
  BY InitInv DEF QuietInv
<1>2. TypeOK /\ QuietInv /\ [Next]_vars => QuietInv'
  BY StepInv
<1> QED
  BY <1>1, <1>2, TypeCorrect, PTL DEF Spec

------------------------------------------------------------------------------
(* The properties the runs check *)

\* The consumer receives the pushed messages in order, each once, for any number
\* of producers and blocks, until a reset hits a block in use.
THEOREM FifoAlways == Spec => []Fifo
<1>1. QuietInv => Fifo
  BY DEF QuietInv, IInv, Fifo, ListInv, BlobInv
<1> QED
  BY <1>1, QuietInvariant, PTL

\* Two nodes in use never share memory, until a reset hits a block in use.
THEOREM NoOverlapAlways == Spec => []NoOverlap
<1>1. TypeOK /\ QuietInv => NoOverlap
  <2> SUFFICES ASSUME TypeOK, QuietInv, ~raced, NEW s \in LiveSpans
               PROVE  /\ Span(s[1], s[2]) \subseteq 0 .. (BlkBytes - 1)
                      /\ \A t \in LiveSpans : s # t /\ s[1][1] = t[1][1] =>
                           Span(s[1], s[2]) \cap Span(t[1], t[2]) = {}
    BY DEF NoOverlap
  <2>1. \A t \in LiveSpans : t[1][2] \in Nat /\ t[2] \in Nat /\ t[1][2] + t[2] <= BlkBytes
    BY DEF QuietInv, IInv, SpanInv, BlockNodes
  <2>2. Span(s[1], s[2]) \subseteq 0 .. (BlkBytes - 1)
    BY <2>1, QueueAssumption DEF Span
  <2>3. ASSUME NEW t \in LiveSpans, s # t, s[1][1] = t[1][1]
        PROVE  Span(s[1], s[2]) \cap Span(t[1], t[2]) = {}
    <3>1. s[1][2] + s[2] <= t[1][2] \/ t[1][2] + t[2] <= s[1][2]
      BY <2>3 DEF QuietInv, IInv, SpanInv
    <3> QED
      BY <2>1, <3>1 DEF Span
  <2> QED
    BY <2>2, <2>3
<1> QED
  BY <1>1, TypeCorrect, QuietInvariant, PTL

\* From the tail the consumer finds the nodes in the order of the exchanges, until
\* a reset hits a block in use.
THEOREM ListIntactAlways == Spec => []ListIntact
<1>1. QuietInv => ListIntact
  BY DEF QuietInv, IInv, ListIntact, ListInv, LinkInv
<1> QED
  BY <1>1, QuietInvariant, PTL

------------------------------------------------------------------------------
(* The number of blocks to clean *)

Fulls == { b \in Blocks : full[b] }

Announcing == { p \in Producers : pc[p] = "announce" }

Resetting == cpc \in {"eleN", "index", "full"}

\* The inductive form: a block that is being reset is still marked, and only
\* finitely many of the producers, however many there are, have something to
\* announce.
CleanInv ==
  /\ CleanAccounting
  /\ IsFiniteSet(Announcing)
  /\ Resetting => full[cblk]

LEMMA FullsFinite ==
  /\ IsFiniteSet(Fulls) /\ Cardinality(Fulls) \in Nat
  /\ IsFiniteSet(Fulls') /\ Cardinality(Fulls') \in Nat
<1>1. IsFiniteSet(Blocks)
  BY FS_Interval, QueueAssumption DEF Blocks
<1>2. Fulls \in SUBSET Blocks /\ Fulls' \in SUBSET Blocks
  BY DEF Fulls
<1> QED
  BY <1>1, <1>2, FS_Subset, FS_CardinalityType

\* A step that changes neither the marks, the announcements nor the count.
LEMMA CleanSame ==
  ASSUME CleanInv, UNCHANGED <<full, cleanBlkN>>, Announcing' = Announcing,
         Resetting' <=> Resetting, Resetting => cblk' = cblk
  PROVE  CleanInv'
  BY DEF CleanInv, CleanAccounting, Announcing, Resetting

LEMMA MarkClean ==
  ASSUME TypeOK, CleanInv, NEW p \in Producers, PushMark(p)
  PROVE  CleanInv'
<1>1. /\ DOMAIN pc = Producers /\ full \in [Blocks -> BOOLEAN]
      /\ blk[p] \in Blocks /\ cleanBlkN \in Int /\ cblk \in Blocks
  BY DEF TypeOK, TypeProducers, TypeBlocks, TypeConsumer
<1>2. /\ full' = [full EXCEPT ![blk[p]] = TRUE] /\ UNCHANGED <<cleanBlkN, cpc, cblk>>
      /\ p \notin Announcing
  BY DEF PushMark, Announcing
<1>3. CASE FirstToMark(blk[p])
  <2>1. pc' = [pc EXCEPT ![p] = "announce"]
    BY <1>3 DEF PushMark
  <2>2. Announcing' = Announcing \cup {p}
    BY <1>1, <2>1 DEF Announcing
  <2>3. Fulls' = Fulls \cup {blk[p]} /\ blk[p] \notin Fulls
    BY <1>1, <1>2, <1>3 DEF Fulls, FirstToMark
  <2>4. /\ IsFiniteSet(Announcing') /\ Cardinality(Announcing) \in Nat
        /\ Cardinality(Announcing') = Cardinality(Announcing) + 1
    BY <1>2, <2>2, FS_AddElement, FS_CardinalityType DEF CleanInv
  <2>5. Cardinality(Fulls') = Cardinality(Fulls) + 1
    BY <2>3, FullsFinite, FS_AddElement
  <2>6. CleanAccounting'
    BY <1>1, <1>2, <2>4, <2>5, FullsFinite DEF CleanInv, CleanAccounting, Fulls, Announcing
  <2> QED
    BY <1>1, <1>2, <2>4, <2>6 DEF CleanInv, Resetting
<1>4. CASE ~FirstToMark(blk[p])
  <2>1. full' = full
    BY <1>1, <1>2, <1>4 DEF FirstToMark
  <2>2. \E x \in {"scan", "idle"} : pc' = [pc EXCEPT ![p] = x]
    BY <1>4 DEF PushMark, NextBlock
  <2>3. Announcing' = Announcing
    BY <1>1, <1>2, <2>2 DEF Announcing
  <2> QED
    BY <1>2, <2>1, <2>3, CleanSame DEF Resetting
<1> QED
  BY <1>3, <1>4

LEMMA AnnounceClean ==
  ASSUME TypeOK, CleanInv, NEW p \in Producers, PushAnnounce(p)
  PROVE  CleanInv'
<1>1. DOMAIN pc = Producers /\ cleanBlkN \in Int
  BY DEF TypeOK, TypeProducers, TypeBlocks
<1>2. /\ cleanBlkN' = cleanBlkN + 1 /\ UNCHANGED <<full, cpc, cblk>>
      /\ p \in Announcing
      /\ \E x \in {"scan", "idle"} : pc' = [pc EXCEPT ![p] = x]
  BY DEF PushAnnounce, Announcing, NextBlock, blockVars
<1>3. Announcing' = Announcing \ {p}
  BY <1>1, <1>2 DEF Announcing
<1>4. /\ IsFiniteSet(Announcing') /\ Cardinality(Announcing) \in Nat
      /\ Cardinality(Announcing') = Cardinality(Announcing) - 1
  BY <1>2, <1>3, FS_RemoveElement, FS_CardinalityType DEF CleanInv
<1>5. Fulls' = Fulls
  BY <1>2 DEF Fulls
<1>6. CleanAccounting'
  BY <1>1, <1>2, <1>4, <1>5, FullsFinite DEF CleanInv, CleanAccounting, Fulls, Announcing
<1> QED
  BY <1>2, <1>4, <1>6 DEF CleanInv, Resetting

LEMMA ClaimClean ==
  ASSUME TypeOK, CleanInv, CleanClaim
  PROVE  CleanInv'
<1>1. /\ cleanBlkN' = cleanBlkN - 1 /\ UNCHANGED <<full, pc, cblk>>
      /\ cpc = "clean" /\ cpc' = "eleN" /\ full[cblk]
  BY DEF CleanClaim, blockVars, prodVars, Cleanable
<1>2. cleanBlkN \in Int /\ Cardinality(Announcing) \in Nat
  BY FS_CardinalityType DEF TypeOK, TypeBlocks, CleanInv
<1>3. Announcing' = Announcing /\ Fulls' = Fulls
  BY <1>1 DEF Announcing, Fulls
<1>4. CleanAccounting'
  BY <1>1, <1>2, <1>3, FullsFinite DEF CleanInv, CleanAccounting, Fulls, Announcing
<1> QED
  BY <1>1, <1>3, <1>4 DEF CleanInv

LEMMA FullClean ==
  ASSUME TypeOK, CleanInv, CleanFull
  PROVE  CleanInv'
<1>1. /\ full' = [full EXCEPT ![cblk] = FALSE] /\ UNCHANGED <<cleanBlkN, pc>>
      /\ cpc = "full" /\ cpc' \in {"clean", "idle"} /\ full[cblk]
  BY DEF CleanFull, CleanNext, prodVars, CleanInv, Resetting
<1>2. /\ full \in [Blocks -> BOOLEAN] /\ cblk \in Blocks /\ cleanBlkN \in Int
      /\ Cardinality(Announcing) \in Nat
  BY FS_CardinalityType DEF TypeOK, TypeBlocks, TypeConsumer, CleanInv
<1>3. Announcing' = Announcing /\ Fulls' = Fulls \ {cblk} /\ cblk \in Fulls
  BY <1>1, <1>2 DEF Announcing, Fulls
<1>4. Cardinality(Fulls') = Cardinality(Fulls) - 1
  BY <1>3, FullsFinite, FS_RemoveElement
<1>5. CleanAccounting'
  BY <1>1, <1>2, <1>3, <1>4, FullsFinite DEF CleanInv, CleanAccounting, Fulls, Announcing
<1> QED
  BY <1>1, <1>3, <1>5 DEF CleanInv, Resetting

\* The steps of the producers that do not speak of marks.
LEMMA OtherPushClean ==
  ASSUME TypeOK, CleanInv, NEW p \in Producers,
         \/ PushBegin(p) \/ PushScan(p) \/ PushAlloc(p)
         \/ PushWrite(p) \/ PushSwap(p) \/ PushLink(p)
  PROVE  CleanInv'
<1>1. DOMAIN pc = Producers
  BY DEF TypeOK, TypeProducers
<1>2. UNCHANGED <<full, cleanBlkN, cpc, cblk>>
  BY DEF PushBegin, PushScan, PushAlloc, PushWrite, PushSwap, PushLink, blockVars
<1>3. \A q \in Producers : pc'[q] = "announce" <=> pc[q] = "announce"
  <2>1. CASE PushBegin(p)
    BY <1>1, <2>1 DEF PushBegin
  <2>2. CASE PushScan(p)
    BY <1>1, <2>2 DEF PushScan, NextBlock
  <2>3. CASE PushAlloc(p)
    BY <1>1, <2>3 DEF PushAlloc
  <2>4. CASE PushWrite(p) \/ PushSwap(p) \/ PushLink(p)
    BY <1>1, <2>4 DEF PushWrite, PushSwap, PushLink
  <2> QED
    BY <2>1, <2>2, <2>3, <2>4
<1>4. Announcing' = Announcing
  BY <1>3 DEF Announcing
<1> QED
  BY <1>2, <1>4, CleanSame DEF Resetting

\* cleanBlkN counts the blocks that wait to be cleaned, through every interleaving
\* of the mark and its announcement, of the claim and the three stores of a reset,
\* and also after a reset hit a block in use.
THEOREM CleanAlwaysExact == Spec => []CleanAccounting
<1>1. Init => CleanInv
  <2> SUFFICES ASSUME Init PROVE CleanInv
    OBVIOUS
  <2>1. Fulls = {} /\ Announcing = {} /\ cleanBlkN = 0 /\ ~Resetting
    BY DEF Init, Fulls, Announcing, Resetting
  <2> QED
    BY <2>1, FS_EmptySet DEF CleanInv, CleanAccounting, Fulls, Announcing, Resetting
<1>2. TypeOK /\ CleanInv /\ [Next]_vars => CleanInv'
  <2> SUFFICES ASSUME TypeOK, CleanInv, [Next]_vars
               PROVE  CleanInv'
    OBVIOUS
  <2>1. CASE Advance \/ AdvanceNone \/ AdvanceCheck \/ CleanSkip \/ Peek \/ PeekReset
             \/ UNCHANGED vars
    <3>1. UNCHANGED <<full, cleanBlkN, pc>> /\ ((~Resetting /\ ~Resetting') \/ UNCHANGED <<cpc, cblk>>)
      BY <2>1 DEF Advance, AdvanceNone, AdvanceCheck, CleanSkip, CleanNext, Peek, PeekReset,
         vars, blockVars, prodVars, Resetting
    <3> QED
      BY <3>1, CleanSame DEF Announcing, Resetting
  <2>2. CASE CleanEle \/ CleanIndex
    <3>1. UNCHANGED <<full, cleanBlkN, pc, cblk>> /\ Resetting /\ Resetting'
      BY <2>2 DEF CleanEle, CleanIndex, prodVars, Resetting
    <3> QED
      BY <3>1, CleanSame DEF Announcing
  <2> QED
    BY <2>1, <2>2, MarkClean, AnnounceClean, ClaimClean, FullClean, OtherPushClean
       DEF Next, PushStep, Consumer, CleanStep
<1>3. CleanInv => CleanAccounting
  BY DEF CleanInv
<1> QED
  BY <1>1, <1>2, <1>3, TypeCorrect, PTL DEF Spec

------------------------------------------------------------------------------
(* Peeking *)

\* The inductive form: the walk is counted from zero when the iterator is unset.
PeekInv == PeekInOrder /\ (peek = Nil => walk = 0)

\* The link of the i-th stored node, if it is there, leads to the next one.
LEMMA NextStored ==
  ASSUME TypeOK, IInv, NEW i \in (taken + 1) .. Len(order), next[order[i]] # Nil
  PROVE  i + 1 <= Len(order) /\ next[order[i]] = order[i + 1]
<1>1. taken \in Nat /\ Len(order) \in Nat
  BY DEF TypeOK, TypeHistory
<1>2. i # Len(order)
  BY DEF IInv, ListInv, LinkInv
<1>3. i \in (taken + 1) .. (Len(order) - 1)
  BY <1>1, <1>2
<1> QED
  BY <1>1, <1>3 DEF IInv, LinkInv

LEMMA PeekStep ==
  ASSUME TypeOK, QuietInv, PeekInv, Peek
  PROVE  PeekInv'
<1>1. /\ taken \in Nat /\ Len(order) \in Nat /\ walk \in Nat \cup {-1}
      /\ UNCHANGED <<taken, order, raced>>
  BY DEF Peek, TypeOK, TypeHistory, TypeConsumer, histVars
<1>2. CASE PeekFrom = Nil
  BY <1>1, <1>2 DEF Peek, PeekFrom, PeekInv, PeekInOrder
<1>3. CASE PeekFrom # Nil /\ next[PeekFrom] = Nil
  BY <1>1, <1>3 DEF Peek, PeekInv, PeekInOrder
<1>4. CASE PeekFrom # Nil /\ next[PeekFrom] # Nil
  <2>1. peek' = next[PeekFrom] /\ walk' = IF walk < 0 THEN walk ELSE walk + 1
    BY <1>4 DEF Peek
  <2> SUFFICES ASSUME ~raced, walk >= 0
               PROVE  /\ taken + (walk + 1) + 2 <= Len(order)
                      /\ peek' = order[taken + (walk + 1) + 2]
    BY <1>1, <1>4, <2>1 DEF PeekInv, PeekInOrder
  <2>2. IInv
    BY DEF QuietInv
  <2>3. taken + walk + 2 \in (taken + 1) .. Len(order) /\ PeekFrom = order[taken + walk + 2]
    <3>1. CASE peek = Nil
      <4>1. walk = 0 /\ PeekFrom = next[order[taken + 1]]
        BY <3>1, <2>2 DEF PeekInv, PeekFrom, IInv, ListInv
      <4>2. taken + 1 \in (taken + 1) .. Len(order)
        BY <1>1, <2>2 DEF IInv, ListInv
      <4>3. taken + 1 + 1 <= Len(order) /\ PeekFrom = order[taken + 1 + 1]
        BY <1>4, <4>1, <4>2, <2>2, NextStored
      <4> QED
        BY <1>1, <4>1, <4>3
    <3>2. CASE peek # Nil
      BY <3>2, <1>1 DEF PeekInv, PeekInOrder, PeekFrom
    <3> QED
      BY <3>1, <3>2
  <2>4. /\ (taken + walk + 2) + 1 <= Len(order)
        /\ next[PeekFrom] = order[(taken + walk + 2) + 1]
    BY <1>4, <2>2, <2>3, NextStored
  <2> QED
    BY <1>1, <2>1, <2>4, SMTT(60)
<1> QED
  BY <1>2, <1>3, <1>4

\* As long as nothing is taken, successive peeks return the stored records one by
\* one in the order in which they will be taken, although producers push and link
\* out of order meanwhile, until a reset hits a block in use.
THEOREM PeekAlwaysInOrder == Spec => []PeekInOrder
<1>1. Init => PeekInv
  BY DEF Init, PeekInv, PeekInOrder
<1>2. TypeOK /\ QuietInv /\ PeekInv /\ [Next]_vars => PeekInv'
  <2> SUFFICES ASSUME TypeOK, QuietInv, PeekInv, [Next]_vars
               PROVE  PeekInv'
    OBVIOUS
  <2>1. taken \in Nat /\ Len(order) \in Nat /\ walk \in Nat \cup {-1} /\ order \in Seq(Nodes)
    BY DEF TypeOK, TypeHistory, TypeConsumer
  <2>2. ASSUME NEW p \in Producers, PushSwap(p)
        PROVE  PeekInv'
    <3>1. UNCHANGED <<taken, peek, walk, raced>> /\ order' = Append(order, node[p])
      BY <2>2 DEF PushSwap, peekVars
    <3>2. Len(order') = Len(order) + 1 /\ \A i \in 1 .. Len(order) : order'[i] = order[i]
      BY <2>1, <3>1
    <3> QED
      BY <2>1, <3>1, <3>2 DEF PeekInv, PeekInOrder
  <2>3. CASE Advance
    BY <2>3 DEF Advance, PeekInv, PeekInOrder
  <2>4. CASE PeekReset
    BY <2>4 DEF PeekReset, PeekInv, PeekInOrder
  <2>5. CASE Peek
    BY <2>5, PeekStep
  <2>6. ASSUME UNCHANGED <<taken, order, peek, walk>>, raced => raced'
        PROVE  PeekInv'
    BY <2>6 DEF PeekInv, PeekInOrder
  <2>7. ASSUME NEW p \in Producers, PushBegin(p) \/ PushStep(p), ~PushSwap(p)
        PROVE  PeekInv'
    BY <2>6, <2>7 DEF PushStep, histVars, peekVars, PushBegin, PushScan, PushAlloc,
       PushMark, PushAnnounce, PushWrite, PushLink
  <2>8. CASE CleanStep
    <3>1. UNCHANGED <<taken, order, peek, walk>>
      BY <2>8 DEF CleanStep, histVars, peekVars, AdvanceCheck, CleanSkip, CleanClaim,
         CleanEle, CleanIndex, CleanFull
    <3>2. raced => raced'
      BY <2>8 DEF CleanStep, AdvanceCheck, CleanSkip, CleanClaim, CleanEle, CleanIndex, CleanFull
    <3> QED
      BY <2>6, <3>1, <3>2
  <2>9. CASE AdvanceNone \/ UNCHANGED vars
    BY <2>6, <2>9 DEF vars, histVars, peekVars, AdvanceNone
  <2> QED
    BY <2>2, <2>3, <2>4, <2>5, <2>7, <2>8, <2>9 DEF Next, Consumer
<1>3. PeekInv => PeekInOrder
  BY DEF PeekInv
<1> QED
  BY <1>1, <1>2, <1>3, TypeCorrect, QuietInvariant, PTL DEF Spec

------------------------------------------------------------------------------
(* Refinement *)

\* A step of the queue is a push, a take or nothing for the abstract queue.
LEMMA StepRefines ==
  ASSUME TypeOK, IInv, IInv', [Next]_vars
  PROVE  [Abstract!Next]_(Abstract!fifoVars)
<1> USE DEF Abstract!Next, Abstract!fifoVars
<1>1. ASSUME NEW p \in Producers, PushSwap(p)
      PROVE  Abstract!Next
  <2>1. <<p, pushN[p]>> \in Msgs
    BY DEF Msgs, TypeOK, TypeProducers
  <2>2. Abstract!Push(<<p, pushN[p]>>)
    BY <1>1 DEF PushSwap, Abstract!Push
  <2> QED
    BY <2>1, <2>2
<1>2. CASE Advance
  <2>1. /\ got' = Append(got, blob[next[tail]]) /\ sent' = sent /\ order' = order
        /\ taken' = taken + 1
    BY <1>2 DEF Advance, InitBlob
  <2>2. /\ Len(got) = taken /\ taken \in Nat /\ Len(order) \in Nat
        /\ taken + 1 < Len(order) /\ Len(sent) = Len(order) - 1
    BY <2>1 DEF IInv, ListInv, TypeOK, TypeHistory
  <2>3. got'[taken + 1] = sent[taken + 1]
    BY <2>1, <2>2 DEF IInv, BlobInv
  <2>4. got'[taken + 1] = blob[next[tail]]
    BY <2>1, <2>2 DEF TypeOK, TypeHistory
  <2> QED
    BY <2>1, <2>2, <2>3, <2>4 DEF Abstract!Take
<1>3. CASE UNCHANGED <<sent, got>>
  BY <1>3
<1> QED
  BY <1>1, <1>2, <1>3
     DEF Next, PushStep, Consumer, CleanStep, vars, histVars, PushBegin, PushScan,
         PushAlloc, PushMark, PushAnnounce, PushWrite, PushLink, AdvanceNone,
         AdvanceCheck, CleanSkip, CleanClaim, CleanEle, CleanIndex, CleanFull,
         Peek, PeekReset

\* A queue in which no reset hits a block in use implements the abstract queue,
\* for any number of producers, blocks and sizes.
THEOREM QuietRefinesFifo == QuietSpec => ImplementsFifo
<1>1. Init => Abstract!Init
  BY DEF Init, Abstract!Init
<1>2. QuietSpec => Spec /\ []~raced
  <2>1. Init => ~raced
    BY DEF Init
  <2>2. ~raced /\ [QuietNext]_vars => ~raced'
    BY DEF QuietNext, vars
  <2>3. [QuietNext]_vars => [Next]_vars
    BY DEF QuietNext
  <2> QED
    BY <2>1, <2>2, <2>3, PTL DEF QuietSpec, Spec
<1>3. QuietInv /\ ~raced => IInv
  BY DEF QuietInv
<1>4. TypeOK /\ IInv /\ IInv' /\ [Next]_vars => [Abstract!Next]_(Abstract!fifoVars)
  BY StepRefines
<1> QED
  BY <1>1, <1>2, <1>3, <1>4, TypeCorrect, QuietInvariant, PTL
     DEF Spec, ImplementsFifo, Abstract!Safe

------------------------------------------------------------------------------
(* Nothing is left behind.  That everything is taken and that a full queue     *)
(* gets room again are questions of liveness; what they rest on is not: eleN   *)
(* counts the nodes that are stored, so that a block whose nodes were all      *)
(* taken is one that _clean resets, cleanBlkN sends advance() there, and an    *)
(* empty list with nobody about to link is one that was taken to its end.      *)

\* The nodes that eleN counts: in the list, the tail included, or written and
\* about to be exchanged into head.
Written == { node[p] : p \in { q \in Producers : pc[q] = "swap" } }

Counted(b) == { n \in Chain \cup Written : n[1] = b }

EleExact ==
  ~raced =>
    /\ \A b \in Blocks : eleN[b] = Cardinality(Counted(b))
    /\ "eleN" \notin invalid

NothingLeftBehind ==
  ~raced =>
    /\ Empty /\ (\A p \in Producers : pc[p] # "link") => got = sent
    /\ \A b \in Blocks :
         full[b] /\ Counted(b) = {} /\ cpc = "idle"
                 /\ (\A p \in Producers : pc[p] # "announce")
           => Cleanable(b) /\ cleanBlkN > 0

LEMMA CountedFinite ==
  ASSUME TypeOK, NEW b \in Blocks
  PROVE  IsFiniteSet(Counted(b)) /\ Cardinality(Counted(b)) \in Nat
<1> DEFINE D == 0 .. (BlkBytes - 1)
           f == [o \in D |-> <<b, o>>]
           S == { <<b, o>> : o \in D }
<1>1. IsFiniteSet(D)
  BY FS_Interval, QueueAssumption
<1>2. f \in Surjection(D, S)
  BY DEF Surjection
<1>3. IsFiniteSet(S)
  BY <1>1, <1>2, FS_Surjection DEF ExistsSurjection
<1>4. Counted(b) \subseteq S
  <2>1. ASSUME NEW n \in Counted(b) PROVE n \in S
    <3>1. CASE n \in Written
      BY <2>1, <3>1 DEF Counted, Written, TypeOK, TypeProducers, BlockNodes
    <3>2. CASE n \in Chain
      <4>1. order \in Seq(Nodes) /\ taken \in Nat
        BY DEF TypeOK, TypeHistory
      <4>2. n \in Nodes
        BY <3>2, <4>1 DEF Chain
      <4>3. n # Stub
        BY <2>1, QueueAssumption DEF Counted, Stub, Blocks
      <4>4. n \in BlockNodes /\ n[1] = b
        BY <2>1, <4>2, <4>3 DEF Nodes, Counted
      <4>5. QED
        BY <4>4 DEF BlockNodes
    <3>3. QED
      BY <2>1, <3>1, <3>2 DEF Counted
  <2>2. QED
    BY <2>1
<1>5. QED
  BY <1>3, <1>4, FS_Subset, FS_CardinalityType

\* The steps that leave the list, the written nodes and the counts alone.
LEMMA SameCount ==
  ASSUME EleExact, UNCHANGED <<order, taken, eleN>>, Written' = Written,
         raced => raced', "eleN" \in invalid' => "eleN" \in invalid
  PROVE  EleExact'
BY DEF EleExact, Counted, Chain

LEMMA WriteCount ==
  ASSUME TypeOK, IInv, EleExact, ~raced, NEW p \in Producers, PushWrite(p)
  PROVE  EleExact'
<1> DEFINE n == node[p]
<1>1. /\ pc[p] = "write" /\ pc' = [pc EXCEPT ![p] = "swap"]
      /\ eleN' = [eleN EXCEPT ![n[1]] = @ + 1]
      /\ UNCHANGED <<order, taken, node, raced, invalid>>
  BY DEF PushWrite, histVars
<1>2. DOMAIN pc = Producers /\ n \in BlockNodes /\ n[1] \in Blocks /\ eleN \in [Blocks -> Int]
  BY DEF TypeOK, TypeProducers, TypeBlocks, BlockNodes
<1>3. Written' = Written \cup {n} /\ Chain' = Chain
  <2>1. { q \in Producers : pc'[q] = "swap" } = { q \in Producers : pc[q] = "swap" } \cup {p}
    BY <1>1, <1>2
  <2>2. QED
    BY <1>1, <2>1 DEF Written, Chain
<1>4. n \notin Chain /\ n \notin Written
  BY <1>1 DEF IInv, DistinctInv, Pending, Owner, Window, Chain, Written
<1>5. ASSUME NEW b \in Blocks PROVE eleN'[b] = Cardinality(Counted(b)')
  <2>1. CASE b = n[1]
    <3>1. Counted(b)' = Counted(b) \cup {n} /\ n \notin Counted(b)
      BY <1>3, <1>4, <2>1 DEF Counted
    <3>2. Cardinality(Counted(b)') = Cardinality(Counted(b)) + 1
      BY <3>1, CountedFinite, FS_AddElement
    <3>3. QED
      BY <1>1, <1>2, <2>1, <3>2 DEF EleExact
  <2>2. CASE b # n[1]
    <3>1. Counted(b)' = Counted(b)
      BY <1>3, <2>2 DEF Counted
    <3>2. QED
      BY <1>1, <1>2, <2>2, <3>1 DEF EleExact
  <2>3. QED
    BY <2>1, <2>2
<1>6. QED
  BY <1>1, <1>5 DEF EleExact

LEMMA SwapCount ==
  ASSUME TypeOK, IInv, EleExact, ~raced, NEW p \in Producers, PushSwap(p)
  PROVE  EleExact'
<1> DEFINE n == node[p]
<1>1. /\ pc[p] = "swap" /\ pc' = [pc EXCEPT ![p] = "link"]
      /\ order' = Append(order, n)
      /\ UNCHANGED <<eleN, taken, node, raced, invalid>>
  BY DEF PushSwap, blockVars
<1>2. /\ DOMAIN pc = Producers /\ order \in Seq(Nodes) /\ taken \in Nat
      /\ Len(order) \in Nat /\ taken < Len(order) /\ n \in Nodes
  BY DEF TypeOK, TypeProducers, TypeHistory, IInv, ListInv, Nodes
<1>3. Chain' = Chain \cup {n}
  <2>1. /\ Len(order') = Len(order) + 1 /\ order'[Len(order) + 1] = n
        /\ \A i \in 1 .. Len(order) : order'[i] = order[i]
    BY <1>1, <1>2
  <2>2. (taken' + 1) .. Len(order') = ((taken + 1) .. Len(order)) \cup {Len(order) + 1}
    BY <1>1, <1>2, <2>1
  <2>3. \A i \in (taken + 1) .. Len(order) : i \in 1 .. Len(order)
    BY <1>2
  <2>4. QED
    BY <2>1, <2>2, <2>3 DEF Chain
<1>4. Written = Written' \cup {n}
  <2>1. { q \in Producers : pc[q] = "swap" } = { q \in Producers : pc'[q] = "swap" } \cup {p}
    BY <1>1, <1>2
  <2>2. QED
    BY <1>1, <2>1 DEF Written
<1>5. (Chain \cup Written)' = Chain \cup Written
  BY <1>3, <1>4
<1>6. QED
  BY <1>1, <1>5 DEF EleExact, Counted

LEMMA AdvanceCount ==
  ASSUME TypeOK, IInv, EleExact, ~raced, Advance
  PROVE  EleExact'
<1>1. /\ taken' = taken + 1 /\ UNCHANGED <<order, node, pc, raced>>
      /\ IF tail = Stub
         THEN UNCHANGED <<eleN, invalid>>
         ELSE /\ eleN' = [eleN EXCEPT ![tail[1]] = @ - 1]
              /\ invalid' = IF eleN[tail[1]] < 1 THEN invalid \cup {"eleN"} ELSE invalid
  BY DEF Advance, Release, prodVars
<1>2. /\ taken \in Nat /\ Len(order) \in Nat /\ taken < Len(order) /\ tail \in Nodes
      /\ tail = order[taken + 1] /\ eleN \in [Blocks -> Int]
  BY DEF TypeOK, TypeHistory, TypeList, TypeBlocks, IInv, ListInv
<1>3. tail \in Chain /\ Chain' = Chain \ {tail}
  <2>1. (taken + 1) .. Len(order) = {taken + 1} \cup ((taken + 2) .. Len(order))
    BY <1>2
  <2>2. taken' + 1 = taken + 2 /\ \A i \in (taken + 2) .. Len(order) : i # taken + 1
    BY <1>1, <1>2
  <2>3. \A i \in (taken + 2) .. Len(order) : order[i] # tail
    BY <1>2, <2>1, <2>2 DEF IInv, DistinctInv, Window
  <2>4. QED
    BY <1>1, <1>2, <2>1, <2>2, <2>3 DEF Chain
<1>4. Written' = Written /\ tail \notin Written
  <2>1. taken + 1 \in Window
    BY <1>2 DEF Window
  <2>2. QED
    BY <1>1, <1>2, <2>1 DEF Written, IInv, DistinctInv, Pending
<1>5. \A b \in Blocks : Counted(b)' = Counted(b) \ {tail}
  BY <1>3, <1>4 DEF Counted
<1>6. CASE tail = Stub
  <2>1. \A b \in Blocks : tail \notin Counted(b)
    BY <1>6, QueueAssumption DEF Counted, Stub, Blocks
  <2>2. QED
    BY <1>1, <1>5, <1>6, <2>1 DEF EleExact
<1>7. CASE tail # Stub
  <2>1. tail[1] \in Blocks
    BY <1>2, <1>7 DEF Nodes, BlockNodes
  <2>2. tail \in Counted(tail[1])
    BY <1>3 DEF Counted
  <2>3. /\ Cardinality(Counted(tail[1]) \ {tail}) = Cardinality(Counted(tail[1])) - 1
        /\ Cardinality(Counted(tail[1]) \ {tail}) \in Nat
    BY <2>1, <2>2, CountedFinite, FS_RemoveElement, FS_CardinalityType
  <2>4. eleN[tail[1]] >= 1
    BY <1>2, <2>1, <2>3 DEF EleExact
  <2>5. ASSUME NEW b \in Blocks, b # tail[1] PROVE Counted(b)' = Counted(b) /\ eleN'[b] = eleN[b]
    BY <1>1, <1>2, <1>5, <1>7, <2>5 DEF Counted
  <2>6. eleN'[tail[1]] = Cardinality(Counted(tail[1]) \ {tail})
    BY <1>1, <1>2, <1>7, <2>1, <2>3 DEF EleExact
  <2>7. invalid' = invalid
    BY <1>1, <1>2, <1>7, <2>1, <2>4
  <2>8. QED
    BY <1>1, <1>5, <2>5, <2>6, <2>7 DEF EleExact
<1>8. QED
  BY <1>6, <1>7

LEMMA CleanCount ==
  ASSUME TypeOK, EleExact, CleanEle
  PROVE  EleExact'
<1> SUFFICES ASSUME ~raced' PROVE EleExact'
  BY DEF EleExact
<1>1. /\ eleN' = [eleN EXCEPT ![cblk] = 0] /\ ~raced /\ LiveIn(cblk) = {}
      /\ UNCHANGED <<order, taken, node, pc, invalid>>
  BY DEF CleanEle, prodVars, histVars
<1>2. Written' = Written /\ Chain' = Chain /\ eleN \in [Blocks -> Int]
  BY <1>1 DEF Written, Chain, TypeOK, TypeBlocks
<1>3. Counted(cblk) = {}
  BY <1>1 DEF Counted, Written, LiveIn, Live, Pending
<1>4. ASSUME NEW b \in Blocks PROVE eleN'[b] = Cardinality(Counted(b)')
  BY <1>1, <1>2, <1>3, FS_EmptySet DEF EleExact, Counted
<1>5. QED
  BY <1>1, <1>4 DEF EleExact

\* eleN is the number of nodes stored in a block, and advance() never reports that
\* it is not, through every interleaving, until a reset hits a block in use.
THEOREM ElementsCounted == Spec => []EleExact
<1>1. Init => EleExact
  <2> SUFFICES ASSUME Init PROVE EleExact
    OBVIOUS
  <2>1. Chain = {Stub} /\ Written = {} /\ invalid = {}
    BY DEF Init, Chain, Written
  <2>2. \A b \in Blocks : Counted(b) = {} /\ eleN[b] = 0
    BY <2>1, QueueAssumption DEF Init, Counted, Stub, Blocks
  <2>3. QED
    BY <2>1, <2>2, FS_EmptySet DEF EleExact
<1>2. TypeOK /\ QuietInv /\ EleExact /\ [Next]_vars => EleExact'
  <2> SUFFICES ASSUME TypeOK, QuietInv, EleExact, [Next]_vars, ~raced'
               PROVE  EleExact'
    BY DEF EleExact
  <2>1. ~raced /\ IInv
    <3>1. raced => raced'
      BY DEF Next, PushStep, Consumer, CleanStep, PushBegin, PushScan, PushAlloc, PushMark,
         PushAnnounce, PushWrite, PushSwap, PushLink, Advance, AdvanceNone, AdvanceCheck,
         CleanSkip, CleanClaim, CleanEle, CleanIndex, CleanFull, Peek, PeekReset, vars
    <3>2. QED
      BY <3>1 DEF QuietInv
  <2>2. ASSUME NEW p \in Producers, PushWrite(p) \/ PushSwap(p) PROVE EleExact'
    BY <2>1, <2>2, WriteCount, SwapCount
  <2>3. ASSUME NEW p \in Producers,
               \/ PushBegin(p) \/ PushScan(p) \/ PushAlloc(p) \/ PushMark(p)
               \/ PushAnnounce(p) \/ PushLink(p)
        PROVE  EleExact'
    <3>1. UNCHANGED <<order, taken, eleN, invalid>>
      BY <2>3 DEF PushBegin, PushScan, PushAlloc, PushMark, PushAnnounce, PushLink,
         blockVars, histVars
    <3>2. DOMAIN pc = Producers /\ DOMAIN node = Producers
      BY DEF TypeOK, TypeProducers
    <3>3. \A q \in Producers : pc'[q] = "swap" <=> pc[q] = "swap"
      <4>1. CASE PushBegin(p)
        BY <3>2, <4>1 DEF PushBegin
      <4>2. CASE PushScan(p)
        BY <3>2, <4>2 DEF PushScan, NextBlock
      <4>3. CASE PushAlloc(p)
        BY <3>2, <4>3 DEF PushAlloc
      <4>4. CASE PushMark(p)
        BY <3>2, <4>4 DEF PushMark, NextBlock
      <4>5. CASE PushAnnounce(p)
        BY <3>2, <4>5 DEF PushAnnounce, NextBlock
      <4>6. CASE PushLink(p)
        BY <3>2, <4>6 DEF PushLink
      <4>7. QED
        BY <2>3, <4>1, <4>2, <4>3, <4>4, <4>5, <4>6
    <3>4. \A q \in Producers : pc[q] = "swap" => node'[q] = node[q]
      BY <2>3, <3>2 DEF PushBegin, PushScan, PushAlloc, PushMark, PushAnnounce, PushLink
    <3>5. Written' = Written
      BY <3>3, <3>4 DEF Written
    <3>6. QED
      BY <2>1, <3>1, <3>5, SameCount
  <2>4. CASE Advance
    BY <2>1, <2>4, AdvanceCount
  <2>5. CASE CleanEle
    BY <2>5, CleanCount
  <2>6. CASE \/ AdvanceNone \/ AdvanceCheck \/ CleanSkip \/ CleanClaim \/ CleanIndex \/ CleanFull
             \/ Peek \/ PeekReset \/ UNCHANGED vars
    <3>1. UNCHANGED <<order, taken, eleN, node, pc>> /\ ("eleN" \in invalid' => "eleN" \in invalid)
      BY <2>6 DEF AdvanceNone, AdvanceCheck, CleanSkip, CleanClaim, CleanIndex, CleanFull,
         Peek, PeekReset, vars, blockVars, prodVars, histVars
    <3>2. Written' = Written
      BY <3>1 DEF Written
    <3>3. QED
      BY <2>1, <3>1, <3>2, SameCount
  <2>7. QED
    BY <2>2, <2>3, <2>4, <2>5, <2>6 DEF Next, PushStep, Consumer, CleanStep
<1>3. QED
  BY <1>1, <1>2, TypeCorrect, QuietInvariant, PTL DEF Spec

\* What delivery and recovery rest on: an empty list that nobody is about to link
\* to was taken to its end, and a full block whose nodes were all taken is one that
\* advance() looks for and _clean resets, until a reset hits a block in use.
THEOREM NothingLeftBehindAlways == Spec => []NothingLeftBehind
<1>1. ASSUME TypeOK, QuietInv, EleExact, CleanAccounting PROVE NothingLeftBehind
  <2> SUFFICES ASSUME ~raced PROVE NothingLeftBehind
    BY DEF NothingLeftBehind
  <2>1. IInv
    BY <1>1 DEF QuietInv
  <2>2. ASSUME Empty, \A p \in Producers : pc[p] # "link" PROVE got = sent
    <3>1. /\ taken \in Nat /\ Len(order) \in Nat /\ taken < Len(order) /\ tail = order[taken + 1]
          /\ Len(sent) = Len(order) - 1 /\ Len(got) = taken
          /\ \A i \in 1 .. taken : got[i] = sent[i]
          /\ sent \in Seq(Msgs) /\ got \in Seq(Msgs \cup {NoBlob})
      BY <1>1, <2>1 DEF TypeOK, TypeHistory, IInv, ListInv, BlobInv
    <3>2. taken + 1 = Len(order)
      <4>1. SUFFICES ASSUME taken + 1 # Len(order) PROVE FALSE
        OBVIOUS
      <4>2. taken + 1 \in (taken + 1) .. (Len(order) - 1) /\ taken + 1 + 1 \in 1 .. Len(order)
        BY <3>1, <4>1
      <4>3. next[tail] = order[taken + 1 + 1]
        BY <2>1, <2>2, <3>1, <4>2 DEF IInv, LinkInv
      <4>4. order[taken + 1 + 1] \in Nodes /\ Nil \notin Nodes
        BY <1>1, <4>2, QueueAssumption
           DEF TypeOK, TypeHistory, Nodes, BlockNodes, Blocks, Nil, Stub
      <4>5. QED
        BY <2>2, <4>3, <4>4 DEF Empty
    <3>3. Len(got) = Len(sent) /\ \A i \in 1 .. Len(got) : got[i] = sent[i]
      BY <3>1, <3>2
    <3>4. QED
      BY <3>1, <3>3
  <2>3. ASSUME NEW b \in Blocks, full[b], Counted(b) = {}, cpc = "idle",
               \A p \in Producers : pc[p] # "announce"
        PROVE  Cleanable(b) /\ cleanBlkN > 0
    <3>1. eleN[b] = 0
      BY <1>1, <2>3, FS_EmptySet DEF EleExact
    <3>2. Announcing = {} /\ b \in Fulls
      BY <2>3 DEF Announcing, Fulls
    <3>3. cleanBlkN = Cardinality(Fulls)
      <4>1. Cardinality(Announcing) = 0 /\ Cardinality(Fulls) \in Nat
        BY <3>2, FullsFinite, FS_EmptySet
      <4>2. cleanBlkN = Cardinality(Fulls) - Cardinality(Announcing) - 0
        BY <1>1, <2>3 DEF CleanAccounting, Fulls, Announcing
      <4>3. QED
        BY <4>1, <4>2
    <3>4. Cardinality(Fulls) \in Nat /\ Cardinality(Fulls) # 0
      BY <3>2, FullsFinite, FS_EmptySet
    <3>5. QED
      BY <2>3, <3>1, <3>3, <3>4 DEF Cleanable
  <2>4. QED
    BY <2>2, <2>3 DEF NothingLeftBehind
<1>2. QED
  BY <1>1, TypeCorrect, QuietInvariant, ElementsCounted, CleanAlwaysExact, PTL
=============================================================================
