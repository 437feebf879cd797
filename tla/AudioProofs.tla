--------------------------- MODULE AudioProofs ---------------------------
(***************************************************************************)
(* Theorems about the audio of io: about AudioBuf, for any number of       *)
(* channels, any sizes of the ring, of packets and of the client's         *)
(* buffers; and, further down, about AudioGroup, for every set of devices  *)
(* and rings of any size: its types and the ticks of the devices of a file *)
(* driver; the last theorem is for a file driver with one device.  The     *)
(* names of the two modules are apart.                                     *)
(***************************************************************************)
EXTENDS AudioBuf, AudioGroup, TLAPS, SequenceTheorems

------------------------------------------------------------------------------
(* Arithmetic *)

LEMMA ModIs ==
  ASSUME NEW x \in Nat, NEW m \in Nat \ {0}
  PROVE  /\ x % m \in 0 .. (m - 1)
         /\ x < m => x % m = x
         /\ m <= x /\ x < m + m => x % m = x - m
         /\ x = m + m => x % m = 0
<1>1. x % m \in 0 .. (m - 1)
  OBVIOUS
<1>2. x < m => x % m = x
  OBVIOUS
<1>3. m <= x /\ x < m + m => x % m = x - m
  OBVIOUS
<1>4. x = m + m => x % m = 0
  OBVIOUS
<1>5. QED
  BY <1>1, <1>2, <1>3, <1>4

LEMMA Multiple ==
  ASSUME NEW x \in Nat, NEW m \in Nat \ {0}, x % m = 0
  PROVE  \E q \in Nat : x = m * q
  OBVIOUS

LEMMA MultipleMod ==
  ASSUME NEW q \in Nat, NEW m \in Nat \ {0}
  PROVE  (m * q) % m = 0
  OBVIOUS

LEMMA StepFits ==
  ASSUME NEW x \in Nat, NEW y \in Nat, NEW m \in Nat \ {0},
         x % m = 0, y % m = 0, x < y
  PROVE  x + m <= y /\ (x + m) % m = 0
<1>1. PICK p \in Nat : x = m * p
  BY Multiple
<1>2. PICK q \in Nat : y = m * q
  BY Multiple
<1>3. p < q
  BY <1>1, <1>2
<1>4. x + m = m * (p + 1) /\ p + 1 \in Nat
  BY <1>1
<1>5. m * (p + 1) <= m * q
  BY <1>3
<1>6. QED
  BY <1>2, <1>4, <1>5, MultipleMod

LEMMA SizePositive == n \in Nat \ {0} /\ Primed \in Nat /\ Primed <= n
<1> DEFINE s == BufCnt * FramesPerCycle
<1>1. s \in Nat \ {0}
  BY AudioBufAssumption
<1>2. s % Dsp \in Nat
  BY <1>1, AudioBufAssumption
<1>3. Primed \in Nat /\ Primed <= s
  BY AudioBufAssumption DEF Primed
<1>4. QED
  BY <1>1, <1>2, <1>3 DEF n

LEMMA Turns ==
  ASSUME NEW m \in Nat \ {0}, NEW x \in {-(m + m), -m, 0, m}, NEW y \in Int,
         y \in {x - (m + m), x - m, x, x + m, x + (m + m)},
         -(m + m) <= y, y <= m
  PROVE  y \in {-(m + m), -m, 0, m}
OBVIOUS

------------------------------------------------------------------------------
(***************************************************************************)
(* The gauge: a thread that found room, or samples, still finds them when  *)
(* it uses them, because the other thread only makes more.  Hence fn stays *)
(* within the ring and agrees with the indexes.                            *)
(***************************************************************************)
Input(c) == cpc = "work" \/ (cpc = "advanceIn" /\ c >= cch)
Room(c)  == cpc \in {"work", "advanceIn"} \/ (cpc = "advanceOut" /\ c >= cch)

RoomInv ==
  /\ pc["in"] \in {"copy", "count"} => fn["in"][ch["in"]] + frames["in"] <= n
  /\ pc["out"] \in {"copy", "count"} => frames["out"] <= fn["out"][ch["out"]]
  /\ \A c \in Chs : Input(c) => Dsp <= fn["in"][c]
  /\ \A c \in Chs : Room(c) => Dsp <= n - fn["out"][c]

GaugeInv == TypeOK /\ RoomInv /\ FullExact

LEMMA GaugeInit == Init => GaugeInv
<1> SUFFICES ASSUME Init PROVE GaugeInv
  OBVIOUS
<1> USE SizePositive, AudioBufAssumption
<1>1. \A d \in Dirs : Start(d) \in 0 .. n
  BY DEF Start
<1>2. 1 \in Chs
  BY DEF Chs
<1>3. TypeRings
  BY <1>1 DEF Init, TypeRings, Cells
<1>4. TypeThreads /\ TypeCounts
  BY <1>1, <1>2 DEF Init, TypeThreads, TypeCounts, Dirs
<1>5. RoomInv
  BY DEF Init, RoomInv, Input, Room, Dirs
<1>6. FullExact
  BY <1>1 DEF Init, FullExact
<1>7. QED
  BY <1>3, <1>4, <1>5, <1>6 DEF GaugeInv, TypeOK

LEMMA ChFacts ==
  ASSUME TypeOK, NEW d \in Dirs
  PROVE  /\ ch[d] \in Chs /\ cch \in Chs
         /\ 1 \in Chs
         /\ ch[d] < ChN => ch[d] + 1 \in Chs
         /\ cch < ChN => cch + 1 \in Chs
BY AudioBufAssumption DEF TypeOK, TypeThreads, Chs

LEMMA WrittenType ==
  ASSUME NEW ring \in [Cells -> Nat], NEW i \in Nat, NEW f \in Int, NEW k \in Nat
  PROVE  Written(ring, i, f, k) \in [Cells -> Nat]
BY SizePositive DEF Written, Cells

LEMMA PastIs ==
  ASSUME NEW i \in 0 .. n, NEW f \in 0 .. n
  PROVE  Past(i, f) \in 0 .. n /\ Past(i, f) \in {i + f, i + f - n}
BY SizePositive DEF Past

LEMMA Mod3 ==
  ASSUME NEW x \in Nat, NEW m \in Nat \ {0}, x <= m + m
  PROVE  \E y \in 0 .. m : y = x % m /\ y \in {x, x - m, x - (m + m)}
<1>1. /\ x % m \in 0 .. (m - 1)
      /\ x < m => x % m = x
      /\ m <= x /\ x < m + m => x % m = x - m
      /\ x = m + m => x % m = 0
  BY ModIs
<1>2. PICK y \in 0 .. m : y = x % m
  BY <1>1
<1>3. y \in {x, x - m, x - (m + m)}
  BY <1>1, <1>2
<1>4. QED
  BY <1>2, <1>3

LEMMA AdvancedIs ==
  ASSUME NEW i \in 0 .. n, Dsp <= n
  PROVE  /\ Advanced(i) \in 0 .. n
         /\ Advanced(i) \in {i + Dsp, i + Dsp - n, i + Dsp - (n + n)}
<1>1. PICK x \in Nat : x = i + Dsp
  BY AudioBufAssumption
<1>2. x <= n + n /\ n \in Nat \ {0}
  BY <1>1, SizePositive, AudioBufAssumption
<1>3. PICK y \in 0 .. n : y = x % n /\ y \in {x, x - n, x - (n + n)}
  BY <1>2, Mod3
<1>4. Advanced(i) = y
  BY <1>1, <1>3 DEF Advanced
<1>5. y \in {i + Dsp, i + Dsp - n, i + Dsp - (n + n)}
  BY <1>1, <1>2, <1>3, AudioBufAssumption
<1>6. QED
  BY <1>4, <1>5

LEMMA GaugeStep == GaugeInv /\ [Next]_vars => GaugeInv'
<1> SUFFICES ASSUME GaugeInv, [Next]_vars PROVE GaugeInv'
  OBVIOUS
<1> USE SizePositive, AudioBufAssumption DEF GaugeInv, TypeOK, TypeRings, TypeThreads, TypeCounts
<1>1. ASSUME NEW d \in Dirs, Update(d) PROVE GaugeInv'
  <2>1. TypeOK'
    BY <1>1, ChFacts DEF Update, ringVars, clientVars, Dirs
  <2>2. RoomInv'
    BY <1>1 DEF Update, RoomInv, Input, Room, ringVars, clientVars, Dirs
  <2>3. FullExact'
    BY <1>1 DEF Update, FullExact, ringVars
  <2>4. QED
    BY <2>1, <2>2, <2>3
<1>2. ASSUME LoadIn PROVE GaugeInv'
  <2>1. TypeOK'
    BY <1>2, ChFacts DEF LoadIn, Fault, NextCh, ringVars, clientVars, Dirs
  <2>2. RoomInv'
    BY <1>2, ChFacts DEF LoadIn, NextCh, Overflows, RoomInv, Input, Room, ringVars, clientVars, Dirs
  <2>3. FullExact'
    BY <1>2 DEF LoadIn, FullExact, ringVars
  <2>4. QED
    BY <2>1, <2>2, <2>3
<1>3. ASSUME CopyIn PROVE GaugeInv'
  <2>0. b' \in [Dirs -> [Chs -> [Cells -> Nat]]]
    <3> DEFINE c  == ch["in"]
               i  == ii["in"][c]
               f  == frames["in"]
               n0 == IF n - i < f THEN n - i ELSE f
               k  == put["in"][c]
               w  == Written(b["in"][c], i, n0, k)
    <3>1. c \in Chs /\ i \in 0 .. n /\ f \in Nat /\ k \in Nat /\ "in" \in Dirs
      BY ChFacts DEF Dirs
    <3>2. n0 \in Nat /\ f - n0 \in Nat /\ k + n0 \in Nat
      BY <3>1
    <3>3. w \in [Cells -> Nat]
      BY <3>1, <3>2, WrittenType
    <3>4. Written(w, 0, f - n0, k + n0) \in [Cells -> Nat]
      <4>1. 0 \in Nat /\ f - n0 \in Int
        BY <3>2
      <4>2. QED
        BY <3>2, <3>3, <4>1, WrittenType, ZenonT(60)
    <3>5. b' = [b EXCEPT !["in"][c] = Written(w, 0, f - n0, k + n0)]
      BY <1>3 DEF CopyIn
    <3>6. QED
      BY <3>1, <3>4, <3>5, ZenonT(60)
  <2>1. TypeOK'
    BY <1>3, <2>0, ChFacts, ZenonT(60) DEF CopyIn, ringVars, clientVars, Dirs
  <2>2. RoomInv'
    BY <1>3, ChFacts DEF CopyIn, RoomInv, Input, Room, ringVars, clientVars, Dirs
  <2>3. FullExact'
    BY <1>3 DEF CopyIn, FullExact, ringVars
  <2>4. QED
    BY <2>1, <2>2, <2>3
<1>4. ASSUME CountIn PROVE GaugeInv'
  <2> DEFINE c == ch["in"]
             i == ii["in"][c]
             f == frames["in"]
  <2>0. /\ i \in 0 .. n /\ f \in 0 .. n
        /\ Past(i, f) \in 0 .. n /\ Past(i, f) \in {i + f, i + f - n}
    <3>1. i \in 0 .. n /\ f \in 0 .. n
      BY <1>4, ChFacts DEF CountIn, RoomInv, Dirs
    <3>2. QED
      BY <3>1, PastIs
  <2>1. TypeOK'
    BY <1>4, <2>0, ChFacts DEF CountIn, RoomInv, NextCh, clientVars, Dirs
  <2>2. RoomInv'
    BY <1>4, ChFacts DEF CountIn, NextCh, RoomInv, Input, Room, ringVars, clientVars, Dirs
  <2>3. FullExact'
    <3>1. c \in Chs /\ "in" \in Dirs
      BY ChFacts DEF Dirs
    <3>2. ASSUME NEW d \in Dirs, NEW e \in Chs
          PROVE  /\ put'[d][e] = took'[d][e] + fn'[d][e]
                 /\ ii'[d][e] - oi'[d][e] - fn'[d][e] \in {-(n + n), -n, 0, n}
      <4>1. CASE d = "in" /\ e = c
        <5>1. /\ ii'[d][e] = Past(i, f) /\ oi'[d][e] = oi[d][e]
              /\ fn'[d][e] = fn[d][e] + f
              /\ put'[d][e] = put[d][e] + f
              /\ took'[d][e] = took[d][e]
          BY <1>4, <3>1, <4>1 DEF CountIn
        <5>2. /\ put[d][e] = took[d][e] + fn[d][e]
              /\ ii[d][e] - oi[d][e] - fn[d][e] \in {-(n + n), -n, 0, n}
          BY DEF FullExact
        <5>3. /\ ii[d][e] \in 0 .. n /\ oi[d][e] \in 0 .. n
              /\ ii'[d][e] \in 0 .. n /\ oi'[d][e] \in 0 .. n
              /\ fn[d][e] \in 0 .. n /\ fn'[d][e] \in 0 .. n
              /\ put[d][e] \in Nat /\ took[d][e] \in Nat
          BY <2>1
        <5>4. ii[d][e] = i
          BY <4>1
        <5> DEFINE x == ii[d][e] - oi[d][e] - fn[d][e]
                   y == ii'[d][e] - oi'[d][e] - fn'[d][e]
        <5>5. /\ y \in Int /\ -(n + n) <= y /\ y <= n
          BY <5>3
        <5>6. y \in {x - (n + n), x - n, x, x + n, x + (n + n)}
          BY ONLY <2>0, <5>1, <5>3, <5>4, SizePositive, AudioBufAssumption
        <5>7. x \in {-(n + n), -n, 0, n}
          BY <5>2
        <5>8. y \in {-(n + n), -n, 0, n}
          <6> HIDE DEF x, y
          <6> QED
            BY <5>5, <5>6, <5>7, SizePositive, Turns
        <5>9. put'[d][e] = took'[d][e] + fn'[d][e]
          BY ONLY <2>0, <5>1, <5>2, <5>3
        <5>10. QED
          BY <5>8, <5>9
      <4>2. CASE ~(d = "in" /\ e = c)
        <5>1. /\ ii'[d][e] = ii[d][e] /\ oi'[d][e] = oi[d][e]
              /\ fn'[d][e] = fn[d][e]
              /\ put'[d][e] = put[d][e] /\ took'[d][e] = took[d][e]
          BY <1>4, <3>1, <4>2 DEF CountIn
        <5>2. QED
          BY <5>1 DEF FullExact
      <4>3. QED
        BY <4>1, <4>2
    <3>3. QED
      BY <3>2 DEF FullExact
  <2>4. QED
    BY <2>1, <2>2, <2>3
<1>5. ASSUME LoadOut PROVE GaugeInv'
  <2>1. TypeOK'
    BY <1>5, ChFacts DEF LoadOut, Underrun, Fault, TakeSome, NextCh, ringVars, clientVars, Dirs
  <2>2. RoomInv'
    BY <1>5, ChFacts DEF LoadOut, TakeSome, NextCh, RoomInv, Input, Room, ringVars, clientVars, Dirs
  <2>3. FullExact'
    BY <1>5 DEF LoadOut, FullExact, ringVars
  <2>4. QED
    BY <2>1, <2>2, <2>3
<1>6. ASSUME CopyOut PROVE GaugeInv'
  <2>1. TypeOK'
    BY <1>6 DEF CopyOut, ringVars, clientVars, Dirs
  <2>2. RoomInv'
    BY <1>6, ChFacts DEF CopyOut, RoomInv, Input, Room, ringVars, clientVars, Dirs
  <2>3. FullExact'
    BY <1>6 DEF CopyOut, FullExact, ringVars
  <2>4. QED
    BY <2>1, <2>2, <2>3
<1>7. ASSUME CountOut PROVE GaugeInv'
  <2> DEFINE c == ch["out"]
             i == oi["out"][c]
             f == frames["out"]
  <2>0. /\ i \in 0 .. n /\ f \in 0 .. n
        /\ Past(i, f) \in 0 .. n /\ Past(i, f) \in {i + f, i + f - n}
    <3>1. i \in 0 .. n /\ f \in 0 .. n
      BY <1>7, ChFacts DEF CountOut, RoomInv, Dirs
    <3>2. QED
      BY <3>1, PastIs
  <2>1. TypeOK'
    BY <1>7, <2>0, ChFacts DEF CountOut, RoomInv, NextCh, clientVars, Dirs
  <2>2. RoomInv'
    BY <1>7, ChFacts DEF CountOut, NextCh, RoomInv, Input, Room, ringVars, clientVars, Dirs
  <2>3. FullExact'
    <3>1. c \in Chs /\ "out" \in Dirs
      BY ChFacts DEF Dirs
    <3>2. ASSUME NEW d \in Dirs, NEW e \in Chs
          PROVE  /\ put'[d][e] = took'[d][e] + fn'[d][e]
                 /\ ii'[d][e] - oi'[d][e] - fn'[d][e] \in {-(n + n), -n, 0, n}
      <4>1. CASE d = "out" /\ e = c
        <5>1. /\ oi'[d][e] = Past(i, f) /\ ii'[d][e] = ii[d][e]
              /\ fn'[d][e] = fn[d][e] - f
              /\ took'[d][e] = took[d][e] + f
              /\ put'[d][e] = put[d][e]
          BY <1>7, <3>1, <4>1 DEF CountOut
        <5>2. /\ put[d][e] = took[d][e] + fn[d][e]
              /\ ii[d][e] - oi[d][e] - fn[d][e] \in {-(n + n), -n, 0, n}
          BY DEF FullExact
        <5>3. /\ ii[d][e] \in 0 .. n /\ oi[d][e] \in 0 .. n
              /\ ii'[d][e] \in 0 .. n /\ oi'[d][e] \in 0 .. n
              /\ fn[d][e] \in 0 .. n /\ fn'[d][e] \in 0 .. n
              /\ put[d][e] \in Nat /\ took[d][e] \in Nat
          BY <2>1
        <5>4. oi[d][e] = i
          BY <4>1
        <5> DEFINE x == ii[d][e] - oi[d][e] - fn[d][e]
                   y == ii'[d][e] - oi'[d][e] - fn'[d][e]
        <5>5. /\ y \in Int /\ -(n + n) <= y /\ y <= n
          BY <5>3
        <5>6. y \in {x - (n + n), x - n, x, x + n, x + (n + n)}
          BY ONLY <2>0, <5>1, <5>3, <5>4, SizePositive, AudioBufAssumption
        <5>7. x \in {-(n + n), -n, 0, n}
          BY <5>2
        <5>8. y \in {-(n + n), -n, 0, n}
          <6> HIDE DEF x, y
          <6> QED
            BY <5>5, <5>6, <5>7, SizePositive, Turns
        <5>9. put'[d][e] = took'[d][e] + fn'[d][e]
          BY ONLY <2>0, <5>1, <5>2, <5>3
        <5>10. QED
          BY <5>8, <5>9
      <4>2. CASE ~(d = "out" /\ e = c)
        <5>1. /\ ii'[d][e] = ii[d][e] /\ oi'[d][e] = oi[d][e]
              /\ fn'[d][e] = fn[d][e]
              /\ put'[d][e] = put[d][e] /\ took'[d][e] = took[d][e]
          BY <1>7, <3>1, <4>2 DEF CountOut
        <5>2. QED
          BY <5>1 DEF FullExact
      <4>3. QED
        BY <4>1, <4>2
    <3>3. QED
      BY <3>2 DEF FullExact
  <2>4. QED
    BY <2>1, <2>2, <2>3
<1>8. ASSUME IsDeviceReady PROVE GaugeInv'
  <2>1. TypeOK'
    BY <1>8 DEF IsDeviceReady, ringVars, driverVars
  <2>2. RoomInv'
    BY <1>8 DEF IsDeviceReady, HasInput, HasRoom, RoomInv, Input, Room, ringVars, driverVars
  <2>3. FullExact'
    BY <1>8 DEF IsDeviceReady, FullExact, ringVars
  <2>4. QED
    BY <2>1, <2>2, <2>3
<1>9. ASSUME Work PROVE GaugeInv'
  <2>0. b' \in [Dirs -> [Chs -> [Cells -> Nat]]]
    <3>1. "out" \in Dirs
      BY DEF Dirs
    <3>2. [c \in Chs |-> Written(b["out"][c], ii["out"][c], Dsp, put["out"][c])]
            \in [Chs -> [Cells -> Nat]]
      <4>1. ASSUME NEW c \in Chs
            PROVE  Written(b["out"][c], ii["out"][c], Dsp, put["out"][c])
                     \in [Cells -> Nat]
        <5>1. /\ b["out"][c] \in [Cells -> Nat] /\ ii["out"][c] \in Nat
              /\ put["out"][c] \in Nat /\ Dsp \in Int
          BY <3>1
        <5>2. QED
          BY <5>1, WrittenType
      <4>2. QED
        BY <4>1
    <3>3. QED
      BY <1>9, <3>1, <3>2 DEF Work
  <2>1. TypeOK'
    BY <1>9, <2>0, ChFacts DEF Work, driverVars, Dirs
  <2>2. RoomInv'
    BY <1>9, ChFacts DEF Work, RoomInv, Input, Room, driverVars, Dirs, Chs
  <2>3. FullExact'
    BY <1>9 DEF Work, FullExact
  <2>4. QED
    BY <2>1, <2>2, <2>3
<1>10. ASSUME AdvanceIn PROVE GaugeInv'
  <2> DEFINE i == oi["in"][cch]
  <2>0. cch \in Chs /\ "in" \in Dirs
    BY ChFacts DEF Dirs
  <2>1. Dsp <= fn["in"][cch] /\ fn["in"][cch] \in 0 .. n /\ i \in 0 .. n
    <3>1. cch \in Chs /\ "in" \in Dirs /\ cch >= cch
      BY ChFacts DEF Dirs, Chs
    <3>2. QED
      BY <1>10, <3>1 DEF AdvanceIn, RoomInv, Input
  <2>2. Dsp <= n
    BY <2>1
  <2>3. /\ Advanced(i) \in 0 .. n
        /\ Advanced(i) \in {i + Dsp, i + Dsp - n, i + Dsp - (n + n)}
    BY <2>1, <2>2, AdvancedIs
  <2>4. TypeOK'
    BY <1>10, <2>1, <2>3, ChFacts DEF AdvanceIn, NextClientCh, driverVars, Dirs
  <2>5. RoomInv'
    <3>1. /\ pc' = pc /\ ch' = ch /\ frames' = frames
          /\ \A e \in Chs : fn'["out"][e] = fn["out"][e]
          /\ \A e \in Chs : e # cch => fn'["in"][e] = fn["in"][e]
          /\ fn'["in"][cch] = fn["in"][cch] - Dsp
      BY <1>10, <2>0 DEF AdvanceIn, driverVars, Dirs
    <3>2. pc["in"] \in {"copy", "count"} => fn'["in"][ch["in"]] + frames["in"] <= n
      <4>1. ch["in"] \in Chs /\ fn["in"][ch["in"]] \in Nat /\ frames["in"] \in Nat
        BY <2>0, ChFacts
      <4>2. fn'["in"][ch["in"]] <= fn["in"][ch["in"]] /\ fn'["in"][ch["in"]] \in Int
        <5>1. CASE ch["in"] = cch
          BY <2>1, <3>1, <5>1
        <5>2. CASE ch["in"] # cch
          BY <3>1, <4>1, <5>2
        <5>3. QED
          BY <5>1, <5>2
      <4>3. QED
        BY <4>1, <4>2 DEF RoomInv
    <3>3. pc["out"] \in {"copy", "count"} => frames["out"] <= fn'["out"][ch["out"]]
      BY <3>1, ChFacts DEF RoomInv, Dirs
    <3>4. ASSUME NEW e \in Chs, Input(e)' PROVE Dsp <= fn'["in"][e]
      <4>1. cpc' = "advanceIn" /\ cch' = cch + 1 /\ e >= cch + 1
        BY <1>10, <3>4 DEF AdvanceIn, NextClientCh, Input
      <4>2. Input(e) /\ e # cch
        BY <1>10, <2>0, <4>1 DEF AdvanceIn, Input, Chs
      <4>3. QED
        BY <3>1, <4>2 DEF RoomInv
    <3>5. ASSUME NEW e \in Chs, Room(e)' PROVE Dsp <= n - fn'["out"][e]
      BY <1>10, <3>1 DEF AdvanceIn, Room, RoomInv
    <3>6. QED
      BY <3>1, <3>2, <3>3, <3>4, <3>5 DEF RoomInv
  <2>6. FullExact'
    <3>2. ASSUME NEW d \in Dirs, NEW e \in Chs
          PROVE  /\ put'[d][e] = took'[d][e] + fn'[d][e]
                 /\ ii'[d][e] - oi'[d][e] - fn'[d][e] \in {-(n + n), -n, 0, n}
      <4>1. CASE d = "in" /\ e = cch
        <5>1. /\ oi'[d][e] = Advanced(i) /\ ii'[d][e] = ii[d][e]
              /\ fn'[d][e] = fn[d][e] - Dsp
              /\ took'[d][e] = took[d][e] + Dsp
              /\ put'[d][e] = put[d][e]
          BY <1>10, <2>0, <4>1 DEF AdvanceIn
        <5>2. /\ put[d][e] = took[d][e] + fn[d][e]
              /\ ii[d][e] - oi[d][e] - fn[d][e] \in {-(n + n), -n, 0, n}
          BY DEF FullExact
        <5>3. /\ ii[d][e] \in 0 .. n /\ oi[d][e] \in 0 .. n
              /\ ii'[d][e] \in 0 .. n /\ oi'[d][e] \in 0 .. n
              /\ fn[d][e] \in 0 .. n /\ fn'[d][e] \in 0 .. n
              /\ put[d][e] \in Nat /\ took[d][e] \in Nat
          BY <2>4
        <5>4. oi[d][e] = i
          BY <4>1
        <5> DEFINE x == ii[d][e] - oi[d][e] - fn[d][e]
                   y == ii'[d][e] - oi'[d][e] - fn'[d][e]
        <5>5. /\ y \in Int /\ -(n + n) <= y /\ y <= n
          BY <5>3
        <5>6. y \in {x - (n + n), x - n, x, x + n, x + (n + n)}
          BY ONLY <2>2, <2>3, <5>1, <5>3, <5>4, SizePositive, AudioBufAssumption
        <5>7. x \in {-(n + n), -n, 0, n}
          BY <5>2
        <5>8. y \in {-(n + n), -n, 0, n}
          <6> HIDE DEF x, y
          <6> QED
            BY <5>5, <5>6, <5>7, SizePositive, Turns
        <5>9. put'[d][e] = took'[d][e] + fn'[d][e]
          BY ONLY <2>2, <2>3, <5>1, <5>2, <5>3, AudioBufAssumption
        <5>10. QED
          BY <5>8, <5>9
      <4>2. CASE ~(d = "in" /\ e = cch)
        <5>1. /\ ii'[d][e] = ii[d][e] /\ oi'[d][e] = oi[d][e]
              /\ fn'[d][e] = fn[d][e]
              /\ put'[d][e] = put[d][e] /\ took'[d][e] = took[d][e]
          BY <1>10, <2>0, <4>2 DEF AdvanceIn
        <5>2. QED
          BY <5>1 DEF FullExact
      <4>3. QED
        BY <4>1, <4>2
    <3>3. QED
      BY <3>2 DEF FullExact
  <2>7. QED
    BY <2>4, <2>5, <2>6
<1>11. ASSUME AdvanceOut PROVE GaugeInv'
  <2> DEFINE i == ii["out"][cch]
  <2>0. cch \in Chs /\ "out" \in Dirs
    BY ChFacts DEF Dirs
  <2>1. Dsp <= n - fn["out"][cch] /\ fn["out"][cch] \in 0 .. n /\ i \in 0 .. n
    <3>1. cch \in Chs /\ "out" \in Dirs /\ cch >= cch
      BY ChFacts DEF Dirs, Chs
    <3>2. QED
      BY <1>11, <3>1 DEF AdvanceOut, RoomInv, Room
  <2>2. Dsp <= n
    BY <2>1
  <2>3. /\ Advanced(i) \in 0 .. n
        /\ Advanced(i) \in {i + Dsp, i + Dsp - n, i + Dsp - (n + n)}
    BY <2>1, <2>2, AdvancedIs
  <2>4. TypeOK'
    BY <1>11, <2>1, <2>3, ChFacts DEF AdvanceOut, NextClientCh, driverVars, Dirs
  <2>5. RoomInv'
    <3>1. /\ pc' = pc /\ ch' = ch /\ frames' = frames
          /\ \A e \in Chs : fn'["in"][e] = fn["in"][e]
          /\ \A e \in Chs : e # cch => fn'["out"][e] = fn["out"][e]
          /\ fn'["out"][cch] = fn["out"][cch] + Dsp
      BY <1>11, <2>0 DEF AdvanceOut, driverVars, Dirs
    <3>2. pc["in"] \in {"copy", "count"} => fn'["in"][ch["in"]] + frames["in"] <= n
      BY <3>1, ChFacts DEF RoomInv, Dirs
    <3>3. pc["out"] \in {"copy", "count"} => frames["out"] <= fn'["out"][ch["out"]]
      <4>1. ch["out"] \in Chs /\ fn["out"][ch["out"]] \in Nat /\ frames["out"] \in Nat
        BY <2>0, ChFacts
      <4>2. fn'["out"][ch["out"]] >= fn["out"][ch["out"]] /\ fn'["out"][ch["out"]] \in Int
        <5>1. CASE ch["out"] = cch
          BY <2>1, <3>1, <5>1
        <5>2. CASE ch["out"] # cch
          BY <3>1, <4>1, <5>2
        <5>3. QED
          BY <5>1, <5>2
      <4>3. QED
        BY <4>1, <4>2 DEF RoomInv
    <3>4. ASSUME NEW e \in Chs, Input(e)' PROVE Dsp <= fn'["in"][e]
      BY <1>11, <3>4 DEF AdvanceOut, NextClientCh, Input
    <3>5. ASSUME NEW e \in Chs, Room(e)' PROVE Dsp <= n - fn'["out"][e]
      <4>1. cpc' = "advanceOut" /\ cch' = cch + 1 /\ e >= cch + 1
        BY <1>11, <3>5 DEF AdvanceOut, NextClientCh, Room
      <4>2. Room(e) /\ e # cch
        BY <1>11, <2>0, <4>1 DEF AdvanceOut, Room, Chs
      <4>3. QED
        BY <3>1, <4>2 DEF RoomInv
    <3>6. QED
      BY <3>1, <3>2, <3>3, <3>4, <3>5 DEF RoomInv
  <2>6. FullExact'
    <3>2. ASSUME NEW d \in Dirs, NEW e \in Chs
          PROVE  /\ put'[d][e] = took'[d][e] + fn'[d][e]
                 /\ ii'[d][e] - oi'[d][e] - fn'[d][e] \in {-(n + n), -n, 0, n}
      <4>1. CASE d = "out" /\ e = cch
        <5>1. /\ ii'[d][e] = Advanced(i) /\ oi'[d][e] = oi[d][e]
              /\ fn'[d][e] = fn[d][e] + Dsp
              /\ put'[d][e] = put[d][e] + Dsp
              /\ took'[d][e] = took[d][e]
          BY <1>11, <2>0, <4>1 DEF AdvanceOut
        <5>2. /\ put[d][e] = took[d][e] + fn[d][e]
              /\ ii[d][e] - oi[d][e] - fn[d][e] \in {-(n + n), -n, 0, n}
          BY DEF FullExact
        <5>3. /\ ii[d][e] \in 0 .. n /\ oi[d][e] \in 0 .. n
              /\ ii'[d][e] \in 0 .. n /\ oi'[d][e] \in 0 .. n
              /\ fn[d][e] \in 0 .. n /\ fn'[d][e] \in 0 .. n
              /\ put[d][e] \in Nat /\ took[d][e] \in Nat
          BY <2>4
        <5>4. ii[d][e] = i
          BY <4>1
        <5> DEFINE x == ii[d][e] - oi[d][e] - fn[d][e]
                   y == ii'[d][e] - oi'[d][e] - fn'[d][e]
        <5>5. /\ y \in Int /\ -(n + n) <= y /\ y <= n
          BY <5>3
        <5>6. y \in {x - (n + n), x - n, x, x + n, x + (n + n)}
          <6>1. ii'[d][e] \in {ii[d][e] + Dsp, ii[d][e] + Dsp - n, ii[d][e] + Dsp - (n + n)}
            BY ONLY <2>3, <5>1, <5>4
          <6>2. ii[d][e] \in Int /\ oi[d][e] \in Int /\ fn[d][e] \in Int /\ Dsp \in Int /\ n \in Int
            BY ONLY <5>3, SizePositive, AudioBufAssumption
          <6>3. oi'[d][e] = oi[d][e] /\ fn'[d][e] = fn[d][e] + Dsp
            BY <5>1
          <6>4. QED
            BY ONLY <6>1, <6>2, <6>3
        <5>7. x \in {-(n + n), -n, 0, n}
          BY <5>2
        <5>8. y \in {-(n + n), -n, 0, n}
          <6> HIDE DEF x, y
          <6> QED
            BY <5>5, <5>6, <5>7, SizePositive, Turns
        <5>9. put'[d][e] = took'[d][e] + fn'[d][e]
          BY ONLY <2>2, <2>3, <5>1, <5>2, <5>3, AudioBufAssumption
        <5>10. QED
          BY <5>8, <5>9
      <4>2. CASE ~(d = "out" /\ e = cch)
        <5>1. /\ ii'[d][e] = ii[d][e] /\ oi'[d][e] = oi[d][e]
              /\ fn'[d][e] = fn[d][e]
              /\ put'[d][e] = put[d][e] /\ took'[d][e] = took[d][e]
          BY <1>11, <2>0, <4>2 DEF AdvanceOut
        <5>2. QED
          BY <5>1 DEF FullExact
      <4>3. QED
        BY <4>1, <4>2
    <3>3. QED
      BY <3>2 DEF FullExact
  <2>7. QED
    BY <2>4, <2>5, <2>6
<1>12. CASE UNCHANGED vars
  BY <1>12 DEF vars, ringVars, driverVars, clientVars, RoomInv, Input, Room, FullExact
<1>13. QED
  BY <1>1, <1>2, <1>3, <1>4, <1>5, <1>6, <1>7, <1>8, <1>9, <1>10, <1>11, <1>12
  DEF Next, Client
------------------------------------------------------------------------------
(***************************************************************************)
(* The content of one ring.  Cell At(i, x) is the x-th after index i.      *)
(***************************************************************************)
Near(i, o, m) == i - o - m \in {-(n + n), -n, 0, n}

LEMMA AtIs ==
  ASSUME NEW i \in 0 .. n, NEW x \in 0 .. (n - 1)
  PROVE  /\ At(i, x) \in Cells
         /\ i + x < n => At(i, x) = i + x
         /\ i + x >= n => At(i, x) = i + x - n
BY SizePositive DEF At, Cells

\* What follows the m samples after o is found after i.
LEMMA AtNear ==
  ASSUME NEW i \in 0 .. n, NEW o \in 0 .. n, NEW m \in 0 .. n, Near(i, o, m),
         NEW x \in 0 .. (n - 1), m <= x
  PROVE  At(o, x) = At(i, x - m)
<1>1. x - m \in 0 .. (n - 1)
  BY SizePositive
<1>2. CASE i - o - m = -(n + n)
  BY <1>1, <1>2, AtIs, SizePositive
<1>3. CASE i - o - m = -n
  BY <1>1, <1>3, SizePositive DEF At
<1>4. CASE i - o - m = 0
  BY <1>1, <1>4, SizePositive DEF At
<1>5. CASE i - o - m = n
  BY <1>1, <1>5, SizePositive DEF At
<1>6. QED
  BY <1>2, <1>3, <1>4, <1>5 DEF Near

\* Cells after one index are different.
LEMMA AtInjective ==
  ASSUME NEW i \in 0 .. n, NEW x \in 0 .. (n - 1), NEW y \in 0 .. (n - 1),
         x # y
  PROVE  At(i, x) # At(i, y)
BY SizePositive DEF At

\* ring2 is ring, with the f samples after position k written from i on.
Fills(ring, ring2, i, f, k) ==
  /\ Holds(ring2, i, f, k)
  /\ \A x \in Cells :
       (\A y \in 0 .. (f - 1) : x # At(i, y)) => ring2[x] = ring[x]

\* Samples that are in the ring stay when others are put behind them.
LEMMA FillKeeps ==
  ASSUME NEW ring, NEW ring2, NEW i \in 0 .. n, NEW f \in 0 .. n, NEW k \in Nat,
         NEW o \in 0 .. n, NEW m \in 0 .. n, NEW t \in Nat,
         Fills(ring, ring2, i, f, k), Holds(ring, o, m, t),
         Near(i, o, m), m + f <= n
  PROVE  Holds(ring2, o, m, t)
<1> SUFFICES ASSUME NEW x \in 0 .. (m - 1)
             PROVE  ring2[At(o, x)] = t + 1 + x
  BY DEF Holds
<1>1. x \in 0 .. (n - 1) /\ At(o, x) \in Cells
  BY AtIs, SizePositive
<1>2. ASSUME NEW y \in 0 .. (f - 1) PROVE At(o, x) # At(i, y)
  <2>1. y + m \in 0 .. (n - 1) /\ m <= y + m /\ y + m - m = y /\ x # y + m
    BY SizePositive
  <2>2. At(o, y + m) = At(i, y)
    BY <2>1, AtNear
  <2>3. QED
    BY <1>1, <2>1, <2>2, AtInjective
<1>3. ring2[At(o, x)] = ring[At(o, x)]
  BY <1>1, <1>2 DEF Fills
<1>4. QED
  BY <1>3 DEF Holds

\* Samples behind those that are in the ring join them.
LEMMA HoldsJoin ==
  ASSUME NEW ring, NEW i \in 0 .. n, NEW f \in 0 .. n, NEW o \in 0 .. n,
         NEW m \in 0 .. n, NEW t \in Nat,
         Holds(ring, o, m, t), Holds(ring, i, f, t + m),
         Near(i, o, m), m + f <= n
  PROVE  Holds(ring, o, m + f, t)
<1> SUFFICES ASSUME NEW x \in 0 .. (m + f - 1)
             PROVE  ring[At(o, x)] = t + 1 + x
  BY DEF Holds
<1>1. CASE x < m
  <2>1. x \in 0 .. (m - 1)
    BY <1>1
  <2>2. QED
    BY <2>1 DEF Holds
<1>2. CASE m <= x
  <2>1. x - m \in 0 .. (f - 1) /\ x \in 0 .. (n - 1)
    BY <1>2, SizePositive
  <2>2. At(o, x) = At(i, x - m)
    BY <1>2, <2>1, AtNear
  <2>3. ring[At(i, x - m)] = t + m + 1 + (x - m)
    BY <2>1 DEF Holds
  <2>4. QED
    BY <2>1, <2>2, <2>3
<1>3. QED
  BY <1>1, <1>2

\* The samples that are left when f are taken.
LEMMA HoldsDrop ==
  ASSUME NEW ring, NEW o \in 0 .. n, NEW p \in 0 .. n, NEW m \in 0 .. n,
         NEW f \in 0 .. m, NEW t \in Nat,
         Holds(ring, o, m, t), p \in {o + f, o + f - n, o + f - (n + n)}
  PROVE  Holds(ring, p, m - f, t + f)
<1> SUFFICES ASSUME NEW x \in 0 .. (m - f - 1)
             PROVE  ring[At(p, x)] = t + f + 1 + x
  BY DEF Holds
<1>1. x + f \in 0 .. (m - 1) /\ x + f \in 0 .. (n - 1) /\ f <= x + f
      /\ x + f - f = x
  BY SizePositive
<1>2. Near(p, o, f) /\ f \in 0 .. n
  BY SizePositive DEF Near
<1>3. At(o, x + f) = At(p, x)
  BY <1>1, <1>2, AtNear
<1>4. ring[At(o, x + f)] = t + 1 + (x + f)
  BY <1>1 DEF Holds
<1>5. QED
  BY <1>3, <1>4

LEMMA HoldsFewer ==
  ASSUME NEW ring, NEW o \in 0 .. n, NEW m \in 0 .. n, NEW f \in 0 .. m,
         NEW t \in Nat, Holds(ring, o, m, t)
  PROVE  Holds(ring, o, f, t)
BY DEF Holds

\* One segment.
LEMMA FillOne ==
  ASSUME NEW ring \in [Cells -> Nat], NEW i \in 0 .. n, NEW f \in 0 .. n,
         NEW k \in Nat, i + f <= n
  PROVE  Fills(ring, Written(ring, i, f, k), i, f, k)
<1> DEFINE w == Written(ring, i, f, k)
<1>1. ASSUME NEW x \in Cells
      PROVE  w[x] = IF x >= i /\ x < i + f THEN k + 1 + (x - i) ELSE ring[x]
  BY DEF Written
<1> HIDE DEF w
<1>2. ASSUME NEW x \in 0 .. (f - 1) PROVE w[At(i, x)] = k + 1 + x
  <2>1. At(i, x) = i + x /\ i + x \in Cells
    BY SizePositive DEF At, Cells
  <2>2. QED
    BY <1>1, <2>1
<1>3. ASSUME NEW x \in Cells, \A y \in 0 .. (f - 1) : x # At(i, y)
      PROVE  w[x] = ring[x]
  <2>1. CASE x >= i /\ x < i + f
    <3>1. x \in 0 .. (n - 1) /\ x - i \in 0 .. (f - 1)
      BY <2>1, SizePositive DEF Cells
    <3>2. At(i, x - i) = x
      BY <3>1, SizePositive DEF At
    <3>3. QED
      BY <1>3, <3>1, <3>2
  <2>2. CASE ~(x >= i /\ x < i + f)
    BY <1>1, <2>2
  <2>3. QED
    BY <2>1, <2>2
<1>4. QED
  BY <1>2, <1>3 DEF Fills, Holds, w

\* Two segments.
LEMMA FillTwo ==
  ASSUME NEW ring \in [Cells -> Nat], NEW i \in 0 .. n, NEW f \in 0 .. n,
         NEW k \in Nat, n - i < f
  PROVE  Fills(ring, Written(Written(ring, i, n - i, k), 0, f - (n - i), k + (n - i)),
               i, f, k)
<1> DEFINE u == Written(ring, i, n - i, k)
           w == Written(u, 0, f - (n - i), k + (n - i))
<1>1. ASSUME NEW x \in Cells
      PROVE  w[x] = IF x < f - (n - i) THEN k + (n - i) + 1 + x
                    ELSE IF x >= i THEN k + 1 + (x - i) ELSE ring[x]
  <2>1. x \in 0 .. (n - 1)
    BY DEF Cells
  <2>2. u[x] = IF x >= i THEN k + 1 + (x - i) ELSE ring[x]
    BY <2>1, SizePositive DEF Written
  <2>3. w[x] = IF x < f - (n - i) THEN k + (n - i) + 1 + x ELSE u[x]
    <3> HIDE DEF u
    <3> QED
      BY <2>1, SizePositive DEF Written
  <2> HIDE DEF u, w
  <2>4. QED
    BY <2>2, <2>3
<1> HIDE DEF w
<1>2. ASSUME NEW x \in 0 .. (f - 1) PROVE w[At(i, x)] = k + 1 + x
  <2>1. CASE i + x < n
    <3>1. At(i, x) = i + x /\ i + x \in Cells
      BY <2>1, SizePositive DEF At, Cells
    <3>2. QED
      BY <1>1, <3>1, SizePositive
  <2>2. CASE i + x >= n
    <3>1. At(i, x) = i + x - n /\ i + x - n \in Cells
      BY <2>2, SizePositive DEF At, Cells
    <3>2. QED
      BY <1>1, <2>2, <3>1, SizePositive
  <2>3. QED
    BY <2>1, <2>2, SizePositive
<1>3. ASSUME NEW x \in Cells, \A y \in 0 .. (f - 1) : x # At(i, y)
      PROVE  w[x] = ring[x]
  <2>0. x \in 0 .. (n - 1)
    BY DEF Cells
  <2>1. CASE x < f - (n - i)
    <3>1. x + (n - i) \in 0 .. (f - 1) /\ At(i, x + (n - i)) = x
      BY <2>0, <2>1, SizePositive DEF At
    <3>2. QED
      BY <1>3, <3>1
  <2>2. CASE x >= i
    <3>1. x - i \in 0 .. (f - 1) /\ At(i, x - i) = x
      BY <2>0, <2>2, SizePositive DEF At
    <3>2. QED
      BY <1>3, <3>1
  <2>3. CASE ~(x < f - (n - i)) /\ ~(x >= i)
    BY <1>1, <2>3
  <2>4. QED
    BY <2>1, <2>2, <2>3
<1>4. QED
  BY <1>2, <1>3 DEF Fills, Holds, w, u

------------------------------------------------------------------------------
(***************************************************************************)
(* The content of all rings, for rings the client's steps end at.  What    *)
(* was taken is followed in the ring by the samples that are left; a       *)
(* packet, and the client's work, are written behind them before they are  *)
(* counted.                                                                *)
(***************************************************************************)
StepInv ==
  \A c \in Chs :
    /\ oi["in"][c] < n /\ oi["in"][c] % Dsp = 0
    /\ ii["out"][c] < n /\ ii["out"][c] % Dsp = 0

KeptInv ==
  \A d \in Dirs, c \in Chs : Holds(b[d][c], oi[d][c], fn[d][c], took[d][c])

PacketInv ==
  pc["in"] = "count" =>
    Holds(b["in"][ch["in"]], ii["in"][ch["in"]], frames["in"], put["in"][ch["in"]])

Filled(c) == cpc = "advanceIn" \/ (cpc = "advanceOut" /\ c >= cch)

WorkInv ==
  \A c \in Chs : Filled(c) => Holds(b["out"][c], ii["out"][c], Dsp, put["out"][c])

ContentInv == GaugeInv /\ StepInv /\ KeptInv /\ PacketInv /\ WorkInv

LEMMA ContentInit == ASSUME Whole, Init PROVE ContentInv
<1> USE SizePositive, AudioBufAssumption
<1>1. GaugeInv
  BY GaugeInit
<1>2. StepInv
  <2>1. 0 % Dsp = 0
    OBVIOUS
  <2>2. QED
    BY <2>1 DEF Init, StepInv, Start, Whole, Dirs
<1>3. KeptInv
  <2> SUFFICES ASSUME NEW d \in Dirs, NEW c \in Chs, NEW x \in 0 .. (fn[d][c] - 1)
               PROVE  b[d][c][At(oi[d][c], x)] = took[d][c] + 1 + x
    BY DEF KeptInv, Holds
  <2>1. fn[d][c] = Start(d) /\ oi[d][c] = 0 /\ took[d][c] = 0 /\ Start(d) \in 0 .. n
    BY DEF Init, Start
  <2>2. At(0, x) = x /\ x \in Cells /\ x < Start(d)
    BY <2>1 DEF At, Cells
  <2>3. b[d][c][x] = x + 1
    BY <2>2 DEF Init
  <2>4. QED
    BY <2>1, <2>2, <2>3
<1>4. PacketInv /\ WorkInv
  BY DEF Init, PacketInv, WorkInv, Filled, Dirs
<1>5. QED
  BY <1>1, <1>2, <1>3, <1>4 DEF ContentInv

LEMMA AdvancedWhole ==
  ASSUME Whole, NEW i \in 0 .. n, i < n, i % Dsp = 0
  PROVE  /\ i + Dsp <= n
         /\ Advanced(i) \in 0 .. n /\ Advanced(i) < n /\ Advanced(i) % Dsp = 0
         /\ Advanced(i) \in {i + Dsp, i + Dsp - n}
<1>1. i + Dsp <= n /\ (i + Dsp) % Dsp = 0
  <2>1. n % Dsp = 0 /\ n \in Nat /\ i \in Nat /\ Dsp \in Nat \ {0}
    BY SizePositive, AudioBufAssumption DEF Whole
  <2>2. QED
    BY <2>1, StepFits
<1>2. CASE i + Dsp < n
  <2>1. Advanced(i) = i + Dsp
    <3>1. PICK x \in Nat : x = i + Dsp
      BY AudioBufAssumption
    <3>2. x % n = x
      BY <1>2, <3>1, ModIs, SizePositive
    <3>3. QED
      BY <3>1, <3>2 DEF Advanced
  <2>2. QED
    BY <1>1, <1>2, <2>1, SizePositive, AudioBufAssumption
<1>3. CASE i + Dsp = n
  <2>1. Advanced(i) = 0
    BY <1>3, ModIs, SizePositive DEF Advanced
  <2>2. 0 % Dsp = 0
    BY AudioBufAssumption
  <2>3. QED
    BY <1>1, <1>3, <2>1, <2>2, SizePositive, AudioBufAssumption
<1>4. QED
  BY <1>1, <1>2, <1>3, SizePositive, AudioBufAssumption

LEMMA ContentStep == ASSUME Whole, ContentInv, [Next]_vars PROVE ContentInv'
<1> USE SizePositive, AudioBufAssumption DEF ContentInv
<1>0. GaugeInv /\ GaugeInv' /\ TypeOK /\ TypeOK'
  BY GaugeStep DEF GaugeInv
<1>t. ASSUME NEW d \in Dirs, NEW c \in Chs
      PROVE  /\ ii[d][c] \in 0 .. n /\ oi[d][c] \in 0 .. n /\ fn[d][c] \in 0 .. n
             /\ put[d][c] \in Nat /\ took[d][c] \in Nat
             /\ b[d][c] \in [Cells -> Nat]
             /\ put[d][c] = took[d][c] + fn[d][c]
             /\ Near(ii[d][c], oi[d][c], fn[d][c])
             /\ Holds(b[d][c], oi[d][c], fn[d][c], took[d][c])
  BY <1>0 DEF TypeOK, TypeRings, TypeCounts, GaugeInv, FullExact, Near, KeptInv
<1>d. "in" \in Dirs /\ "out" \in Dirs /\ ch["in"] \in Chs /\ ch["out"] \in Chs
      /\ cch \in Chs
  BY <1>0 DEF Dirs, TypeOK, TypeThreads
<1>u. ASSUME UNCHANGED ringVars, UNCHANGED <<put, took>>
      PROVE  StepInv' /\ KeptInv'
  BY <1>u DEF ringVars, StepInv, KeptInv, Holds, At
<1>w. ASSUME UNCHANGED ringVars, UNCHANGED <<put, took, cpc, cch>>
      PROVE  WorkInv'
  BY <1>w DEF ringVars, WorkInv, Filled, Holds, At
<1>p. ASSUME UNCHANGED ringVars, UNCHANGED <<put, took>>,
             pc'["in"] = "count" =>
               pc["in"] = "count" /\ ch'["in"] = ch["in"] /\ frames'["in"] = frames["in"]
      PROVE  PacketInv'
  BY <1>p DEF ringVars, PacketInv, Holds, At
<1>1. ASSUME NEW d \in Dirs, Update(d) PROVE ContentInv'
  <2>1. UNCHANGED ringVars /\ UNCHANGED <<put, took, cpc, cch>>
    BY <1>1 DEF Update, clientVars
  <2>2. pc'["in"] = "count" =>
          pc["in"] = "count" /\ ch'["in"] = ch["in"] /\ frames'["in"] = frames["in"]
    BY <1>0, <1>1 DEF Update, TypeOK, TypeThreads, Dirs
  <2>3. QED
    BY <1>0, <1>u, <1>w, <1>p, <2>1, <2>2
<1>2. ASSUME LoadIn PROVE ContentInv'
  <2>1. UNCHANGED ringVars /\ UNCHANGED <<put, took, cpc, cch>>
    BY <1>2 DEF LoadIn, clientVars
  <2>2. pc'["in"] # "count"
    BY <1>0, <1>2, <1>d DEF LoadIn, NextCh, TypeOK, TypeThreads
  <2>3. QED
    BY <1>0, <1>u, <1>w, <1>p, <2>1, <2>2
<1>3. ASSUME CopyIn PROVE ContentInv'
  <2> DEFINE c  == ch["in"]
             i  == ii["in"][c]
             f  == frames["in"]
             n0 == IF n - i < f THEN n - i ELSE f
             k  == put["in"][c]
             w  == Written(Written(b["in"][c], i, n0, k), 0, f - n0, k + n0)
  <2>1. /\ b' = [b EXCEPT !["in"][c] = w]
        /\ UNCHANGED <<ii, oi, fn, ch, frames, cpc, cch, put, took>>
    BY <1>3 DEF CopyIn, clientVars
  <2>2. c \in Chs /\ i \in 0 .. n /\ f \in 0 .. n /\ k \in Nat
        /\ b["in"][c] \in [Cells -> Nat] /\ fn["in"][c] + f <= n
    <3>1. fn["in"][c] + f <= n /\ f \in Nat
      BY <1>0, <1>3, <1>d DEF CopyIn, GaugeInv, RoomInv, TypeOK, TypeThreads
    <3>2. QED
      BY <1>t, <1>d, <3>1
  <2>3. Fills(b["in"][c], w, i, f, k)
    <3> HIDE DEF c, i, f, k
    <3>1. CASE n - i < f
      BY <2>2, <3>1, FillTwo
    <3>2. CASE ~(n - i < f)
      <4>1. n0 = f /\ f - n0 = 0
        BY <2>2, <3>2
      <4> DEFINE v == Written(b["in"][c], i, f, k)
      <4>2. Fills(b["in"][c], v, i, f, k)
        BY <2>2, <3>2, FillOne
      <4>3. Written(v, 0, 0, k + f) = v
        <5>1. v \in [Cells -> Nat]
          BY <2>2, WrittenType
        <5>2. QED
          <6> HIDE DEF v
          <6> QED
            BY <5>1 DEF Written, Cells
      <4>4. QED
        BY <4>1, <4>2, <4>3
    <3>3. QED
      BY <3>1, <3>2
  <2> HIDE DEF w
  <2>4. b'["in"][c] = w /\ b'["out"] = b["out"]
        /\ \A e \in Chs : e # c => b'["in"][e] = b["in"][e]
    BY <1>0, <1>d, <2>1 DEF TypeOK, TypeRings, Dirs
  <2>5. StepInv'
    BY <2>1 DEF StepInv
  <2>6. KeptInv'
    <3> SUFFICES ASSUME NEW d \in Dirs, NEW e \in Chs
                 PROVE  Holds(b'[d][e], oi[d][e], fn[d][e], took[d][e])
      BY <2>1 DEF KeptInv, Holds, At
    <3>1. CASE d = "in" /\ e = c
      <4>1. Holds(w, oi["in"][c], fn["in"][c], took["in"][c])
        <5> HIDE DEF c, i, f, k
        <5>1. /\ oi["in"][c] \in 0 .. n /\ fn["in"][c] \in 0 .. n
              /\ took["in"][c] \in Nat
              /\ Near(ii["in"][c], oi["in"][c], fn["in"][c])
              /\ Holds(b["in"][c], oi["in"][c], fn["in"][c], took["in"][c])
          BY <1>t, <1>d, <2>2
        <5>2. i = ii["in"][c]
          BY DEF i
        <5>3. QED
          BY <2>2, <2>3, <5>1, <5>2, FillKeeps
      <4>2. QED
        BY <2>4, <3>1, <4>1
    <3>2. CASE ~(d = "in" /\ e = c)
      <4>1. b'[d][e] = b[d][e]
        BY <2>4, <3>2 DEF Dirs
      <4>2. QED
        BY <1>t, <4>1
    <3>3. QED
      BY <3>1, <3>2
  <2>7. PacketInv'
    <3>1. Holds(w, i, f, k)
      BY <2>3 DEF Fills
    <3>2. QED
      BY <2>1, <2>4, <3>1 DEF PacketInv, Holds, At
  <2>8. WorkInv'
    BY <2>1, <2>4 DEF WorkInv, Filled, Holds, At
  <2>9. QED
    BY <1>0, <2>5, <2>6, <2>7, <2>8
<1>4. ASSUME CountIn PROVE ContentInv'
  <2> DEFINE c == ch["in"]
             f == frames["in"]
  <2>1. /\ fn' = [fn EXCEPT !["in"][c] = @ + f]
        /\ ii' = [ii EXCEPT !["in"][c] = Past(@, f)]
        /\ UNCHANGED <<oi, b, took, cpc, cch>>
        /\ put' = [put EXCEPT !["in"][c] = @ + f]
        /\ pc["in"] = "count"
    BY <1>4 DEF CountIn, clientVars
  <2>2. f \in 0 .. n /\ fn["in"][c] + f <= n
    BY <1>0, <1>d, <1>t, <2>1 DEF GaugeInv, RoomInv, TypeOK, TypeThreads
  <2>3. StepInv'
    BY <1>0, <1>d, <2>1 DEF StepInv, TypeOK, TypeRings, Dirs
  <2>4. KeptInv'
    <3> SUFFICES ASSUME NEW d \in Dirs, NEW e \in Chs
                 PROVE  Holds(b[d][e], oi[d][e], fn'[d][e], took[d][e])
      BY <2>1 DEF KeptInv, Holds, At
    <3>1. CASE d = "in" /\ e = c
      <4>1. fn'[d][e] = fn["in"][c] + f
        BY <1>0, <1>d, <2>1, <3>1 DEF TypeOK, TypeRings
      <4>2. Holds(b["in"][c], ii["in"][c], f, took["in"][c] + fn["in"][c])
        BY <1>d, <1>t, <2>1 DEF PacketInv
      <4> HIDE DEF c, f
      <4>3. c \in Chs
        BY <1>d DEF c
      <4>4. Holds(b["in"][c], oi["in"][c], fn["in"][c] + f, took["in"][c])
        BY <1>t, <1>d, <2>2, <4>2, <4>3, HoldsJoin
      <4>5. QED
        BY <3>1, <4>1, <4>4
    <3>2. CASE ~(d = "in" /\ e = c)
      <4>1. fn'[d][e] = fn[d][e]
        BY <1>0, <1>d, <2>1, <3>2 DEF TypeOK, TypeRings
      <4>2. QED
        BY <1>t, <4>1
    <3>3. QED
      BY <3>1, <3>2
  <2>5. PacketInv'
    BY <1>0, <1>4, <1>d DEF CountIn, NextCh, PacketInv, TypeOK, TypeThreads
  <2>6. WorkInv'
    <3>1. ii'["out"] = ii["out"] /\ put'["out"] = put["out"]
      BY <1>0, <2>1, <1>d DEF TypeOK, TypeRings, TypeCounts
    <3>2. QED
      BY <2>1, <3>1 DEF WorkInv, Filled, Holds, At
  <2>7. QED
    BY <1>0, <2>3, <2>4, <2>5, <2>6
<1>5. ASSUME LoadOut PROVE ContentInv'
  <2>1. UNCHANGED ringVars /\ UNCHANGED <<put, took, cpc, cch>>
    BY <1>5 DEF LoadOut, clientVars
  <2>2. pc'["in"] = pc["in"] /\ ch'["in"] = ch["in"] /\ frames'["in"] = frames["in"]
    BY <1>0, <1>5, <1>d DEF LoadOut, NextCh, TypeOK, TypeThreads, Dirs
  <2>3. QED
    BY <1>0, <1>u, <1>w, <1>p, <2>1, <2>2
<1>6. ASSUME CopyOut PROVE ContentInv'
  <2>1. UNCHANGED ringVars /\ UNCHANGED <<put, took, cpc, cch>>
    BY <1>6 DEF CopyOut, clientVars
  <2>2. pc'["in"] = pc["in"] /\ ch'["in"] = ch["in"] /\ frames'["in"] = frames["in"]
    BY <1>0, <1>6, <1>d DEF CopyOut, TypeOK, TypeThreads, Dirs
  <2>3. QED
    BY <1>0, <1>u, <1>w, <1>p, <2>1, <2>2
<1>7. ASSUME CountOut PROVE ContentInv'
  <2> DEFINE c == ch["out"]
             f == frames["out"]
             o == oi["out"][c]
  <2>1. /\ fn' = [fn EXCEPT !["out"][c] = @ - f]
        /\ oi' = [oi EXCEPT !["out"][c] = Past(@, f)]
        /\ took' = [took EXCEPT !["out"][c] = @ + f]
        /\ UNCHANGED <<ii, b, put, cpc, cch, frames>>
        /\ pc["out"] = "count"
        /\ pc'["in"] = pc["in"] /\ ch'["in"] = ch["in"]
    BY <1>0, <1>7, <1>d DEF CountOut, NextCh, clientVars, TypeOK, TypeThreads, Dirs
  <2>2. f \in 0 .. fn["out"][c] /\ fn["out"][c] \in 0 .. n /\ o \in 0 .. n
    BY <1>0, <1>d, <1>t, <2>1 DEF GaugeInv, RoomInv, TypeOK, TypeThreads
  <2>3. StepInv'
    BY <1>0, <1>d, <2>1 DEF StepInv, TypeOK, TypeRings, Dirs
  <2>4. KeptInv'
    <3> SUFFICES ASSUME NEW d \in Dirs, NEW e \in Chs
                 PROVE  Holds(b[d][e], oi'[d][e], fn'[d][e], took'[d][e])
      BY <2>1, ZenonT(60) DEF KeptInv, Holds, At
    <3>1. CASE d = "out" /\ e = c
      <4>1. /\ fn'[d][e] = fn["out"][c] - f
            /\ oi'[d][e] = Past(o, f)
            /\ took'[d][e] = took["out"][c] + f
        BY <1>0, <1>d, <2>1, <3>1 DEF TypeOK, TypeRings, TypeCounts
      <4>2. Past(o, f) \in 0 .. n /\ Past(o, f) \in {o + f, o + f - n}
        <5>1. f \in 0 .. n /\ o \in 0 .. n
          BY <2>2, SizePositive
        <5> HIDE DEF f, o
        <5>2. QED
          BY <5>1, PastIs
      <4>3. c \in Chs
        BY <1>d
      <4>4. Holds(b["out"][c], o, fn["out"][c], took["out"][c]) /\ took["out"][c] \in Nat
        BY <1>t, <1>d, <4>3
      <4> HIDE DEF c, f, o
      <4>5. PICK p \in 0 .. n : p = Past(o, f) /\ p \in {o + f, o + f - n, o + f - (n + n)}
        BY <4>2
      <4>6. Holds(b["out"][c], p, fn["out"][c] - f, took["out"][c] + f)
        BY <2>2, <4>4, <4>5, HoldsDrop
      <4>7. QED
        BY <3>1, <4>1, <4>5, <4>6
    <3>2. CASE ~(d = "out" /\ e = c)
      <4>1. fn'[d][e] = fn[d][e] /\ oi'[d][e] = oi[d][e] /\ took'[d][e] = took[d][e]
        BY <1>0, <1>d, <2>1, <3>2 DEF TypeOK, TypeRings, TypeCounts
      <4>2. QED
        BY <1>t, <4>1
    <3>3. QED
      BY <3>1, <3>2
  <2>5. PacketInv'
    BY <2>1 DEF PacketInv, Holds, At
  <2>6. WorkInv'
    BY <2>1 DEF WorkInv, Filled, Holds, At
  <2>7. QED
    BY <1>0, <2>3, <2>4, <2>5, <2>6
<1>8. ASSUME IsDeviceReady PROVE ContentInv'
  <2>1. UNCHANGED ringVars /\ UNCHANGED <<put, took>>
        /\ UNCHANGED <<pc, ch, frames>> /\ cpc' = "work"
    BY <1>8 DEF IsDeviceReady, driverVars
  <2>2. WorkInv'
    BY <2>1 DEF WorkInv, Filled
  <2>3. QED
    BY <1>0, <1>u, <1>p, <2>1, <2>2
<1>9. ASSUME Work PROVE ContentInv'
  <2>1. /\ b'["in"] = b["in"]
        /\ \A c \in Chs : b'["out"][c] = Written(b["out"][c], ii["out"][c], Dsp, put["out"][c])
        /\ UNCHANGED <<ii, oi, fn, put, took, pc, ch, frames>>
        /\ cpc = "work" /\ cpc' = "advanceIn"
    BY <1>0, <1>9, <1>d DEF Work, driverVars, TypeOK, TypeRings, Dirs
  <2>2. ASSUME NEW c \in Chs
        PROVE  /\ ii["out"][c] + Dsp <= n /\ Dsp \in 0 .. n
               /\ fn["out"][c] + Dsp <= n
               /\ Fills(b["out"][c], b'["out"][c], ii["out"][c], Dsp, put["out"][c])
    <3>1. ii["out"][c] + Dsp <= n
      BY <1>t, <1>d, AdvancedWhole DEF StepInv
    <3>2. Dsp \in 0 .. n
      BY <1>t, <1>d, <3>1
    <3>3. fn["out"][c] + Dsp <= n
      <4>1. Dsp <= n - fn["out"][c] /\ fn["out"][c] \in 0 .. n
        BY <1>0, <1>t, <1>d, <2>1 DEF GaugeInv, RoomInv, Room
      <4>2. QED
        BY <4>1
    <3>4. /\ b["out"][c] \in [Cells -> Nat] /\ ii["out"][c] \in 0 .. n
          /\ put["out"][c] \in Nat
      BY <1>t, <1>d
    <3>5. Fills(b["out"][c], Written(b["out"][c], ii["out"][c], Dsp, put["out"][c]),
                ii["out"][c], Dsp, put["out"][c])
      BY <3>1, <3>2, <3>4, FillOne
    <3>6. QED
      BY <2>1, <3>1, <3>2, <3>3, <3>5
  <2>3. StepInv'
    BY <2>1 DEF StepInv
  <2>4. KeptInv'
    <3> SUFFICES ASSUME NEW d \in Dirs, NEW e \in Chs
                 PROVE  Holds(b'[d][e], oi[d][e], fn[d][e], took[d][e])
      BY <2>1 DEF KeptInv, Holds, At
    <3>1. CASE d = "in"
      BY <1>t, <2>1, <3>1
    <3>2. CASE d = "out"
      <4>1. Holds(b'["out"][e], oi["out"][e], fn["out"][e], took["out"][e])
        BY <1>t, <1>d, <2>2, FillKeeps
      <4>2. QED
        BY <3>2, <4>1
    <3>3. QED
      BY <3>1, <3>2 DEF Dirs
  <2>5. PacketInv'
    BY <2>1 DEF PacketInv, Holds, At
  <2>6. WorkInv'
    BY <2>1, <2>2 DEF WorkInv, Filled, Fills, Holds, At
  <2>7. QED
    BY <1>0, <2>3, <2>4, <2>5, <2>6
<1>10. ASSUME AdvanceIn PROVE ContentInv'
  <2> DEFINE c == cch
             o == oi["in"][c]
  <2>1. /\ fn' = [fn EXCEPT !["in"][c] = @ - Dsp]
        /\ oi' = [oi EXCEPT !["in"][c] = Advanced(@)]
        /\ took' = [took EXCEPT !["in"][c] = @ + Dsp]
        /\ UNCHANGED <<ii, b, put, pc, ch, frames>>
        /\ cpc = "advanceIn"
    BY <1>10 DEF AdvanceIn, driverVars
  <2>2. Dsp \in 0 .. fn["in"][c] /\ fn["in"][c] \in 0 .. n /\ o \in 0 .. n
    <3>1. Input(c)
      BY <1>d, <2>1 DEF Input, Chs
    <3>2. Dsp <= fn["in"][c]
      BY <1>0, <1>d, <3>1 DEF GaugeInv, RoomInv
    <3>3. QED
      BY <1>d, <1>t, <3>2
  <2>3. /\ Advanced(o) \in 0 .. n /\ Advanced(o) < n /\ Advanced(o) % Dsp = 0
        /\ Advanced(o) \in {o + Dsp, o + Dsp - n}
    BY <1>d, <2>2, AdvancedWhole DEF StepInv
  <2>4. /\ fn'["in"][c] = fn["in"][c] - Dsp
        /\ oi'["in"][c] = Advanced(o)
        /\ took'["in"][c] = took["in"][c] + Dsp
        /\ \A d \in Dirs, e \in Chs : ~(d = "in" /\ e = c) =>
             /\ fn'[d][e] = fn[d][e] /\ oi'[d][e] = oi[d][e]
             /\ took'[d][e] = took[d][e]
    BY <1>0, <1>d, <2>1 DEF TypeOK, TypeRings, TypeCounts
  <2>5. StepInv'
    <3> SUFFICES ASSUME NEW e \in Chs
                 PROVE  oi'["in"][e] < n /\ oi'["in"][e] % Dsp = 0
      BY <2>1 DEF StepInv
    <3>1. CASE e = c
      BY <2>3, <2>4, <3>1
    <3>2. CASE e # c
      BY <1>d, <2>4, <3>2 DEF StepInv
    <3>3. QED
      BY <3>1, <3>2
  <2>6. KeptInv'
    <3> SUFFICES ASSUME NEW d \in Dirs, NEW e \in Chs
                 PROVE  Holds(b[d][e], oi'[d][e], fn'[d][e], took'[d][e])
      BY <2>1 DEF KeptInv, Holds, At
    <3>1. CASE d = "in" /\ e = c
      <4>1. Holds(b["in"][c], o, fn["in"][c], took["in"][c]) /\ took["in"][c] \in Nat
        BY <1>t, <1>d
      <4> HIDE DEF c, o
      <4>2. PICK p \in 0 .. n : p = Advanced(o) /\ p \in {o + Dsp, o + Dsp - n, o + Dsp - (n + n)}
        BY <2>3
      <4>3. Holds(b["in"][c], p, fn["in"][c] - Dsp, took["in"][c] + Dsp)
        BY <2>2, <4>1, <4>2, HoldsDrop
      <4>4. QED
        BY <2>4, <3>1, <4>2, <4>3
    <3>2. CASE ~(d = "in" /\ e = c)
      BY <1>t, <2>4, <3>2
    <3>3. QED
      BY <3>1, <3>2
  <2>7. PacketInv'
    BY <2>1 DEF PacketInv, Holds, At
  <2>8. WorkInv'
    <3>1. \A e \in Chs : Filled(e)
      BY <2>1 DEF Filled
    <3>2. QED
      BY <2>1, <3>1 DEF WorkInv, Holds, At
  <2>9. QED
    BY <1>0, <2>5, <2>6, <2>7, <2>8
<1>11. ASSUME AdvanceOut PROVE ContentInv'
  <2> DEFINE c == cch
             i == ii["out"][c]
  <2>1. /\ fn' = [fn EXCEPT !["out"][c] = @ + Dsp]
        /\ ii' = [ii EXCEPT !["out"][c] = Advanced(@)]
        /\ put' = [put EXCEPT !["out"][c] = @ + Dsp]
        /\ UNCHANGED <<oi, b, took, pc, ch, frames>>
        /\ cpc = "advanceOut"
    BY <1>11 DEF AdvanceOut, driverVars
  <2>2. Dsp \in 0 .. n /\ fn["out"][c] + Dsp <= n /\ fn["out"][c] \in 0 .. n
        /\ i \in 0 .. n
    <3>1. Room(c)
      BY <1>d, <2>1 DEF Room, Chs
    <3>2. Dsp <= n - fn["out"][c]
      BY <1>0, <1>d, <3>1 DEF GaugeInv, RoomInv
    <3>3. QED
      BY <1>d, <1>t, <3>2
  <2>3. Advanced(i) < n /\ Advanced(i) % Dsp = 0
    BY <1>d, <2>2, AdvancedWhole DEF StepInv
  <2>4. /\ fn'["out"][c] = fn["out"][c] + Dsp
        /\ ii'["out"][c] = Advanced(i)
        /\ \A d \in Dirs, e \in Chs : ~(d = "out" /\ e = c) =>
             /\ fn'[d][e] = fn[d][e] /\ ii'[d][e] = ii[d][e]
             /\ put'[d][e] = put[d][e]
    BY <1>0, <1>d, <2>1 DEF TypeOK, TypeRings, TypeCounts
  <2>5. StepInv'
    <3> SUFFICES ASSUME NEW e \in Chs
                 PROVE  ii'["out"][e] < n /\ ii'["out"][e] % Dsp = 0
      BY <2>1 DEF StepInv
    <3>1. CASE e = c
      BY <2>3, <2>4, <3>1
    <3>2. CASE e # c
      BY <1>d, <2>4, <3>2 DEF StepInv
    <3>3. QED
      BY <3>1, <3>2
  <2>6. KeptInv'
    <3> SUFFICES ASSUME NEW d \in Dirs, NEW e \in Chs
                 PROVE  Holds(b[d][e], oi[d][e], fn'[d][e], took[d][e])
      BY <2>1 DEF KeptInv, Holds, At
    <3>1. CASE d = "out" /\ e = c
      <4>1. Holds(b["out"][c], i, Dsp, put["out"][c])
        <5>1. Filled(c)
          BY <1>d, <2>1 DEF Filled, Chs
        <5>2. QED
          BY <1>d, <5>1 DEF WorkInv
      <4>2. /\ Holds(b["out"][c], oi["out"][c], fn["out"][c], took["out"][c])
            /\ oi["out"][c] \in 0 .. n /\ took["out"][c] \in Nat
            /\ put["out"][c] = took["out"][c] + fn["out"][c]
            /\ Near(i, oi["out"][c], fn["out"][c])
        BY <1>t, <1>d
      <4> HIDE DEF c, i
      <4>3. Holds(b["out"][c], oi["out"][c], fn["out"][c] + Dsp, took["out"][c])
        BY <2>2, <4>1, <4>2, HoldsJoin
      <4>4. QED
        BY <2>4, <3>1, <4>3
    <3>2. CASE ~(d = "out" /\ e = c)
      BY <1>t, <2>4, <3>2
    <3>3. QED
      BY <3>1, <3>2
  <2>7. PacketInv'
    <3>1. ii'["in"][ch["in"]] = ii["in"][ch["in"]] /\ put'["in"][ch["in"]] = put["in"][ch["in"]]
      BY <1>d, <2>4
    <3>2. QED
      BY <2>1, <3>1 DEF PacketInv, Holds, At
  <2>8. WorkInv'
    <3> SUFFICES ASSUME NEW e \in Chs, Filled(e)'
                 PROVE  Holds(b["out"][e], ii'["out"][e], Dsp, put'["out"][e])
      BY <2>1 DEF WorkInv, Holds, At
    <3>1. Filled(e) /\ e # c
      <4>1. cpc' = "advanceOut" /\ cch' = cch + 1 /\ e >= cch + 1
        BY <1>11 DEF AdvanceOut, NextClientCh, Filled
      <4>2. QED
        BY <1>d, <2>1, <4>1 DEF Filled, Chs
    <3>2. ii'["out"][e] = ii["out"][e] /\ put'["out"][e] = put["out"][e]
      BY <1>d, <2>4, <3>1
    <3>3. QED
      BY <3>1, <3>2 DEF WorkInv
  <2>9. QED
    BY <1>0, <2>5, <2>6, <2>7, <2>8
<1>12. CASE UNCHANGED vars
  <2>1. UNCHANGED ringVars /\ UNCHANGED <<put, took, cpc, cch, pc, ch, frames>>
    BY <1>12 DEF vars, driverVars, clientVars
  <2>2. QED
    BY <1>0, <1>u, <1>w, <1>p, <2>1
<1>13. QED
  BY <1>1, <1>2, <1>3, <1>4, <1>5, <1>6, <1>7, <1>8, <1>9, <1>10, <1>11, <1>12
  DEF Next, Client

LEMMA ContentWindows == ASSUME Whole, ContentInv PROVE ClientWindow /\ DriverWindow
<1> USE SizePositive, AudioBufAssumption DEF ContentInv
<1>1. ASSUME NEW d \in Dirs, NEW c \in Chs
      PROVE  /\ ii[d][c] \in 0 .. n /\ oi[d][c] \in 0 .. n /\ fn[d][c] \in 0 .. n
             /\ took[d][c] \in Nat
             /\ Holds(b[d][c], oi[d][c], fn[d][c], took[d][c])
  BY DEF GaugeInv, TypeOK, TypeRings, TypeCounts, KeptInv
<1>2. ASSUME cpc = "work", NEW c \in Chs
      PROVE  /\ oi["in"][c] + Dsp <= n
             /\ Holds(b["in"][c], oi["in"][c], Dsp, took["in"][c])
             /\ ii["out"][c] + Dsp <= n
  <2>1. "in" \in Dirs /\ "out" \in Dirs
    BY DEF Dirs
  <2>2. oi["in"][c] + Dsp <= n
    BY <1>1, <2>1, AdvancedWhole DEF StepInv
  <2>3. ii["out"][c] + Dsp <= n
    BY <1>1, <2>1, AdvancedWhole DEF StepInv
  <2>4. Dsp <= fn["in"][c]
    BY <1>2 DEF GaugeInv, RoomInv, Input
  <2>5. Dsp \in 0 .. fn["in"][c]
    BY <1>1, <2>1, <2>4
  <2>6. Holds(b["in"][c], oi["in"][c], Dsp, took["in"][c])
    BY <1>1, <2>1, <2>5, HoldsFewer
  <2>7. QED
    BY <2>2, <2>3, <2>6
<1>3. ASSUME pc["out"] = "copy"
      PROVE  LET c == ch["out"]
             IN  Holds(b["out"][c], oi["out"][c], frames["out"], took["out"][c])
  <2> DEFINE c == ch["out"]
  <2>1. "out" \in Dirs /\ c \in Chs /\ frames["out"] \in Nat
    BY DEF GaugeInv, TypeOK, TypeThreads, Dirs
  <2>2. frames["out"] \in 0 .. fn["out"][c] /\ fn["out"][c] \in 0 .. n
    BY <1>1, <1>3, <2>1 DEF GaugeInv, RoomInv
  <2>3. QED
    BY <1>1, <2>1, <2>2, HoldsFewer
<1>4. QED
  BY <1>2, <1>3 DEF ClientWindow, DriverWindow

------------------------------------------------------------------------------
(* Each ring implements SampleFifo. *)

Run(k, m) == [j \in 1 .. m |-> k + j]

\* Concatenation, as an operator the provers need not expand.
Joined(s, r) == s \o r

LEMMA JoinedFacts ==
  ASSUME NEW s \in Seq(Nat), NEW r \in Seq(Nat)
  PROVE  /\ Joined(s, r) \in Seq(Nat)
         /\ Len(Joined(s, r)) = Len(s) + Len(r)
         /\ \A j \in 1 .. Len(s) + Len(r) :
              Joined(s, r)[j] = IF j <= Len(s) THEN s[j] ELSE r[j - Len(s)]
BY ConcatProperties, Zenon DEF Joined

LEMMA RunFacts ==
  ASSUME NEW k \in Nat, NEW m \in Nat
  PROVE  /\ Run(k, m) \in Seq(Nat) /\ Len(Run(k, m)) = m
         /\ \A j \in 1 .. m : Run(k, m)[j] = k + j
BY DEF Run

LEMMA RunJoin ==
  ASSUME NEW k \in Nat, NEW m \in Nat, NEW f \in Nat,
         NEW q \in Nat, q = k + m, NEW v \in Nat, v = m + f
  PROVE  Run(k, v) = Joined(Run(k, m), Run(q, f))
<1> DEFINE s == Run(k, m)
           r == Run(q, f)
           t == Run(k, v)
<1>1. s \in Seq(Nat) /\ Len(s) = m /\ \A j \in 1 .. m : s[j] = k + j
  BY RunFacts
<1>2. r \in Seq(Nat) /\ Len(r) = f /\ \A j \in 1 .. f : r[j] = q + j
  BY RunFacts
<1>3. t \in Seq(Nat) /\ Len(t) = v /\ \A j \in 1 .. v : t[j] = k + j
  BY RunFacts
<1> HIDE DEF s, r, t
<1> DEFINE w == Joined(s, r)
<1>4. /\ w \in Seq(Nat) /\ Len(w) = v
      /\ \A j \in 1 .. v : w[j] = IF j <= m THEN s[j] ELSE r[j - m]
  <2>1. /\ w \in Seq(Nat) /\ Len(w) = Len(s) + Len(r)
        /\ \A j \in 1 .. Len(s) + Len(r) :
             w[j] = IF j <= Len(s) THEN s[j] ELSE r[j - Len(s)]
    BY <1>1, <1>2, JoinedFacts, Zenon
  <2>2. Len(s) = m /\ Len(r) = f /\ v = Len(s) + Len(r)
    BY <1>1, <1>2
  <2>3. QED
    BY <2>1, <2>2, Zenon
<1> HIDE DEF w
<1>5. ASSUME NEW j \in 1 .. v PROVE t[j] = w[j]
  <2>1. CASE j <= m
    BY <1>1, <1>3, <1>4, <2>1
  <2>2. CASE ~(j <= m)
    <3>1. j - m \in 1 .. f
      BY <2>2
    <3>2. r[j - m] = q + (j - m) /\ q + (j - m) = k + j
      BY <1>2, <3>1
    <3>3. w[j] = r[j - m]
      BY <1>4, <2>2
    <3>4. t[j] = k + j
      BY <1>3
    <3>5. QED
      BY <3>2, <3>3, <3>4
  <2>3. QED
    BY <2>1, <2>2
<1>6. t = w
  BY <1>3, <1>4, <1>5, SeqEqual
<1>7. QED
  BY <1>6 DEF s, r, t, w

LEMMA RunDrop ==
  ASSUME NEW k \in Nat, NEW m \in Nat, NEW f \in 0 .. m
  PROVE  Run(k + f, m - f) = SubSeq(Run(k, m), f + 1, m)
<1> DEFINE s == Run(k, m)
<1>1. s \in Seq(Nat) /\ Len(s) = m /\ \A j \in 1 .. m : s[j] = k + j
  BY RunFacts
<1> HIDE DEF s
<1>2. SubSeq(s, f + 1, m) = [j \in 1 .. (m - f) |-> s[f + j]]
  BY <1>1
<1>3. ASSUME NEW j \in 1 .. (m - f) PROVE s[f + j] = k + f + j
  BY <1>1
<1>4. [j \in 1 .. (m - f) |-> s[f + j]] = [j \in 1 .. (m - f) |-> k + f + j]
  BY <1>3
<1>5. QED
  BY <1>2, <1>4 DEF Run, s

KeptRuns == \A d \in Dirs, c \in Chs : Kept(d, c) = Run(took[d][c], fn[d][c])

LEMMA KeptIs == ContentInv => KeptRuns
<1> SUFFICES ASSUME ContentInv, NEW d \in Dirs, NEW c \in Chs
             PROVE  Kept(d, c) = Run(took[d][c], fn[d][c])
  BY DEF KeptRuns
<1>1. /\ fn[d][c] \in Nat /\ took[d][c] \in Nat
      /\ Holds(b[d][c], oi[d][c], fn[d][c], took[d][c])
  BY SizePositive DEF ContentInv, GaugeInv, TypeOK, TypeRings, TypeCounts, KeptInv
<1>2. ASSUME NEW m \in 1 .. fn[d][c]
      PROVE  b[d][c][At(oi[d][c], m - 1)] = took[d][c] + m
  <2>1. m - 1 \in 0 .. (fn[d][c] - 1)
    BY <1>1
  <2>2. b[d][c][At(oi[d][c], m - 1)] = took[d][c] + 1 + (m - 1)
    BY <1>1, <2>1 DEF Holds
  <2>3. QED
    BY <1>1, <2>2
<1>3. QED
  BY <1>2 DEF Kept, Run

\* What a step does to one ring.
Puts(d, c, f) ==
  /\ fn'[d][c] = fn[d][c] + f /\ put'[d][c] = put[d][c] + f
  /\ took'[d][c] = took[d][c]

Takes(d, c, f) ==
  /\ fn'[d][c] = fn[d][c] - f /\ took'[d][c] = took[d][c] + f
  /\ put'[d][c] = put[d][c]

LEMMA PutImplements ==
  ASSUME ContentInv, ContentInv', NEW d \in Dirs, NEW c \in Chs,
         NEW f \in Nat, Puts(d, c, f)
  PROVE  Fifo(d, c)!Next \/ UNCHANGED Fifo(d, c)!vars
<1>0. KeptRuns /\ KeptRuns'
  <2>1. ContentInv' => KeptRuns'
    BY KeptIs, PTL
  <2>2. QED
    BY <2>1, KeptIs
<1>1. /\ fn[d][c] \in 0 .. n /\ took[d][c] \in Nat /\ put[d][c] \in Nat
      /\ put[d][c] = took[d][c] + fn[d][c] /\ fn'[d][c] \in 0 .. n
  BY DEF ContentInv, GaugeInv, TypeOK, TypeRings, TypeCounts, FullExact
<1>2. Kept(d, c) = Run(took[d][c], fn[d][c])
  BY <1>0 DEF KeptRuns
<1>3. Kept(d, c)' = Run(took[d][c], fn'[d][c])
  BY <1>0 DEF KeptRuns, Puts
<1>4. CASE f = 0
  <2>1. Kept(d, c)' = Kept(d, c) /\ put'[d][c] = put[d][c]
    BY <1>1, <1>2, <1>3, <1>4 DEF Puts
  <2>2. QED
    BY <2>1 DEF Fifo!vars
<1>5. CASE f # 0
  <2>1. f \in 1 .. n /\ Len(Kept(d, c)) + f <= n
    <3>1. Len(Kept(d, c)) = fn[d][c]
      <4>1. fn[d][c] \in Nat
        BY <1>1, SizePositive
      <4>2. Len(Run(took[d][c], fn[d][c])) = fn[d][c]
        BY <1>1, <4>1, RunFacts
      <4>3. QED
        BY <1>2, <4>2
    <3>2. f \in 1 .. n /\ fn[d][c] + f <= n
      BY <1>1, <1>5, SizePositive DEF Puts
    <3>3. QED
      BY <3>1, <3>2
  <2>2. Kept(d, c)' = Kept(d, c) \o Run(put[d][c], f)
    <3>1. fn[d][c] \in Nat
      BY <1>1, SizePositive
    <3>2. fn'[d][c] \in Nat /\ fn'[d][c] = fn[d][c] + f
      BY <1>1, SizePositive DEF Puts
    <3>3. Run(took[d][c], fn'[d][c])
            = Joined(Run(took[d][c], fn[d][c]), Run(put[d][c], f))
      <4>1. PICK k \in Nat, m \in Nat, q \in Nat, v \in Nat :
              k = took[d][c] /\ m = fn[d][c] /\ q = put[d][c] /\ v = fn'[d][c]
        BY <1>1, <3>1, <3>2
      <4>2. q = k + m /\ v = m + f
        BY <1>1, <3>2, <4>1
      <4>3. Run(k, v) = Joined(Run(k, m), Run(q, f))
        BY <4>2, RunJoin
      <4>4. QED
        BY <4>1, <4>3
    <3>4. QED
      BY <1>2, <1>3, <3>3 DEF Joined
  <2>3. Fifo(d, c)!Put
    BY <2>1, <2>2 DEF Puts, Run, Fifo!Put
  <2>4. QED
    BY <2>3 DEF Fifo!Next
<1>6. QED
  BY <1>4, <1>5

LEMMA TakeImplements ==
  ASSUME ContentInv, ContentInv', NEW d \in Dirs, NEW c \in Chs,
         NEW f \in Nat, Takes(d, c, f)
  PROVE  Fifo(d, c)!Next \/ UNCHANGED Fifo(d, c)!vars
<1>0. KeptRuns /\ KeptRuns'
  <2>1. ContentInv' => KeptRuns'
    BY KeptIs, PTL
  <2>2. QED
    BY <2>1, KeptIs
<1>1. /\ fn[d][c] \in 0 .. n /\ took[d][c] \in Nat
      /\ fn'[d][c] \in 0 .. n
  BY DEF ContentInv, GaugeInv, TypeOK, TypeRings, TypeCounts
<1>2. Kept(d, c) = Run(took[d][c], fn[d][c])
  BY <1>0 DEF KeptRuns
<1>3. Kept(d, c)' = Run(took[d][c] + f, fn[d][c] - f)
  <2>1. Kept(d, c)' = Run(took'[d][c], fn'[d][c])
    BY <1>0 DEF KeptRuns
  <2>2. QED
    BY <2>1 DEF Takes
<1>4. CASE f = 0
  <2>1. Kept(d, c)' = Kept(d, c) /\ put'[d][c] = put[d][c]
    BY <1>1, <1>2, <1>3, <1>4 DEF Takes
  <2>2. QED
    BY <2>1 DEF Fifo!vars
<1>5. CASE f # 0
  <2>1. Len(Kept(d, c)) = fn[d][c]
    <3>1. fn[d][c] \in Nat
      BY <1>1, SizePositive
    <3>2. Len(Run(took[d][c], fn[d][c])) = fn[d][c]
      BY <1>1, <3>1, RunFacts
    <3>3. QED
      BY <1>2, <3>2
  <2>2. f \in 1 .. fn[d][c]
    BY <1>1, <1>5 DEF Takes
  <2>3. Kept(d, c)' = SubSeq(Kept(d, c), f + 1, Len(Kept(d, c)))
    <3>1. fn[d][c] \in Nat /\ f \in 0 .. fn[d][c]
      BY <1>1, <2>2, SizePositive
    <3>2. Run(took[d][c] + f, fn[d][c] - f)
            = SubSeq(Run(took[d][c], fn[d][c]), f + 1, fn[d][c])
      BY <1>1, <3>1, RunDrop
    <3>3. QED
      BY <1>2, <1>3, <2>1, <3>2
  <2>4. Fifo(d, c)!Take
    BY <2>1, <2>2, <2>3 DEF Takes, Fifo!Take
  <2>5. QED
    BY <2>4 DEF Fifo!Next
<1>6. QED
  BY <1>4, <1>5

RingSteps ==
  \A d \in Dirs, c \in Chs : Fifo(d, c)!Next \/ UNCHANGED Fifo(d, c)!vars

LEMMA RingsInit ==
  ASSUME Whole, Init PROVE \A d \in Dirs, c \in Chs : Fifo(d, c)!Init
<1> SUFFICES ASSUME NEW d \in Dirs, NEW c \in Chs PROVE Fifo(d, c)!Init
  OBVIOUS
<1>1. KeptRuns
  BY ContentInit, KeptIs
<1>2. took[d][c] = 0 /\ fn[d][c] = Start(d) /\ put[d][c] = Start(d)
  BY DEF Init
<1>3. Start(d) \in Nat
  BY SizePositive DEF Start
<1>4. Run(0, Start(d)) = [j \in 1 .. Start(d) |-> j]
  BY <1>3 DEF Run
<1>5. QED
  BY <1>1, <1>2, <1>4 DEF KeptRuns, Fifo!Init

\* One ring gets or loses samples, no other is touched.
LEMMA OneRing ==
  ASSUME ContentInv, ContentInv', NEW D \in Dirs, NEW C \in Chs, NEW f \in Nat,
         Puts(D, C, f) \/ Takes(D, C, f),
         \A d \in Dirs, c \in Chs : ~(d = D /\ c = C) =>
            fn'[d][c] = fn[d][c] /\ put'[d][c] = put[d][c] /\ took'[d][c] = took[d][c]
  PROVE  RingSteps
<1> SUFFICES ASSUME NEW d \in Dirs, NEW c \in Chs
             PROVE  Fifo(d, c)!Next \/ UNCHANGED Fifo(d, c)!vars
  BY DEF RingSteps
<1>1. CASE d = D /\ c = C
  <2>1. CASE Puts(d, c, f)
    BY <2>1, PutImplements
  <2>2. CASE Takes(d, c, f)
    BY <2>2, TakeImplements
  <2>3. QED
    BY <1>1, <2>1, <2>2
<1>2. CASE ~(d = D /\ c = C)
  <2>1. fn[d][c] \in Nat /\ put[d][c] \in Nat
    BY SizePositive DEF ContentInv, GaugeInv, TypeOK, TypeRings, TypeCounts
  <2>2. Puts(d, c, 0)
    BY <1>2, <2>1 DEF Puts
  <2>3. QED
    BY <2>2, PutImplements
<1>3. QED
  BY <1>1, <1>2

LEMMA NoRing ==
  ASSUME ContentInv, ContentInv', UNCHANGED <<fn, put, took>>
  PROVE  RingSteps
<1>1. PICK D \in Dirs, C \in Chs : TRUE
  BY AudioBufAssumption DEF Dirs, Chs
<1>2. fn[D][C] \in Nat /\ put[D][C] \in Nat
  BY SizePositive DEF ContentInv, GaugeInv, TypeOK, TypeRings, TypeCounts
<1>3. Puts(D, C, 0)
  BY <1>2 DEF Puts
<1>4. QED
  BY <1>3, OneRing

LEMMA RingsStep == ASSUME Whole, ContentInv, [Next]_vars PROVE [RingSteps]_vars
<1>1. ContentInv'
  BY ContentStep
<1>2. TypeOK
  BY DEF ContentInv, GaugeInv
<1>3. "in" \in Dirs /\ "out" \in Dirs /\ ch["in"] \in Chs /\ ch["out"] \in Chs
      /\ cch \in Chs /\ frames["in"] \in Nat /\ frames["out"] \in Nat /\ Dsp \in Nat
  BY <1>2, AudioBufAssumption DEF Dirs, TypeOK, TypeThreads
<1>4. CASE UNCHANGED vars
  BY <1>4
<1>5. ASSUME NEW d \in Dirs, Update(d) PROVE RingSteps
  BY <1>1, <1>5, NoRing DEF Update, ringVars
<1>6. ASSUME LoadIn \/ CopyIn \/ LoadOut \/ CopyOut PROVE RingSteps
  BY <1>1, <1>6, NoRing DEF LoadIn, CopyIn, LoadOut, CopyOut, ringVars
<1>7. ASSUME IsDeviceReady \/ Work PROVE RingSteps
  BY <1>1, <1>7, NoRing DEF IsDeviceReady, Work, ringVars
<1>8. ASSUME CountIn PROVE RingSteps
  <2>1. /\ Puts("in", ch["in"], frames["in"])
        /\ \A d \in Dirs, c \in Chs : ~(d = "in" /\ c = ch["in"]) =>
             fn'[d][c] = fn[d][c] /\ put'[d][c] = put[d][c] /\ took'[d][c] = took[d][c]
    BY <1>2, <1>3, <1>8 DEF CountIn, Puts, TypeOK, TypeRings, TypeCounts
  <2>2. QED
    BY <1>1, <1>3, <2>1, OneRing
<1>9. ASSUME CountOut PROVE RingSteps
  <2>1. /\ Takes("out", ch["out"], frames["out"])
        /\ \A d \in Dirs, c \in Chs : ~(d = "out" /\ c = ch["out"]) =>
             fn'[d][c] = fn[d][c] /\ put'[d][c] = put[d][c] /\ took'[d][c] = took[d][c]
    BY <1>2, <1>3, <1>9 DEF CountOut, Takes, TypeOK, TypeRings, TypeCounts
  <2>2. QED
    BY <1>1, <1>3, <2>1, OneRing
<1>10. ASSUME AdvanceIn PROVE RingSteps
  <2>1. /\ Takes("in", cch, Dsp)
        /\ \A d \in Dirs, c \in Chs : ~(d = "in" /\ c = cch) =>
             fn'[d][c] = fn[d][c] /\ put'[d][c] = put[d][c] /\ took'[d][c] = took[d][c]
    BY <1>2, <1>3, <1>10 DEF AdvanceIn, Takes, TypeOK, TypeRings, TypeCounts
  <2>2. QED
    BY <1>1, <1>3, <2>1, OneRing
<1>11. ASSUME AdvanceOut PROVE RingSteps
  <2>1. /\ Puts("out", cch, Dsp)
        /\ \A d \in Dirs, c \in Chs : ~(d = "out" /\ c = cch) =>
             fn'[d][c] = fn[d][c] /\ put'[d][c] = put[d][c] /\ took'[d][c] = took[d][c]
    BY <1>2, <1>3, <1>11 DEF AdvanceOut, Puts, TypeOK, TypeRings, TypeCounts
  <2>2. QED
    BY <1>1, <1>3, <2>1, OneRing
<1>12. QED
  BY <1>4, <1>5, <1>6, <1>7, <1>8, <1>9, <1>10, <1>11 DEF Next, Client

------------------------------------------------------------------------------
(***************************************************************************)
(* The channels of a direction stay together: each of them is where the    *)
(* others are, once what the channels in front of ch (of cch) have already *)
(* got of this packet (of this advance) is taken off.  A fault breaks it,  *)
(* because the channels are tested one at a time.                          *)
(***************************************************************************)
DriverAhead(d) ==
  [c \in Chs |-> IF pc[d] # "idle" /\ c < ch[d] THEN frames[d] ELSE 0]

ClientAhead(phase) == [c \in Chs |-> IF cpc = phase /\ c < cch THEN Dsp ELSE 0]

Even(at, ahead) == \A c, e \in Chs : at[c] - ahead[c] = at[e] - ahead[e]

EvenIn  == faultCnt["in"] = 0 => Even(put["in"], DriverAhead("in"))
EvenOut == faultCnt["out"] = 0 => Even(took["out"], DriverAhead("out"))
EvenClient ==
  /\ Even(took["in"], ClientAhead("advanceIn"))
  /\ Even(put["out"], ClientAhead("advanceOut"))

EvenInv == EvenIn /\ EvenOut /\ EvenClient

LEMMA AheadFacts ==
  ASSUME TypeOK
  PROVE  /\ \A d \in Dirs, c \in Chs :
              /\ put[d][c] \in Nat /\ took[d][c] \in Nat
              /\ DriverAhead(d)[c] \in Nat
         /\ \A c \in Chs : ClientAhead("advanceIn")[c] \in Nat
                           /\ ClientAhead("advanceOut")[c] \in Nat
BY AudioBufAssumption
   DEF TypeOK, TypeCounts, TypeThreads, DriverAhead, ClientAhead

\* What moves all channels, less what they are ahead, by the same distance
\* keeps them together.
LEMMA EvenShift ==
  ASSUME NEW at, NEW ahead, NEW at2, NEW ahead2, NEW k \in Int,
         Even(at, ahead),
         \A c \in Chs : at[c] - ahead[c] \in Int,
         \A c \in Chs : at2[c] - ahead2[c] = (at[c] - ahead[c]) + k
  PROVE  Even(at2, ahead2)
<1> SUFFICES ASSUME NEW c \in Chs, NEW e \in Chs
             PROVE  at2[c] - ahead2[c] = at2[e] - ahead2[e]
  BY DEF Even
<1>1. at[c] - ahead[c] = at[e] - ahead[e]
  BY DEF Even
<1>2. QED
  BY <1>1

\* One more channel has got m: it is ahead now, or it was the last one and
\* all of them have.
LEMMA EvenOne ==
  ASSUME NEW at, NEW ahead, NEW at2, NEW ahead2, NEW m \in Nat, NEW x \in Chs,
         Even(at, ahead),
         \A c \in Chs : at[c] \in Nat /\ ahead[c] = (IF c < x THEN m ELSE 0),
         \A c \in Chs : at2[c] = IF c = x THEN at[c] + m ELSE at[c],
         \A c \in Chs : ahead2[c] = IF x < ChN /\ c < x + 1 THEN m ELSE 0
  PROVE  Even(at2, ahead2)
<1> USE AudioBufAssumption DEF Chs
<1>1. \A c \in Chs : at[c] - ahead[c] \in Int
  OBVIOUS
<1>2. CASE x < ChN
  <2>1. \A c \in Chs : at2[c] - ahead2[c] = (at[c] - ahead[c]) + 0
    BY <1>2
  <2>2. QED
    BY <1>1, <2>1, EvenShift
<1>3. CASE x = ChN
  <2>1. \A c \in Chs : at2[c] - ahead2[c] = (at[c] - ahead[c]) + m
    BY <1>3
  <2>2. QED
    BY <1>1, <2>1, EvenShift
<1>4. QED
  BY <1>2, <1>3

LEMMA EvenInit == Init => EvenInv
<1> SUFFICES ASSUME Init PROVE EvenInv
  OBVIOUS
<1>1. Even(put["in"], DriverAhead("in")) /\ Even(took["out"], DriverAhead("out"))
  BY DEF Init, Even, DriverAhead, Dirs, Start
<1>2. EvenClient
  BY SizePositive DEF Init, EvenClient, Even, ClientAhead, Dirs, Start
<1>3. QED
  BY <1>1, <1>2 DEF EvenInv, EvenIn, EvenOut

LEMMA EvenStep == TypeOK /\ TypeOK' /\ EvenInv /\ [Next]_vars => EvenInv'
<1> SUFFICES ASSUME TypeOK, TypeOK', EvenInv, [Next]_vars PROVE EvenInv'
  OBVIOUS
<1> USE DEF EvenInv
<1>0. /\ "in" \in Dirs /\ "out" \in Dirs /\ "in" # "out"
      /\ ch["in"] \in Chs /\ ch["out"] \in Chs /\ cch \in Chs
      /\ frames["in"] \in Nat /\ frames["out"] \in Nat /\ Dsp \in Nat
      /\ faultCnt["in"] \in Nat /\ faultCnt["out"] \in Nat
      /\ \A d \in Dirs, c \in Chs : put[d][c] \in Nat /\ took[d][c] \in Nat
  BY ChFacts, AudioBufAssumption DEF TypeOK, TypeThreads, TypeCounts, Dirs
<1>1. ASSUME NEW d \in Dirs, Update(d) PROVE EvenInv'
  <2>1. EvenClient'
    BY <1>1 DEF Update, EvenClient, Even, ClientAhead, clientVars
  <2>2. \A e \in Dirs : DriverAhead(e)' = DriverAhead(e)
    <3>1. \A e \in Dirs \ {d} : DriverAhead(e)' = DriverAhead(e)
      BY <1>1 DEF Update, DriverAhead, TypeOK, TypeThreads
    <3>2. DriverAhead(d)' = DriverAhead(d)
      <4>1. ch'[d] = 1 /\ pc[d] = "idle"
        BY <1>1 DEF Update, TypeOK, TypeThreads
      <4>2. \A c \in Chs : ~(c < 1)
        BY DEF Chs
      <4>3. QED
        BY <4>1, <4>2 DEF DriverAhead
    <3>3. QED
      BY <3>1, <3>2
  <2>3. UNCHANGED <<put, took, faultCnt>>
    BY <1>1 DEF Update
  <2>4. QED
    BY <1>0, <2>1, <2>2, <2>3 DEF EvenIn, EvenOut
<1>2. ASSUME LoadIn PROVE EvenInv'
  <2>1. EvenClient' /\ EvenOut'
    BY <1>2 DEF LoadIn, Fault, NextCh, EvenClient, EvenOut, Even, ClientAhead,
                DriverAhead, clientVars, TypeOK, TypeThreads, TypeCounts, Dirs
  <2>2. EvenIn'
    <3>1. CASE Overflows(fn["in"][ch["in"]], frames["in"])
      <4>1. faultCnt'["in"] = faultCnt["in"] + 1
        BY <1>2, <3>1, <1>0 DEF LoadIn, Fault, TypeOK, TypeCounts
      <4>2. QED
        BY <1>0, <4>1 DEF EvenIn
    <3>2. CASE ~Overflows(fn["in"][ch["in"]], frames["in"])
      <4>1. /\ pc' = [pc EXCEPT !["in"] = "copy"] /\ pc["in"] = "load"
            /\ UNCHANGED <<faultCnt, ch, frames, put>>
        BY <1>2, <3>2 DEF LoadIn
      <4>2. DriverAhead("in")' = DriverAhead("in")
        BY <4>1, <1>0 DEF DriverAhead, TypeOK, TypeThreads
      <4>3. QED
        BY <4>1, <4>2 DEF EvenIn
    <3>3. QED
      BY <3>1, <3>2
  <2>3. QED
    BY <2>1, <2>2
<1>3. ASSUME CopyIn \/ CopyOut PROVE EvenInv'
  <2>1. /\ UNCHANGED <<faultCnt, ch, frames, cpc, cch, put, took>>
        /\ \A d \in Dirs : pc'[d] = "idle" <=> pc[d] = "idle"
    BY <1>3 DEF CopyIn, CopyOut, clientVars, TypeOK, TypeThreads, Dirs
  <2>2. \A d \in Dirs : DriverAhead(d)' = DriverAhead(d)
    BY <2>1 DEF DriverAhead
  <2>3. QED
    BY <1>0, <2>1, <2>2 DEF EvenIn, EvenOut, EvenClient, ClientAhead
<1>4. ASSUME CountIn PROVE EvenInv'
  <2> DEFINE x == ch["in"]
             m == frames["in"]
  <2>1. EvenClient' /\ EvenOut'
    BY <1>4 DEF CountIn, NextCh, EvenClient, EvenOut, Even, ClientAhead,
                DriverAhead, clientVars, TypeOK, TypeThreads, TypeCounts, Dirs
  <2>2. ASSUME faultCnt["in"] = 0 PROVE Even(put'["in"], DriverAhead("in")')
    <3>1. Even(put["in"], DriverAhead("in"))
      BY <2>2 DEF EvenIn
    <3>2. \A c \in Chs : DriverAhead("in")[c] = (IF c < x THEN m ELSE 0)
      BY <1>4 DEF CountIn, DriverAhead
    <3>3. \A c \in Chs :
            put'["in"][c] = IF c = x THEN put["in"][c] + m ELSE put["in"][c]
      BY <1>4, <1>0 DEF CountIn, TypeOK, TypeCounts
    <3>4. \A c \in Chs :
            DriverAhead("in")'[c] = IF x < ChN /\ c < x + 1 THEN m ELSE 0
      BY <1>4, <1>0 DEF CountIn, NextCh, DriverAhead, TypeOK, TypeThreads
    <3>5. x \in Chs /\ m \in Nat /\ \A c \in Chs : put["in"][c] \in Nat
      BY <1>0
    <3> DEFINE at == put["in"]
               ahead == DriverAhead("in")
               at2 == put'["in"]
               ahead2 == DriverAhead("in")'
    <3> HIDE DEF x, m, at, ahead, at2, ahead2
    <3>6. /\ Even(at, ahead)
          /\ \A c \in Chs : at[c] \in Nat /\ ahead[c] = (IF c < x THEN m ELSE 0)
          /\ \A c \in Chs : at2[c] = IF c = x THEN at[c] + m ELSE at[c]
          /\ \A c \in Chs : ahead2[c] = IF x < ChN /\ c < x + 1 THEN m ELSE 0
      BY <3>1, <3>2, <3>3, <3>4, <3>5 DEF at, ahead, at2, ahead2
    <3>7. Even(at2, ahead2)
      BY <3>5, <3>6, EvenOne
    <3>8. QED
      BY <3>7 DEF at2, ahead2
  <2>3. EvenIn'
    BY <1>4, <2>2 DEF CountIn, EvenIn
  <2>4. QED
    BY <2>1, <2>3
<1>5. ASSUME LoadOut PROVE EvenInv'
  <2>1. EvenClient' /\ EvenIn'
    BY <1>5 DEF LoadOut, Underrun, Fault, NextCh, EvenClient, EvenIn, Even,
                ClientAhead, DriverAhead, clientVars, TypeOK, TypeThreads,
                TypeCounts, Dirs
  <2>2. EvenOut'
    <3> DEFINE m == fn["out"][ch["out"]]
               f == frames["out"]
    <3>0. m \in Nat
      BY <1>0, SizePositive DEF TypeOK, TypeRings
    <3>1. CASE f > m
      <4>1. faultCnt'["out"] = faultCnt["out"] + 1
        BY <1>5, <3>1, <1>0 DEF LoadOut, Underrun, Fault, TypeOK, TypeCounts
      <4>2. QED
        BY <1>0, <4>1 DEF EvenOut
    <3>2. CASE ~(f > m)
      <4>1. ~(m = 0 /\ f > 0) /\ TakeSome(m, f) = f
        BY <3>0, <3>2, <1>0 DEF TakeSome
      <4>2. /\ pc' = [pc EXCEPT !["out"] = "copy"] /\ pc["out"] = "load"
            /\ frames' = [frames EXCEPT !["out"] = f]
            /\ UNCHANGED <<faultCnt, ch, took>>
        BY <1>5, <3>2, <4>1 DEF LoadOut
      <4>3. DriverAhead("out")' = DriverAhead("out")
        BY <4>2, <1>0 DEF DriverAhead, TypeOK, TypeThreads
      <4>4. QED
        BY <4>2, <4>3 DEF EvenOut
    <3>3. QED
      BY <3>1, <3>2
  <2>3. QED
    BY <2>1, <2>2
<1>6. ASSUME CountOut PROVE EvenInv'
  <2> DEFINE x == ch["out"]
             m == frames["out"]
  <2>1. EvenClient' /\ EvenIn'
    BY <1>6 DEF CountOut, NextCh, EvenClient, EvenIn, Even, ClientAhead,
                DriverAhead, clientVars, TypeOK, TypeThreads, TypeCounts, Dirs
  <2>2. ASSUME faultCnt["out"] = 0 PROVE Even(took'["out"], DriverAhead("out")')
    <3>1. Even(took["out"], DriverAhead("out"))
      BY <2>2 DEF EvenOut
    <3>2. \A c \in Chs : DriverAhead("out")[c] = (IF c < x THEN m ELSE 0)
      BY <1>6 DEF CountOut, DriverAhead
    <3>3. \A c \in Chs :
            took'["out"][c] = IF c = x THEN took["out"][c] + m ELSE took["out"][c]
      BY <1>6, <1>0 DEF CountOut, TypeOK, TypeCounts
    <3>4. \A c \in Chs :
            DriverAhead("out")'[c] = IF x < ChN /\ c < x + 1 THEN m ELSE 0
      BY <1>6, <1>0 DEF CountOut, NextCh, DriverAhead, TypeOK, TypeThreads
    <3>5. x \in Chs /\ m \in Nat /\ \A c \in Chs : took["out"][c] \in Nat
      BY <1>0
    <3> DEFINE at == took["out"]
               ahead == DriverAhead("out")
               at2 == took'["out"]
               ahead2 == DriverAhead("out")'
    <3> HIDE DEF x, m, at, ahead, at2, ahead2
    <3>6. /\ Even(at, ahead)
          /\ \A c \in Chs : at[c] \in Nat /\ ahead[c] = (IF c < x THEN m ELSE 0)
          /\ \A c \in Chs : at2[c] = IF c = x THEN at[c] + m ELSE at[c]
          /\ \A c \in Chs : ahead2[c] = IF x < ChN /\ c < x + 1 THEN m ELSE 0
      BY <3>1, <3>2, <3>3, <3>4, <3>5 DEF at, ahead, at2, ahead2
    <3>7. Even(at2, ahead2)
      BY <3>5, <3>6, EvenOne
    <3>8. QED
      BY <3>7 DEF at2, ahead2
  <2>3. EvenOut'
    BY <1>6, <2>2 DEF CountOut, EvenOut
  <2>4. QED
    BY <2>1, <2>3
<1>7. ASSUME IsDeviceReady \/ Work PROVE EvenInv'
  <2>1. /\ EvenIn' /\ EvenOut' /\ UNCHANGED <<put, took>>
    BY <1>7 DEF IsDeviceReady, Work, driverVars, EvenIn, EvenOut, DriverAhead
  <2>2. \A c \in Chs : ~(c < 1)
    BY DEF Chs
  <2>3. /\ ClientAhead("advanceIn")' = ClientAhead("advanceIn")
        /\ ClientAhead("advanceOut")' = ClientAhead("advanceOut")
    BY <1>7, <2>2 DEF IsDeviceReady, Work, ClientAhead
  <2>4. QED
    BY <2>1, <2>3 DEF EvenClient
<1>8. ASSUME AdvanceIn PROVE EvenInv'
  <2>1. /\ EvenIn' /\ EvenOut'
    BY <1>8, <1>0 DEF AdvanceIn, driverVars, EvenIn, EvenOut, DriverAhead, TypeOK, TypeCounts
  <2>2. Even(took'["in"], ClientAhead("advanceIn")')
    <3>1. Even(took["in"], ClientAhead("advanceIn"))
      BY DEF EvenClient
    <3>2. \A c \in Chs :
            ClientAhead("advanceIn")[c] = (IF c < cch THEN Dsp ELSE 0)
      BY <1>8 DEF AdvanceIn, ClientAhead
    <3>3. \A c \in Chs :
            took'["in"][c] = IF c = cch THEN took["in"][c] + Dsp ELSE took["in"][c]
      BY <1>8, <1>0 DEF AdvanceIn, TypeOK, TypeCounts
    <3>4. \A c \in Chs : ClientAhead("advanceIn")'[c]
                           = IF cch < ChN /\ c < cch + 1 THEN Dsp ELSE 0
      BY <1>8, <1>0 DEF AdvanceIn, NextClientCh, ClientAhead
    <3>5. QED
      BY <1>0, <3>1, <3>2, <3>3, <3>4, EvenOne
  <2>3. Even(put'["out"], ClientAhead("advanceOut")')
    <3>1. \A c \in Chs : ~(c < 1)
      BY DEF Chs
    <3>2. put' = put /\ ClientAhead("advanceOut")' = ClientAhead("advanceOut")
      BY <1>8, <3>1 DEF AdvanceIn, NextClientCh, ClientAhead
    <3>3. QED
      BY <3>2 DEF EvenClient
  <2>4. QED
    BY <2>1, <2>2, <2>3 DEF EvenClient
<1>9. ASSUME AdvanceOut PROVE EvenInv'
  <2>1. /\ EvenIn' /\ EvenOut'
    BY <1>9, <1>0 DEF AdvanceOut, driverVars, EvenIn, EvenOut, DriverAhead, TypeOK, TypeCounts
  <2>2. Even(put'["out"], ClientAhead("advanceOut")')
    <3>1. Even(put["out"], ClientAhead("advanceOut"))
      BY DEF EvenClient
    <3>2. \A c \in Chs :
            ClientAhead("advanceOut")[c] = (IF c < cch THEN Dsp ELSE 0)
      BY <1>9 DEF AdvanceOut, ClientAhead
    <3>3. \A c \in Chs :
            put'["out"][c] = IF c = cch THEN put["out"][c] + Dsp ELSE put["out"][c]
      BY <1>9, <1>0 DEF AdvanceOut, TypeOK, TypeCounts
    <3>4. \A c \in Chs : ClientAhead("advanceOut")'[c]
                           = IF cch < ChN /\ c < cch + 1 THEN Dsp ELSE 0
      BY <1>9, <1>0 DEF AdvanceOut, NextClientCh, ClientAhead
    <3>5. QED
      BY <1>0, <3>1, <3>2, <3>3, <3>4, EvenOne, SMTT(60)
  <2>3. Even(took'["in"], ClientAhead("advanceIn")')
    <3>1. took' = took /\ ClientAhead("advanceIn")' = ClientAhead("advanceIn")
      BY <1>9 DEF AdvanceOut, NextClientCh, ClientAhead
    <3>2. QED
      BY <3>1 DEF EvenClient
  <2>4. QED
    BY <2>1, <2>2, <2>3 DEF EvenClient
<1>10. CASE UNCHANGED vars
  BY <1>10 DEF vars, driverVars, clientVars, EvenIn, EvenOut, EvenClient,
               DriverAhead, ClientAhead
<1>11. QED
  BY <1>1, <1>2, <1>3, <1>4, <1>5, <1>6, <1>7, <1>8, <1>9, <1>10 DEF Next, Client

LEMMA EvenShows == TypeOK /\ EvenInv => FaultFirst
<1> SUFFICES ASSUME TypeOK, EvenInv, cpc = "wait", NEW d \in Dirs,
                    pc[d] = "idle", faultCnt[d] = 0, NEW c \in Chs, NEW e \in Chs
             PROVE  put[d][c] = put[d][e] /\ took[d][c] = took[d][e]
  BY DEF FaultFirst
<1>1. /\ DriverAhead(d)[c] = 0 /\ DriverAhead(d)[e] = 0
      /\ ClientAhead("advanceIn")[c] = 0 /\ ClientAhead("advanceIn")[e] = 0
      /\ ClientAhead("advanceOut")[c] = 0 /\ ClientAhead("advanceOut")[e] = 0
  BY DEF DriverAhead, ClientAhead
<1>2. /\ put[d][c] \in Nat /\ put[d][e] \in Nat
      /\ took[d][c] \in Nat /\ took[d][e] \in Nat
  BY DEF TypeOK, TypeCounts
<1>3. CASE d = "in"
  BY <1>1, <1>2, <1>3 DEF EvenInv, EvenIn, EvenClient, Even
<1>4. CASE d = "out"
  BY <1>1, <1>2, <1>4 DEF EvenInv, EvenOut, EvenClient, Even
<1>5. QED
  BY <1>3, <1>4 DEF Dirs

------------------------------------------------------------------------------
(***************************************************************************)
(* Whatever the sizes, the driver's packets and the client's advances, an  *)
(* index is never further out than just past the end of its ring and the   *)
(* fullness never negative or beyond the ring.                             *)
(***************************************************************************)
THEOREM TypeCorrect == Spec => []TypeOK
<1>1. GaugeInv => TypeOK
  BY DEF GaugeInv
<1>2. QED
  BY <1>1, GaugeInit, GaugeStep, PTL DEF Spec

(***************************************************************************)
(* The fullness agrees with the two indexes and with what went in and out. *)
(***************************************************************************)
THEOREM FullAlwaysExact == Spec => []FullExact
<1>1. GaugeInv => FullExact
  BY DEF GaugeInv
<1>2. QED
  BY <1>1, GaugeInit, GaugeStep, PTL DEF Spec

(***************************************************************************)
(* The client reads the next samples, and reads and writes inside the      *)
(* ring, when its steps end where the ring does.                           *)
(***************************************************************************)
THEOREM ClientWindowAlways == Spec => []ClientWindow
<1>1. CASE Whole
  <2>1. Init => ContentInv
    BY <1>1, ContentInit
  <2>2. ContentInv /\ [Next]_vars => ContentInv'
    BY <1>1, ContentStep
  <2>3. ContentInv => ClientWindow
    BY <1>1, ContentWindows
  <2>4. QED
    BY <2>1, <2>2, <2>3, PTL DEF Spec
<1>2. CASE ~Whole
  <2>1. ClientWindow
    BY <1>2 DEF ClientWindow
  <2>2. QED
    BY <2>1, PTL
<1>3. QED
  BY <1>1, <1>2

(***************************************************************************)
(* The driver plays the samples the client has handed over, in order.      *)
(***************************************************************************)
THEOREM DriverWindowAlways == Spec => []DriverWindow
<1>1. CASE Whole
  <2>1. Init => ContentInv
    BY <1>1, ContentInit
  <2>2. ContentInv /\ [Next]_vars => ContentInv'
    BY <1>1, ContentStep
  <2>3. ContentInv => DriverWindow
    BY <1>1, ContentWindows
  <2>4. QED
    BY <2>1, <2>2, <2>3, PTL DEF Spec
<1>2. CASE ~Whole
  <2>1. DriverWindow
    BY <1>2 DEF DriverWindow
  <2>2. QED
    BY <2>1, PTL
<1>3. QED
  BY <1>1, <1>2
(***************************************************************************)
(* Each ring is a bounded queue of samples, at every step of the driver    *)
(* and of the client, when the client's steps end where the ring does.     *)
(***************************************************************************)
THEOREM RingsImplementFifo == ASSUME Whole PROVE Spec => ImplementsFifo
<1>1. Init => ContentInv
  BY ContentInit
<1>2. ContentInv /\ [Next]_vars => ContentInv'
  BY ContentStep
<1>3. Init => \A d \in Dirs, c \in Chs : Fifo(d, c)!Init
  BY RingsInit
<1>4. ContentInv /\ [Next]_vars => [RingSteps]_vars
  BY RingsStep
<1>5. Spec => (\A d \in Dirs, c \in Chs : Fifo(d, c)!Init) /\ [][RingSteps]_vars
  BY <1>1, <1>2, <1>3, <1>4, PTL DEF Spec
<1>6. QED
  BY <1>5 DEF ImplementsFifo, RingSteps

(***************************************************************************)
(* The channels of a device stay together until a fault is counted: a      *)
(* packet that one channel drops or gets less of is always told.           *)
(***************************************************************************)
THEOREM FaultAlwaysFirst == Spec => []FaultFirst
<1>1. TypeOK /\ EvenInv => FaultFirst
  BY EvenShows
<1>2. QED
  BY <1>1, EvenInit, EvenStep, TypeCorrect, PTL DEF Spec

------------------------------------------------------------------------------
(* AudioGroup *)

FDevs == RangeOf(FileDevs)
Devs == {p[1] : p \in Ports}

------------------------------------------------------------------------------
(* Sequences *)

LEMMA HeadTail ==
  ASSUME NEW S, NEW s \in Seq(S), s # <<>>
  PROVE  Head(s) \in S /\ Tail(s) \in Seq(S)
  OBVIOUS

LEMMA PushType ==
  ASSUME NEW S, NEW s \in Seq(S), NEW e \in S
  PROVE  <<e>> \o s \in Seq(S) /\ <<e>> \o s # <<>> /\ Head(<<e>> \o s) = e
<1>1. PICK o \in Seq(S) : o = <<e>> /\ Len(o) = 1 /\ o[1] = e
  <2>1. <<e>> \in Seq(S) /\ Len(<<e>>) = 1 /\ <<e>>[1] = e
    OBVIOUS
  <2>2. QED
    BY <2>1
<1>2. o \o s \in Seq(S) /\ Len(o \o s) = 1 + Len(s) /\ (o \o s)[1] = e
  BY <1>1
<1>3. PICK r \in Seq(S) : r = <<e>> \o s /\ Len(r) = 1 + Len(s) /\ r[1] = e
  BY <1>1, <1>2
<1>4. r # <<>> /\ Head(r) = e
  BY <1>3
<1>5. QED
  BY <1>3, <1>4

LEMMA JoinType ==
  ASSUME NEW S, NEW s \in Seq(S), NEW t \in Seq(S)
  PROVE  s \o t \in Seq(S)
  OBVIOUS

------------------------------------------------------------------------------
(* Types *)

\* What the steps of a driver leave for those that follow.
InCall == {"ready", "store", "decr", "put", "sync", "execute", "tell"}
Looking == {"fwait", "scan", "take", "less"}

DriverOK(t) ==
  /\ dpc[t] \in InCall => todo[t] # <<>>
  /\ dpc[t] = "store" => pkts[t] # <<>>
  /\ dpc[t] = "put" => decs[t] # <<>>
  /\ dpc[t] = "execute" => Head(todo[t]) # <<>>
  /\ dpc[t] \in Looking => scan[t] # <<>>

\* What is on the group's lists was configured.
ListOK(r) == \A k \in DOMAIN devL[r] : <<devL[r][k], r>> \in Ports

\* The group's thread starts when the group is complete, and calls the application
\* with a cycle of every device on the lists.
GroupOK ==
  /\ \A r \in GroupDirs : ListOK(r)
  /\ gpc # "end" => Started
  /\ gpc = "call" => \A i \in DOMAIN Records : fill[Records[i]] > 0

IInv == GroupTypeOK /\ (\A t \in Drivers : DriverOK(t)) /\ GroupOK

Keeps == GroupTypeOK' /\ \A s \in Drivers : DriverOK(s)'

LEMMA CountType ==
  ASSUME NEW k \in 0 .. ReadyMax
  PROVE  Up(k) \in 0 .. ReadyMax /\ Down(k) \in 0 .. ReadyMax
  BY DEF Up, Down, ReadyMax

LEMMA PortType ==
  ASSUME NEW p \in Ports
  PROVE  p = <<p[1], p[2]>> /\ p[2] \in GroupDirs /\ p[1] \in Devs
  BY AudioGroupAssumption DEF GroupDirs, Devs

LEMMA CfgType ==
  /\ Len(CfgL) \in Nat \ {0} /\ DOMAIN CfgL = 1 .. Len(CfgL)
  /\ \A i \in 1 .. Len(CfgL) : CfgL[i] \in Ports
  /\ \A p \in Ports : \E i \in 1 .. Len(CfgL) : CfgL[i] = p
<1>1. Ports = {CfgL[i] : i \in DOMAIN CfgL}
  BY DEF Ports, RangeOf
<1>2. CfgL \in Seq(Ports) /\ CfgL # <<>>
  BY AudioGroupAssumption
<1>3. DOMAIN CfgL = 1 .. Len(CfgL) /\ Len(CfgL) \in Nat
  BY <1>2
<1>4. Len(CfgL) # 0
  BY <1>2
<1>5. QED
  BY <1>1, <1>3, <1>4

\* The records of the group are ports of its configuration.
LEMMA RecordsType ==
  ASSUME GroupTypeOK, \A r \in GroupDirs : ListOK(r)
  PROVE  Records \in Seq(Ports)
<1>1. \A r \in GroupDirs : Listed(r) \in Seq(Ports)
  <2> TAKE r \in GroupDirs
  <2>1. PICK l \in Seq(Devs) : l = devL[r]
    BY DEF GroupTypeOK, Devs
  <2>2. \A i \in DOMAIN l : <<l[i], r>> \in Ports
    BY <2>1 DEF ListOK
  <2>3. DOMAIN l = 1 .. Len(l) /\ Len(l) \in Nat
    BY <2>1
  <2>4. [i \in DOMAIN l |-> <<l[i], r>>] \in Seq(Ports)
    BY <2>2, <2>3
  <2>5. QED
    BY <2>1, <2>4 DEF Listed
<1>2. QED
  BY <1>1, JoinType DEF Records, GroupDirs

\* audio::buf::update() fills no ring beyond its size.
LEMMA UpdatedType ==
  ASSUME IInv, NEW ps
  PROVE  /\ Updated(ps) \in [Ports -> 0 .. Cap]
         /\ \A p \in Ports : fill[p] > 0 => Updated(ps)[p] > 0
<1>1. ASSUME NEW p \in Ports
      PROVE  /\ (IF p \in RangeOf(ps) /\ fill[p] < Cap THEN fill[p] + 1 ELSE fill[p])
                  \in 0 .. Cap
             /\ fill[p] > 0 => (IF p \in RangeOf(ps) /\ fill[p] < Cap
                                THEN fill[p] + 1 ELSE fill[p]) > 0
  <2>1. fill[p] \in 0 .. Cap /\ Cap \in Nat
    BY AudioGroupAssumption DEF IInv, GroupTypeOK
  <2>2. QED
    BY <2>1
<1>2. QED
  BY <1>1 DEF Updated

\* A new call in the file driver's list of calls.
LEMMA CallsType ==
  ASSUME IInv, NEW t \in Drivers
  PROVE  /\ [todo EXCEPT ![t] = <<NoDevs>> \o @] \in [Drivers -> Seq(Seq(FDevs))]
         /\ <<NoDevs>> \o todo[t] # <<>>
<1>1. NoDevs \in Seq(FDevs) /\ todo \in [Drivers -> Seq(Seq(FDevs))]
  BY DEF IInv, GroupTypeOK, FDevs, NoDevs
<1>2. PICK l \in Seq(Seq(FDevs)) : l = <<NoDevs>> \o todo[t] /\ l # <<>>
  BY <1>1, PushType
<1>3. QED
  BY <1>1, <1>2

------------------------------------------------------------------------------
(* The drivers *)

LEMMA PacketType ==
  ASSUME IInv, NEW p \in Ports, Packet(p)
  PROVE  Keeps
<1>1. UNCHANGED <<cfgN, devL, readyCnt, gpc, hit, decs, scan, reg, fReady, owed, met,
                 early, outN>>
  BY DEF Packet, CallBack, groupVars, cbVars, fileVars
<1>2. <<p>> \in Seq(Ports) /\ "alsa" \in Drivers
  BY DEF Drivers
<1>3. fill' \in [Ports -> 0 .. Cap] /\ pkts' \in [Drivers -> Seq(Ports)]
  BY <1>2, UpdatedType DEF IInv, GroupTypeOK, Packet, CallBack
<1>4. todo' \in [Drivers -> Seq(Seq(FDevs))] /\ todo'["alsa"] # <<>>
  BY <1>2, CallsType DEF IInv, GroupTypeOK, Packet
<1>5. dpc' \in [Drivers -> DriverAt]
  BY DEF IInv, GroupTypeOK, Packet, CallBack, Go, Drivers, DriverAt
<1>6. GroupTypeOK'
  BY <1>1, <1>3, <1>4, <1>5 DEF IInv, GroupTypeOK, FDevs
<1>7. \A s \in Drivers : DriverOK(s)'
  BY <1>1, <1>4 DEF IInv, GroupTypeOK, DriverOK, InCall, Looking, Go, Drivers, DriverAt,
     Packet, CallBack, NoDevs
<1>8. QED
  BY <1>6, <1>7 DEF Keeps

LEMMA LoadType ==
  ASSUME IInv, NEW t \in Drivers, Load(t)
  PROVE  Keeps
<1>1. UNCHANGED <<cfgN, devL, fill, readyCnt, gpc, hit, decs, todo, scan, fReady, owed,
                 met, early, outN>>
  BY DEF Load, CallBack, groupVars, cbVars, fileVars
<1>2. Head(pkts[t]) \in Ports /\ Tail(pkts[t]) \in Seq(Ports)
  BY HeadTail DEF IInv, GroupTypeOK, Load
<1>3. pkts' \in [Drivers -> Seq(Ports)]
  BY <1>2 DEF IInv, GroupTypeOK, Load
<1>4. reg' \in [Drivers -> 0 .. ReadyMax]
  BY <1>2 DEF IInv, GroupTypeOK, Load
<1>5. dpc' \in [Drivers -> DriverAt]
  BY SMTT(60) DEF IInv, GroupTypeOK, Load, Go, Drivers, DriverAt
<1>6. GroupTypeOK'
  BY <1>1, <1>3, <1>4, <1>5 DEF IInv, GroupTypeOK, FDevs
<1>7. \A s \in Drivers : DriverOK(s)'
  BY <1>1, ZenonT(60) DEF IInv, GroupTypeOK, DriverOK, InCall, Looking, Go, Drivers,
     DriverAt, Load
<1>8. QED
  BY <1>6, <1>7 DEF Keeps

LEMMA StoreType ==
  ASSUME IInv, NEW t \in Drivers, Store(t)
  PROVE  Keeps
<1>1. UNCHANGED <<cfgN, devL, fill, gpc, decs, scan, fReady, owed, met, early, outN>>
  BY DEF Store, CallBack, groupVars, cbVars, fileVars
<1>2. /\ Head(pkts[t]) \in Ports /\ Tail(pkts[t]) \in Seq(Ports)
      /\ reg[t] \in 0 .. ReadyMax
  BY HeadTail DEF IInv, GroupTypeOK, DriverOK, Store
<1>3. /\ [todo EXCEPT ![t] = <<Head(@) \o ClockL[Head(pkts[t])]>> \o Tail(@)]
           \in [Drivers -> Seq(Seq(FDevs))]
      /\ <<Head(todo[t]) \o ClockL[Head(pkts[t])]>> \o Tail(todo[t]) # <<>>
  <2>1. todo \in [Drivers -> Seq(Seq(FDevs))] /\ todo[t] # <<>>
    BY DEF IInv, GroupTypeOK, DriverOK, InCall, FDevs, Store
  <2>2. Head(todo[t]) \in Seq(FDevs) /\ Tail(todo[t]) \in Seq(Seq(FDevs))
    BY <2>1, HeadTail
  <2>3. ClockL[Head(pkts[t])] \in Seq(FDevs)
    BY <1>2, AudioGroupAssumption DEF FDevs
  <2>4. PICK e \in Seq(FDevs) : e = Head(todo[t]) \o ClockL[Head(pkts[t])]
    BY <2>2, <2>3, JoinType
  <2>5. PICK l \in Seq(Seq(FDevs)) : l = <<e>> \o Tail(todo[t]) /\ l # <<>>
    BY <2>2, PushType
  <2>6. QED
    BY <2>1, <2>4, <2>5
<1>4. readyCnt' \in [Ports -> 0 .. ReadyMax]
  BY <1>2, CountType DEF IInv, GroupTypeOK, Store
<1>5. todo' \in [Drivers -> Seq(Seq(FDevs))]
  BY <1>3 DEF Store
<1>6. hit' \in [Drivers -> BOOLEAN]
  BY DEF IInv, GroupTypeOK, Store, Go, Drivers, DriverAt
<1>7. pkts' \in [Drivers -> Seq(Ports)]
  BY <1>2 DEF IInv, GroupTypeOK, Store
<1>8. reg' \in [Drivers -> 0 .. ReadyMax]
  BY DEF IInv, GroupTypeOK, Store, Go, Drivers, DriverAt, ReadyMax
<1>9. dpc' \in [Drivers -> DriverAt]
  BY DEF IInv, GroupTypeOK, Store, Go, Drivers, DriverAt
<1>10. GroupTypeOK'
  BY <1>1, <1>4, <1>5, <1>6, <1>7, <1>8, <1>9 DEF IInv, GroupTypeOK, FDevs
<1>11. \A s \in Drivers : DriverOK(s)'
  BY <1>1, <1>3 DEF IInv, GroupTypeOK, DriverOK, InCall, Looking, Go, Drivers, DriverAt,
     Store
<1>12. QED
  BY <1>10, <1>11 DEF Keeps

LEMMA NotifyType ==
  ASSUME IInv, NEW t \in Drivers, Notify(t)
  PROVE  Keeps
<1>1. UNCHANGED <<cfgN, devL, fill, readyCnt, gpc, pkts, todo, scan, reg, fReady, owed,
                 met, early, outN>>
  BY DEF Notify, CallBack, groupVars, cbVars, fileVars
<1>2. Records \in Seq(Ports) /\ <<>> \in Seq(Ports)
  BY RecordsType DEF IInv, GroupOK
<1>3. decs' \in [Drivers -> Seq(Ports)]
  BY <1>2 DEF IInv, GroupTypeOK, Notify
<1>4. hit' \in [Drivers -> BOOLEAN]
  BY DEF IInv, GroupTypeOK, Notify, Go, Drivers, DriverAt
<1>5. dpc' \in [Drivers -> DriverAt]
  BY DEF IInv, GroupTypeOK, Notify, Go, Drivers, DriverAt
<1>6. GroupTypeOK'
  BY <1>1, <1>3, <1>4, <1>5 DEF IInv, GroupTypeOK, FDevs
<1>7. \A s \in Drivers : DriverOK(s)'
  BY <1>1 DEF IInv, GroupTypeOK, DriverOK, InCall, Looking, Go, Drivers, DriverAt, Notify
<1>8. QED
  BY <1>6, <1>7 DEF Keeps

LEMMA DecrType ==
  ASSUME IInv, NEW t \in Drivers, Decr(t)
  PROVE  Keeps
<1>1. UNCHANGED <<cfgN, devL, fill, gpc, pkts, hit, decs, todo, scan, fReady, owed,
                 met, early, outN>>
  BY DEF Decr, CallBack, groupVars, cbVars, fileVars
<1>2. Head(decs[t]) \in Ports
  BY HeadTail DEF IInv, GroupTypeOK, Decr
<1>3. reg' \in [Drivers -> 0 .. ReadyMax]
  BY <1>2 DEF IInv, GroupTypeOK, Decr
<1>4. readyCnt' \in [Ports -> 0 .. ReadyMax]
  BY <1>2, CountType DEF IInv, GroupTypeOK, Decr
<1>5. dpc' \in [Drivers -> DriverAt]
  BY DEF IInv, GroupTypeOK, Decr, Go, Drivers, DriverAt
<1>6. GroupTypeOK'
  BY <1>1, <1>3, <1>4, <1>5 DEF IInv, GroupTypeOK, FDevs
<1>7. \A s \in Drivers : DriverOK(s)'
  BY <1>1 DEF IInv, GroupTypeOK, DriverOK, InCall, Looking, Go, Drivers, DriverAt, Decr
<1>8. QED
  BY <1>6, <1>7 DEF Keeps

LEMMA PutBackType ==
  ASSUME IInv, NEW t \in Drivers, PutBack(t)
  PROVE  Keeps
<1>1. UNCHANGED <<cfgN, devL, fill, gpc, pkts, hit, todo, scan, fReady, owed, met,
                 early, outN>>
  BY DEF PutBack, CallBack, groupVars, cbVars, fileVars
<1>2. Head(decs[t]) \in Ports /\ Tail(decs[t]) \in Seq(Ports)
  BY HeadTail DEF IInv, GroupTypeOK, DriverOK, PutBack
<1>3. readyCnt' \in [Ports -> 0 .. ReadyMax]
  BY <1>2 DEF IInv, GroupTypeOK, PutBack
<1>4. decs' \in [Drivers -> Seq(Ports)]
  BY <1>2 DEF IInv, GroupTypeOK, PutBack
<1>5. reg' \in [Drivers -> 0 .. ReadyMax]
  BY DEF IInv, GroupTypeOK, PutBack, Go, Drivers, DriverAt, ReadyMax
<1>6. dpc' \in [Drivers -> DriverAt]
  BY DEF IInv, GroupTypeOK, PutBack, Go, Drivers, DriverAt
<1>7. GroupTypeOK'
  BY <1>1, <1>3, <1>4, <1>5, <1>6 DEF IInv, GroupTypeOK, FDevs
<1>8. \A s \in Drivers : DriverOK(s)'
  BY <1>1 DEF IInv, GroupTypeOK, DriverOK, InCall, Looking, Go, Drivers, DriverAt, PutBack
<1>9. QED
  BY <1>7, <1>8 DEF Keeps

LEMMA SignalType ==
  ASSUME IInv, NEW t \in Drivers, Signal(t)
  PROVE  Keeps
<1>1. UNCHANGED <<cfgN, devL, fill, readyCnt, pkts, hit, decs, todo, scan, reg, fReady,
                 owed, met, early, outN>>
  BY DEF Signal, CallBack, groupVars, cbVars, fileVars
<1>2. gpc' \in {"end", "wait", "check", "call"}
  BY DEF IInv, GroupTypeOK, Signal
<1>3. dpc' \in [Drivers -> DriverAt]
  BY DEF IInv, GroupTypeOK, Signal, Go, Drivers, DriverAt
<1>4. GroupTypeOK'
  BY <1>1, <1>2, <1>3 DEF IInv, GroupTypeOK, FDevs
<1>5. \A s \in Drivers : DriverOK(s)'
  BY <1>1 DEF IInv, GroupTypeOK, DriverOK, InCall, Looking, Go, Drivers, DriverAt, Signal
<1>6. QED
  BY <1>4, <1>5 DEF Keeps

LEMMA SyncedType ==
  ASSUME IInv, NEW t \in Drivers, Synced(t)
  PROVE  Keeps
<1>1. UNCHANGED <<cfgN, devL, fill, readyCnt, gpc, pkts, hit, decs, scan, reg, fReady,
                 owed, met, early, outN>>
  BY DEF Synced, CallBack, groupVars, cbVars, fileVars
<1>2. todo[t] # <<>> /\ Tail(todo[t]) \in Seq(Seq(FDevs))
  BY HeadTail DEF IInv, GroupTypeOK, DriverOK, InCall, FDevs, Synced
<1>3. todo' \in [Drivers -> Seq(Seq(FDevs))]
  BY <1>2 DEF IInv, GroupTypeOK, FDevs, Synced
<1>4. dpc' \in [Drivers -> DriverAt]
  BY DEF IInv, GroupTypeOK, Synced, Back, Rest, Go, Drivers, DriverAt
<1>5. GroupTypeOK'
  BY <1>1, <1>3, <1>4 DEF IInv, GroupTypeOK, FDevs
<1>6. \A s \in Drivers : DriverOK(s)'
  BY <1>1, <1>2, ZenonT(60) DEF IInv, GroupTypeOK, DriverOK, InCall, Looking, Go,
     Drivers, DriverAt, Synced, Back, Rest
<1>7. QED
  BY <1>5, <1>6 DEF Keeps

LEMMA SyncType ==
  ASSUME IInv, NEW t \in Drivers, Sync(t)
  PROVE  Keeps
<1>1. UNCHANGED <<cfgN, devL, fill, readyCnt, gpc, pkts, hit, decs, todo, scan, fReady,
                 owed, met, early, outN>>
  BY DEF Sync, CallBack, groupVars, cbVars, fileVars
<1>2. Head(Head(todo[t])) \in FDevs
  <2>1. Head(todo[t]) \in Seq(FDevs) /\ Head(todo[t]) # <<>>
    BY HeadTail DEF IInv, GroupTypeOK, DriverOK, InCall, FDevs, Sync, NoDevs
  <2>2. QED
    BY <2>1, HeadTail
<1>3. reg' \in [Drivers -> 0 .. ReadyMax]
  BY <1>2 DEF IInv, GroupTypeOK, FDevs, Sync
<1>4. dpc' \in [Drivers -> DriverAt]
  BY DEF IInv, GroupTypeOK, Sync, Go, Drivers, DriverAt
<1>5. GroupTypeOK'
  BY <1>1, <1>3, <1>4 DEF IInv, GroupTypeOK, FDevs
<1>6. \A s \in Drivers : DriverOK(s)'
  BY <1>1 DEF IInv, GroupTypeOK, DriverOK, InCall, Looking, Go, Drivers, DriverAt, Sync,
     NoDevs
<1>7. QED
  BY <1>5, <1>6 DEF Keeps

LEMMA ExecuteType ==
  ASSUME IInv, NEW t \in Drivers, Execute(t)
  PROVE  Keeps
<1>1. UNCHANGED <<cfgN, devL, readyCnt, gpc, hit, decs, scan, early, outN>>
  BY DEF Execute, CallBack, groupVars, cbVars, fileVars
<1>2. /\ Head(Head(todo[t])) \in FDevs /\ reg[t] \in 0 .. ReadyMax
      /\ Packets[Head(Head(todo[t]))] \in Seq(Ports)
  <2>1. todo[t] \in Seq(Seq(FDevs)) /\ todo[t] # <<>> /\ Head(todo[t]) # <<>>
    BY DEF IInv, GroupTypeOK, DriverOK, InCall, FDevs, Execute
  <2>2. Head(todo[t]) \in Seq(FDevs)
    BY <2>1, HeadTail
  <2>3. Head(Head(todo[t])) \in FDevs
    BY <2>1, <2>2, HeadTail
  <2>4. QED
    BY <2>3, AudioGroupAssumption DEF IInv, GroupTypeOK, FDevs
<1>3. /\ [todo EXCEPT ![t] = <<Tail(Head(@))>> \o Tail(@)] \in [Drivers -> Seq(Seq(FDevs))]
      /\ <<Tail(Head(todo[t]))>> \o Tail(todo[t]) # <<>>
      /\ [todo EXCEPT ![t] = <<NoDevs, Tail(Head(@))>> \o Tail(@)]
           \in [Drivers -> Seq(Seq(FDevs))]
      /\ <<NoDevs, Tail(Head(todo[t]))>> \o Tail(todo[t]) # <<>>
  <2>1. /\ todo \in [Drivers -> Seq(Seq(FDevs))]
        /\ todo[t] # <<>> /\ Head(todo[t]) # <<>>
    BY DEF IInv, GroupTypeOK, DriverOK, InCall, FDevs, Execute
  <2>2. Head(todo[t]) \in Seq(FDevs) /\ Tail(todo[t]) \in Seq(Seq(FDevs))
    BY <2>1, HeadTail
  <2>3. PICK e \in Seq(FDevs) : e = Tail(Head(todo[t]))
    BY <2>1, <2>2, HeadTail
  <2>4. PICK l \in Seq(Seq(FDevs)) : l = <<e>> \o Tail(todo[t]) /\ l # <<>>
    BY <2>2, PushType
  <2>5. PICK f \in Seq(FDevs) : f = NoDevs
    <3>1. NoDevs \in Seq(FDevs)
      BY DEF NoDevs
    <3>2. QED
      BY <3>1
  <2>6. PICK r \in Seq(Seq(FDevs)) : r = Tail(todo[t])
    BY <2>2
  <2>7. PICK m \in Seq(Seq(FDevs)) : m = <<f, e>> \o r /\ m # <<>>
    <3>1. <<f, e>> \in Seq(Seq(FDevs)) /\ Len(<<f, e>>) = 2
      OBVIOUS
    <3>2. <<f, e>> \o r \in Seq(Seq(FDevs)) /\ Len(<<f, e>> \o r) = 2 + Len(r)
          /\ Len(r) \in Nat
      BY <3>1
    <3>3. ASSUME NEW m \in Seq(Seq(FDevs)), Len(m) = 2 + Len(r)
          PROVE  m # <<>>
      BY <3>2, <3>3
    <3>4. QED
      BY <3>2, <3>3
  <2>8. QED
    BY <2>1, <2>3, <2>4, <2>5, <2>6, <2>7
<1>4. fReady' \in [FDevs -> 0 .. ReadyMax]
  BY <1>2, CountType DEF IInv, GroupTypeOK, FDevs, Execute
<1>5. owed' \in [FDevs -> Int] /\ met' \subseteq FDevs
  BY <1>2, SMTT(60) DEF IInv, GroupTypeOK, FDevs, Execute, Up, ReadyMax
<1>6. pkts' \in [Drivers -> Seq(Ports)] /\ fill' \in [Ports -> 0 .. Cap]
  BY <1>2, UpdatedType DEF IInv, GroupTypeOK, Execute, CallBack
<1>7. todo' \in [Drivers -> Seq(Seq(FDevs))] /\ todo'[t] # <<>>
  BY <1>3 DEF Execute, IInv, GroupTypeOK
<1>8. reg' \in [Drivers -> 0 .. ReadyMax]
  <2>1. reg' = [reg EXCEPT ![t] = 0] /\ reg \in [Drivers -> 0 .. ReadyMax]
    BY DEF IInv, GroupTypeOK, Execute
  <2>2. 0 \in 0 .. ReadyMax
    BY DEF ReadyMax
  <2>3. QED
    BY <2>1, <2>2
<1>9. /\ dpc' \in [Drivers -> DriverAt] /\ dpc'[t] \in {"tell", "ready"}
      /\ \A s \in Drivers : s # t => UNCHANGED <<dpc[s], todo[s], pkts[s]>>
  <2>1. PICK at \in {"tell", "ready"} : dpc' = [dpc EXCEPT ![t] = at]
    BY DEF Execute, CallBack, Go
  <2>2. PICK l : todo' = [todo EXCEPT ![t] = l]
    BY DEF Execute
  <2>3. PICK q : pkts' = [pkts EXCEPT ![t] = q]
    <3>1. [pkts EXCEPT ![t] = pkts[t]] = pkts
      BY DEF IInv, GroupTypeOK
    <3>2. QED
      BY <3>1 DEF Execute, CallBack
  <2>4. QED
    BY <2>1, <2>2, <2>3 DEF IInv, GroupTypeOK, DriverAt
<1>10. GroupTypeOK'
  BY <1>1, <1>4, <1>5, <1>6, <1>7, <1>8, <1>9 DEF IInv, GroupTypeOK, FDevs
<1>11. \A s \in Drivers : DriverOK(s)'
  BY <1>1, <1>7, <1>9 DEF IInv, DriverOK, InCall, Looking
<1>12. QED
  BY <1>10, <1>11 DEF Keeps

LEMMA TellType ==
  ASSUME IInv, NEW t \in Drivers, Tell(t)
  PROVE  Keeps
<1>1. UNCHANGED <<cfgN, devL, fill, readyCnt, gpc, pkts, hit, decs, todo, scan, reg,
                 fReady, owed, met, early, outN>>
  BY DEF Tell, CallBack, groupVars, cbVars, fileVars
<1>2. dpc' \in [Drivers -> DriverAt]
  BY DEF IInv, GroupTypeOK, Tell, Go, Drivers, DriverAt
<1>3. GroupTypeOK'
  BY <1>1, <1>2 DEF IInv, GroupTypeOK, FDevs
<1>4. \A s \in Drivers : DriverOK(s)'
  BY <1>1 DEF IInv, GroupTypeOK, DriverOK, InCall, Looking, Go, Drivers, DriverAt, Tell
<1>5. QED
  BY <1>3, <1>4 DEF Keeps

LEMMA FileWaitType ==
  ASSUME IInv, FileWait
  PROVE  Keeps
<1>1. UNCHANGED <<cfgN, devL, fill, readyCnt, gpc, pkts, hit, decs, todo, reg, fReady,
                 owed, met, early, outN>>
  BY DEF FileWait, CallBack, groupVars, cbVars, fileVars
<1>2. scan' \in [Drivers -> Seq(FDevs)] /\ scan'["file"] # <<>>
  <2>1. FileDevs \in Seq(FDevs) /\ FileDevs # <<>>
    BY AudioGroupAssumption DEF FDevs, FileWait, RangeOf
  <2>2. QED
    BY <2>1 DEF IInv, GroupTypeOK, FDevs, Drivers, FileWait
<1>3. dpc' \in [Drivers -> DriverAt]
  BY DEF IInv, GroupTypeOK, FileWait, Go, Drivers, DriverAt
<1>4. GroupTypeOK'
  BY <1>1, <1>2, <1>3 DEF IInv, GroupTypeOK, FDevs
<1>5. \A s \in Drivers : DriverOK(s)'
  BY <1>1, <1>2 DEF IInv, GroupTypeOK, DriverOK, InCall, Looking, Go, Drivers, DriverAt,
     FileWait
<1>6. QED
  BY <1>4, <1>5 DEF Keeps

LEMMA FileTimeOutType ==
  ASSUME IInv, FileTimeOut
  PROVE  Keeps
<1>1. UNCHANGED <<cfgN, devL, fill, readyCnt, gpc, pkts, hit, decs, todo, scan, reg,
                 fReady, owed, met, early>>
  BY DEF FileTimeOut, CallBack, groupVars, cbVars, fileVars
<1>2. outN' \in 0 .. MaxUntold
  <2>1. outN \in 0 .. MaxUntold /\ outN < MaxUntold /\ outN' = outN + 1
    BY DEF IInv, GroupTypeOK, FileTimeOut
  <2>2. outN' \in 0 .. MaxUntold
    BY ONLY <2>1, AudioGroupAssumption DEF AudioGroupAssumption
  <2>3. QED
    BY <2>2 DEF FileTimeOut
<1>3. dpc' \in [Drivers -> DriverAt]
  BY DEF IInv, GroupTypeOK, FileTimeOut, Go, Drivers, DriverAt, TimeOutRests
<1>4. GroupTypeOK'
  BY <1>1, <1>2, <1>3 DEF IInv, GroupTypeOK, FDevs
<1>5. \A s \in Drivers : DriverOK(s)'
  BY <1>1 DEF IInv, GroupTypeOK, DriverOK, InCall, Looking, Go, Drivers, DriverAt,
     FileTimeOut, TimeOutRests
<1>6. QED
  BY <1>4, <1>5 DEF Keeps

LEMMA FileSpuriousType ==
  ASSUME IInv, FileSpurious
  PROVE  Keeps
<1>1. UNCHANGED <<cfgN, devL, fill, readyCnt, gpc, pkts, hit, decs, todo, scan, reg,
                 fReady, owed, met>>
  BY DEF FileSpurious, CallBack, groupVars, cbVars, fileVars
<1>2. outN' \in 0 .. MaxUntold /\ early' = TRUE
  <2>1. outN \in 0 .. MaxUntold /\ outN < MaxUntold /\ outN' = outN + 1
    BY DEF IInv, GroupTypeOK, FileSpurious
  <2>2. outN' \in 0 .. MaxUntold
    BY ONLY <2>1, AudioGroupAssumption DEF AudioGroupAssumption
  <2>3. QED
    BY <2>2 DEF FileSpurious
<1>3. dpc' \in [Drivers -> DriverAt]
  BY DEF IInv, GroupTypeOK, FileSpurious, Go, Drivers, DriverAt
<1>4. GroupTypeOK'
  BY <1>1, <1>2, <1>3 DEF IInv, GroupTypeOK, FDevs
<1>5. \A s \in Drivers : DriverOK(s)'
  BY <1>1 DEF IInv, GroupTypeOK, DriverOK, InCall, Looking, Go, Drivers, DriverAt,
     FileSpurious
<1>6. QED
  BY <1>4, <1>5 DEF Keeps

LEMMA FileScanType ==
  ASSUME IInv, FileScan
  PROVE  Keeps
<1>1. UNCHANGED <<cfgN, devL, fill, readyCnt, gpc, pkts, hit, decs, todo, reg, fReady,
                 owed, met, early, outN>>
  BY DEF FileScan, CallBack, groupVars, cbVars, fileVars
<1>2. Tail(scan["file"]) \in Seq(FDevs)
  BY HeadTail DEF IInv, GroupTypeOK, DriverOK, Looking, FDevs, Drivers, FileScan
<1>3. scan' \in [Drivers -> Seq(FDevs)]
  BY <1>2, ZenonT(60) DEF IInv, GroupTypeOK, FDevs, Drivers, FileScan
<1>4. dpc' \in [Drivers -> DriverAt]
  BY SMTT(60) DEF IInv, GroupTypeOK, FileScan, Rest, Go, Drivers, DriverAt
<1>5. GroupTypeOK'
  BY <1>1, <1>3, <1>4 DEF IInv, GroupTypeOK, FDevs
<1>6. \A s \in Drivers : DriverOK(s)'
  BY <1>1, ZenonT(60) DEF IInv, GroupTypeOK, DriverOK, InCall, Looking, Go, Drivers,
     DriverAt, FileScan, Rest
<1>7. QED
  BY <1>5, <1>6 DEF Keeps

LEMMA FileTakeType ==
  ASSUME IInv, FileTake
  PROVE  Keeps
<1>1. UNCHANGED <<cfgN, devL, fill, readyCnt, gpc, pkts, hit, decs, todo, scan, fReady,
                 owed, met, early, outN>>
  BY DEF FileTake, CallBack, groupVars, cbVars, fileVars
<1>2. Head(scan["file"]) \in FDevs
  BY HeadTail DEF IInv, GroupTypeOK, DriverOK, Looking, FDevs, Drivers,
                  FileTake
<1>3. reg' \in [Drivers -> 0 .. ReadyMax]
  BY <1>2 DEF IInv, GroupTypeOK, FDevs, FileTake
<1>4. dpc' \in [Drivers -> DriverAt]
  BY DEF IInv, GroupTypeOK, FileTake, Go, Drivers, DriverAt
<1>5. GroupTypeOK'
  BY <1>1, <1>3, <1>4 DEF IInv, GroupTypeOK, FDevs
<1>6. \A s \in Drivers : DriverOK(s)'
  BY <1>1 DEF IInv, GroupTypeOK, DriverOK, InCall, Looking, Go, Drivers, DriverAt,
     FileTake
<1>7. QED
  BY <1>5, <1>6 DEF Keeps

LEMMA FileRunType ==
  ASSUME IInv, FileRun
  PROVE  Keeps
<1>1. UNCHANGED <<cfgN, devL, readyCnt, gpc, hit, decs, met, early, outN>>
  BY DEF FileRun, CallBack, groupVars, cbVars, fileVars
<1>2. /\ Head(scan["file"]) \in FDevs /\ Tail(scan["file"]) \in Seq(FDevs)
      /\ reg["file"] \in 0 .. ReadyMax /\ "file" \in Drivers
  BY HeadTail DEF IInv, GroupTypeOK, DriverOK, Looking, FDevs, Drivers, FileRun
<1>3. /\ Packets[Head(scan["file"])] \in Seq(Ports)
      /\ <<>> \in Seq(Ports)
  BY <1>2, AudioGroupAssumption DEF FDevs
<1>4. fReady' \in [FDevs -> 0 .. ReadyMax]
  BY <1>2, CountType DEF IInv, GroupTypeOK, FDevs, FileRun
<1>5. owed' \in [FDevs -> Int]
  <2>1. PICK d \in FDevs : d = Head(scan["file"])
    BY <1>2
  <2>2. owed \in [FDevs -> Int]
    BY DEF IInv, GroupTypeOK, FDevs
  <2>3. owed[d] - 1 \in Int /\ owed[d] \in Int
    BY <2>2
  <2>4. owed' = [owed EXCEPT ![d] = IF d \in Internal THEN owed[d] - 1 ELSE owed[d]]
    BY <2>1 DEF FileRun
  <2>5. QED
    BY <2>2, <2>3, <2>4
<1>6. pkts' \in [Drivers -> Seq(Ports)] /\ fill' \in [Ports -> 0 .. Cap]
  BY <1>3, UpdatedType DEF IInv, GroupTypeOK, Drivers, FileRun, CallBack
<1>7. todo' \in [Drivers -> Seq(Seq(FDevs))] /\ todo'["file"] # <<>>
  BY <1>2, CallsType DEF IInv, GroupTypeOK, FileRun
<1>8. scan' \in [Drivers -> Seq(FDevs)]
  BY <1>2 DEF IInv, GroupTypeOK, FDevs, FileRun
<1>9. reg' \in [Drivers -> 0 .. ReadyMax]
  BY DEF IInv, GroupTypeOK, FileRun, Go, Drivers, DriverAt, ReadyMax
<1>10. dpc' \in [Drivers -> DriverAt]
  BY DEF IInv, GroupTypeOK, FileRun, CallBack, Go, Drivers, DriverAt
<1>11. GroupTypeOK'
  BY <1>1, <1>4, <1>5, <1>6, <1>7, <1>8, <1>9, <1>10 DEF IInv, GroupTypeOK, FDevs
<1>12. \A s \in Drivers : DriverOK(s)'
  BY <1>1, <1>7 DEF IInv, GroupTypeOK, DriverOK, InCall, Looking, Go, Drivers, DriverAt,
     FileRun, CallBack, NoDevs
<1>13. QED
  BY <1>11, <1>12 DEF Keeps

LEMMA GroupWaitType ==
  ASSUME IInv, GroupWait
  PROVE  Keeps
<1>1. UNCHANGED <<cfgN, devL, fill, readyCnt, dpc, pkts, hit, decs, todo, scan, reg,
                 fReady, owed, met, early, outN>>
  BY DEF GroupWait, CallBack, groupVars, cbVars, fileVars
<1>2. gpc' \in {"end", "wait", "check", "call"}
  BY DEF IInv, GroupTypeOK, GroupWait
<1>3. GroupTypeOK'
  BY <1>1, <1>2 DEF IInv, GroupTypeOK, FDevs
<1>4. \A s \in Drivers : DriverOK(s)'
  BY <1>1 DEF IInv, GroupTypeOK, DriverOK, InCall, Looking, Go, Drivers, DriverAt,
     GroupWait
<1>5. QED
  BY <1>3, <1>4 DEF Keeps

LEMMA BufIsReadyType ==
  ASSUME IInv, BufIsReady
  PROVE  Keeps
<1>1. UNCHANGED <<cfgN, devL, fill, readyCnt, dpc, pkts, hit, decs, todo, scan, reg,
                 fReady, owed, met, early, outN>>
  BY DEF BufIsReady, CallBack, groupVars, cbVars, fileVars
<1>2. gpc' \in {"end", "wait", "check", "call"}
  BY DEF IInv, GroupTypeOK, BufIsReady
<1>3. GroupTypeOK'
  BY <1>1, <1>2 DEF IInv, GroupTypeOK, FDevs
<1>4. \A s \in Drivers : DriverOK(s)'
  BY <1>1 DEF IInv, GroupTypeOK, DriverOK, InCall, Looking, Go, Drivers, DriverAt,
     BufIsReady
<1>5. QED
  BY <1>3, <1>4 DEF Keeps

LEMMA GroupTimeOutType ==
  ASSUME IInv, GroupTimeOut
  PROVE  Keeps
<1>1. UNCHANGED <<cfgN, devL, fill, readyCnt, dpc, pkts, hit, decs, todo, scan, reg,
                 fReady, owed, met, early>>
  BY DEF GroupTimeOut, CallBack, groupVars, cbVars, fileVars
<1>2. outN' \in 0 .. MaxUntold
  BY AudioGroupAssumption, SMTT(60) DEF IInv, GroupTypeOK, GroupTimeOut
<1>3. gpc' \in {"end", "wait", "check", "call"}
  BY DEF GroupTimeOut
<1>4. GroupTypeOK'
  BY <1>1, <1>2, <1>3 DEF IInv, GroupTypeOK, FDevs
<1>5. \A s \in Drivers : DriverOK(s)'
  BY <1>1 DEF IInv, GroupTypeOK, DriverOK, InCall, Looking, Go, Drivers, DriverAt,
     GroupTimeOut
<1>6. QED
  BY <1>4, <1>5 DEF Keeps

LEMMA GroupSpuriousType ==
  ASSUME IInv, GroupSpurious
  PROVE  Keeps
<1>1. UNCHANGED <<cfgN, devL, fill, readyCnt, dpc, pkts, hit, decs, todo, scan, reg,
                 fReady, owed, met, early>>
  BY DEF GroupSpurious, CallBack, groupVars, cbVars, fileVars
<1>2. outN' \in 0 .. MaxUntold
  BY AudioGroupAssumption, SMTT(60) DEF IInv, GroupTypeOK, GroupSpurious
<1>3. gpc' \in {"end", "wait", "check", "call"}
  BY DEF GroupSpurious
<1>4. GroupTypeOK'
  BY <1>1, <1>2, <1>3 DEF IInv, GroupTypeOK, FDevs
<1>5. \A s \in Drivers : DriverOK(s)'
  BY <1>1 DEF IInv, GroupTypeOK, DriverOK, InCall, Looking, Go, Drivers, DriverAt,
     GroupSpurious
<1>6. QED
  BY <1>4, <1>5 DEF Keeps

LEMMA AdvanceType ==
  ASSUME IInv, Advance
  PROVE  Keeps
<1>1. UNCHANGED <<cfgN, devL, readyCnt, dpc, pkts, hit, decs, todo, scan, reg, fReady,
                 owed, met, early, outN>>
  BY DEF Advance, CallBack, groupVars, cbVars, fileVars
<1>2. \A p \in Ports : p \in RangeOf(Records) => fill[p] > 0
  BY DEF IInv, GroupOK, Advance, RangeOf
<1>3. fill' \in [Ports -> 0 .. Cap]
  <2>1. \A p \in Ports : fill[p] \in 0 .. Cap /\ Cap \in Nat
    BY AudioGroupAssumption DEF IInv, GroupTypeOK
  <2>2. \A p \in Ports : (IF p \in RangeOf(Records) THEN fill[p] - 1 ELSE fill[p])
                           \in 0 .. Cap
    BY <1>2, <2>1
  <2>3. QED
    BY <2>2 DEF Advance
<1>4. gpc' \in {"end", "wait", "check", "call"}
  BY DEF Advance
<1>5. GroupTypeOK'
  BY <1>1, <1>3, <1>4 DEF IInv, GroupTypeOK, FDevs
<1>6. \A s \in Drivers : DriverOK(s)'
  BY <1>1 DEF IInv, GroupTypeOK, DriverOK, InCall, Looking, Go, Drivers, DriverAt, Advance
<1>7. QED
  BY <1>5, <1>6 DEF Keeps

------------------------------------------------------------------------------
(* The group *)

\* The steps that leave the lists alone.
LEMMA ListsSame ==
  ASSUME IInv, UNCHANGED groupVars
  PROVE  (\A r \in GroupDirs : ListOK(r))' /\ Started' = Started /\ Records' = Records
<1>1. UNCHANGED <<cfgN, devL>>
  BY DEF groupVars
<1>2. QED
  BY <1>1 DEF IInv, GroupOK, ListOK, Started, Records, Listed

\* The steps that leave the lists and the group's thread alone, and no ring emptier.
LEMMA GroupSame ==
  ASSUME IInv, UNCHANGED <<groupVars, gpc>>,
         fill' = fill \/ \E ps : fill' = Updated(ps)
  PROVE  GroupOK'
<1>1. (\A r \in GroupDirs : ListOK(r))' /\ Started' = Started /\ Records' = Records
  BY ListsSame
<1>2. \A p \in Ports : fill[p] > 0 => fill'[p] > 0
  BY UpdatedType
<1>3. Records \in Seq(Ports)
  BY RecordsType DEF IInv, GroupOK
<1>4. \A i \in DOMAIN Records : Records[i] \in Ports
  BY <1>3
<1>5. QED
  BY <1>1, <1>2, <1>4 DEF IInv, GroupOK

\* The next device comes to the end of its list, or pushes the list's head away.
LEMMA ConfigureKeeps ==
  ASSUME IInv, Configure
  PROVE  Keeps /\ GroupOK'
<1>1. PICK e \in 1 .. Len(CfgL) : e = cfgN + 1 /\ cfgN' = e /\ cfgN \in Nat
  BY CfgType DEF IInv, GroupTypeOK, Configure
<1>2. PICK c \in Ports : c = CfgL[e]
  BY <1>1, CfgType
<1>3. c = <<c[1], c[2]>> /\ c[2] \in GroupDirs /\ c[1] \in Devs
  BY PortType
<1>4. devL' = [devL EXCEPT ![c[2]] = AddDevice(devL[c[2]], c[1])]
  BY <1>1, <1>2 DEF Configure
<1>5. UNCHANGED <<fill, readyCnt, gpc, dpc, pkts, hit, decs, todo, scan, reg, fReady,
                  owed, met, early, outN>>
  BY DEF Configure, cbVars, fileVars
<1>6. PICK l \in Seq(Devs) : l = devL[c[2]]
  BY <1>3 DEF IInv, GroupTypeOK, Devs
<1>7. PICK m \in Seq(Devs) :
        /\ m = AddDevice(l, c[1])
        /\ \A k \in DOMAIN m : m[k] = c[1] \/ \E i \in DOMAIN l : m[k] = l[i]
  <2>1. CASE Len(l) < 2
    <3>1. /\ Append(l, c[1]) \in Seq(Devs) /\ DOMAIN Append(l, c[1]) = 1 .. (Len(l) + 1)
          /\ \A k \in 1 .. Len(l) : Append(l, c[1])[k] = l[k]
          /\ Append(l, c[1])[Len(l) + 1] = c[1]
      BY <1>3, <1>6
    <3>2. DOMAIN l = 1 .. Len(l) /\ Len(l) \in Nat
      OBVIOUS
    <3>3. \A k \in 1 .. (Len(l) + 1) : k \in 1 .. Len(l) \/ k = Len(l) + 1
      BY <3>2
    <3>4. QED
      BY <2>1, <3>1, <3>2, <3>3, ZenonT(60) DEF AddDevice
  <2>2. CASE ~(Len(l) < 2)
    <3>1. PICK z \in Devs : z = l[Len(l)] /\ Len(l) \in DOMAIN l
      BY <2>2
    <3>2. <<z, c[1]>> \in Seq(Devs) /\ DOMAIN <<z, c[1]>> = 1 .. 2
          /\ <<z, c[1]>>[1] = z /\ <<z, c[1]>>[2] = c[1]
      BY <1>3
    <3>3. \A k \in 1 .. 2 : k = 1 \/ k = 2
      OBVIOUS
    <3>4. QED
      BY <2>2, <3>1, <3>2, <3>3 DEF AddDevice
  <2>3. QED
    BY <2>1, <2>2
<1>8. devL \in [GroupDirs -> Seq(Devs)]
  BY DEF IInv, GroupTypeOK, Devs
<1>9. devL' = [devL EXCEPT ![c[2]] = m] /\ devL' \in [GroupDirs -> Seq(Devs)]
  BY <1>3, <1>4, <1>6, <1>7, <1>8
<1>10. GroupTypeOK'
  <2>1. devL' \in [GroupDirs -> Seq({p[1] : p \in Ports})]
    BY <1>9 DEF Devs
  <2>2. cfgN' \in 0 .. Len(CfgL)
    BY <1>1, CfgType
  <2>3. QED
    BY <1>5, <2>1, <2>2 DEF IInv, GroupTypeOK
<1>11. \A s \in Drivers : DriverOK(s)'
  BY <1>5 DEF IInv, DriverOK
<1>12. ASSUME NEW r \in GroupDirs
       PROVE  ListOK(r)'
  <2>1. ListOK(r)
    BY DEF IInv, GroupOK
  <2>2. CASE r = c[2]
    <3>1. devL'[r] = m /\ devL[r] = l
      BY <1>6, <1>8, <1>9, <2>2
    <3>2. \A k \in DOMAIN m : <<m[k], r>> \in Ports
      BY <1>3, <1>7, <2>1, <2>2, <3>1 DEF ListOK
    <3>3. QED
      BY <3>1, <3>2 DEF ListOK
  <2>3. CASE r # c[2]
    BY <1>8, <1>9, <2>1, <2>3 DEF ListOK
  <2>4. QED
    BY <2>2, <2>3
<1>13. gpc' = "end"
  BY <1>5 DEF IInv, GroupOK, Configure, Started
<1>14. QED
  BY <1>10, <1>11, <1>12, <1>13 DEF GroupOK, Keeps

\* The steps that change the group's thread.
LEMMA ThreadGroup ==
  ASSUME IInv, GroupWait \/ GroupTimeOut \/ GroupSpurious \/ Advance \/ BufIsReady
               \/ \E t \in Drivers : Signal(t)
  PROVE  GroupOK'
<1>1. (\A r \in GroupDirs : ListOK(r))' /\ Started' = Started /\ Records' = Records
  BY ListsSame DEF GroupWait, GroupTimeOut, GroupSpurious, Advance, BufIsReady, Signal
<1>2. CASE GroupWait
  BY <1>1, <1>2 DEF IInv, GroupOK, GroupWait
<1>3. CASE GroupTimeOut \/ GroupSpurious
  BY <1>1, <1>3 DEF IInv, GroupOK, GroupTimeOut, GroupSpurious
<1>4. CASE Advance
  BY <1>1, <1>4 DEF IInv, GroupOK, Advance
<1>5. CASE BufIsReady
  BY <1>1, <1>5 DEF IInv, GroupOK, BufIsReady, AllReady, Ready
<1>6. CASE \E t \in Drivers : Signal(t)
  BY <1>1, <1>6 DEF IInv, GroupOK, Signal
<1>7. QED
  BY <1>2, <1>3, <1>4, <1>5, <1>6

------------------------------------------------------------------------------
(* All steps *)

LEMMA IInvInit ==
  ASSUME GroupInit
  PROVE  IInv
<1>1. GroupTypeOK
  <2>1. <<>> \in Seq(Ports) /\ <<>> \in Seq(FDevs) /\ <<>> \in Seq(Seq(FDevs))
        /\ <<>> \in Seq(Devs)
    OBVIOUS
  <2>2. devL \in [GroupDirs -> Seq(Devs)]
    BY <2>1 DEF GroupInit
  <2>3. fill \in [Ports -> 0 .. Cap] /\ cfgN \in 0 .. Len(CfgL) /\ outN \in 0 .. MaxUntold
    BY AudioGroupAssumption, CfgType DEF GroupInit
  <2>4. readyCnt \in [Ports -> 0 .. ReadyMax] /\ reg \in [Drivers -> 0 .. ReadyMax]
        /\ fReady \in [FDevs -> 0 .. ReadyMax] /\ owed \in [FDevs -> Int]
    BY DEF GroupInit, ReadyMax, FDevs
  <2>5. pkts \in [Drivers -> Seq(Ports)] /\ decs \in [Drivers -> Seq(Ports)]
        /\ todo \in [Drivers -> Seq(Seq(FDevs))] /\ scan \in [Drivers -> Seq(FDevs)]
    BY <2>1 DEF GroupInit
  <2>6. dpc \in [Drivers -> DriverAt] /\ hit \in [Drivers -> BOOLEAN] /\ gpc = "end"
    BY DEF GroupInit, Drivers, DriverAt
  <2>7. met \subseteq FDevs /\ early \in BOOLEAN
    BY DEF GroupInit
  <2>8. QED
    BY <2>2, <2>3, <2>4, <2>5, <2>6, <2>7 DEF GroupTypeOK, Devs, FDevs
<1>2. \A t \in Drivers : DriverOK(t)
  BY DEF GroupInit, Drivers, DriverOK, InCall, Looking
<1>3. \A r \in GroupDirs : ListOK(r)
  <2> TAKE r \in GroupDirs
  <2>1. devL[r] = <<>>
    BY DEF GroupInit
  <2>2. DOMAIN devL[r] = {}
    BY <2>1
  <2>3. QED
    BY <2>2 DEF ListOK
<1>4. QED
  BY <1>1, <1>2, <1>3 DEF IInv, GroupOK, GroupInit

LEMMA IInvStep ==
  ASSUME IInv, [GroupNext]_allVars
  PROVE  IInv'
<1>1. CASE Configure
  BY <1>1, ConfigureKeeps DEF IInv, Keeps
<1>2. ASSUME NEW p \in Ports, Packet(p)
      PROVE  IInv'
  <2>1. UNCHANGED <<groupVars, gpc>> /\ fill' = Updated(<<p>>)
    BY <1>2 DEF Packet, CallBack
  <2>2. QED
    BY <1>2, <2>1, PacketType, GroupSame DEF IInv, Keeps
<1>3. ASSUME NEW t \in Drivers, DriverStep(t)
      PROVE  IInv'
  <2>1. Keeps
    BY <1>3, LoadType, StoreType, NotifyType, DecrType, PutBackType,
       SignalType, SyncedType, SyncType, ExecuteType, TellType DEF DriverStep
  <2>2. GroupOK'
    <3>1. CASE Signal(t)
      BY <3>1, ThreadGroup
    <3>2. CASE Execute(t)
      <4>1. UNCHANGED <<groupVars, gpc>> /\ (fill' = fill \/ \E ps : fill' = Updated(ps))
        BY <3>2, ZenonT(60) DEF Execute, CallBack
      <4>2. QED
        BY <4>1, GroupSame
    <3>3. CASE ~Execute(t) /\ ~Signal(t)
      <4>1. UNCHANGED <<groupVars, fill, gpc>>
        BY <1>3, <3>3, ZenonT(60) DEF DriverStep, Load, Store, Notify, Decr, PutBack,
           Synced, Sync, Tell
      <4>2. QED
        BY <4>1, GroupSame
    <3>4. QED
      BY <3>1, <3>2, <3>3
  <2>3. QED
    BY <2>1, <2>2 DEF IInv, Keeps
<1>4. CASE FileStep \/ FileTimeOut \/ FileSpurious
  <2>1. Keeps
    BY <1>4, FileWaitType, FileTimeOutType, FileSpuriousType, FileScanType, FileTakeType,
       FileRunType DEF FileStep
  <2>2. UNCHANGED <<groupVars, gpc>> /\ (fill' = fill \/ \E ps : fill' = Updated(ps))
    BY <1>4, ZenonT(60) DEF FileStep, FileWait, FileTimeOut, FileSpurious, FileScan,
       FileTake, FileRun, CallBack
  <2>3. QED
    BY <2>1, <2>2, GroupSame DEF IInv, Keeps
<1>5. CASE GroupStep \/ GroupTimeOut \/ GroupSpurious
  <2>1. Keeps
    BY <1>5, GroupWaitType, GroupTimeOutType, GroupSpuriousType, BufIsReadyType, AdvanceType
       DEF GroupStep
  <2>2. GroupOK'
    BY <1>5, ThreadGroup DEF GroupStep
  <2>3. QED
    BY <2>1, <2>2 DEF IInv, Keeps
<1>6. CASE UNCHANGED allVars
  <2>1. GroupTypeOK' /\ (\A s \in Drivers : DriverOK(s))'
    BY <1>6 DEF IInv, GroupTypeOK, DriverOK, allVars, groupVars, cbVars, fileVars
  <2>2. GroupOK'
    BY <1>6, GroupSame DEF allVars
  <2>3. QED
    BY <2>1, <2>2 DEF IInv
<1>7. QED
  BY <1>1, <1>2, <1>3, <1>4, <1>5, <1>6 DEF GroupNext

\* The types of a group and its drivers, for every group: rings and lists stay within
\* their size, and _audioGroupThreadFunc() takes no cycle from an empty ring.
THEOREM GroupTypes == GroupSpec => []GroupTypeOK
<1>1. GroupInit => IInv
  BY IInvInit
<1>2. IInv => GroupTypeOK
  BY DEF IInv
<1>3. IInv /\ [GroupNext]_allVars => IInv'
  BY IInvStep
<1>4. QED
  BY <1>1, <1>2, <1>3, PTL DEF GroupSpec

------------------------------------------------------------------------------
(* A file device with the driver's clock *)

\* The count of a device says no more than the clock: it is read before the device is
\* run, and what is stored in it afterwards is less than what was read.
TickOK(d) ==
  d \notin met =>
    /\ fReady[d] <= owed[d]
    /\ dpc["file"] \in {"take", "less"} /\ Head(scan["file"]) = d => fReady[d] >= 1
    /\ dpc["file"] = "less" /\ Head(scan["file"]) = d =>
         reg["file"] >= 1 /\ reg["file"] <= owed[d]

LEMMA TickTypes ==
  ASSUME IInv
  PROVE  /\ owed \in [FDevs -> Int] /\ fReady \in [FDevs -> 0 .. ReadyMax]
         /\ dpc \in [Drivers -> DriverAt] /\ scan \in [Drivers -> Seq(FDevs)]
         /\ reg \in [Drivers -> 0 .. ReadyMax] /\ met \subseteq FDevs
         /\ "file" \in Drivers /\ "alsa" \in Drivers /\ Internal \subseteq FDevs
  BY AudioGroupAssumption DEF IInv, GroupTypeOK, FDevs, Drivers

\* The steps that leave the counts, and the thread's place among its devices.
LEMMA TickSame ==
  ASSUME NEW d, TickOK(d), UNCHANGED <<fReady, owed, met>>,
         \/ dpc'["file"] \notin {"take", "less"}
         \/ UNCHANGED <<dpc["file"], scan["file"], reg["file"]>>
  PROVE  TickOK(d)'
  BY DEF TickOK

LEMMA ExecuteIs ==
  ASSUME IInv, NEW t \in Drivers, Execute(t)
  PROVE  \E e \in FDevs :
           /\ e = Head(Head(todo[t]))
           /\ fReady' = [fReady EXCEPT ![e] = Up(reg[t])]
           /\ owed' = [owed EXCEPT ![e] = IF e \in Internal THEN Up(owed[e]) ELSE owed[e]]
           /\ met' = IF fReady[e] < reg[t] THEN met \cup {e} ELSE met
           /\ dpc' = [dpc EXCEPT ![t] = IF e \in Internal THEN "tell" ELSE "ready"]
           /\ reg' = [reg EXCEPT ![t] = 0] /\ UNCHANGED <<scan, early>>
           /\ dpc[t] = "execute"
<1>1. todo[t] \in Seq(Seq(FDevs)) /\ todo[t] # <<>> /\ Head(todo[t]) # <<>>
  BY DEF IInv, GroupTypeOK, DriverOK, InCall, FDevs, Execute
<1>2. Head(todo[t]) \in Seq(FDevs)
  BY <1>1, HeadTail
<1>3. Head(Head(todo[t])) \in FDevs
  BY <1>1, <1>2, HeadTail
<1>4. QED
  BY <1>3 DEF Execute, CallBack, Go

LEMMA TickStep ==
  ASSUME IInv, NEW d \in Internal, TickOK(d), [GroupNext]_allVars
  PROVE  TickOK(d)'
<1> USE TickTypes
<1>1. CASE Configure \/ (\E p \in Ports : Packet(p)) \/ GroupStep \/ GroupTimeOut
           \/ GroupSpurious \/ UNCHANGED allVars
  <2>1. UNCHANGED <<scan, reg, fReady, owed, met>>
    BY <1>1 DEF Configure, Packet, GroupStep, GroupWait, GroupTimeOut, GroupSpurious,
       BufIsReady, Advance, allVars, cbVars, fileVars
  <2>2. UNCHANGED dpc \/ dpc' = [dpc EXCEPT !["alsa"] = "ready"]
    BY <1>1 DEF Configure, Packet, CallBack, GroupStep, GroupWait, GroupTimeOut,
       GroupSpurious, BufIsReady, Advance, Go, allVars, cbVars
  <2>3. dpc'["file"] = dpc["file"]
    BY <2>2
  <2>4. QED
    BY <2>1, <2>3, TickSame
<1>2. ASSUME NEW t \in Drivers,
             Load(t) \/ Store(t) \/ Notify(t) \/ Decr(t) \/ PutBack(t)
             \/ Signal(t) \/ Synced(t) \/ Sync(t) \/ Tell(t)
      PROVE  TickOK(d)'
  <2>1. UNCHANGED <<scan, fReady, owed, met>>
    BY <1>2 DEF Load, Store, Notify, Decr, PutBack, Signal, Synced, Sync, Tell, fileVars
  <2>2. /\ dpc[t] \in {"ready", "store", "decr", "put", "sync", "tell"}
        /\ \A s \in Drivers : s # t =>
             reg'[s] = reg[s] /\ (dpc'[s] = dpc[s] \/ dpc'[s] = "scan")
        /\ dpc'[t] \notin {"take", "less"}
    <3>1. dpc[t] \in {"ready", "store", "decr", "put", "sync", "tell"}
      BY <1>2, ZenonT(60) DEF Load, Store, Notify, Decr, PutBack, Signal, Synced, Sync, Tell
    <3>2. CASE Tell(t)
      BY <3>1, <3>2 DEF Tell
    <3>3. CASE ~Tell(t)
      <4>1. (\E at : at \notin {"take", "less"} /\ dpc' = [dpc EXCEPT ![t] = at])
            \/ UNCHANGED dpc
        BY <1>2, <3>3, ZenonT(60) DEF Load, Store, Notify, Decr, PutBack, Signal, Synced,
           Sync, Go, Back, Rest
      <4>2. (\E r : reg' = [reg EXCEPT ![t] = r]) \/ UNCHANGED reg
        BY <1>2, <3>3, ZenonT(60) DEF Load, Store, Notify, Decr, PutBack, Signal, Synced,
           Sync
      <4>3. QED
        BY <3>1, <4>1, <4>2
    <3>4. QED
      BY <3>1, <3>2, <3>3
  <2>3. QED
    BY <2>1, <2>2, TickSame
<1>3. ASSUME NEW t \in Drivers, Execute(t)
      PROVE  TickOK(d)'
  <2>1. PICK e \in FDevs :
          /\ fReady' = [fReady EXCEPT ![e] = Up(reg[t])]
          /\ owed' = [owed EXCEPT ![e] = IF e \in Internal THEN Up(owed[e]) ELSE owed[e]]
          /\ met' = IF fReady[e] < reg[t] THEN met \cup {e} ELSE met
          /\ dpc' = [dpc EXCEPT ![t] = IF e \in Internal THEN "tell" ELSE "ready"]
          /\ reg' = [reg EXCEPT ![t] = 0] /\ scan' = scan
    BY <1>3, ExecuteIs
  <2>2. SUFFICES ASSUME d \notin met'
                 PROVE  TickOK(d)'
    BY DEF TickOK
  <2>3. d \notin met /\ (e = d => fReady[d] >= reg[t])
    BY <2>1, <2>2
  <2>4. /\ fReady'[d] <= owed'[d] /\ owed'[d] >= owed[d]
        /\ fReady[d] >= 1 => fReady'[d] >= 1
    <3>1. CASE e = d
      <4>1. fReady'[d] = Up(reg[t]) /\ owed'[d] = Up(owed[d])
        BY <2>1, <3>1
      <4>2. reg[t] <= fReady[d] /\ fReady[d] <= owed[d]
        BY <2>3, <3>1 DEF TickOK
      <4>3. reg[t] \in 0 .. 2 /\ fReady[d] \in Nat /\ owed[d] \in Int
        <5>1. reg[t] \in 0 .. ReadyMax /\ d \in FDevs
          OBVIOUS
        <5>2. fReady[d] \in 0 .. ReadyMax /\ owed[d] \in Int
          BY <5>1
        <5>3. QED
          BY <5>1, <5>2 DEF ReadyMax
      <4>4. QED
        BY <4>1, <4>2, <4>3 DEF Up, ReadyMax
    <3>2. CASE e # d
      BY <2>1, <2>3, <3>2 DEF TickOK
    <3>3. QED
      BY <3>1, <3>2
  <2>5. \/ dpc'["file"] \notin {"take", "less"}
        \/ UNCHANGED <<dpc["file"], scan["file"], reg["file"]>>
    BY <2>1
  <2>6. owed[d] \in Int /\ owed'[d] \in Int /\ reg["file"] \in Int
    <3>1. owed[d] \in Int /\ Up(owed[d]) \in Int
      BY DEF Up
    <3>2. QED
      BY <2>1, <3>1
  <2>7. QED
    BY <2>3, <2>4, <2>5, <2>6 DEF TickOK
<1>4. CASE FileWait \/ FileTimeOut \/ FileSpurious
  <2>1. UNCHANGED <<fReady, owed, met>>
    BY <1>4 DEF FileWait, FileTimeOut, FileSpurious, fileVars
  <2>2. \E at \in {"fwait", "rest", "scan"} : dpc' = [dpc EXCEPT !["file"] = at]
    BY <1>4 DEF FileWait, FileTimeOut, FileSpurious, TimeOutRests, Go
  <2>3. dpc'["file"] \notin {"take", "less"}
    BY <2>2
  <2>4. QED
    BY <2>1, <2>3, TickSame
<1>5. CASE FileScan
  <2>1. UNCHANGED <<fReady, owed, met, reg>>
    BY <1>5 DEF FileScan, fileVars
  <2>2. CASE fReady[Head(scan["file"])] > 0
    <3>1. scan' = scan /\ dpc'["file"] = "take"
      BY <1>5, <2>2 DEF FileScan, Go
    <3>2. Head(scan["file"]) = d => fReady[d] >= 1
      BY <2>2
    <3>3. QED
      BY <2>1, <3>1, <3>2 DEF TickOK
  <2>3. CASE ~(fReady[Head(scan["file"])] > 0)
    <3>1. dpc'["file"] \notin {"take", "less"}
      BY <1>5, <2>3 DEF FileScan, Go, Rest
    <3>2. QED
      BY <2>1, <3>1, TickSame
  <2>4. QED
    BY <2>2, <2>3
<1>6. CASE FileTake
  <2>1. UNCHANGED <<fReady, owed, met, scan>> /\ dpc["file"] = "take"
    BY <1>6 DEF FileTake, fileVars
  <2>2. dpc'["file"] = "less" /\ reg'["file"] = fReady[Head(scan["file"])]
    BY <1>6 DEF FileTake, Go
  <2>3. QED
    BY <2>1, <2>2 DEF TickOK
<1>7. CASE FileRun
  <2>1. PICK e \in FDevs : e = Head(scan["file"])
    BY <1>7, HeadTail DEF FileRun, IInv, DriverOK, Looking
  <2>2. /\ dpc["file"] = "less" /\ met' = met
        /\ fReady' = [fReady EXCEPT ![e] = Down(reg["file"])]
        /\ owed' = [owed EXCEPT ![e] = IF e \in Internal THEN owed[e] - 1 ELSE owed[e]]
        /\ dpc'["file"] = "ready"
    BY <1>7, <2>1 DEF FileRun, CallBack, Go
  <2>3. CASE e = d
    <3>1. SUFFICES ASSUME d \notin met
                   PROVE  fReady'[d] <= owed'[d]
      BY <2>2 DEF TickOK
    <3>2. reg["file"] >= 1 /\ reg["file"] <= owed[d] /\ reg["file"] \in Nat
      BY <2>1, <2>2, <2>3, <3>1 DEF TickOK
    <3>3. fReady'[d] = reg["file"] - 1 /\ owed'[d] = owed[d] - 1
      BY <2>2, <2>3, <3>2 DEF Down
    <3>4. QED
      BY <3>2, <3>3
  <2>4. CASE e # d
    <3>1. fReady'[d] = fReady[d] /\ owed'[d] = owed[d]
      BY <2>2, <2>4
    <3>2. QED
      BY <2>2, <3>1 DEF TickOK
  <2>5. QED
    BY <2>3, <2>4
<1>8. QED
  BY <1>1, <1>2, <1>3, <1>4, <1>5, <1>6, <1>7 DEF GroupNext, DriverStep, FileStep

\* No internal device is run without a tick of its own, unless an execution crossed an
\* update of it.
NoTickTwice == \A d \in Internal : d \notin met => owed[d] >= 0

\* For any group and any devices of the file driver, and however its thread wakes:
\* what an internal device is run more often than it was executed comes from an
\* execution that stored the device's count over an update that it had not seen.
THEOREM TicksCounted == GroupSpec => []NoTickTwice
<1> DEFINE AllOK == \A d \in Internal : TickOK(d)
<1>1. GroupInit => IInv /\ AllOK
  <2>1. ASSUME GroupInit, NEW d \in Internal
        PROVE  TickOK(d)
    <3>1. d \in FDevs
      BY AudioGroupAssumption DEF FDevs
    <3>2. fReady[d] = 0 /\ owed[d] = 0 /\ dpc["file"] = "rest"
      BY <2>1, <3>1 DEF GroupInit, Drivers, FDevs
    <3>3. QED
      BY <3>2 DEF TickOK
  <2>2. QED
    BY <2>1, IInvInit
<1>2. IInv /\ AllOK /\ [GroupNext]_allVars => (IInv /\ AllOK)'
  <2>1. ASSUME IInv, AllOK, [GroupNext]_allVars
        PROVE  AllOK'
    BY <2>1, TickStep
  <2>2. QED
    BY <2>1, IInvStep
<1>3. IInv /\ AllOK => NoTickTwice
  <2>1. ASSUME IInv, AllOK, NEW d \in Internal, d \notin met
        PROVE  owed[d] >= 0
    <3>1. fReady[d] <= owed[d] /\ fReady[d] >= 0 /\ fReady[d] \in Int /\ owed[d] \in Int
      BY <2>1, TickTypes DEF TickOK
    <3>2. QED
      BY <3>1
  <2>2. QED
    BY <2>1 DEF NoTickTwice
<1>4. QED
  BY <1>1, <1>2, <1>3, PTL DEF GroupSpec

\* The file driver has one device, which its own thread runs.
OneInternal == \E d : FileDevs = <<d>> /\ Internal = {d}

\* The thread was woken and has not run its device yet.
Pending == dpc["file"] \in {"scan", "take", "less"}

Telling == dpc["alsa"] = "tell"

\* Each wake-up was preceded by an execution of its own, until one comes untold.
WakeOK(d) ==
  /\ scan["file"] \in {<<>>, FileDevs}
  /\ dpc["file"] \in InCall => scan["file"] = <<>>
  /\ ~early =>
       /\ owed[d] >= 0
       /\ Pending \/ Telling => owed[d] >= 1
       /\ Pending /\ Telling => owed[d] >= 2

LEMMA WakeStep ==
  ASSUME IInv, NEW d \in FDevs, FileDevs = <<d>>, Internal = {d},
         WakeOK(d), [GroupNext]_allVars
  PROVE  WakeOK(d)'
<1> USE TickTypes DEF WakeOK, Pending, Telling, InCall
<1>1. PICK k \in Int : k = owed[d]
  OBVIOUS
<1>2. FDevs = {d} /\ Head(FileDevs) = d /\ Tail(FileDevs) = <<>> /\ FileDevs # <<>>
  BY DEF FDevs, RangeOf
<1>3. ASSUME UNCHANGED <<scan, owed, early>>, UNCHANGED dpc["file"],
             UNCHANGED dpc["alsa"] \/ dpc'["alsa"] # "tell"
      PROVE  WakeOK(d)'
  <2>1. dpc["alsa"]' = dpc["alsa"] \/ dpc["alsa"]' # "tell"
    BY <1>3
  <2>2. dpc["file"]' = dpc["file"] /\ scan' = scan /\ owed' = owed /\ early' = early
    BY <1>3
  <2>3. scan'["file"] \in {<<>>, FileDevs} /\ owed'[d] = k
    BY <1>1, <2>2
  <2>4. dpc'["file"] \in InCall => scan'["file"] = <<>>
    BY <2>2
  <2>5. ~early' => /\ owed[d]' >= 0
                   /\ Pending' \/ Telling' => owed[d]' >= 1
                   /\ Pending' /\ Telling' => owed[d]' >= 2
    BY <1>1, <2>1, <2>2, <2>3
  <2>6. QED
    BY <2>3, <2>4, <2>5
<1>4. CASE Configure \/ (\E p \in Ports : Packet(p)) \/ GroupStep \/ GroupTimeOut
           \/ GroupSpurious \/ UNCHANGED allVars
  <2>1. UNCHANGED <<scan, owed, early>>
    BY <1>4 DEF Configure, Packet, GroupStep, GroupWait, GroupTimeOut, GroupSpurious,
       BufIsReady, Advance, allVars, cbVars, fileVars
  <2>2. UNCHANGED dpc \/ dpc' = [dpc EXCEPT !["alsa"] = "ready"]
    BY <1>4 DEF Configure, Packet, CallBack, GroupStep, GroupWait, GroupTimeOut,
       GroupSpurious, BufIsReady, Advance, Go, allVars, cbVars
  <2>3. dpc'["file"] = dpc["file"] /\ (dpc'["alsa"] = dpc["alsa"] \/ dpc'["alsa"] # "tell")
    BY <2>2
  <2>4. QED
    BY <1>3, <2>1, <2>3
<1>5. ASSUME NEW t \in Drivers,
             Load(t) \/ Store(t) \/ Notify(t) \/ Decr(t) \/ PutBack(t)
             \/ Signal(t) \/ Synced(t) \/ Sync(t)
      PROVE  WakeOK(d)'
  <2>1. UNCHANGED <<scan, owed, early>>
    BY <1>5 DEF Load, Store, Notify, Decr, PutBack, Signal, Synced, Sync, fileVars
  <2>2. dpc[t] \in {"ready", "store", "decr", "put", "sync"}
    BY <1>5 DEF Load, Store, Notify, Decr, PutBack, Signal, Synced, Sync
  <2>3. PICK at : dpc' = [dpc EXCEPT ![t] = at]
                  /\ (at \in {"ready", "store", "decr", "put", "sync", "execute"}
                      \/ at = IF t = "alsa" THEN "idle" ELSE Rest(scan[t]))
    <3>1. CASE Synced(t)
      BY <3>1 DEF Synced, Back, Go
    <3>2. CASE ~Synced(t)
      <4>1. (\E at \in {"ready", "store", "decr", "put", "sync", "execute"} :
               dpc' = [dpc EXCEPT ![t] = at]) \/ UNCHANGED dpc
        BY <1>5, <3>2, ZenonT(60) DEF Load, Store, Notify, Decr, PutBack, Signal, Sync, Go
      <4>2. [dpc EXCEPT ![t] = dpc[t]] = dpc
        OBVIOUS
      <4>3. QED
        BY <2>2, <4>1, <4>2
    <3>3. QED
      BY <3>1, <3>2
  <2>4. CASE t = "alsa"
    BY <1>3, <2>1, <2>3, <2>4
  <2>5. CASE t = "file"
    <3>1. scan["file"] = <<>>
      BY <2>2, <2>5
    <3>2. dpc'["alsa"] = dpc["alsa"]
          /\ dpc'["file"] \in {"ready", "store", "decr", "put", "sync", "execute", "rest"}
      BY <2>3, <2>5, <3>1 DEF Rest
    <3>3. QED
      BY <2>1, <2>2, <2>5, <3>1, <3>2
  <2>6. QED
    BY <2>4, <2>5 DEF Drivers
<1>6. ASSUME NEW t \in Drivers, Execute(t)
      PROVE  WakeOK(d)'
  <2>1. /\ owed' = [owed EXCEPT ![d] = Up(owed[d])] /\ UNCHANGED <<scan, early>>
        /\ dpc' = [dpc EXCEPT ![t] = "tell"] /\ dpc[t] = "execute"
    BY <1>2, <1>6, ExecuteIs
  <2>2. PICK m \in Int : m = owed'[d] /\ m >= k /\ (m >= 2 \/ m = k + 1)
    <3>1. Up(k) \in Int /\ Up(k) >= k /\ (Up(k) >= 2 \/ Up(k) = k + 1)
      BY DEF Up, ReadyMax
    <3>2. QED
      BY <1>1, <2>1, <3>1
  <2>3. CASE t = "alsa"
    <3>1. dpc'["file"] = dpc["file"] /\ dpc["alsa"] # "tell"
      BY <2>1, <2>3
    <3>2. QED
      BY <1>1, <2>1, <2>2, <3>1
  <2>4. CASE t = "file"
    <3>1. dpc'["alsa"] = dpc["alsa"] /\ dpc'["file"] = "tell" /\ scan["file"] = <<>>
      BY <2>1, <2>4
    <3>2. QED
      BY <1>1, <2>1, <2>2, <3>1
  <2>5. QED
    BY <2>3, <2>4 DEF Drivers
<1>7. ASSUME NEW t \in Drivers, Tell(t)
      PROVE  WakeOK(d)'
  <2>1. UNCHANGED <<scan, owed, early>> /\ dpc[t] = "tell"
    BY <1>7 DEF Tell, fileVars
  <2>2. dpc' = [s \in Drivers |-> IF s = t THEN "sync"
                                  ELSE IF dpc[s] = "fwait" THEN "scan" ELSE dpc[s]]
    BY <1>7 DEF Tell
  <2>3. CASE t = "alsa"
    <3>1. /\ dpc'["alsa"] = "sync"
          /\ dpc'["file"] = IF dpc["file"] = "fwait" THEN "scan" ELSE dpc["file"]
      BY <2>2, <2>3
    <3>2. QED
      BY <2>1, <2>3, <3>1
  <2>4. CASE t = "file"
    <3>1. dpc'["file"] = "sync" /\ (dpc'["alsa"] = "tell" => dpc["alsa"] = "tell")
      BY <2>2, <2>4
    <3>2. scan["file"] = <<>>
      BY <2>1, <2>4
    <3>3. QED
      BY <2>1, <3>1, <3>2
  <2>5. QED
    BY <2>3, <2>4 DEF Drivers
<1>8. CASE FileWait \/ FileTimeOut
  <2>1. UNCHANGED <<owed, early>> /\ dpc["file"] \in {"rest", "fwait"}
    BY <1>8 DEF FileWait, FileTimeOut, fileVars
  <2>2. dpc' = [dpc EXCEPT !["file"] = "fwait"] \/ dpc' = [dpc EXCEPT !["file"] = "rest"]
    BY <1>8 DEF FileWait, FileTimeOut, TimeOutRests, Go
  <2>3. scan'["file"] \in {<<>>, FileDevs}
    BY <1>8 DEF FileWait, FileTimeOut
  <2>4. dpc'["alsa"] = dpc["alsa"] /\ dpc'["file"] \in {"rest", "fwait"}
    BY <2>2
  <2>5. QED
    BY <2>1, <2>3, <2>4
<1>9. CASE FileSpurious
  <2>1. early' = TRUE /\ scan' = scan /\ dpc'["file"] = "scan"
    BY <1>9 DEF FileSpurious, Go
  <2>2. QED
    BY <2>1
<1>10. CASE FileScan
  <2>1. UNCHANGED <<owed, early>> /\ dpc["file"] = "scan" /\ dpc'["alsa"] = dpc["alsa"]
    BY <1>10 DEF FileScan, Go, fileVars
  <2>2. scan["file"] = FileDevs
    BY <2>1 DEF IInv, DriverOK, Looking
  <2>3. \/ scan' = scan /\ dpc'["file"] = "take"
        \/ scan'["file"] = <<>> /\ dpc'["file"] = "rest"
    BY <1>2, <1>10, <2>2 DEF FileScan, Go, Rest
  <2>4. QED
    BY <2>1, <2>2, <2>3
<1>11. CASE FileTake
  <2>1. UNCHANGED <<scan, owed, early>> /\ dpc["file"] = "take"
    BY <1>11 DEF FileTake, fileVars
  <2>2. dpc'["alsa"] = dpc["alsa"] /\ dpc'["file"] = "less"
    BY <1>11 DEF FileTake, Go
  <2>3. QED
    BY <2>1, <2>2
<1>12. CASE FileRun
  <2>1. dpc["file"] = "less" /\ scan["file"] = FileDevs
    BY <1>12 DEF FileRun, IInv, DriverOK, Looking
  <2>2. owed' = [owed EXCEPT ![d] = owed[d] - 1] /\ early' = early
    BY <1>2, <1>12, <2>1 DEF FileRun
  <2>3. /\ scan' = [scan EXCEPT !["file"] = <<>>]
        /\ dpc' = [dpc EXCEPT !["file"] = "ready"]
    BY <1>2, <1>12, <2>1 DEF FileRun, CallBack, Go
  <2>4. owed'[d] = k - 1 /\ scan'["file"] = <<>> /\ dpc'["file"] = "ready"
        /\ dpc'["alsa"] = dpc["alsa"]
    BY <1>1, <2>2, <2>3
  <2>5. QED
    BY <1>1, <2>1, <2>2, <2>4
<1>13. QED
  BY <1>4, <1>5, <1>6, <1>7, <1>8, <1>9, <1>10, <1>11, <1>12
     DEF GroupNext, DriverStep, FileStep

\* A file driver with one device, which its thread runs: an execution that crossed an
\* update does no harm as long as every wake of the thread was told, since each wake
\* that was told has an execution of its own before it.
THEOREM OnePerTickAlways == OneInternal => (GroupSpec => []OnePerTick)
<1>1. SUFFICES ASSUME OneInternal
               PROVE  GroupSpec => []OnePerTick
  OBVIOUS
<1>2. PICK d : FileDevs = <<d>> /\ Internal = {d}
  BY <1>1 DEF OneInternal
<1>3. FDevs = {d}
  BY <1>2 DEF FDevs, RangeOf
<1>4. GroupInit => IInv /\ WakeOK(d)
  <2>1. ASSUME GroupInit
        PROVE  WakeOK(d)
    BY <1>3, <2>1 DEF GroupInit, WakeOK, Pending, Telling, Drivers, FDevs, InCall
  <2>2. QED
    BY <2>1, IInvInit
<1>5. IInv /\ WakeOK(d) /\ [GroupNext]_allVars => (IInv /\ WakeOK(d))'
  BY <1>2, <1>3, IInvStep, WakeStep
<1>6. IInv /\ WakeOK(d) /\ NoTickTwice => OnePerTick
  BY <1>2 DEF WakeOK, OnePerTick, NoTickTwice
<1>7. QED
  BY <1>4, <1>5, <1>6, TicksCounted, PTL DEF GroupSpec

=============================================================================
