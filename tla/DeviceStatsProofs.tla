------------------------- MODULE DeviceStatsProofs -------------------------
(***************************************************************************)
(* Proofs about DeviceStats, for a ring of any size and any number of      *)
(* frames and seconds.                                                     *)
(*                                                                         *)
(* Indices into the ring are remainders, so the first lemmas say what      *)
(* going round it does: seconds less than RATE_HISTORY_SIZE apart are in   *)
(* different slots, and every slot holds one of them.  Then comes one      *)
(* lemma for each part of IndInv, and what follows from it: RingIsHistory  *)
(* when the head is between two ticks, GraphFaithful when a graph was      *)
(* scaled by the highest rate of the ring.                                 *)
(***************************************************************************)
EXTENDS DeviceStats, TLAPS

LEMMA SizeIsPositive == RATE_HISTORY_SIZE \in Nat \ {0}
  BY DeviceStatsAssumption

(* Going round the ring.                                                   *)
LEMMA WrappedIsRest ==
  ASSUME NEW n \in Int
  PROVE  /\ Wrapped(n) \in Slots
         /\ \E q \in Int : n = RATE_HISTORY_SIZE * q + Wrapped(n)
<1>1. /\ n \div RATE_HISTORY_SIZE \in Int
      /\ n % RATE_HISTORY_SIZE \in 0 .. RATE_HISTORY_SIZE - 1
      /\ n = RATE_HISTORY_SIZE * (n \div RATE_HISTORY_SIZE) + (n % RATE_HISTORY_SIZE)
  BY SizeIsPositive
<1> QED
  BY <1>1 DEF Wrapped, Slots

LEMMA RestIsWrapped ==
  ASSUME NEW q \in Int, NEW r \in Slots
  PROVE  Wrapped(RATE_HISTORY_SIZE * q + r) = r
  BY SizeIsPositive DEF Wrapped, Slots

LEMMA WrappedSlot ==
  ASSUME NEW r \in Slots
  PROVE  /\ Wrapped(r) = r /\ Wrapped(r + RATE_HISTORY_SIZE) = r
         /\ r \in Nat /\ r < RATE_HISTORY_SIZE
  BY SizeIsPositive DEF Wrapped, Slots

LEMMA Multiple ==
  ASSUME NEW p \in Int, NEW q \in Int, p < q
  PROVE  RATE_HISTORY_SIZE * p + RATE_HISTORY_SIZE <= RATE_HISTORY_SIZE * q
  BY SizeIsPositive

LEMMA WrappedApart ==
  ASSUME NEW a \in Int, NEW b \in Int, a < b, Wrapped(a) = Wrapped(b)
  PROVE  a + RATE_HISTORY_SIZE <= b
<1>1. PICK p \in Int : a = RATE_HISTORY_SIZE * p + Wrapped(a)
  BY WrappedIsRest
<1>2. PICK q \in Int : b = RATE_HISTORY_SIZE * q + Wrapped(a)
  BY WrappedIsRest
<1>3. /\ Wrapped(a) \in Int /\ RATE_HISTORY_SIZE \in Int
      /\ RATE_HISTORY_SIZE * p \in Int /\ RATE_HISTORY_SIZE * q \in Int
  BY WrappedIsRest, SizeIsPositive DEF Slots
<1>4. p < q
  <2>1. SUFFICES ASSUME q <= p PROVE FALSE
    OBVIOUS
  <2>2. RATE_HISTORY_SIZE * q <= RATE_HISTORY_SIZE * p
    BY <2>1, Multiple, SizeIsPositive
  <2> QED
    BY <1>1, <1>2, <1>3, <2>2
<1>5. RATE_HISTORY_SIZE * p + RATE_HISTORY_SIZE <= RATE_HISTORY_SIZE * q
  BY <1>4, Multiple
<1> QED
  BY <1>1, <1>2, <1>3, <1>5

LEMMA WrappedPlus ==
  ASSUME NEW a \in Int, NEW b \in Int
  PROVE  Wrapped(Wrapped(a) + b) = Wrapped(a + b)
<1>1. PICK p \in Int : a = RATE_HISTORY_SIZE * p + Wrapped(a)
  BY WrappedIsRest
<1> DEFINE r == Wrapped(a)
           s == Wrapped(r + b)
<1>2. r \in Int /\ RATE_HISTORY_SIZE \in Int
  BY WrappedIsRest, SizeIsPositive DEF Slots
<1>3. r + b \in Int
  BY <1>2
<1>4. PICK q \in Int : r + b = RATE_HISTORY_SIZE * q + s
  BY <1>3, WrappedIsRest
<1>5. s \in Slots /\ s \in Int
  BY <1>3, WrappedIsRest DEF Slots
<1> HIDE DEF r, s
<1>6. /\ RATE_HISTORY_SIZE * (p + q) = RATE_HISTORY_SIZE * p + RATE_HISTORY_SIZE * q
      /\ RATE_HISTORY_SIZE * p \in Int /\ RATE_HISTORY_SIZE * q \in Int
  BY <1>2
<1>7. a = RATE_HISTORY_SIZE * p + r
  BY <1>1 DEF r
<1>8. a + b = RATE_HISTORY_SIZE * (p + q) + s
  BY <1>2, <1>4, <1>5, <1>6, <1>7
<1>9. Wrapped(RATE_HISTORY_SIZE * (p + q) + s) = s
  BY <1>5, RestIsWrapped, p + q \in Int
<1> QED
  BY <1>8, <1>9 DEF r, s

(* Every slot is the place of one of any RATE_HISTORY_SIZE seconds in a    *)
(* row.                                                                    *)
LEMMA WrappedLatest ==
  ASSUME NEW n \in Int, NEW slot \in Slots
  PROVE  \E k \in Int : k <= n /\ n < k + RATE_HISTORY_SIZE /\ Wrapped(k) = slot
<1> DEFINE r == Wrapped(n - slot)
<1>1. slot \in Int /\ n - slot \in Int /\ RATE_HISTORY_SIZE \in Int
  BY SizeIsPositive DEF Slots
<1>2. PICK q \in Int : n - slot = RATE_HISTORY_SIZE * q + r
  BY <1>1, WrappedIsRest
<1>3. r \in 0 .. RATE_HISTORY_SIZE - 1
  BY <1>1, WrappedIsRest DEF Slots
<1> HIDE DEF r
<1>4. RATE_HISTORY_SIZE * q \in Int
  BY <1>1
<1>5. RATE_HISTORY_SIZE * q + slot <= n /\ n < RATE_HISTORY_SIZE * q + slot + RATE_HISTORY_SIZE
  BY <1>1, <1>2, <1>3, <1>4
<1>6. Wrapped(RATE_HISTORY_SIZE * q + slot) = slot
  BY RestIsWrapped
<1> QED
  BY <1>1, <1>4, <1>5, <1>6

(* Scaling.                                                                *)
LEMMA DivUnique ==
  ASSUME NEW n \in Int, NEW d \in Nat \ {0}, NEW q \in Int, d * q <= n, n < d * q + d
  PROVE  n \div d = q
  OBVIOUS

LEMMA DivFloor ==
  ASSUME NEW n \in Nat, NEW d \in Nat \ {0}
  PROVE  n \div d \in Nat /\ d * (n \div d) <= n /\ n < d * (n \div d) + d
  OBVIOUS

LEMMA DivMono ==
  ASSUME NEW a \in Nat, NEW b \in Nat, NEW d \in Nat \ {0}, a <= b
  PROVE  a \div d <= b \div d
<1> DEFINE p == a \div d
           q == b \div d
<1>1. p \in Nat /\ q \in Nat /\ d * p <= a /\ b < d * q + d
  BY DivFloor
<1> HIDE DEF p, q
<1>2. ASSUME q < p PROVE FALSE
  <2>1. d * (q + 1) <= d * p
    BY <1>1, <1>2
  <2>2. d * (q + 1) = d * q + d /\ d * q \in Nat /\ d * p \in Nat
    BY <1>1
  <2> QED
    BY <1>1, <2>1, <2>2
<1> QED
  BY <1>1, <1>2 DEF p, q

LEMMA Blocks ==
  ASSUME NEW m \in Nat \ {0}
  PROVE  /\ Block(0, m) = 0 /\ Block(m, m) = 7
         /\ \A a, b \in Nat : a <= b => Block(a, m) <= Block(b, m)
         /\ \A a \in Nat : Block(a, m) \in Nat
<1>1. Block(0, m) = 0
  BY DivUnique, 14 * 0 + m = m, 2 * m \in Nat \ {0}, (2 * m) * 0 = 0 DEF Block
<1>2. Block(m, m) = 7
  BY DivUnique, 14 * m + m = 15 * m, 2 * m \in Nat \ {0}, (2 * m) * 7 = 14 * m DEF Block
<1>3. ASSUME NEW a \in Nat, NEW b \in Nat, a <= b PROVE Block(a, m) <= Block(b, m)
  <2>1. 14 * a + m \in Nat /\ 14 * b + m \in Nat /\ 2 * m \in Nat \ {0} /\ 14 * a + m <= 14 * b + m
    BY <1>3
  <2> QED
    BY <2>1, DivMono DEF Block
<1>4. ASSUME NEW a \in Nat PROVE Block(a, m) \in Nat
  <2>1. 14 * a + m \in Nat /\ 2 * m \in Nat \ {0}
    OBVIOUS
  <2> QED
    BY <2>1, DivFloor DEF Block
<1> QED
  BY <1>1, <1>2, <1>3, <1>4

LEMMA SecondOver ==
  ASSUME TypeOK, TickRate
  PROVE  /\ Len(totals') = Len(totals) + 1
         /\ \A k \in 0 .. Len(totals) : TotalAfter(k)' = TotalAfter(k)
         /\ \A k \in 1 .. Len(totals) : Rate(k)' = Rate(k)
         /\ TotalAfter(Len(totals))' = total
<1>1. totals \in Seq(Nat) /\ total \in Nat /\ totals' = Append(totals, total)
  BY DEF TypeOK, TickRate, StoresRate
<1>2. /\ Len(totals') = Len(totals) + 1 /\ Len(totals) \in Nat
      /\ \A k \in 1 .. Len(totals) : totals'[k] = totals[k]
      /\ totals'[Len(totals) + 1] = total
  BY <1>1
<1>3. ASSUME NEW k \in 0 .. Len(totals)
      PROVE  TotalAfter(k)' = TotalAfter(k)
  <2> (k > 0)' <=> k > 0
    OBVIOUS
  <2> QED
    BY <1>2 DEF TotalAfter
<1>4. ASSUME NEW k \in 1 .. Len(totals)
      PROVE  Rate(k)' = Rate(k)
  <2> k \in 0 .. Len(totals) /\ k - 1 \in 0 .. Len(totals)
    BY <1>2
  <2> QED
    BY <1>3 DEF Rate
<1>5. TotalAfter(Len(totals))' = total
  BY <1>2 DEF TotalAfter
<1> QED
  BY <1>2, <1>3, <1>4, <1>5

LEMMA SameHistory ==
  ASSUME totals' = totals
  PROVE  \A k : TotalAfter(k)' = TotalAfter(k) /\ Rate(k)' = Rate(k)
BY DEF TotalAfter, Rate

LEMMA TypeInit == Init => TypeOK
BY DeviceStatsAssumption DEF Init, TypeOK, Slots

LEMMA TypeNext == TypeOK /\ Counted /\ Drawing /\ [Next]_vars => TypeOK'
<1> SUFFICES ASSUME TypeOK, Counted, Drawing, [Next]_vars PROVE TypeOK'
  OBVIOUS
<1> USE DeviceStatsAssumption
<1>1. CASE UNCHANGED vars
  BY <1>1 DEF TypeOK, vars, record, shown
<1>2. CASE RaiseFrameCount
  BY <1>2 DEF TypeOK, RaiseFrameCount, Net, shown
<1>3. CASE TickRate
  <2>1. totals' = Append(totals, total) /\ total \in Nat /\ totals \in Seq(Nat) /\ began \in 0 .. Len(totals)
        /\ began' = began
    BY <1>3 DEF TypeOK, TickRate, StoresRate, Net
  <2>2. totals' \in Seq(Nat) /\ began' \in 0 .. Len(totals')
    BY <2>1
  <2>3. data' \in [Slots -> Nat]
    BY <1>3 DEF TypeOK, TickRate, StoresRate
  <2> QED
    BY <1>3, <2>2, <2>3 DEF TypeOK, TickRate, StoresRate, Net, shown
<1>4. CASE TickPrevious
  BY <1>4 DEF TypeOK, TickPrevious, Net, shown
<1>5. CASE TickHead
  <2>1. head' \in Slots
    <3> head + 1 \in Int
      BY SizeIsPositive DEF TypeOK, Slots
    <3> QED
      BY <1>5, WrappedIsRest DEF TickHead, NextHead
  <2> QED
    BY <1>5, <2>1 DEF TypeOK, TickHead, Net, shown
<1>6. CASE TickPublish
  BY <1>6 DEF TypeOK, TickPublish, Net, record, shown
<1>7. CASE DrawPopup
  BY <1>7 DEF TypeOK, DrawPopup, Main, record, shown
<1>17. CASE ShowTotal
  <2>1. shownTotal' \in Nat
    BY <1>17 DEF ShowTotal, TypeOK
  <2> QED
    BY <1>17, <2>1 DEF TypeOK, ShowTotal, Main, record
<1>16. CASE MainReadsTick
  BY <1>16 DEF TypeOK, MainReadsTick, Main, record, shown
<1>13. CASE ClosePopup
  <2>1. blocks' \in Seq(Nat) /\ Len(blocks') = 0
    BY <1>13 DEF ClosePopup
  <2> QED
    BY <1>13, <2>1 DEF TypeOK, ClosePopup, Main, record
<1>8. CASE RateReadsHead
  <2>1. Over \in 0 .. Len(totals)
    BY DEF Over, Counted, TypeOK
  <2> QED
    BY <1>8, <2>1 DEF TypeOK, RateReadsHead, Main, record, shown
<1>9. CASE ShowRate
  BY <1>9 DEF TypeOK, ShowRate, Main, record, shown, Slots
<1>10. CASE GraphBegins
  <2>1. blocks' \in Seq(Nat) /\ Len(blocks') = 0
    BY <1>10 DEF GraphBegins
  <2>2. max' \in Nat
    BY <1>10 DEF GraphBegins, TypeOK, Slots
  <2> QED
    BY <1>10, <2>1, <2>2 DEF TypeOK, GraphBegins, Main, record
<1>14. CASE GraphMax
  <2>1. max' \in Nat /\ i' \in 0 .. RATE_HISTORY_SIZE
    <3> i \in Slots
      BY <1>14 DEF TypeOK, GraphMax, Slots
    <3> QED
      BY <1>14 DEF TypeOK, GraphMax, SlotLookedAt, Slots
  <2> QED
    BY <1>14, <2>1 DEF TypeOK, GraphMax, Main, record, shown
<1>15. CASE GraphMaxFound
  BY <1>15 DEF TypeOK, GraphMaxFound, Main, record, shown
<1>11. CASE GraphReadsHead \/ ShowGraph
  BY <1>11 DEF TypeOK, GraphReadsHead, ShowGraph, Main, record, shown, Slots
<1>12. CASE GraphScales
  <2>1. Wrapped(h + i) \in Slots
    <3> h + i \in Int
      BY SizeIsPositive DEF TypeOK, Slots
    <3> QED
      BY WrappedIsRest
  <2>2. Block(data[Wrapped(h + i)], max) \in Nat
    <3>1. data[Wrapped(h + i)] \in Nat /\ max \in Nat \ {0}
      BY <1>12, <2>1 DEF TypeOK, GraphScales, Main
    <3> QED
      BY <3>1, Blocks
  <2>3. blocks \in Seq(Nat) /\ Len(blocks) = i /\ i < RATE_HISTORY_SIZE
    BY <1>12 DEF TypeOK, Drawing, GraphScales, Main
  <2>4. blocks' \in Seq(Nat) /\ Len(blocks') = i + 1
    BY <1>12, <2>2, <2>3 DEF GraphScales
  <2> QED
    BY <1>12, <2>3, <2>4 DEF TypeOK, GraphScales, Main, record
<1> QED
  BY <1>1, <1>2, <1>3, <1>4, <1>5, <1>6, <1>7, <1>8, <1>9, <1>10, <1>11, <1>12, <1>13, <1>14, <1>15, <1>16, <1>17
  DEF Next, NetStep, MainStep

LEMMA DrawingNext == TypeOK /\ Ring /\ Drawing /\ [Next]_vars => Drawing'
<1> SUFFICES ASSUME TypeOK, Ring, Drawing, [Next]_vars PROVE Drawing'
  OBVIOUS
<1>1. CASE UNCHANGED vars
  BY <1>1 DEF Drawing, vars, shown
<1>2. CASE NetStep
  BY <1>2 DEF Drawing, NetStep, RaiseFrameCount, TickRate, StoresRate, TickPrevious, TickHead, TickPublish,
    Net, shown
<1>3. CASE DrawPopup \/ ClosePopup \/ MainReadsTick \/ ShowTotal \/ ShowRate
  BY <1>3 DEF Drawing, DrawPopup, ClosePopup, MainReadsTick, ShowTotal, ShowRate, Main, shown
<1>4. CASE RateReadsHead
  BY <1>4 DEF Drawing, RateReadsHead, Main, Ring
<1>5. CASE GraphBegins \/ GraphMax \/ GraphMaxFound \/ GraphReadsHead \/ ShowGraph
  BY <1>5 DEF Drawing, GraphBegins, GraphMax, GraphMaxFound, GraphReadsHead, ShowGraph, Main, TypeOK, shown
<1>6. CASE GraphScales
  <2>1. blocks \in Seq(Nat) /\ Len(blocks) = i
    BY <1>6 DEF GraphScales, Main, TypeOK, Drawing
  <2>2. Len(blocks') = i'
    BY <1>6, <2>1 DEF GraphScales
  <2> QED
    BY <1>6, <2>2 DEF Drawing, GraphScales, Main
<1> QED
  BY <1>1, <1>2, <1>3, <1>4, <1>5, <1>6 DEF Next, MainStep

LEMMA CountedNext == TypeOK /\ Counted /\ [Next]_vars => Counted'
<1> SUFFICES ASSUME TypeOK, Counted, [Next]_vars PROVE Counted'
  OBVIOUS
<1>1. CASE UNCHANGED vars \/ MainStep
  <2>1. UNCHANGED <<record, netPc>>
    BY <1>1 DEF vars, MainStep, DrawPopup, ClosePopup, MainReadsTick, ShowTotal, RateReadsHead, ShowRate,
      GraphBegins, GraphMax, GraphMaxFound, GraphReadsHead, GraphScales, ShowGraph, Main
  <2> QED
    BY <2>1, SameHistory DEF Counted, record, TotalAfter
<1>2. CASE TickRate
  <2>1. /\ netPc = "loop" /\ netPc' = "previous" /\ previous' = previous /\ total' = total
        /\ Len(totals) \in Nat
    BY <1>2 DEF TickRate, StoresRate, Net, TypeOK
  <2>2. /\ Len(totals') = Len(totals) + 1
        /\ TotalAfter(Len(totals))' = total
        /\ \A k \in 0 .. Len(totals) : TotalAfter(k)' = TotalAfter(k)
    BY <1>2, SecondOver
  <2>3. TotalAfter(Len(totals) - 1)' = TotalAfter(Len(totals))
    <3>1. (Len(totals) - 1)' = Len(totals)
      BY <2>1, <2>2
    <3> QED
      BY <2>1, <2>2, <3>1 DEF TotalAfter
  <2>4. totals' # <<>>
    BY <2>1, <2>2
  <2> QED
    BY <2>1, <2>2, <2>3, <2>4 DEF Counted
<1>3. CASE RaiseFrameCount \/ TickPrevious \/ TickHead \/ TickPublish
  BY <1>3 DEF Counted, RaiseFrameCount, TickPrevious, TickHead, TickPublish, Net, record, TotalAfter
<1> QED
  BY <1>1, <1>2, <1>3 DEF Next, NetStep

(* The main thread and a step that changes nothing keep the record.        *)
LEMMA MainKeeps == MainStep => UNCHANGED <<total, previous, data, head, totals, netPc>>
BY DEF MainStep, DrawPopup, ClosePopup, MainReadsTick, ShowTotal, RateReadsHead, ShowRate,
  GraphBegins, GraphMax, GraphMaxFound, GraphReadsHead, GraphScales, ShowGraph, Main, record

LEMMA RingNext == TypeOK /\ Counted /\ Ring /\ [Next]_vars => Ring'
<1> SUFFICES ASSUME TypeOK, Counted, Ring, [Next]_vars PROVE Ring'
  OBVIOUS
<1> USE DeviceStatsAssumption
<1>0. /\ Len(totals) \in Nat /\ head \in Slots /\ data \in [Slots -> Nat]
      /\ RATE_HISTORY_SIZE \in Nat \ {0}
  BY DEF TypeOK
<1>1. CASE UNCHANGED vars \/ MainStep
  <2>1. UNCHANGED <<data, head, totals, netPc>>
    BY <1>1, MainKeeps DEF vars, record
  <2> QED
    BY <2>1, SameHistory DEF Ring, Over, SlotOf, Wrapped
<1>2. CASE RaiseFrameCount \/ TickPrevious \/ TickPublish
  <2>1. UNCHANGED <<data, head, totals>> /\ Over' = Over
    BY <1>2 DEF RaiseFrameCount, TickPrevious, TickPublish, Net, record, Over
  <2> QED
    BY <2>1, SameHistory DEF Ring, SlotOf, Wrapped
<1>3. CASE TickHead
  <2>1. UNCHANGED <<data, totals>> /\ Over = Len(totals) - 1 /\ Over' = Len(totals)
    BY <1>3 DEF TickHead, Net, Over
  <2>2. head = Wrapped(Len(totals) - 1)
    BY <2>1 DEF Ring
  <2>3. head' = Wrapped(Len(totals))
    <3> DEFINE L == Len(totals) - 1
    <3>1. head' = Wrapped(Wrapped(L) + 1)
      BY <1>3, <2>2 DEF TickHead, NextHead
    <3>2. L \in Int /\ L + 1 = Len(totals)
      BY <1>0
    <3> HIDE DEF L
    <3>3. Wrapped(Wrapped(L) + 1) = Wrapped(L + 1)
      BY <3>2, WrappedPlus
    <3> QED
      BY <3>1, <3>2, <3>3
  <2> QED
    BY <2>1, <2>3, SameHistory DEF Ring, SlotOf, Wrapped
<1>4. CASE TickRate
  <2>1. /\ Over = Len(totals) /\ Over' = Len(totals') - 1 /\ head' = head
        /\ data' = [data EXCEPT ![head] = total - previous]
    BY <1>4 DEF TickRate, StoresRate, Net, Over
  <2>2. /\ Len(totals') = Len(totals) + 1
        /\ \A k \in 0 .. Len(totals) : TotalAfter(k)' = TotalAfter(k)
        /\ \A k \in 1 .. Len(totals) : Rate(k)' = Rate(k)
        /\ TotalAfter(Len(totals))' = total
    BY <1>4, SecondOver
  <2>3. head = Wrapped(Len(totals))
    BY <2>1 DEF Ring
  <2>4. head' = Wrapped(Over')
    BY <2>1, <2>2, <2>3, <1>0
  <2>5. Rate(Len(totals))' = total - previous
    <3>1. previous = TotalAfter(Len(totals))
      BY <1>4 DEF Counted, TickRate, StoresRate, Net
    <3>2. TotalAfter(Len(totals) - 1)' = TotalAfter(Len(totals))
      <4>1. (Len(totals) - 1)' = Len(totals)
        BY <1>0, <2>2
      <4> QED
        BY <1>0, <2>2, <4>1 DEF TotalAfter
    <3> QED
      BY <3>1, <3>2, <2>2 DEF Rate
  <2>6. ASSUME NEW k \in 1 .. Len(totals'), k + RATE_HISTORY_SIZE > Len(totals')
        PROVE  data'[SlotOf(k)] = Rate(k)'
    <3>1. CASE k = Len(totals')
      <4>1. SlotOf(k) = head
        BY <3>1, <2>2, <2>3, <1>0 DEF SlotOf
      <4>2. Rate(k)' = total - previous
        BY <3>1, <2>5
      <4> QED
        BY <4>1, <4>2, <2>1, <1>0
    <3>2. CASE k # Len(totals')
      <4>1. k \in 1 .. Len(totals) /\ k + RATE_HISTORY_SIZE > Len(totals) + 1
        BY <3>2, <2>2, <2>6, <1>0
      <4>2. data[SlotOf(k)] = Rate(k)
        BY <4>1, <1>0 DEF Ring
      <4>3. SlotOf(k) # head
        <5>1. k - 1 \in Int /\ Len(totals) \in Int /\ k - 1 < Len(totals)
              /\ ~ (k - 1 + RATE_HISTORY_SIZE <= Len(totals))
          BY <4>1, <1>0
        <5> QED
          BY <5>1, <2>3, WrappedApart DEF SlotOf
      <4>4. SlotOf(k) \in Slots
        BY <4>1, WrappedIsRest, k - 1 \in Int DEF SlotOf
      <4> QED
        BY <4>1, <4>2, <4>3, <4>4, <2>1, <2>2, <1>0
    <3> QED
      BY <3>1, <3>2
  <2>7. ASSUME NEW slot \in Slots, slot >= Len(totals')
        PROVE  data'[slot] = 0
    <3>1. slot >= Len(totals) /\ Len(totals) \in 0 .. RATE_HISTORY_SIZE - 1 /\ slot # Len(totals)
      BY <2>7, <2>2, <1>0 DEF Slots
    <3>2. head = Len(totals)
      BY <2>3, <3>1, WrappedSlot DEF Slots
    <3>3. data[slot] = 0
      BY <3>1 DEF Ring
    <3> QED
      BY <3>1, <3>2, <3>3, <2>1, <1>0
  <2>9. \A k \in 1 .. Len(totals') : k + RATE_HISTORY_SIZE > Len(totals') => data'[SlotOf(k)] = Rate(k)'
    BY <2>6
  <2>10. \A slot \in Slots : slot >= Len(totals') => data'[slot] = 0
    BY <2>7
  <2> QED
    BY <2>4, <2>9, <2>10 DEF Ring, SlotOf, Slots, Wrapped
<1> QED
  BY <1>1, <1>2, <1>3, <1>4 DEF Next, NetStep

(* Of the seconds in the ring, the one in the slot before h is not earlier *)
(* than began.                                                             *)
LEMMA SlotIsRecent ==
  ASSUME TypeOK, Ring, h = Wrapped(began), h # 0
  PROVE  \E k \in began .. Len(totals) : k > 0 /\ data[h - 1] = Rate(k)
<1>1. /\ Len(totals) \in Nat /\ RATE_HISTORY_SIZE \in Nat \ {0}
      /\ h \in Slots /\ h \in 1 .. RATE_HISTORY_SIZE - 1 /\ began \in 0 .. Len(totals)
  BY SizeIsPositive DEF TypeOK, Slots
<1>2. PICK k \in Int : k <= Len(totals) /\ Len(totals) < k + RATE_HISTORY_SIZE /\ Wrapped(k) = h
  BY <1>1, WrappedLatest, Len(totals) \in Int
<1>3. began # 0
  <2>1. Wrapped(0) = 0
    BY <1>1, WrappedSlot DEF Slots
  <2> QED
    BY <1>1, <2>1
<1>4. began <= k
  <2>1. SUFFICES ASSUME k < began PROVE FALSE
    BY <1>1
  <2>2. k + RATE_HISTORY_SIZE <= began
    BY <2>1, <1>1, <1>2, WrappedApart
  <2> QED
    BY <2>2, <1>1, <1>2
<1>5. SlotOf(k) = h - 1
  <2>1. Wrapped(k - 1) = Wrapped(h - 1)
    BY <1>2, WrappedPlus, k + (-1) = k - 1, h + (-1) = h - 1, -1 \in Int, <1>1
  <2>2. h - 1 \in Slots
    BY <1>1 DEF Slots
  <2> QED
    BY <2>1, <2>2, WrappedSlot DEF SlotOf
<1>6. data[SlotOf(k)] = Rate(k)
  <2> k \in 1 .. Len(totals) /\ k + RATE_HISTORY_SIZE > Len(totals)
    BY <1>1, <1>2, <1>3, <1>4
  <2> QED
    BY DEF Ring
<1> QED
  BY <1>1, <1>2, <1>3, <1>4, <1>5, <1>6

LEMMA FreshNext == TypeOK /\ Ring /\ Drawing /\ RateFresh /\ [Next]_vars => RateFresh'
<1> SUFFICES ASSUME TypeOK, Ring, Drawing, RateFresh, [Next]_vars PROVE RateFresh'
  OBVIOUS
<1> USE DeviceStatsAssumption
<1>1. CASE TickRate
  <2>1. UNCHANGED <<mainPc, shownRate, began>> /\ Len(totals) \in Nat /\ began \in 0 .. Len(totals)
    BY <1>1 DEF TickRate, StoresRate, Net, shown, TypeOK
  <2>2. /\ Len(totals') = Len(totals) + 1
        /\ \A k \in 1 .. Len(totals) : Rate(k)' = Rate(k)
    BY <1>1, SecondOver
  <2>3. SUFFICES ASSUME mainPc # "rate_data" /\ shownRate # NONE
                 PROVE  \E k \in began .. Len(totals') :
                          IF shownRate = OUTSIDE THEN Wrapped(k) = 0
                          ELSE k > 0 /\ shownRate = Rate(k)'
    BY <2>1 DEF RateFresh, Wrapped
  <2>4. PICK k \in began .. Len(totals) :
           IF shownRate = OUTSIDE THEN Wrapped(k) = 0 ELSE k > 0 /\ shownRate = Rate(k)
    BY <2>3 DEF RateFresh
  <2>5. k \in began .. Len(totals') /\ k > 0 => Rate(k)' = Rate(k)
    BY <2>1, <2>2
  <2> QED
    BY <2>1, <2>2, <2>4, <2>5
<1>2. CASE ShowRate
  <2>1. /\ mainPc = "rate_data" /\ shownRate' = (IF h = 0 THEN OUTSIDE ELSE data[h - 1])
        /\ UNCHANGED <<totals, began>> /\ h = Wrapped(began)
    BY <1>2 DEF ShowRate, Main, record, Drawing
  <2>2. CASE h = 0
    <3> began \in began .. Len(totals)
      BY DEF TypeOK
    <3> QED
      BY <2>1, <2>2 DEF RateFresh, Wrapped
  <2>3. CASE h # 0
    <3>1. data[h - 1] \in Nat
      BY <2>3 DEF TypeOK, Slots
    <3>2. shownRate' # OUTSIDE
      BY <3>1, <2>1, <2>3
    <3>3. \E k \in began .. Len(totals) : k > 0 /\ data[h - 1] = Rate(k)
      BY <2>1, <2>3, SlotIsRecent
    <3> QED
      BY <3>2, <3>3, <2>1, <2>3, SameHistory DEF RateFresh
  <2> QED
    BY <2>2, <2>3
<1>3. CASE ClosePopup \/ RateReadsHead
  BY <1>3 DEF RateFresh, ClosePopup, RateReadsHead, Main
<1>4. CASE \/ UNCHANGED vars \/ RaiseFrameCount \/ TickPrevious \/ TickHead \/ TickPublish
           \/ DrawPopup \/ MainReadsTick \/ ShowTotal
           \/ GraphBegins \/ GraphMax \/ GraphMaxFound \/ GraphReadsHead \/ GraphScales \/ ShowGraph
  <2>1. UNCHANGED <<totals, began, shownRate>> /\ (mainPc # "rate_data" \/ mainPc' = mainPc)
    BY <1>4 DEF vars, record, shown, RaiseFrameCount, TickPrevious, TickHead, TickPublish, Net,
      DrawPopup, MainReadsTick, ShowTotal, GraphBegins, GraphMax, GraphMaxFound, GraphReadsHead,
      GraphScales, ShowGraph, Main
  <2> QED
    BY <2>1, SameHistory DEF RateFresh, Wrapped
<1> QED
  BY <1>1, <1>2, <1>3, <1>4 DEF Next, NetStep, MainStep

LEMMA DrawnNext == TypeOK /\ Drawing /\ DrawnSoFar /\ [Next]_vars => DrawnSoFar'
<1> SUFFICES ASSUME TypeOK, Drawing, DrawnSoFar, [Next]_vars, netPc' = "loop", ticks' = 0
             PROVE  DrawnSoFar'
  BY DEF DrawnSoFar
<1> USE DeviceStatsAssumption
<1>1. CASE UNCHANGED vars \/ RaiseFrameCount
  <2>1. UNCHANGED <<previous, data, head, netPc, ticks, mainPc, h, i, max, shownTotal, shownRate, blocks>>
    BY <1>1 DEF vars, record, shown, RaiseFrameCount, Net
  <2> QED
    BY <2>1 DEF DrawnSoFar, Highest, Block, Wrapped, Slots
<1>2. CASE TickRate \/ TickPrevious \/ TickHead \/ TickPublish
  BY <1>2 DEF TickRate, StoresRate, TickPrevious, TickHead, TickPublish, Net, TypeOK
<1>3. CASE DrawPopup \/ ClosePopup \/ MainReadsTick
  <2>1. mainPc' \in {"closed", "total"}
    BY <1>3 DEF DrawPopup, ClosePopup, MainReadsTick, Main
  <2> QED
    BY <2>1 DEF DrawnSoFar
<1>4. CASE MainStep /\ ~ (DrawPopup \/ ClosePopup \/ MainReadsTick)
  <2>1. UNCHANGED <<previous, data, head, netPc, ticks>> /\ netPc = "loop" /\ ticks = 0
    BY <1>4 DEF MainStep, ShowTotal, RateReadsHead, ShowRate, GraphBegins, GraphMax, GraphMaxFound,
      GraphReadsHead, GraphScales, ShowGraph, Main, record
  <2>2. /\ mainPc \notin {"closed", "total"} => shownTotal = previous
        /\ mainPc \in {"graph", "max", "scale", "scale_data", "idle"} =>
             shownRate = IF head = 0 THEN OUTSIDE ELSE data[head - 1]
        /\ mainPc \in {"rate_data", "scale_data"} => h = head
        /\ mainPc = "max" =>
             /\ \E slot \in Slots : data[slot] = max
             /\ \A slot \in Slots : slot < i => data[slot] <= max
        /\ mainPc \in {"scale", "scale_data", "idle"} =>
             /\ Highest
             /\ \A k \in 1 .. i : blocks[k] = Block(data[Wrapped(head + k - 1)], max)
    BY <2>1 DEF DrawnSoFar
  <2>3. CASE ShowTotal
    BY <2>1, <2>3 DEF ShowTotal, Main, DrawnSoFar
  <2>4. CASE RateReadsHead
    BY <2>1, <2>2, <2>4 DEF RateReadsHead, Main, DrawnSoFar, shown
  <2>5. CASE ShowRate
    BY <2>1, <2>2, <2>5 DEF ShowRate, Main, DrawnSoFar
  <2>6. CASE GraphBegins
    <3>1. 0 \in Slots /\ \A slot \in Slots : ~ (slot < 0)
      BY DEF Slots
    <3>2. /\ mainPc = "graph" /\ mainPc' = "max" /\ max' = data[0] /\ i' = 0
          /\ UNCHANGED <<shownTotal, shownRate>>
      BY <2>6 DEF GraphBegins, Main
    <3> QED
      BY <2>1, <2>2, <3>1, <3>2 DEF DrawnSoFar
  <2>7. CASE GraphMax
    <3>1. /\ mainPc = "max" /\ mainPc' = "max" /\ i \in Slots /\ i' = i + 1
          /\ max' = (IF data[i] > max THEN data[i] ELSE max)
          /\ UNCHANGED <<shownTotal, shownRate>> /\ data \in [Slots -> Nat] /\ max \in Nat
      BY <2>7 DEF GraphMax, Main, shown, SlotLookedAt, TypeOK, Slots
    <3>2. \E slot \in Slots : data[slot] = max'
      BY <3>1, <2>2
    <3>3. ASSUME NEW slot \in Slots, slot < i'
          PROVE  data[slot] <= max'
      <4>1. slot < i \/ slot = i
        BY <3>1, <3>3 DEF Slots
      <4> QED
        BY <4>1, <3>1, <2>2
    <3> QED
      BY <2>1, <2>2, <3>1, <3>2, <3>3 DEF DrawnSoFar
  <2>8. CASE GraphMaxFound
    <3>1. /\ mainPc = "max" /\ mainPc' = "scale" /\ i = RATE_HISTORY_SIZE /\ i' = 0
          /\ max' = (IF max = 0 THEN 1 ELSE max)
          /\ UNCHANGED <<shownTotal, shownRate>> /\ data \in [Slots -> Nat] /\ max \in Nat
      BY <2>8 DEF GraphMaxFound, Main, shown, TypeOK
    <3>2. ASSUME NEW slot \in Slots
          PROVE  data[slot] <= max'
      <4>1. slot < i
        BY <3>1 DEF Slots
      <4> QED
        BY <4>1, <3>1, <2>2
    <3>3. max' = 1 \/ \E slot \in Slots : data[slot] = max'
      BY <3>1, <2>2
    <3>4. Highest'
      BY <3>2, <3>3, <2>1 DEF Highest, Slots
    <3>5. 1 .. i' = {}
      BY <3>1
    <3> QED
      BY <2>1, <2>2, <3>1, <3>4, <3>5 DEF DrawnSoFar
  <2>9. CASE GraphReadsHead \/ ShowGraph
    <3>1. /\ mainPc = "scale" /\ mainPc' \in {"scale_data", "idle"}
          /\ mainPc' = "scale_data" => h' = head
          /\ UNCHANGED <<i, max, shownTotal, shownRate, blocks>>
      BY <2>9 DEF GraphReadsHead, ShowGraph, Main, shown
    <3>2. Highest'
      BY <2>1, <2>2, <3>1 DEF Highest, Slots
    <3>3. \A k \in 1 .. i : blocks[k] = Block(data[Wrapped(head + k - 1)], max)
      BY <2>2, <3>1
    <3>4. (\A k \in 1 .. i : blocks[k] = Block(data[Wrapped(head + k - 1)], max))'
      BY <3>1, <3>3, <2>1 DEF Block, Wrapped
    <3> QED
      BY <2>1, <2>2, <3>1, <3>2, <3>4 DEF DrawnSoFar
  <2>10. CASE GraphScales
    <3>1. /\ mainPc = "scale_data" /\ mainPc' = "scale" /\ i' = i + 1 /\ i \in Nat
          /\ blocks' = Append(blocks, Block(data[Wrapped(h + i)], max))
          /\ blocks \in Seq(Nat) /\ Len(blocks) = i
          /\ h = head /\ head \in Nat
          /\ UNCHANGED <<max, shownTotal, shownRate>>
      BY <2>10, <2>2 DEF GraphScales, Main, TypeOK, Drawing, Slots
    <3>2. Highest'
      BY <2>1, <2>2, <3>1 DEF Highest, Slots
    <3>3. /\ \A k \in 1 .. i : blocks'[k] = blocks[k]
          /\ blocks'[i + 1] = Block(data[Wrapped(head + i)], max)
      BY <3>1
    <3>4. ASSUME NEW k \in 1 .. i'
          PROVE  blocks'[k] = Block(data[Wrapped(head + k - 1)], max)
      <4>1. CASE k = i + 1
        <5> head + k - 1 = head + i
          BY <4>1, <3>1
        <5> QED
          BY <4>1, <3>3
      <4>2. CASE k # i + 1
        <5> k \in 1 .. i
          BY <4>2, <3>1
        <5> QED
          BY <3>1, <3>3, <2>2
      <4> QED
        BY <4>1, <4>2
    <3>5. (\A k \in 1 .. i : blocks[k] = Block(data[Wrapped(head + k - 1)], max))'
      BY <3>1, <3>4, <2>1 DEF Block, Wrapped
    <3> QED
      BY <2>1, <2>2, <3>1, <3>2, <3>5 DEF DrawnSoFar
  <2> QED
    BY <1>4, <2>3, <2>4, <2>5, <2>6, <2>7, <2>8, <2>9, <2>10 DEF MainStep
<1> QED
  BY <1>1, <1>2, <1>3, <1>4 DEF Next, NetStep

(* Before(k) goes through all the slots as k does, from the one before     *)
(* head on.                                                                *)
LEMMA BeforeIsSlot ==
  ASSUME head \in Slots, NEW k \in Slots
  PROVE  Before(k) \in Slots
<1> head + RATE_HISTORY_SIZE - 1 - k \in Int
  BY SizeIsPositive DEF Slots
<1> QED
  BY WrappedIsRest DEF Before

LEMMA BeforeReaches ==
  ASSUME head \in Slots, NEW slot \in Slots
  PROVE  \E k \in Slots : Before(k) = slot
<1>1. RATE_HISTORY_SIZE \in Nat \ {0} /\ head \in 0 .. RATE_HISTORY_SIZE - 1 /\ slot \in 0 .. RATE_HISTORY_SIZE - 1
  BY SizeIsPositive DEF Slots
<1>2. CASE slot < head
  <2>1. head - 1 - slot \in Slots
    BY <1>1, <1>2 DEF Slots
  <2>2. head + RATE_HISTORY_SIZE - 1 - (head - 1 - slot) = slot + RATE_HISTORY_SIZE
    BY <1>1
  <2>3. Before(head - 1 - slot) = slot
    BY <2>2, WrappedSlot DEF Before
  <2> QED
    BY <2>1, <2>3
<1>3. CASE head <= slot
  <2>1. head + RATE_HISTORY_SIZE - 1 - slot \in Slots
    BY <1>1, <1>3 DEF Slots
  <2>2. head + RATE_HISTORY_SIZE - 1 - (head + RATE_HISTORY_SIZE - 1 - slot) = slot
    BY <1>1
  <2>3. Before(head + RATE_HISTORY_SIZE - 1 - slot) = slot
    BY <2>2, WrappedSlot DEF Before
  <2> QED
    BY <2>1, <2>3
<1> QED
  BY <1>1, <1>2, <1>3

LEMMA RingHolds == TypeOK /\ Counted /\ Ring => RingIsHistory
<1> SUFFICES ASSUME TypeOK, Counted, Ring, netPc = "loop" PROVE RingIsHistory
  BY DEF RingIsHistory
<1>1. previous = TotalAfter(Len(totals))
  BY DEF Counted
<1>2. /\ head = Wrapped(Len(totals)) /\ head \in Slots
      /\ Len(totals) \in Nat /\ RATE_HISTORY_SIZE \in Nat \ {0}
  BY SizeIsPositive DEF Ring, Over, TypeOK
<1>3. ASSUME NEW k \in Slots
      PROVE  data[Before(k)] = Recent(k)
  <2>1. k \in 0 .. RATE_HISTORY_SIZE - 1
    BY <1>2 DEF Slots
  <2>2. Before(k) = Wrapped(Len(totals) + RATE_HISTORY_SIZE - 1 - k)
    <3>1. Wrapped(Wrapped(Len(totals)) + (RATE_HISTORY_SIZE - 1 - k))
            = Wrapped(Len(totals) + (RATE_HISTORY_SIZE - 1 - k))
      <4> RATE_HISTORY_SIZE - 1 - k \in Int /\ Len(totals) \in Int
        BY <1>2, <2>1
      <4> QED
        BY WrappedPlus
    <3>2. /\ head + (RATE_HISTORY_SIZE - 1 - k) = head + RATE_HISTORY_SIZE - 1 - k
          /\ Len(totals) + (RATE_HISTORY_SIZE - 1 - k) = Len(totals) + RATE_HISTORY_SIZE - 1 - k
      BY <1>2, <2>1 DEF Slots
    <3> QED
      BY <1>2, <3>1, <3>2 DEF Before
  <2>3. CASE k < Len(totals)
    <3> DEFINE second == Len(totals) - k
    <3>1. second \in 1 .. Len(totals) /\ second + RATE_HISTORY_SIZE > Len(totals)
      BY <1>2, <2>1, <2>3
    <3>2. data[SlotOf(second)] = Rate(second)
      BY <3>1 DEF Ring
    <3>3. second - 1 \in Int /\ RATE_HISTORY_SIZE \in Int
          /\ (second - 1) + RATE_HISTORY_SIZE = Len(totals) + RATE_HISTORY_SIZE - 1 - k
      BY <1>2, <2>1
    <3> HIDE DEF second
    <3>4. Wrapped(second - 1) \in Slots
      BY <3>3, WrappedIsRest
    <3>5. Wrapped((second - 1) + RATE_HISTORY_SIZE) = Wrapped(second - 1)
      BY <3>3, <3>4, WrappedPlus, WrappedSlot
    <3>6. Before(k) = SlotOf(second)
      BY <2>2, <3>3, <3>5 DEF SlotOf
    <3> QED
      BY <3>2, <3>6, <2>3 DEF Recent, second
  <2>4. CASE ~ (k < Len(totals))
    <3>1. /\ Len(totals) + RATE_HISTORY_SIZE - 1 - k \in Slots
          /\ Len(totals) + RATE_HISTORY_SIZE - 1 - k >= Len(totals)
      BY <1>2, <2>1, <2>4 DEF Slots
    <3>2. Before(k) = Len(totals) + RATE_HISTORY_SIZE - 1 - k
      BY <2>2, <3>1, WrappedSlot
    <3>3. data[Before(k)] = 0
      BY <3>1, <3>2 DEF Ring
    <3> QED
      BY <3>3, <2>4 DEF Recent
  <2> QED
    BY <2>3, <2>4
<1> QED
  BY <1>1, <1>3 DEF RingIsHistory

(* What a graph shows that was scaled by the highest rate of the ring.     *)
LEMMA GraphHolds ==
  ASSUME TypeOK, Ring, Drawing, DrawnSoFar, RingIsHistory,
         netPc = "loop", ticks = 0, mainPc = "idle"
  PROVE  GraphFaithful
<1>1. /\ head \in Slots /\ RATE_HISTORY_SIZE \in Nat \ {0} /\ data \in [Slots -> Nat]
      /\ max \in Nat \ {0} /\ i = RATE_HISTORY_SIZE
  BY SizeIsPositive DEF TypeOK, Drawing
<1>2. Highest /\ \A k \in 1 .. i : blocks[k] = Block(data[Wrapped(head + k - 1)], max)
  BY DEF DrawnSoFar
<1>3. ASSUME NEW k \in Slots
      PROVE  Recent(k) = data[Before(k)] /\ Recent(k) \in Nat /\ Recent(k) <= max
  BY <1>1, <1>2, BeforeIsSlot DEF RingIsHistory, Highest
<1>4. max = 1 \/ \E k \in Slots : Recent(k) = max
  <2>1. SUFFICES ASSUME NEW slot \in Slots, data[slot] = max
                 PROVE  \E k \in Slots : Recent(k) = max
    BY <1>2 DEF Highest
  <2>2. PICK k \in Slots : Before(k) = slot
    BY <1>1, BeforeReaches
  <2> QED
    BY <2>1, <2>2, <1>3
<1>5. ASSUME NEW k \in Slots
      PROVE  blocks[RATE_HISTORY_SIZE - k] = Block(Recent(k), max)
  <2>1. RATE_HISTORY_SIZE - k \in 1 .. i
    BY <1>1 DEF Slots
  <2>2. head + (RATE_HISTORY_SIZE - k) - 1 = head + RATE_HISTORY_SIZE - 1 - k
    BY <1>1 DEF Slots
  <2>3. blocks[RATE_HISTORY_SIZE - k] = Block(data[Wrapped(head + (RATE_HISTORY_SIZE - k) - 1)], max)
    BY <1>2, <2>1
  <2>4. blocks[RATE_HISTORY_SIZE - k] = Block(data[Before(k)], max)
    BY <2>2, <2>3 DEF Before
  <2> QED
    BY <2>4, <1>3
<1>6. /\ Block(0, max) = 0 /\ Block(max, max) = 7
      /\ \A a, b \in Nat : a <= b => Block(a, max) <= Block(b, max)
      /\ \A a \in Nat : Block(a, max) \in Nat
  BY <1>1, Blocks
<1>7. ASSUME NEW k \in Slots
      PROVE  /\ blocks[RATE_HISTORY_SIZE - k] \in 0 .. 7
             /\ Recent(k) = 0 => blocks[RATE_HISTORY_SIZE - k] = 0
             /\ Recent(k) > 0 /\ (\A j \in Slots : Recent(j) <= Recent(k)) => blocks[RATE_HISTORY_SIZE - k] = 7
             /\ \A j \in Slots :
                  Recent(j) <= Recent(k) => blocks[RATE_HISTORY_SIZE - j] <= blocks[RATE_HISTORY_SIZE - k]
  <2>1. Recent(k) \in Nat /\ Recent(k) <= max /\ max \in Nat
    BY <1>1, <1>3
  <2>2. Block(Recent(k), max) \in Nat /\ Block(Recent(k), max) <= Block(max, max)
    BY <2>1, <1>6
  <2>3. Block(Recent(k), max) \in 0 .. 7
    BY <2>2, <1>6
  <2>4. Recent(k) = 0 => Block(Recent(k), max) = 0
    BY <1>6
  <2>5. ASSUME Recent(k) > 0, \A j \in Slots : Recent(j) <= Recent(k)
        PROVE  Block(Recent(k), max) = 7
    <3>1. CASE max = 1
      <4> Recent(k) = max
        BY <3>1, <2>1, <2>5
      <4> QED
        BY <1>6
    <3>2. CASE \E j \in Slots : Recent(j) = max
      <4> max <= Recent(k)
        BY <3>2, <2>5
      <4> Recent(k) = max
        BY <2>1
      <4> QED
        BY <1>6
    <3> QED
      BY <3>1, <3>2, <1>4
  <2>6. ASSUME NEW j \in Slots, Recent(j) <= Recent(k)
        PROVE  Block(Recent(j), max) <= Block(Recent(k), max)
    BY <2>6, <2>1, <1>3, <1>6
  <2> QED
    BY <1>5, <2>3, <2>4, <2>5, <2>6
<1> QED
  BY <1>7 DEF GraphFaithful

LEMMA PopupHolds == TypeOK /\ Counted /\ Ring /\ Drawing /\ DrawnSoFar => PopupCurrent
<1> SUFFICES ASSUME TypeOK, Counted, Ring, Drawing, DrawnSoFar,
                    netPc = "loop", ticks = 0, mainPc = "idle"
             PROVE  PopupCurrent
  BY DEF PopupCurrent
<1>1. RingIsHistory
  BY RingHolds
<1>2. GraphFaithful
  BY <1>1, GraphHolds
<1>3. shownTotal = TotalAfter(Len(totals))
  BY <1>1 DEF DrawnSoFar, RingIsHistory
<1>4. shownRate = IF head = 0 THEN OUTSIDE ELSE Recent(0)
  <2>1. shownRate = IF head = 0 THEN OUTSIDE ELSE data[head - 1]
    BY DEF DrawnSoFar
  <2>2. ASSUME head # 0
        PROVE  data[head - 1] = Recent(0)
    <3>1. head \in 1 .. RATE_HISTORY_SIZE - 1 /\ RATE_HISTORY_SIZE \in Nat \ {0}
      BY <2>2, SizeIsPositive DEF TypeOK, Slots
    <3>2. /\ head - 1 \in Slots /\ 0 \in Slots
          /\ head + RATE_HISTORY_SIZE - 1 - 0 = (head - 1) + RATE_HISTORY_SIZE
      BY <3>1 DEF Slots
    <3>3. Before(0) = head - 1
      BY <3>2, WrappedSlot DEF Before
    <3> QED
      BY <3>2, <3>3, <1>1 DEF RingIsHistory
  <2> QED
    BY <2>1, <2>2
<1> QED
  BY <1>2, <1>3, <1>4 DEF PopupCurrent
-----------------------------------------------------------------------------
LEMMA IndInvInit == Init => IndInv
<1> SUFFICES ASSUME Init PROVE IndInv
  OBVIOUS
<1>1. TypeOK
  BY TypeInit
<1>2. Counted
  BY DEF Init, Counted, TotalAfter
<1>3. Ring
  <2>1. Len(totals) = 0 /\ Over = 0 /\ head = 0 /\ data = [k \in Slots |-> 0]
    BY DEF Init, Over
  <2>2. Wrapped(0) = 0
    BY SizeIsPositive, WrappedSlot, 0 \in Slots DEF Slots
  <2> QED
    BY <2>1, <2>2 DEF Ring
<1>4. Drawing /\ DrawnSoFar
  BY DEF Init, Drawing, DrawnSoFar
<1>5. RateFresh
  BY DEF Init, RateFresh
<1> QED
  BY <1>1, <1>2, <1>3, <1>4, <1>5 DEF IndInv

LEMMA IndInvNext == IndInv /\ [Next]_vars => IndInv'
BY TypeNext, CountedNext, RingNext, DrawingNext, FreshNext, DrawnNext DEF IndInv

LEMMA Invariance == Spec => []IndInv
BY IndInvInit, IndInvNext, PTL DEF Spec

(* The indices of the ring stay in it, and no rate is divided by zero.     *)
THEOREM TypeCorrect == Spec => []TypeOK
<1>1. IndInv => TypeOK
  BY DEF IndInv
<1> QED
  BY <1>1, Invariance, PTL

(* Between two ticks the ring holds the rates of the last                  *)
(* RATE_HISTORY_SIZE seconds (handle_timer_tick), each frame in one.       *)
THEOREM RingIsHistoryCorrect == Spec => []RingIsHistory
<1>1. IndInv => RingIsHistory
  BY RingHolds DEF IndInv
<1> QED
  BY <1>1, Invariance, PTL

(* get_rate shows a rate that was the last one when it read the head, or a *)
(* later one; it reads before the array only when a whole number of rings  *)
(* is over.                                                                *)
THEOREM RateFreshCorrect == Spec => []RateFresh
<1>1. IndInv => RateFresh
  BY DEF IndInv
<1> QED
  BY <1>1, Invariance, PTL

(* When every tick is handled, the open popup shows the second that is     *)
(* over, with blocks of get_graph that keep the order of the rates.        *)
THEOREM PopupCurrentCorrect == Spec => []PopupCurrent
<1>1. IndInv => PopupCurrent
  BY PopupHolds DEF IndInv
<1> QED
  BY <1>1, Invariance, PTL
=============================================================================
