------------------------- MODULE FrameParserProofs --------------------------
(***************************************************************************)
(* Proofs about FrameParser, for any buffer, lists of tags and bodies.     *)
(***************************************************************************)
EXTENDS FrameParser, TLAPS

(* The inductive invariant: what each call of handle_incoming_frame has    *)
(* established about the frame on the wire.                                *)
Received ==
  /\ pc \in {"epoll", "process_raw_arp_frame"} => processed = Zeros
  /\ pc \in {"process_raw_arp_frame", "undefined"} => frame \in Frame
  /\ pc = "process_raw_arp_frame" =>
       /\ length = ReceivedLength(frame)
       /\ raw = [k \in Buffer |-> Word(frame, k)]
       /\ aux = Ancillary(frame)
Placed ==
  pc \in {"get_vlan_info", "set_device_data"} =>
    /\ frame \in Frame /\ frame.type = ARP /\ Len(frame.body) >= ArpHeader
    /\ length = IF EthHeader + Len(frame.body) <= FRAME_BUFFER_SIZE
                THEN EthHeader + Len(frame.body) ELSE FRAME_BUFFER_SIZE
    /\ \A k \in 1 .. 3 : processed[2 + k] = Mac[3 + k]
    /\ \A k \in 1 .. ArpHeader : processed[EthHeader - 1 + k] = frame.body[k]
TagAt(at) == [tpid |-> processed[at], tci |-> processed[at + 1]]
TagsAre(tags) ==
  /\ TagAt(6) = OutermostTag(tags, QINQ)
  /\ TagAt(8) = OutermostTag(tags, DOT1Q)
TagsPlaced ==
  /\ pc = "get_vlan_info" =>
       /\ aux = Ancillary(frame) /\ Len(Inband(frame)) \in 0 .. 2
       /\ TagsAre(Inband(frame))
  /\ pc = "set_device_data" => TagsAre(frame.tags)
IndInv ==
  /\ TypeOK /\ Received /\ Placed /\ TagsPlaced
  /\ CopiesFit /\ DeviceRecorded /\ StandardAccepted /\ UniformLength
-----------------------------------------------------------------------------
USE DEF ETH_MAC_ADDRS_LEN, ETH_QinQ_TAG_LEN, ETH_QinQ_DOT1Q_TAGS_LEN,
        ETH_TYPE_OFFSET_UNTAGGED, ETH_TYPE_OFFSET_SINGLE_TAG, ETH_TYPE_OFFSET_DOUBLE_TAG,
        EthHeader, ArpHeader, Spa

(* The numbers themselves do not matter.                                   *)
LEMMA Numbers ==
  /\ ARP \in Nat \ {0} /\ DOT1Q \in Nat \ {0} /\ QINQ \in Nat \ {0}
  /\ ARP # DOT1Q /\ ARP # QINQ /\ DOT1Q # QINQ
BY DEF ARP, DOT1Q, QINQ

LEMMA FrameTyped ==
  ASSUME NEW f \in Frame
  PROVE  /\ f.tags \in Seq(Tag) /\ Inband(f) \in Seq(Tag)
         /\ f.type \in {ARP, OtherType} /\ f.body \in Seq(Nat)
         /\ f.report \in {"none", "tpid", "no_tpid"}
         /\ f.tags = <<>> => f.report = "none"
<1>1. /\ f.tags \in Seq(Tag) /\ f.type \in {ARP, OtherType} /\ f.body \in Seq(Nat)
      /\ f.report \in {"none", "tpid", "no_tpid"}
      /\ f.tags = <<>> => f.report = "none"
  BY FrameParserAssumption DEF Frame
<1>2. Inband(f) \in Seq(Tag)
  BY <1>1 DEF Inband
<1>3. QED
  BY <1>1, <1>2

LEMMA FrameSizes ==
  ASSUME NEW f \in Frame
  PROVE  \E n, b \in Nat :
           /\ n = Len(Inband(f)) /\ b = Len(f.body)
           /\ TypeOffset(f) = 6 + 2 * n /\ FrameLength(f) = 7 + 2 * n + b
<1>1. PICK n, b \in Nat : n = Len(Inband(f)) /\ b = Len(f.body)
  BY FrameTyped
<1>2. TypeOffset(f) = 6 + 2 * n
  BY <1>1 DEF TypeOffset
<1>3. FrameLength(f) = 7 + 2 * n + b
  <2>1. FrameLength(f) = (6 + 2 * n) + 1 + b
    BY <1>1, <1>2, Zenon DEF FrameLength
  <2>2. QED
    BY <2>1
<1>4. QED
  BY <1>1, <1>2, <1>3

(* Where the words of a frame are.                                         *)
LEMMA FrameWords ==
  ASSUME NEW f \in Frame, NEW n \in Nat, NEW b \in Nat,
         TypeOffset(f) = 6 + 2 * n, FrameLength(f) = 7 + 2 * n + b
  PROVE  /\ \A k \in 0 .. 5 : Word(f, k) = Mac[k + 1]
         /\ \A k \in 1 .. n : /\ Word(f, 4 + 2 * k) = Inband(f)[k].tpid
                              /\ Word(f, 5 + 2 * k) = Inband(f)[k].tci
         /\ Word(f, 6 + 2 * n) = f.type
         /\ \A k \in 1 .. b : Word(f, 6 + 2 * n + k) = f.body[k]
<1>1. ASSUME NEW k \in 0 .. 5
      PROVE  Word(f, k) = Mac[k + 1]
  BY DEF Word
<1>2. ASSUME NEW k \in 1 .. n
      PROVE  Word(f, 4 + 2 * k) = Inband(f)[k].tpid /\ Word(f, 5 + 2 * k) = Inband(f)[k].tci
  <2>1. ASSUME NEW e \in {0, 1}
        PROVE  Word(f, 4 + 2 * k + e) = TagWord(Inband(f)[k], e)
    <3>1. /\ 4 + 2 * k + e >= 6 /\ 4 + 2 * k + e < 6 + 2 * n
          /\ (4 + 2 * k + e - 6) \div 2 + 1 = k /\ (4 + 2 * k + e) % 2 = e
      OBVIOUS
    <3>2. Word(f, 4 + 2 * k + e) = TagWord(Inband(f)[k], 4 + 2 * k + e)
      BY <3>1 DEF Word
    <3>3. QED
      BY <3>1, <3>2 DEF TagWord
  <2>2. 4 + 2 * k + 0 = 4 + 2 * k /\ 4 + 2 * k + 1 = 5 + 2 * k
    OBVIOUS
  <2>3. TagWord(Inband(f)[k], 0) = Inband(f)[k].tpid /\ TagWord(Inband(f)[k], 1) = Inband(f)[k].tci
    BY DEF TagWord
  <2>4. QED
    BY <2>1, <2>2, <2>3
<1>3. Word(f, 6 + 2 * n) = f.type
  BY DEF Word
<1>4. ASSUME NEW k \in 1 .. b
      PROVE  Word(f, 6 + 2 * n + k) = f.body[k]
  BY DEF Word
<1>5. QED
  BY <1>1, <1>2, <1>3, <1>4

LEMMA WordTyped ==
  ASSUME NEW f \in Frame, NEW k \in Nat
  PROVE  Word(f, k) \in Nat
<1>1. PICK n, b \in Nat :
        /\ n = Len(Inband(f)) /\ b = Len(f.body)
        /\ TypeOffset(f) = 6 + 2 * n /\ FrameLength(f) = 7 + 2 * n + b
  BY FrameSizes
<1>2. /\ Inband(f) \in Seq(Tag) /\ f.body \in Seq(Nat) /\ f.type \in Nat
  BY FrameTyped, FrameParserAssumption, Numbers
<1>3. TypeOffset(f) = 6 + 2 * n /\ FrameLength(f) = 7 + 2 * n + b
  BY <1>1
<1>4. CASE k < 6
  <2>1. Word(f, k) = Mac[k + 1] /\ k + 1 \in 1 .. 6
    BY <1>4 DEF Word
  <2>2. QED
    BY <2>1, FrameParserAssumption
<1>5. CASE k >= 6 /\ k < 6 + 2 * n
  <2>1. (k - 6) \div 2 + 1 \in 1 .. n
    BY <1>5
  <2>2. Inband(f)[(k - 6) \div 2 + 1] \in Tag
    BY <1>1, <1>2, <2>1
  <2>3. Word(f, k) = TagWord(Inband(f)[(k - 6) \div 2 + 1], k)
    BY <1>3, <1>5 DEF Word
  <2>4. ASSUME NEW tag \in Tag
        PROVE  TagWord(tag, k) \in Nat
    <3>1. tag.tpid \in {QINQ, DOT1Q, OtherTpid}
      BY DEF Tag
    <3>2. tag.tci \in Tci
      BY DEF Tag
    <3>3. /\ Tci \subseteq Nat /\ OtherTpid \in Nat
          /\ DOT1Q \in Nat /\ QINQ \in Nat
      BY FrameParserAssumption, Numbers
    <3>4. tag.tpid \in Nat
      BY <3>1, <3>3
    <3>5. tag.tci \in Nat
      BY <3>2, <3>3
    <3>6. QED
      BY <3>4, <3>5, Zenon DEF TagWord
  <2>5. QED
    BY <2>2, <2>3, <2>4
<1>6. CASE k >= 6 + 2 * n
  <2>1. CASE k = 6 + 2 * n
    BY <1>2, <1>3, <2>1 DEF Word
  <2>2. CASE k > 6 + 2 * n /\ k < 7 + 2 * n + b
    <3>1. Word(f, k) = f.body[k - (6 + 2 * n)] /\ k - (6 + 2 * n) \in 1 .. b
      BY <1>3, <2>2 DEF Word
    <3>2. \A i \in 1 .. b : f.body[i] \in Nat
      BY <1>1, <1>2
    <3>3. QED
      BY <3>1, <3>2
  <2>3. CASE k >= 7 + 2 * n + b
    BY <1>3, <2>3 DEF Word
  <2>4. QED
    BY <1>6, <2>1, <2>2, <2>3
<1>7. QED
  BY <1>4, <1>5, <1>6

LEMMA TagFields ==
  ASSUME NEW tag \in Tag
  PROVE  tag = [tpid |-> tag.tpid, tci |-> tag.tci] /\ tag.tpid \in {QINQ, DOT1Q, OtherTpid}
BY DEF Tag

LEMMA OutermostFirst ==
  ASSUME NEW tags, NEW tpid, NEW n \in DOMAIN tags, tags[n].tpid = tpid,
         DOMAIN tags \subseteq Nat,
         \A m \in DOMAIN tags : tags[m].tpid = tpid => n <= m
  PROVE  OutermostTag(tags, tpid) = tags[n]
<1> DEFINE at == {m \in DOMAIN tags : tags[m].tpid = tpid}
<1>1. n \in at /\ at \subseteq Nat /\ \A m \in at : n <= m
  OBVIOUS
<1>2. (CHOOSE i \in at : \A m \in at : i <= m) = n
  <2>1. \A i \in at : (\A m \in at : i <= m) => i = n
    BY <1>1
  <2>2. QED
    BY <1>1, <2>1
<1>3. QED
  BY <1>1, <1>2 DEF OutermostTag

LEMMA OutermostNone ==
  ASSUME NEW tags, NEW tpid, \A m \in DOMAIN tags : tags[m].tpid # tpid
  PROVE  OutermostTag(tags, tpid) = Missing
BY DEF OutermostTag

LEMMA TailTags ==
  ASSUME NEW S, NEW tags \in Seq(S), tags # <<>>
  PROVE  /\ DOMAIN tags = 1 .. Len(tags) /\ Len(tags) \in Nat \ {0}
         /\ DOMAIN Tail(tags) = 1 .. Len(tags) - 1 /\ Len(Tail(tags)) = Len(tags) - 1
         /\ \A m \in 1 .. Len(tags) - 1 : Tail(tags)[m] = tags[m + 1]
OBVIOUS

(* A tag taken away is the outermost of its kind, and no other is changed. *)
LEMMA OutermostOfTail ==
  ASSUME NEW tags \in Seq(Tag), tags # <<>>, Len(tags) <= 3, NEW tpid
  PROVE  OutermostTag(tags, tpid) =
           IF tags[1].tpid = tpid THEN tags[1] ELSE OutermostTag(Tail(tags), tpid)
<1>1. PICK l \in Nat : l = Len(tags) /\ l \in 1 .. 3
  BY TailTags
<1>2. /\ DOMAIN tags = 1 .. l /\ DOMAIN Tail(tags) = 1 .. l - 1
      /\ \A m \in 1 .. l - 1 : Tail(tags)[m] = tags[m + 1]
  BY <1>1, TailTags
<1>3. CASE tags[1].tpid = tpid
  BY <1>1, <1>2, <1>3, OutermostFirst
<1>4. CASE tags[1].tpid # tpid /\ \E m \in 1 .. l : tags[m].tpid = tpid
  <2>1. PICK n \in 2 .. l : tags[n].tpid = tpid /\ \A m \in 1 .. n - 1 : tags[m].tpid # tpid
    <3>1. CASE l >= 2 /\ tags[2].tpid = tpid
      BY <1>1, <1>4, <3>1
    <3>2. CASE ~(l >= 2 /\ tags[2].tpid = tpid)
      BY <1>1, <1>4, <3>2
    <3>3. QED
      BY <3>1, <3>2
  <2>2. OutermostTag(tags, tpid) = tags[n]
    BY <1>1, <1>2, <2>1, OutermostFirst
  <2>3. n - 1 \in 1 .. l - 1 /\ Tail(tags)[n - 1] = tags[n]
    BY <1>1, <1>2, <2>1
  <2>4. ASSUME NEW m \in 1 .. l - 1, Tail(tags)[m].tpid = tpid
        PROVE  n - 1 <= m
    <3>1. tags[m + 1].tpid = tpid
      BY <1>2, <2>4
    <3>2. QED
      BY <1>1, <2>1, <3>1
  <2>5. OutermostTag(Tail(tags), tpid) = tags[n]
    <3>1. DOMAIN Tail(tags) \subseteq Nat /\ n - 1 \in DOMAIN Tail(tags)
      BY <1>1, <1>2, <2>3
    <3>2. Tail(tags)[n - 1].tpid = tpid
      BY <2>1, <2>3
    <3>3. \A m \in DOMAIN Tail(tags) : Tail(tags)[m].tpid = tpid => n - 1 <= m
      BY <1>2, <2>4
    <3>4. OutermostTag(Tail(tags), tpid) = Tail(tags)[n - 1]
      BY <3>1, <3>2, <3>3, OutermostFirst
    <3>5. QED
      BY <2>3, <3>4
  <2>6. QED
    BY <1>4, <2>2, <2>5
<1>5. CASE \A m \in 1 .. l : tags[m].tpid # tpid
  <2>1. OutermostTag(tags, tpid) = Missing
    BY <1>2, <1>5, OutermostNone
  <2>2. ASSUME NEW m \in 1 .. l - 1
        PROVE  Tail(tags)[m].tpid # tpid
    <3>1. m + 1 \in 1 .. l /\ Tail(tags)[m] = tags[m + 1]
      BY <1>1, <1>2
    <3>2. QED
      BY <1>5, <3>1
  <2>3. OutermostTag(Tail(tags), tpid) = Missing
    BY <1>2, <2>2, OutermostNone
  <2>4. QED
    BY <1>1, <1>5, <2>1, <2>3
<1>6. QED
  BY <1>3, <1>4, <1>5
-----------------------------------------------------------------------------
(* The header's form says how many tags are left in the frame and which.   *)
LEMMA Forms ==
  ASSUME NEW f \in Frame, NEW tags, tags = Inband(f), raw = [k \in Buffer |-> Word(f, k)]
  PROVE  /\ Untagged <=> Len(tags) = 0 /\ f.type = ARP
         /\ SingleTagged <=> Len(tags) = 1 /\ tags[1].tpid = DOT1Q /\ f.type = ARP
         /\ QinQTagged <=> Len(tags) = 1 /\ tags[1].tpid = QINQ /\ f.type = ARP
         /\ DoubleTagged <=> /\ Len(tags) = 2 /\ tags[1].tpid = QINQ /\ tags[2].tpid = DOT1Q
                            /\ f.type = ARP
<1>1. PICK n, b \in Nat :
        /\ n = Len(tags) /\ b = Len(f.body)
        /\ TypeOffset(f) = 6 + 2 * n /\ FrameLength(f) = 7 + 2 * n + b
  BY FrameSizes
<1>2. raw[6] = Word(f, 6) /\ raw[8] = Word(f, 8) /\ raw[10] = Word(f, 10)
  BY FrameParserAssumption DEF Buffer
<1>3. PICK t : t = f.type /\ t \in {ARP, OtherType}
  BY FrameTyped
<1>4. ASSUME NEW k \in 1 .. n
      PROVE  /\ Word(f, 4 + 2 * k) = tags[k].tpid
             /\ tags[k].tpid \in {QINQ, DOT1Q, OtherTpid}
  <2>1. Word(f, 4 + 2 * k) = tags[k].tpid
    BY <1>1, FrameWords
  <2>2. tags[k] \in Tag
    BY <1>1, FrameTyped
  <2>3. QED
    BY <2>1, <2>2 DEF Tag
<1>5. Word(f, 6 + 2 * n) = t
  BY <1>1, <1>3, FrameWords
<1>6. /\ OtherTpid \notin {ARP, DOT1Q, QINQ} /\ OtherType \notin {ARP, DOT1Q, QINQ}
      /\ ARP # DOT1Q /\ ARP # QINQ /\ DOT1Q # QINQ
  BY FrameParserAssumption, Numbers
<1>7. PICK w6, w8, w10 : w6 = Word(f, 6) /\ w8 = Word(f, 8) /\ w10 = Word(f, 10)
  OBVIOUS
<1>8. /\ n = 0 => w6 = t
      /\ n >= 1 => w6 = tags[1].tpid /\ w6 \in {QINQ, DOT1Q, OtherTpid}
      /\ n = 1 => w8 = t
      /\ n >= 2 => w8 = tags[2].tpid /\ w8 \in {QINQ, DOT1Q, OtherTpid}
      /\ n = 2 => w10 = t
      /\ n >= 3 => w10 \in {QINQ, DOT1Q, OtherTpid}
  <2>1. n >= 1 => w6 = tags[1].tpid /\ w6 \in {QINQ, DOT1Q, OtherTpid}
    BY <1>4, <1>7
  <2>2. n >= 2 => w8 = tags[2].tpid /\ w8 \in {QINQ, DOT1Q, OtherTpid}
    BY <1>4, <1>7
  <2>3. ASSUME n >= 3
        PROVE  w10 \in {QINQ, DOT1Q, OtherTpid}
    <3>1. 3 \in 1 .. n /\ 4 + 2 * 3 = 10
      BY <2>3
    <3>2. QED
      BY <1>4, <1>7, <3>1
  <2>4. QED
    BY <1>5, <1>7, <2>1, <2>2, <2>3
<1>9. Untagged <=> n = 0 /\ t = ARP
  BY <1>2, <1>3, <1>6, <1>7, <1>8 DEF Untagged
<1>10. SingleTagged <=> n = 1 /\ tags[1].tpid = DOT1Q /\ t = ARP
  BY <1>2, <1>3, <1>6, <1>7, <1>8 DEF SingleTagged
<1>11. QinQTagged <=> n = 1 /\ tags[1].tpid = QINQ /\ t = ARP
  BY <1>2, <1>3, <1>6, <1>7, <1>8 DEF QinQTagged
<1>12. DoubleTagged <=> n = 2 /\ tags[1].tpid = QINQ /\ tags[2].tpid = DOT1Q /\ t = ARP
  BY <1>2, <1>3, <1>6, <1>7, <1>8 DEF DoubleTagged
<1>13. Untagged <=> Len(tags) = 0 /\ f.type = ARP
  BY <1>1, <1>3, <1>9, Zenon
<1>14. SingleTagged <=> Len(tags) = 1 /\ tags[1].tpid = DOT1Q /\ f.type = ARP
  BY <1>1, <1>3, <1>10, Zenon
<1>15. QinQTagged <=> Len(tags) = 1 /\ tags[1].tpid = QINQ /\ f.type = ARP
  BY <1>1, <1>3, <1>11, Zenon
<1>16. DoubleTagged <=> /\ Len(tags) = 2 /\ tags[1].tpid = QINQ /\ tags[2].tpid = DOT1Q
                        /\ f.type = ARP
  BY <1>1, <1>3, <1>12, Zenon
<1>17. QED
  BY <1>13, <1>14, <1>15, <1>16, Zenon

(* How many words of its body were received with a frame.                  *)
Arrived(f) == ReceivedLength(f) - TypeOffset(f) - 1

(* All of them, or enough to fill the buffer.                              *)
LEMMA BodyArrived ==
  ASSUME NEW f \in Frame, NEW n \in 0 .. 2, NEW b \in Nat,
         TypeOffset(f) = 6 + 2 * n, FrameLength(f) = 7 + 2 * n + b
  PROVE  /\ Arrived(f) \in Nat /\ Arrived(f) <= b
         /\ ReceivedLength(f) = 7 + 2 * n + Arrived(f)
         /\ ReceivedLength(f) <= FRAME_BUFFER_SIZE
         /\ Arrived(f) = b \/ ReceivedLength(f) = FRAME_BUFFER_SIZE
BY FrameParserAssumption DEF Arrived, ReceivedLength

(* What a header looks like after it was moved to make room for tags, with *)
(* a words of its body, as far as the copies ended inside the buffer.      *)
Arrangement(p, l, f, n, a, kept, to) ==
  /\ p \in [Buffer -> Nat]
  /\ l = 11 + a
  /\ \A k \in 1 .. 3 : p[2 + k] = Mac[3 + k]
  /\ l <= FRAME_BUFFER_SIZE => \A k \in 1 .. a : p[10 + k] = f.body[k]
  /\ \A k \in 6 .. 9 : p[k] = IF k >= to THEN Word(f, k - 4 + 2 * n)
                             ELSE IF k < kept THEN Word(f, k) ELSE 0

LEMMA Arranged ==
  ASSUME NEW f \in Frame, NEW n \in Nat, NEW b \in Nat, NEW a \in Nat, n <= 2, a <= b,
         TypeOffset(f) = 6 + 2 * n, FrameLength(f) = 7 + 2 * n + b,
         NEW kept \in Nat, NEW from \in Nat, NEW to \in Nat,
         to = from + 4 - 2 * n, from <= 6 + 2 * n, to = 0 \/ (to >= 6 /\ kept >= 6),
         raw = [k \in Buffer |-> Word(f, k)], processed = Zeros,
         length = 7 + 2 * n + a, length <= FRAME_BUFFER_SIZE,
         Moved(kept, from, to)
  PROVE  Arrangement(processed', length', f, n, a, kept, to)
<1>1. FRAME_BUFFER_SIZE \in Nat /\ 25 <= FRAME_BUFFER_SIZE
  BY FrameParserAssumption
<1>2. length' = 11 + a
  BY <1>1 DEF Moved
<1>0. /\ \A k \in 0 .. 5 : Word(f, k) = Mac[k + 1]
      /\ \A k \in 1 .. b : Word(f, 6 + 2 * n + k) = f.body[k]
  BY FrameWords, Zenon
<1>3. ASSUME NEW k \in Buffer
      PROVE  processed'[k] = IF k >= to /\ k < 11 + a THEN Word(f, k - 4 + 2 * n)
                             ELSE IF k < kept THEN Word(f, k) ELSE 0
  <2>1. processed'[k] = IF k >= to /\ k < to + (length - from) THEN raw[from + k - to]
                        ELSE IF k >= 0 /\ k < 0 + kept THEN raw[0 + k - 0] ELSE 0
    BY DEF Moved, Copy, Zeros
  <2>2. k \in Nat /\ k < FRAME_BUFFER_SIZE
    BY <1>1 DEF Buffer
  <2>3. to + (length - from) = 11 + a /\ from + k - to = k - 4 + 2 * n /\ 0 + k - 0 = k
    BY <2>2
  <2>4. k >= to /\ k < 11 + a => k - 4 + 2 * n \in Buffer
    BY <1>1, <2>2 DEF Buffer
  <2>5. QED
    BY <2>1, <2>2, <2>3, <2>4
<1>4. processed' \in [Buffer -> Nat]
  <2>1. processed' = [k \in Buffer |-> processed'[k]]
    BY DEF Moved, Copy
  <2>2. ASSUME NEW k \in Buffer
        PROVE  processed'[k] \in Nat
    <3>1. k \in Nat /\ (k >= to => k - 4 + 2 * n \in Nat)
      BY <1>1 DEF Buffer
    <3>2. Word(f, k) \in Nat /\ (k >= to => Word(f, k - 4 + 2 * n) \in Nat)
      BY <3>1, WordTyped
    <3>3. QED
      BY <1>3, <3>2
  <2>3. QED
    BY <2>1, <2>2
<1>5. ASSUME NEW k \in 1 .. 3
      PROVE  processed'[2 + k] = Mac[3 + k]
  <2>1. 2 + k \in Buffer /\ 2 + k \in 0 .. 5 /\ 2 + k + 1 = 3 + k
    BY <1>1 DEF Buffer
  <2>2. to = 0 => 2 + k - 4 + 2 * n = 2 + k
    BY <2>1
  <2>3. processed'[2 + k] = Word(f, 2 + k)
    BY <1>3, <2>1, <2>2
  <2>4. QED
    BY <1>0, <2>1, <2>3
<1>6. ASSUME NEW k \in 1 .. a, length' <= FRAME_BUFFER_SIZE
      PROVE  processed'[10 + k] = f.body[k]
  <2>1. /\ 10 + k \in Buffer /\ 10 + k >= to /\ 10 + k < 11 + a
        /\ 10 + k - 4 + 2 * n = 6 + 2 * n + k
    <3>1. 11 + a <= FRAME_BUFFER_SIZE
      BY <1>2, <1>6
    <3>2. k \in Nat /\ k <= a /\ k >= 1
      OBVIOUS
    <3> QED
      BY <1>1, <3>1, <3>2 DEF Buffer
  <2>2. processed'[10 + k] = Word(f, 6 + 2 * n + k)
    BY <1>3, <2>1
  <2>3. k \in 1 .. b
    OBVIOUS
  <2>4. QED
    BY <1>0, <2>2, <2>3
<1>7. ASSUME NEW k \in 6 .. 9
      PROVE  processed'[k] = IF k >= to THEN Word(f, k - 4 + 2 * n)
                             ELSE IF k < kept THEN Word(f, k) ELSE 0
  <2>1. k \in Buffer /\ k < 11 + a
    BY <1>1 DEF Buffer
  <2>2. QED
    BY <1>3, <2>1
<1>8. QED
  BY <1>2, <1>4, <1>5, <1>6, <1>7 DEF Arrangement

LEMMA OutermostOfTwo ==
  ASSUME NEW tags, NEW n \in 0 .. 2, DOMAIN tags = 1 .. n, NEW tpid
  PROVE  OutermostTag(tags, tpid) = IF n >= 1 /\ tags[1].tpid = tpid THEN tags[1]
                                    ELSE IF n = 2 /\ tags[2].tpid = tpid THEN tags[2]
                                    ELSE Missing
<1>1. CASE n >= 1 /\ tags[1].tpid = tpid
  BY <1>1, OutermostFirst
<1>2. CASE ~(n >= 1 /\ tags[1].tpid = tpid) /\ n = 2 /\ tags[2].tpid = tpid
  BY <1>2, OutermostFirst
<1>3. CASE ~(n >= 1 /\ tags[1].tpid = tpid) /\ ~(n = 2 /\ tags[2].tpid = tpid)
  <2>1. \A m \in DOMAIN tags : tags[m].tpid # tpid
    BY <1>3
  <2>2. QED
    BY <1>3, <2>1, OutermostNone
<1>4. QED
  BY <1>1, <1>2, <1>3

(* The four forms of a header that is kept.                                *)
LEMMA Normalised ==
  ASSUME NEW f \in Frame,
         raw = [k \in Buffer |-> Word(f, k)], processed = Zeros, length = ReceivedLength(f),
         NormaliseUntagged \/ NormaliseSingle \/ NormaliseDouble \/ NormaliseQinQ
  PROVE  /\ f.type = ARP /\ Len(Inband(f)) \in 0 .. 2
         /\ \E kept, to \in Nat :
              Arrangement(processed', length', f, Len(Inband(f)), Arrived(f), kept, to)
         /\ TagsAre(Inband(f))'
<1>1. PICK n, b \in Nat :
        /\ n = Len(Inband(f)) /\ b = Len(f.body)
        /\ TypeOffset(f) = 6 + 2 * n /\ FrameLength(f) = 7 + 2 * n + b
  BY FrameSizes
<1>2. PICK tags \in Seq(Tag) : tags = Inband(f)
  BY FrameTyped
<1>3. DOMAIN tags = 1 .. n /\ \A k \in 1 .. n : tags[k] \in Tag
  BY <1>1, <1>2
<1>4. \A k \in 1 .. n : Word(f, 4 + 2 * k) = tags[k].tpid /\ Word(f, 5 + 2 * k) = tags[k].tci
  BY <1>1, <1>2, FrameWords
<1>5. n \in 0 .. 2 => /\ Arrived(f) \in Nat /\ Arrived(f) <= b
                      /\ length = 7 + 2 * n + Arrived(f) /\ length <= FRAME_BUFFER_SIZE
  BY <1>1, BodyArrived
<1> DEFINE Arr(kept, to) == Arrangement(processed', length', f, n, Arrived(f), kept, to)
           Done == /\ f.type = ARP /\ n \in 0 .. 2
                   /\ \E kept, to \in Nat : Arr(kept, to)
                   /\ TagsAre(tags)'
<1>6. ASSUME NEW kept \in Nat, NEW from \in Nat, NEW to \in Nat, n \in 0 .. 2,
             to = from + 4 - 2 * n, from <= 6 + 2 * n, to = 0 \/ (to >= 6 /\ kept >= 6),
             Moved(kept, from, to)
      PROVE  Arr(kept, to)
  <2>1. n <= 2
    BY <1>6
  <2>2. TypeOffset(f) = 6 + 2 * n /\ FrameLength(f) = 7 + 2 * n + b
    BY <1>1
  <2>3. QED
    BY <1>5, <1>6, <2>1, <2>2, Arranged, Zenon
<1>7. /\ TagAt(6)' = [tpid |-> processed'[6], tci |-> processed'[7]]
      /\ TagAt(8)' = [tpid |-> processed'[8], tci |-> processed'[9]]
  BY DEF TagAt
<1>8. ASSUME NEW t6, NEW t8, OutermostTag(tags, QINQ) = t6, OutermostTag(tags, DOT1Q) = t8,
             t6 = [tpid |-> processed'[6], tci |-> processed'[7]],
             t8 = [tpid |-> processed'[8], tci |-> processed'[9]]
      PROVE  TagsAre(tags)'
  BY <1>7, <1>8, Zenon DEF TagsAre
<1> SUFFICES Done
  BY <1>1, <1>2, Zenon DEF TagsAre
<1>9. CASE NormaliseUntagged
  <2>1. n = 0 /\ f.type = ARP
    BY <1>1, <1>2, <1>9, Forms DEF NormaliseUntagged
  <2>2. Arr(6, 10)
    <3>1. Moved(6, 6, 10)
      BY <1>9 DEF NormaliseUntagged
    <3>2. 10 = 6 + 4 - 2 * n /\ 6 <= 6 + 2 * n /\ n \in 0 .. 2
      BY <2>1
    <3>3. QED
      BY <1>6, <3>1, <3>2
  <2>3. /\ processed'[6] = 0 /\ processed'[7] = 0
        /\ processed'[8] = 0 /\ processed'[9] = 0
    BY <2>1, <2>2 DEF Arrangement
  <2>4. OutermostTag(tags, QINQ) = Missing /\ OutermostTag(tags, DOT1Q) = Missing
    BY <1>3, <2>1, OutermostOfTwo, Numbers
  <2>5. Missing = [tpid |-> processed'[6], tci |-> processed'[7]]
    BY <2>3, Zenon DEF Missing
  <2>6. Missing = [tpid |-> processed'[8], tci |-> processed'[9]]
    BY <2>3, Zenon DEF Missing
  <2>7. TagsAre(tags)'
    BY <1>8, <2>4, <2>5, <2>6, Zenon
  <2>8. n \in 0 .. 2 /\ \E kept, to \in Nat : Arr(kept, to)
    <3>1. n \in 0 .. 2 /\ 6 \in Nat /\ 10 \in Nat
      BY <2>1
    <3>2. QED
      BY <2>2, <3>1, Zenon
  <2>9. QED
    BY <2>1, <2>7, <2>8, Zenon
<1>10. CASE NormaliseSingle
  <2>1. n = 1 /\ tags[1].tpid = DOT1Q /\ f.type = ARP
    BY <1>1, <1>2, <1>10, Forms DEF NormaliseSingle
  <2>2. Arr(6, 8)
    <3>1. Moved(6, 6, 8)
      BY <1>10 DEF NormaliseSingle
    <3>2. 8 = 6 + 4 - 2 * n /\ 6 <= 6 + 2 * n /\ n \in 0 .. 2
      BY <2>1
    <3>3. QED
      BY <1>6, <3>1, <3>2
  <2>3. /\ processed'[6] = 0 /\ processed'[7] = 0
        /\ processed'[8] = Word(f, 6) /\ processed'[9] = Word(f, 7)
    BY <2>1, <2>2 DEF Arrangement
  <2>4. OutermostTag(tags, QINQ) = Missing /\ OutermostTag(tags, DOT1Q) = tags[1]
    BY <1>3, <2>1, OutermostOfTwo, Numbers
  <2>5. Missing = [tpid |-> processed'[6], tci |-> processed'[7]]
    BY <2>3, Zenon DEF Missing
  <2>6. tags[1] = [tpid |-> processed'[8], tci |-> processed'[9]]
    <3>1. tags[1] = [tpid |-> tags[1].tpid, tci |-> tags[1].tci]
      BY <1>3, <2>1, TagFields
    <3>2. processed'[8] = tags[1].tpid
      BY <1>4, <2>1, <2>3
    <3>3. processed'[9] = tags[1].tci
      BY <1>4, <2>1, <2>3
    <3>4. QED
      BY <3>1, <3>2, <3>3, Zenon
  <2>7. TagsAre(tags)'
    BY <1>8, <2>4, <2>5, <2>6, Zenon
  <2>8. n \in 0 .. 2 /\ \E kept, to \in Nat : Arr(kept, to)
    <3>1. n \in 0 .. 2 /\ 6 \in Nat /\ 8 \in Nat
      BY <2>1
    <3>2. QED
      BY <2>2, <3>1, Zenon
  <2>9. QED
    BY <2>1, <2>7, <2>8, Zenon
<1>11. CASE NormaliseQinQ
  <2>1. n = 1 /\ tags[1].tpid = QINQ /\ f.type = ARP
    BY <1>1, <1>2, <1>11, Forms DEF NormaliseQinQ
  <2>2. Arr(8, 10)
    <3>1. Moved(8, 8, 10)
      BY <1>11 DEF NormaliseQinQ
    <3>2. 10 = 8 + 4 - 2 * n /\ 8 <= 6 + 2 * n /\ n \in 0 .. 2
      BY <2>1
    <3>3. QED
      BY <1>6, <3>1, <3>2
  <2>3. /\ processed'[6] = Word(f, 6) /\ processed'[7] = Word(f, 7)
        /\ processed'[8] = 0 /\ processed'[9] = 0
    BY <2>1, <2>2 DEF Arrangement
  <2>4. OutermostTag(tags, QINQ) = tags[1] /\ OutermostTag(tags, DOT1Q) = Missing
    BY <1>3, <2>1, OutermostOfTwo, Numbers
  <2>5. tags[1] = [tpid |-> processed'[6], tci |-> processed'[7]]
    <3>1. tags[1] = [tpid |-> tags[1].tpid, tci |-> tags[1].tci]
      BY <1>3, <2>1, TagFields
    <3>2. processed'[6] = tags[1].tpid
      BY <1>4, <2>1, <2>3
    <3>3. processed'[7] = tags[1].tci
      BY <1>4, <2>1, <2>3
    <3>4. QED
      BY <3>1, <3>2, <3>3, Zenon
  <2>6. Missing = [tpid |-> processed'[8], tci |-> processed'[9]]
    BY <2>3, Zenon DEF Missing
  <2>7. TagsAre(tags)'
    BY <1>8, <2>4, <2>5, <2>6, Zenon
  <2>8. n \in 0 .. 2 /\ \E kept, to \in Nat : Arr(kept, to)
    <3>1. n \in 0 .. 2 /\ 8 \in Nat /\ 10 \in Nat
      BY <2>1
    <3>2. QED
      BY <2>2, <3>1, Zenon
  <2>9. QED
    BY <2>1, <2>7, <2>8, Zenon
<1>12. CASE NormaliseDouble
  <2>1. n = 2 /\ tags[1].tpid = QINQ /\ tags[2].tpid = DOT1Q /\ f.type = ARP
    BY <1>1, <1>2, <1>12, Forms DEF NormaliseDouble
  <2>2. Arr(0, 0)
    <3>1. Moved(0, 0, 0)
      BY <1>12 DEF NormaliseDouble
    <3>2. 0 = 0 + 4 - 2 * n /\ 0 <= 6 + 2 * n /\ n \in 0 .. 2
      BY <2>1
    <3>3. QED
      BY <1>6, <3>1, <3>2
  <2>3. /\ processed'[6] = Word(f, 6) /\ processed'[7] = Word(f, 7)
        /\ processed'[8] = Word(f, 8) /\ processed'[9] = Word(f, 9)
    BY <2>1, <2>2 DEF Arrangement
  <2>4. OutermostTag(tags, QINQ) = tags[1] /\ OutermostTag(tags, DOT1Q) = tags[2]
    BY <1>3, <2>1, OutermostOfTwo, Numbers
  <2>5. tags[1] = [tpid |-> processed'[6], tci |-> processed'[7]]
    <3>1. tags[1] = [tpid |-> tags[1].tpid, tci |-> tags[1].tci]
      BY <1>3, <2>1, TagFields
    <3>2. processed'[6] = tags[1].tpid
      BY <1>4, <2>1, <2>3
    <3>3. processed'[7] = tags[1].tci
      BY <1>4, <2>1, <2>3
    <3>4. QED
      BY <3>1, <3>2, <3>3, Zenon
  <2>6. tags[2] = [tpid |-> processed'[8], tci |-> processed'[9]]
    <3>1. tags[2] = [tpid |-> tags[2].tpid, tci |-> tags[2].tci]
      BY <1>3, <2>1, TagFields
    <3>2. processed'[8] = tags[2].tpid
      BY <1>4, <2>1, <2>3
    <3>3. processed'[9] = tags[2].tci
      BY <1>4, <2>1, <2>3
    <3>4. QED
      BY <3>1, <3>2, <3>3, Zenon
  <2>7. TagsAre(tags)'
    BY <1>8, <2>4, <2>5, <2>6, Zenon
  <2>8. n \in 0 .. 2 /\ \E kept, to \in Nat : Arr(kept, to)
    <3>1. n \in 0 .. 2 /\ 0 \in Nat /\ 0 \in Nat
      BY <2>1
    <3>2. QED
      BY <2>2, <3>1, Zenon
  <2>9. QED
    BY <2>1, <2>7, <2>8, Zenon
<1>13. QED
  BY <1>9, <1>10, <1>11, <1>12, Zenon

LEMMA StandardForms ==
  ASSUME NEW tags \in Seq(Tag), StandardTags(tags)
  PROVE  \/ Len(tags) = 0
         \/ Len(tags) = 1 /\ tags[1].tpid \in {DOT1Q, QINQ}
         \/ Len(tags) = 2 /\ tags[1].tpid = QINQ /\ tags[2].tpid = DOT1Q
<1> DEFINE tpids == [n \in DOMAIN tags |-> tags[n].tpid]
<1>1. PICK l \in Nat : l = Len(tags) /\ DOMAIN tags = 1 .. l
  OBVIOUS
<1>2. DOMAIN tpids = 1 .. l /\ \A n \in 1 .. l : tpids[n] = tags[n].tpid
  BY <1>1
<1>3. tpids \in {<<>>, <<DOT1Q>>, <<QINQ>>, <<QINQ, DOT1Q>>}
  BY DEF StandardTags
<1> HIDE DEF tpids
<1>4. CASE tpids = <<>>
  BY <1>1, <1>2, <1>4
<1>5. CASE tpids = <<DOT1Q>> \/ tpids = <<QINQ>>
  <2>1. PICK t \in {DOT1Q, QINQ} : tpids = <<t>>
    BY <1>5
  <2>2. 1 .. l = 1 .. 1 /\ tpids[1] = t
    BY <1>2, <2>1
  <2>3. l = 1
    BY <2>2
  <2>4. QED
    BY <1>1, <1>2, <2>1, <2>2, <2>3
<1>6. CASE tpids = <<QINQ, DOT1Q>>
  <2>1. 1 .. l = 1 .. 2 /\ tpids[1] = QINQ /\ tpids[2] = DOT1Q
    BY <1>2, <1>6
  <2>2. l = 2
    <3>1. 2 \in 1 .. 2
      OBVIOUS
    <3>2. 2 \in 1 .. l
      BY <2>1, <3>1, Zenon
    <3>3. l \in 1 .. l
      BY <3>2
    <3>4. l \in 1 .. 2
      BY <2>1, <3>3, Zenon
    <3>5. QED
      BY <3>2, <3>4
  <2>3. QED
    BY <1>1, <1>2, <2>1, <2>2
<1>7. QED
  BY <1>3, <1>4, <1>5, <1>6

(* A header with standard tags has one of the four forms, also when the    *)
(* outermost tag was taken away.                                           *)
LEMMA StandardKept ==
  ASSUME NEW f \in Frame, f.type = ARP, StandardTags(f.tags),
         raw = [k \in Buffer |-> Word(f, k)]
  PROVE  Untagged \/ SingleTagged \/ DoubleTagged \/ QinQTagged
<1>1. PICK tags \in Seq(Tag) : tags = f.tags
  BY FrameTyped
<1>2. PICK left \in Seq(Tag) : left = Inband(f)
  BY FrameTyped
<1>3. \/ Len(tags) = 0
      \/ Len(tags) = 1 /\ tags[1].tpid \in {DOT1Q, QINQ}
      \/ Len(tags) = 2 /\ tags[1].tpid = QINQ /\ tags[2].tpid = DOT1Q
  BY <1>1, StandardForms
<1>4. \/ Len(left) = 0
      \/ Len(left) = 1 /\ left[1].tpid \in {DOT1Q, QINQ}
      \/ Len(left) = 2 /\ left[1].tpid = QINQ /\ left[2].tpid = DOT1Q
  <2>1. CASE f.report = "none"
    <3>1. left = tags
      BY <1>1, <1>2, <2>1 DEF Inband
    <3>2. QED
      BY <1>3, <3>1
  <2>2. CASE f.report # "none"
    <3>1. left = Tail(tags)
      BY <1>1, <1>2, <2>2 DEF Inband
    <3>2. tags # <<>>
      BY <1>1, <2>2, FrameTyped
    <3>3. Len(left) = Len(tags) - 1 /\ \A m \in 1 .. Len(tags) - 1 : left[m] = tags[m + 1]
      BY <3>1, <3>2, TailTags
    <3>4. QED
      BY <1>3, <3>3
  <2>3. QED
    BY <2>1, <2>2
<1>5. QED
  BY <1>2, <1>4, Forms
-----------------------------------------------------------------------------
LEMMA IndInvInit == Init => IndInv
<1> SUFFICES ASSUME Init PROVE IndInv
  OBVIOUS
<1>1. FRAME_BUFFER_SIZE \in Nat /\ Zeros \in [Buffer -> Nat]
  BY FrameParserAssumption DEF Zeros
<1>2. TypeOK
  <2>1. aux \in [status : {"none", "tpid", "no_tpid"}, tag : Tag \cup {Missing}]
    BY DEF Init
  <2>2. QED
    BY <1>1, <2>1 DEF Init, TypeOK
<1>3. QED
  BY <1>2 DEF Init, IndInv, Received, Placed, TagsPlaced, CopiesFit, DeviceRecorded, SenderRecorded, TagsRecorded,
              StandardAccepted, UniformLength

LEMMA ReceiveKeeps ==
  ASSUME IndInv, NEW f \in Frame, Receive(f)
  PROVE  IndInv'
<1>1. [k \in Buffer |-> Word(f, k)] \in [Buffer -> Nat]
  <2>1. ASSUME NEW k \in Buffer
        PROVE  Word(f, k) \in Nat
    <3>1. k \in Nat
      BY FrameParserAssumption DEF Buffer
    <3>2. QED
      BY <3>1, WordTyped
  <2>2. QED
    BY <2>1
<1>2. ReceivedLength(f) \in 0 .. FRAME_BUFFER_SIZE
  BY FrameSizes, FrameParserAssumption DEF ReceivedLength
<1>3. Ancillary(f) \in [status : {"none", "tpid", "no_tpid"}, tag : Tag \cup {Missing}]
  <2>1. f.report = "tpid" => Head(f.tags) \in Tag
    <3>1. SUFFICES ASSUME f.report = "tpid" PROVE Head(f.tags) \in Tag
      OBVIOUS
    <3>2. f.tags \in Seq(Tag) /\ f.tags # <<>>
      BY <3>1, FrameTyped
    <3>3. QED
      BY <3>2
  <2>2. (IF f.report = "tpid" THEN Head(f.tags) ELSE Missing) \in Tag \cup {Missing}
    BY <2>1
  <2>3. f.report \in {"none", "tpid", "no_tpid"}
    BY FrameTyped
  <2>4. QED
    BY <2>2, <2>3, Zenon DEF Ancillary
<1>4. TypeOK'
  <2>1. raw' \in [Buffer -> Nat]
    BY <1>1 DEF Receive
  <2>2. length' \in -1 .. FRAME_BUFFER_SIZE + 4
    BY <1>2, FrameParserAssumption DEF Receive
  <2>3. aux' \in [status : {"none", "tpid", "no_tpid"}, tag : Tag \cup {Missing}]
    BY <1>3, Zenon DEF Receive
  <2>4. pc' = "process_raw_arp_frame" /\ frame' \in Frame \cup {NONE}
    BY DEF Receive
  <2>5. processed' = processed /\ device' = device /\ TypeOK
    BY DEF Receive, IndInv
  <2>6. QED
    BY <2>1, <2>2, <2>3, <2>4, <2>5, Zenon DEF TypeOK
<1>5. Received'
  BY DEF IndInv, Receive, Received
<1>6. pc' = "process_raw_arp_frame"
  BY DEF Receive
<1>7. QED
  BY <1>4, <1>5, <1>6 DEF IndInv, Placed, TagsPlaced, CopiesFit, DeviceRecorded, SenderRecorded, TagsRecorded,
                          StandardAccepted, UniformLength

LEMMA ReceiveFailsKeeps ==
  ASSUME IndInv, ReceiveFails
  PROVE  IndInv'
<1>1. /\ pc' = "failed" /\ length' = -1
      /\ frame' = frame /\ raw' = raw /\ processed' = processed
      /\ aux' = aux /\ device' = device
  BY DEF ReceiveFails
<1>2. -1 \in -1 .. FRAME_BUFFER_SIZE + 4
  BY FrameParserAssumption
<1>3. TypeOK'
  BY <1>1, <1>2, Zenon DEF IndInv, TypeOK
<1>4. QED
  BY <1>1, <1>3 DEF IndInv, Received, Placed, TagsPlaced, CopiesFit, DeviceRecorded,
                    SenderRecorded, TagsRecorded, StandardAccepted, UniformLength

LEMMA ProcessRawArpFrameKeeps ==
  ASSUME IndInv, ProcessRawArpFrame
  PROVE  IndInv'
<1> PICK f : f = frame
  OBVIOUS
<1>1. /\ pc = "process_raw_arp_frame" /\ f \in Frame /\ frame = f /\ frame' = f
      /\ length = ReceivedLength(f)
      /\ raw = [k \in Buffer |-> Word(f, k)] /\ raw' = raw
      /\ aux = Ancillary(f) /\ aux' = aux /\ device' = device
      /\ processed = Zeros /\ TypeOK
  BY DEF IndInv, Received, ProcessRawArpFrame
<1>2. PICK n, b \in Nat : /\ n = Len(Inband(f)) /\ b = Len(f.body)
                         /\ TypeOffset(f) = 6 + 2 * n /\ FrameLength(f) = 7 + 2 * n + b
  BY <1>1, FrameSizes
<1>3. FRAME_BUFFER_SIZE \in Nat /\ 25 <= FRAME_BUFFER_SIZE /\ TypeOK
  BY <1>1, FrameParserAssumption
<1>4. CASE NormaliseUntagged \/ NormaliseSingle \/ NormaliseDouble \/ NormaliseQinQ
  <2>1. /\ f.type = ARP /\ n \in 0 .. 2
        /\ \E kept, to \in Nat : Arrangement(processed', length', f, n, Arrived(f), kept, to)
        /\ TagsAre(Inband(f))'
    BY <1>1, <1>2, <1>4, Normalised, Zenon
  <2>2. PICK a \in Nat :
          /\ a = Arrived(f) /\ a <= b
          /\ ReceivedLength(f) = 7 + 2 * n + a /\ ReceivedLength(f) <= FRAME_BUFFER_SIZE
          /\ a = b \/ ReceivedLength(f) = FRAME_BUFFER_SIZE
    BY <1>1, <1>2, <2>1, BodyArrived
  <2>3. /\ processed' \in [Buffer -> Nat]
        /\ length' = 11 + a
        /\ \A k \in 1 .. 3 : processed'[2 + k] = Mac[3 + k]
        /\ length' <= FRAME_BUFFER_SIZE => \A k \in 1 .. a : processed'[10 + k] = f.body[k]
    BY <2>1, <2>2, Zenon DEF Arrangement
  <2>4. /\ pc' = IF 11 + a > FRAME_BUFFER_SIZE THEN "undefined"
                ELSE IF a >= 14 THEN "get_vlan_info" ELSE "ignored"
        /\ length' \in -1 .. FRAME_BUFFER_SIZE + 4
    <3>1. Whole(length') <=> a >= 14
      BY <2>3 DEF Whole
    <3>2. pc' = IF 11 + a > FRAME_BUFFER_SIZE THEN "undefined"
                ELSE IF a >= 14 THEN "get_vlan_info" ELSE "ignored"
      BY <2>3, <3>1, Zenon DEF ProcessRawArpFrame
    <3>3. QED
      BY <1>3, <2>1, <2>2, <2>3, <3>2
  <2>5. TypeOK'
    <3>1. pc' \in {"get_vlan_info", "ignored", "undefined"}
      BY <2>4
    <3>2. QED
      BY <1>1, <2>3, <2>4, <3>1, Zenon DEF TypeOK
  <2>6. 11 + a <= FRAME_BUFFER_SIZE =>
          /\ a >= 14 <=> b >= 14
          /\ 11 + a = IF 11 + b <= FRAME_BUFFER_SIZE THEN 11 + b ELSE FRAME_BUFFER_SIZE
    BY <1>3, <2>1, <2>2
  <2>7. Placed'
    <3>1. pc' = "get_vlan_info" => 11 + a <= FRAME_BUFFER_SIZE /\ a >= 14 /\ b >= 14
      BY <1>3, <2>4, <2>6
    <3>2. pc' = "get_vlan_info" => \A k \in 1 .. 14 : processed'[11 - 1 + k] = f.body[k]
      <4>1. a >= 14 => \A k \in 1 .. 14 : k \in 1 .. a /\ 11 - 1 + k = 10 + k
        OBVIOUS
      <4>2. QED
        BY <2>3, <3>1, <4>1
    <3>3. pc' # "set_device_data"
      BY <2>4
    <3>4. QED
      BY <1>1, <1>2, <2>1, <2>3, <2>6, <3>1, <3>2, <3>3, Zenon DEF Placed
  <2>8. TagsPlaced'
    <3>1. pc' # "set_device_data"
      BY <2>4
    <3>2. QED
      BY <1>1, <1>2, <2>1, <3>1, Zenon DEF TagsPlaced, TagsAre
  <2>9. StandardAccepted' /\ UniformLength'
    <3>1. /\ pc' = "ignored" => ~(b >= 14)
          /\ pc' = "get_vlan_info" => 11 + a <= FRAME_BUFFER_SIZE
      BY <1>3, <2>4, <2>6
    <3>2. QED
      BY <1>1, <1>2, <2>3, <2>6, <3>1, Zenon DEF StandardAccepted, UniformLength
  <2>10. CopiesFit'
    <3>1. Room(f) = 4 - 2 * n
      BY <1>2 DEF Room
    <3>2. pc' = "undefined" => Room(f) > 0 /\ ReceivedLength(f) + Room(f) > FRAME_BUFFER_SIZE
      BY <1>3, <2>1, <2>2, <2>4, <3>1
    <3>3. frame'.type = ARP
      BY <1>1, <2>1
    <3>4. pc' = "undefined" => Room(frame') > 0 /\ ReceivedLength(frame') + Room(frame') > FRAME_BUFFER_SIZE
      BY <1>1, <3>2, Zenon
    <3>5. QED
      BY <3>3, <3>4, Zenon DEF CopiesFit
  <2>11. QED
    BY <1>1, <2>4, <2>5, <2>7, <2>8, <2>9, <2>10
       DEF IndInv, Received, DeviceRecorded, SenderRecorded, TagsRecorded
<1>5. CASE NoArp
  <2>1. length' = 0 /\ processed' = processed /\ pc' = "ignored"
    BY <1>3, <1>5 DEF NoArp, ProcessRawArpFrame, Whole
  <2>2. TypeOK'
    BY <1>1, <1>3, <2>1 DEF TypeOK
  <2>3. StandardAccepted'
    <3>1. ~(f.type = ARP /\ StandardTags(f.tags))
      BY <1>1, <1>5, StandardKept DEF NoArp
    <3>2. QED
      BY <1>1, <3>1, Zenon DEF StandardAccepted
  <2>4. QED
    BY <2>1, <2>2, <2>3 DEF IndInv, Received, Placed, TagsPlaced, CopiesFit,
                            DeviceRecorded, SenderRecorded, TagsRecorded, UniformLength
<1>6. QED
  BY <1>4, <1>5 DEF ProcessRawArpFrame

(* A reported tag, put back where the frame had it, makes the room for     *)
(* tags show the tags on the wire.                                         *)
LEMMA TagPutBack ==
  ASSUME NEW f \in Frame, f.report # "no_tpid", Len(Inband(f)) \in 0 .. 2,
         aux = Ancillary(f), processed \in [Buffer -> Nat], TagsAre(Inband(f)), GetVlanInfo
  PROVE  /\ processed' \in [Buffer -> Nat]
         /\ \A k \in Buffer : k \notin 6 .. 9 => processed'[k] = processed[k]
         /\ TagsAre(f.tags)'
<1>1. PICK tags \in Seq(Tag) : tags = f.tags
  BY FrameTyped
<1>2. /\ TagAt(6)' = [tpid |-> processed'[6], tci |-> processed'[7]]
      /\ TagAt(8)' = [tpid |-> processed'[8], tci |-> processed'[9]]
      /\ TagAt(6) = [tpid |-> processed[6], tci |-> processed[7]]
      /\ TagAt(8) = [tpid |-> processed[8], tci |-> processed[9]]
  BY DEF TagAt
<1>3. \A k \in 6 .. 9 : k \in Buffer
  <2>1. FRAME_BUFFER_SIZE \in Nat /\ 25 <= FRAME_BUFFER_SIZE
    BY FrameParserAssumption
  <2>2. QED
    BY <2>1 DEF Buffer
<1>4. CASE f.report = "none"
  <2>1. aux.tag = Missing /\ Inband(f) = tags
    BY <1>1, <1>4 DEF Ancillary, Inband
  <2>2. aux.tag.tpid = 0
    BY <2>1 DEF Missing
  <2>3. processed' = processed
    BY <2>2, Numbers DEF GetVlanInfo
  <2>4. TagsAre(tags)'
    BY <1>2, <2>1, <2>3, Zenon DEF TagsAre
  <2>5. QED
    BY <1>1, <2>3, <2>4, Zenon DEF TagsAre
<1>5. CASE f.report = "tpid"
  <2>1. tags # <<>>
    BY <1>1, <1>5, FrameTyped
  <2>2. PICK tag \in Tag : tag = tags[1]
    BY <2>1
  <2>3. aux.tag = tag /\ Inband(f) = Tail(tags)
    BY <1>1, <1>5, <2>1, <2>2 DEF Ancillary, Inband
  <2>4. Len(tags) <= 3
    BY <2>1, <2>3, TailTags
  <2>5. /\ OutermostTag(tags, QINQ) = IF tag.tpid = QINQ THEN tag ELSE TagAt(6)
        /\ OutermostTag(tags, DOT1Q) = IF tag.tpid = DOT1Q THEN tag ELSE TagAt(8)
    BY <2>1, <2>2, <2>3, <2>4, OutermostOfTail, Zenon DEF TagsAre
  <2>6. tag = [tpid |-> tag.tpid, tci |-> tag.tci]
    BY TagFields
  <2>7. PICK tpid, tci : tpid = tag.tpid /\ tci = tag.tci
    OBVIOUS
  <2>8. tpid \in Nat /\ tci \in Nat
    <3>1. tag.tpid \in {QINQ, DOT1Q, OtherTpid}
      BY TagFields
    <3>2. tag.tci \in Tci
      BY DEF Tag
    <3>3. tpid \in Nat
      BY <2>7, <3>1, Numbers, FrameParserAssumption
    <3>4. tci \in Nat
      BY <2>7, <3>2, FrameParserAssumption
    <3>5. QED
      BY <3>3, <3>4
  <2>9. processed' = IF tpid \in {QINQ, DOT1Q}
                       THEN [processed EXCEPT ![TagOffset(tpid)] = tpid,
                                              ![TagOffset(tpid) + 1] = tci]
                       ELSE processed
    BY <2>3, <2>7, Zenon DEF GetVlanInfo
  <2>10. CASE tpid = QINQ
    <3>1. processed' = [processed EXCEPT ![6] = tpid, ![7] = tci]
      BY <2>9, <2>10 DEF TagOffset
    <3>2. /\ processed' \in [Buffer -> Nat]
          /\ \A k \in Buffer : k \notin 6 .. 9 => processed'[k] = processed[k]
          /\ processed'[6] = tpid /\ processed'[7] = tci
          /\ processed'[8] = processed[8] /\ processed'[9] = processed[9]
      BY <1>3, <2>8, <3>1
    <3>3. TagAt(6)' = tag /\ TagAt(8)' = TagAt(8)
      BY <1>2, <2>6, <2>7, <3>2, Zenon
    <3>4. QED
      BY <1>1, <2>5, <2>7, <2>10, <3>2, <3>3, Numbers, Zenon DEF TagsAre
  <2>11. CASE tpid = DOT1Q
    <3>1. processed' = [processed EXCEPT ![8] = tpid, ![9] = tci]
      BY <2>9, <2>11, Numbers DEF TagOffset
    <3>2. /\ processed' \in [Buffer -> Nat]
          /\ \A k \in Buffer : k \notin 6 .. 9 => processed'[k] = processed[k]
          /\ processed'[8] = tpid /\ processed'[9] = tci
          /\ processed'[6] = processed[6] /\ processed'[7] = processed[7]
      BY <1>3, <2>8, <3>1
    <3>3. TagAt(8)' = tag /\ TagAt(6)' = TagAt(6)
      BY <1>2, <2>6, <2>7, <3>2, Zenon
    <3>4. QED
      BY <1>1, <2>5, <2>7, <2>11, <3>2, <3>3, Numbers, Zenon DEF TagsAre
  <2>12. CASE tpid \notin {QINQ, DOT1Q}
    <3>1. processed' = processed
      BY <2>9, <2>12
    <3>2. TagAt(8)' = TagAt(8) /\ TagAt(6)' = TagAt(6)
      BY <1>2, <3>1, Zenon
    <3>3. QED
      BY <1>1, <2>5, <2>7, <2>12, <3>1, <3>2, Zenon DEF TagsAre
  <2>13. QED
    BY <2>10, <2>11, <2>12
<1>6. QED
  BY <1>4, <1>5, FrameTyped

LEMMA GetVlanInfoKeeps ==
  ASSUME IndInv, GetVlanInfo
  PROVE  IndInv'
<1> PICK f : f = frame
  OBVIOUS
<1>1. /\ pc = "get_vlan_info" /\ pc' = "set_device_data" /\ aux.status # "no_tpid"
      /\ frame = f /\ frame' = f /\ raw' = raw /\ length' = length /\ aux' = aux
      /\ device' = device
  BY DEF GetVlanInfo
<1>2. /\ f \in Frame /\ f.type = ARP /\ Len(f.body) >= 14
      /\ length = IF 11 + Len(f.body) <= FRAME_BUFFER_SIZE THEN 11 + Len(f.body)
                  ELSE FRAME_BUFFER_SIZE
      /\ \A k \in 1 .. 3 : processed[2 + k] = Mac[3 + k]
      /\ \A k \in 1 .. 14 : processed[11 - 1 + k] = f.body[k]
      /\ aux = Ancillary(f) /\ Len(Inband(f)) \in 0 .. 2 /\ TagsAre(Inband(f))
  BY <1>1, Zenon DEF IndInv, Placed, TagsPlaced
<1>3. f.report # "no_tpid"
  <2>1. Ancillary(f).status = f.report
    BY DEF Ancillary
  <2>2. QED
    BY <1>1, <1>2, <2>1, Zenon
<1>4. TypeOK
  BY DEF IndInv
<1>5. /\ processed' \in [Buffer -> Nat]
      /\ \A k \in Buffer : k \notin 6 .. 9 => processed'[k] = processed[k]
      /\ TagsAre(f.tags)'
  <2>1. processed \in [Buffer -> Nat]
    BY <1>4 DEF TypeOK
  <2>2. QED
    BY <1>2, <1>3, <2>1, TagPutBack, Zenon
<1>6. TypeOK'
  BY <1>1, <1>4, <1>5, Zenon DEF TypeOK
<1>7. /\ \A k \in 1 .. 3 : processed'[2 + k] = Mac[3 + k]
      /\ \A k \in 1 .. 14 : processed'[11 - 1 + k] = f.body[k]
  <2>1. FRAME_BUFFER_SIZE \in Nat /\ 25 <= FRAME_BUFFER_SIZE
    BY FrameParserAssumption
  <2>2. /\ \A k \in 1 .. 3 : 2 + k \in Buffer /\ 2 + k \notin 6 .. 9
        /\ \A k \in 1 .. 14 : 11 - 1 + k \in Buffer /\ 11 - 1 + k \notin 6 .. 9
    BY <2>1 DEF Buffer
  <2>3. QED
    BY <1>2, <1>5, <2>2, Zenon
<1>8. Placed'
  BY <1>1, <1>2, <1>7, Zenon DEF Placed
<1>9. TagsPlaced'
  <2>1. pc' # "get_vlan_info"
    BY <1>1
  <2>2. QED
    BY <1>1, <1>5, <2>1, Zenon DEF TagsPlaced, TagsAre
<1>10. QED
  BY <1>1, <1>6, <1>8, <1>9 DEF IndInv, Received, CopiesFit, DeviceRecorded, SenderRecorded, TagsRecorded,
                                StandardAccepted, UniformLength

LEMMA SetDeviceDataKeeps ==
  ASSUME IndInv, SetDeviceData
  PROVE  IndInv'
<1>1. /\ pc = "set_device_data" /\ pc' = "registered" /\ frame' = frame
      /\ raw' = raw /\ processed' = processed /\ length' = length /\ aux' = aux
  BY DEF SetDeviceData
<1>2. TypeOK /\ processed \in [Buffer -> Nat]
  BY DEF IndInv, TypeOK
<1>3. /\ frame \in Frame /\ frame.type = ARP /\ Len(frame.body) >= 14
      /\ \A k \in 1 .. 3 : processed[2 + k] = Mac[3 + k]
      /\ \A k \in 1 .. 14 : processed[11 - 1 + k] = frame.body[k]
      /\ TagsAre(frame.tags)
  BY <1>1, Zenon DEF IndInv, Placed, TagsPlaced
<1>4. PICK mac, ip : /\ mac = [k \in 1 .. 3 |-> processed[2 + k]]
                     /\ ip = [k \in 1 .. 2 |-> processed[11 + 7 - 1 + k]]
  OBVIOUS
<1>5. PICK q, d : /\ q = [tpid |-> processed[6], tci |-> processed[7]]
                  /\ d = [tpid |-> processed[8], tci |-> processed[9]]
  OBVIOUS
<1>6. device' = [mac |-> mac, qinq_tag |-> q, dot1q_tag |-> d, ip |-> ip]
  BY <1>4, <1>5, Zenon DEF SetDeviceData
<1>7. /\ device'.mac = mac /\ device'.ip = ip
      /\ device'.qinq_tag = q /\ device'.dot1q_tag = d
  BY <1>6
<1>8. FRAME_BUFFER_SIZE \in Nat /\ 25 <= FRAME_BUFFER_SIZE
  BY FrameParserAssumption
<1>9. \A k \in 0 .. 24 : processed[k] \in Nat
  BY <1>2, <1>8 DEF Buffer
<1>10. TypeOK'
  <2>1. mac \in [1 .. 3 -> Nat]
    BY <1>4, <1>9
  <2>2. ip \in [1 .. 2 -> Nat]
    BY <1>4, <1>9
  <2>3. q \in [tpid : Nat, tci : Nat] /\ d \in [tpid : Nat, tci : Nat]
    <3>1. processed[6] \in Nat /\ processed[7] \in Nat /\ processed[8] \in Nat /\ processed[9] \in Nat
      BY <1>9
    <3>2. QED
      BY <1>5, <3>1, Zenon
  <2>4. device' \in [mac : [1 .. 3 -> Nat], ip : [1 .. 2 -> Nat],
                     qinq_tag : [tpid : Nat, tci : Nat], dot1q_tag : [tpid : Nat, tci : Nat]]
    BY <1>6, <2>1, <2>2, <2>3, Zenon
  <2>5. QED
    BY <1>1, <1>2, <2>4, Zenon DEF TypeOK
<1>11. SenderRecorded'
  <2>1. \A k \in 1 .. 3 : mac[k] = Mac[3 + k]
    BY <1>3, <1>4
  <2>2. \A k \in 1 .. 2 : ip[k] = frame.body[7 + k]
    <3>1. ASSUME NEW k \in 1 .. 2
          PROVE  ip[k] = frame.body[7 + k]
      <4>1. 7 + k \in 1 .. 14 /\ 11 - 1 + (7 + k) = 11 + 7 - 1 + k
        OBVIOUS
      <4>2. ip[k] = processed[11 - 1 + (7 + k)]
        BY <1>4, <4>1
      <4>3. QED
        BY <1>3, <4>1, <4>2, Zenon
    <3>2. QED
      BY <3>1
  <2>3. QED
    BY <1>1, <1>3, <1>7, <2>1, <2>2, Zenon DEF SenderRecorded
<1>12. TagsRecorded'
  <2>1. TagAt(6) = q /\ TagAt(8) = d
    BY <1>5 DEF TagAt
  <2>2. QED
    BY <1>1, <1>3, <1>7, <2>1, Zenon DEF TagsRecorded, TagsAre
<1>13. QED
  BY <1>1, <1>10, <1>11, <1>12 DEF IndInv, Received, Placed, TagsPlaced, CopiesFit,
                                   DeviceRecorded, StandardAccepted, UniformLength

LEMMA EndKeeps ==
  ASSUME IndInv, NetworkError \/ Return
  PROVE  IndInv'
<1>1. CASE NetworkError
  <2>1. TypeOK'
    BY <1>1, Zenon DEF IndInv, TypeOK, NetworkError
  <2>2. pc' = "exited"
    BY <1>1 DEF NetworkError
  <2>3. QED
    BY <2>1, <2>2 DEF IndInv, Received, Placed, TagsPlaced, CopiesFit, DeviceRecorded, SenderRecorded, TagsRecorded,
                      StandardAccepted, UniformLength
<1>2. CASE Return
  <2>1. TypeOK'
    <3>1. FRAME_BUFFER_SIZE \in Nat /\ Zeros \in [Buffer -> Nat]
      BY FrameParserAssumption DEF Zeros
    <3>2. aux' \in [status : {"none", "tpid", "no_tpid"}, tag : Tag \cup {Missing}]
      BY <1>2 DEF Return
    <3>3. QED
      BY <1>2, <3>1, <3>2 DEF Return, TypeOK
  <2>2. pc' = "epoll" /\ processed' = Zeros
    BY <1>2 DEF Return
  <2>3. QED
    BY <2>1, <2>2 DEF IndInv, Received, Placed, TagsPlaced, CopiesFit, DeviceRecorded, SenderRecorded, TagsRecorded,
                      StandardAccepted, UniformLength
<1>3. QED
  BY <1>1, <1>2

LEMMA IndInvNext == IndInv /\ [Next]_vars => IndInv'
<1> SUFFICES ASSUME IndInv, [Next]_vars PROVE IndInv'
  OBVIOUS
<1>1. CASE Next
  BY <1>1, ReceiveKeeps, ReceiveFailsKeeps, ProcessRawArpFrameKeeps, GetVlanInfoKeeps, SetDeviceDataKeeps,
     EndKeeps, Zenon DEF Next
<1>2. CASE UNCHANGED vars
  BY <1>2 DEF vars, IndInv, TypeOK, Received, Placed, TagsPlaced, TagsAre, TagAt,
              CopiesFit, DeviceRecorded, SenderRecorded, TagsRecorded, StandardAccepted, UniformLength
<1>3. QED
  BY <1>1, <1>2

(* The whole invariant holds of every state.                               *)
THEOREM Invariance == Spec => []IndInv
BY IndInvInit, IndInvNext, PTL DEF Spec

(* The values of the variables, for a buffer of any size and frames of any *)
(* length: recvmsg() may cut them, and process_raw_arp_frame overrun.      *)
THEOREM TypeCorrect == Spec => []TypeOK
<1>1. IndInv => TypeOK
  BY DEF IndInv
<1>2. QED
  BY <1>1, Invariance, PTL

(* Of all frames of all lengths, process_raw_arp_frame overruns its buffer *)
(* for those only in which the missing tags do not fit any more.           *)
THEOREM CopiesFitCorrect == Spec => []CopiesFit
<1>1. IndInv => CopiesFit
  BY DEF IndInv
<1>2. QED
  BY <1>1, Invariance, PTL

(* So it never does where every frame leaves room for both tags, as those  *)
(* of a standard length do (at most 1522 bytes, in a buffer of 2048).      *)
THEOREM StandardLengthFits ==
  ASSUME \A f \in Frame : FrameLength(f) + ETH_QinQ_DOT1Q_TAGS_LEN <= FRAME_BUFFER_SIZE
  PROVE  Spec => [](pc # "undefined")
<1>1. IndInv => pc # "undefined"
  <2> SUFFICES ASSUME IndInv, pc = "undefined" PROVE FALSE
    OBVIOUS
  <2>1. frame \in Frame /\ ReceivedLength(frame) + Room(frame) > FRAME_BUFFER_SIZE
    BY DEF IndInv, CopiesFit, Received
  <2>2. PICK n, b \in Nat :
          TypeOffset(frame) = 6 + 2 * n /\ FrameLength(frame) = 7 + 2 * n + b
    BY <2>1, FrameSizes
  <2>3. FrameLength(frame) + 4 <= FRAME_BUFFER_SIZE
    BY <2>1
  <2> QED
    BY <2>1, <2>2, <2>3, FrameParserAssumption DEF ReceivedLength, Room
<1>2. QED
  BY <1>1, Invariance, PTL

(* Whatever tags a frame has, and wherever the card puts them, the device  *)
(* that set_device_data makes of it has its sender's addresses, and the    *)
(* outermost tag of each kind that was on the wire.                        *)
THEOREM DeviceRecordedCorrect == Spec => []DeviceRecorded
<1>1. IndInv => DeviceRecorded
  BY DEF IndInv
<1>2. QED
  BY <1>1, Invariance, PTL

(* process_raw_arp_frame ignores no whole ARP packet with standard tags.   *)
THEOREM StandardAcceptedCorrect == Spec => []StandardAccepted
<1>1. IndInv => StandardAccepted
  BY DEF IndInv
<1>2. QED
  BY <1>1, Invariance, PTL

(* What it keeps has one length, whatever tags the frame had, but for the  *)
(* end of a frame that was cut.                                            *)
THEOREM UniformLengthCorrect == Spec => []UniformLength
<1>1. IndInv => UniformLength
  BY DEF IndInv
<1>2. QED
  BY <1>1, Invariance, PTL
=============================================================================
