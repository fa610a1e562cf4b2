---------------------------- MODULE FrameParser -----------------------------
(***************************************************************************)
(* From a frame to a device record: net/frame_parser.c and the calls of it *)
(* in handle_incoming_frame (net/network_thread.c).                        *)
(*                                                                         *)
(* A frame has any number of VLAN tags before its type.  The network card  *)
(* may take the outermost one away and report it beside the frame.  The    *)
(* program brings the header to one form with room for an 802.1ad tag and  *)
(* an 802.1Q tag, puts the reported tag back in its place, and reads the   *)
(* fields of the device at fixed offsets.                                  *)
(*                                                                         *)
(* Offsets and lengths are those of the code in words of two bytes; a      *)
(* buffer is a function from offsets to words.  Nothing in the code limits *)
(* the length of a frame: recvmsg() cuts what is longer than its buffer,   *)
(* and a copy may end beyond the other one, which is where a behaviour     *)
(* stops here.  Abstracted: frames of an odd length, byte order, the time  *)
(* of day stored in last_seen.                                             *)
(***************************************************************************)
EXTENDS Integers, Sequences

CONSTANTS
  FRAME_BUFFER_SIZE,
  Tci, OtherTpid, OtherType,
  Mac,              \* the two addresses of a frame
  TagList,          \* the lists of tags a frame may have, outermost first
  Body,             \* what may follow the type
  NONE

(* frame_parser.h *)
ETH_MAC_ADDRS_LEN == 6
ETH_QinQ_TAG_LEN == 2
ETH_QinQ_DOT1Q_TAGS_LEN == 4
ETH_TYPE_OFFSET_UNTAGGED == 6
ETH_TYPE_OFFSET_SINGLE_TAG == 8
ETH_TYPE_OFFSET_DOUBLE_TAG == 10
EthHeader == 11
ArpHeader == 14
Spa == 7

ARP == 2054       \* 0x0806
DOT1Q == 33024    \* 0x8100
QINQ == 34984     \* 0x88a8

Buffer == 0 .. FRAME_BUFFER_SIZE - 1
Tag == [tpid : {QINQ, DOT1Q, OtherTpid}, tci : Tci]

ASSUME FrameParserAssumption ==
  /\ FRAME_BUFFER_SIZE \in Nat /\ EthHeader + ArpHeader <= FRAME_BUFFER_SIZE
  /\ Tci \subseteq Nat /\ OtherTpid \in Nat /\ OtherType \in Nat
  /\ OtherTpid \notin {0, ARP, DOT1Q, QINQ} /\ OtherType \notin {ARP, DOT1Q, QINQ}
  /\ Mac \in [1 .. ETH_MAC_ADDRS_LEN -> Nat]
  /\ \A tags \in TagList : tags \in Seq(Tag)
  /\ \A body \in Body : body \in Seq(Nat)

VARIABLES
  pc,          \* the call of handle_incoming_frame that comes next
  frame,       \* history: the frame on the wire
  raw,         \* raw_frame_data
  processed,   \* processed_frame
  length,      \* frame_length
  aux,         \* tpacket_auxdata: its status bits and the tag
  device       \* the record made of the frame

vars == <<pc, frame, raw, processed, length, aux, device>>
-----------------------------------------------------------------------------
(* What the kernel does with a frame before the program sees it: a tag may *)
(* be reported, with or without its TPID, instead of left in the frame.    *)
Frame == {f \in [tags : TagList, type : {ARP, OtherType}, body : Body,
                 report : {"none", "tpid", "no_tpid"}] :
            f.tags = <<>> => f.report = "none"}

Inband(f) == IF f.report = "none" THEN f.tags ELSE Tail(f.tags)

TypeOffset(f) == ETH_MAC_ADDRS_LEN + ETH_QinQ_TAG_LEN * Len(Inband(f))

FrameLength(f) == TypeOffset(f) + 1 + Len(f.body)

TagWord(tag, k) == IF k % 2 = 0 THEN tag.tpid ELSE tag.tci

Word(f, k) ==
  IF k < ETH_MAC_ADDRS_LEN THEN Mac[k + 1]
  ELSE IF k < TypeOffset(f) THEN TagWord(Inband(f)[(k - ETH_MAC_ADDRS_LEN) \div 2 + 1], k)
  ELSE IF k = TypeOffset(f) THEN f.type
  ELSE IF k < FrameLength(f) THEN f.body[k - TypeOffset(f)]
  ELSE 0

Missing == [tpid |-> 0, tci |-> 0]

Ancillary(f) ==
  [status |-> f.report, tag |-> IF f.report = "tpid" THEN Head(f.tags) ELSE Missing]

Zeros == [k \in Buffer |-> 0]

Copy(dst, at, src, from, n) ==
  [k \in Buffer |-> IF k >= at /\ k < at + n THEN src[from + k - at] ELSE dst[k]]

Init ==
  /\ pc = "epoll" /\ length = 0 /\ aux = [status |-> "none", tag |-> Missing]
  /\ frame = NONE /\ device = NONE
  /\ raw = Zeros /\ processed = Zeros

(* What recvmsg() returns: the rest of a longer frame is thrown away.      *)
ReceivedLength(f) ==
  IF FrameLength(f) <= FRAME_BUFFER_SIZE THEN FrameLength(f) ELSE FRAME_BUFFER_SIZE

(* recvmsg() into a cleared buffer.                                        *)
Receive(f) ==
  /\ pc = "epoll" /\ pc' = "process_raw_arp_frame"
  /\ frame' = f
  /\ raw' = [k \in Buffer |-> Word(f, k)]
  /\ length' = ReceivedLength(f)
  /\ aux' = Ancillary(f)
  /\ UNCHANGED <<processed, device>>

(* recvmsg() has no frame to give: handle_incoming_frame returns.          *)
ReceiveFails ==
  /\ pc = "epoll" /\ pc' = "failed"
  /\ length' = -1
  /\ UNCHANGED <<frame, raw, processed, aux, device>>
-----------------------------------------------------------------------------
(* process_raw_arp_frame: which of the four forms the header has, how much *)
(* of it is in place, and what has to be moved behind the room for tags.   *)
Untagged == raw[ETH_TYPE_OFFSET_UNTAGGED] = ARP

SingleTagged ==
  raw[ETH_TYPE_OFFSET_UNTAGGED] = DOT1Q /\ raw[ETH_TYPE_OFFSET_SINGLE_TAG] = ARP

DoubleTagged ==
  /\ raw[ETH_TYPE_OFFSET_UNTAGGED] = QINQ
  /\ raw[ETH_TYPE_OFFSET_SINGLE_TAG] = DOT1Q /\ raw[ETH_TYPE_OFFSET_DOUBLE_TAG] = ARP

QinQTagged ==
  raw[ETH_TYPE_OFFSET_UNTAGGED] = QINQ /\ raw[ETH_TYPE_OFFSET_SINGLE_TAG] = ARP

MovedAddingOffset(kept, from, to) ==
  /\ processed' = Copy(Copy(processed, 0, raw, 0, kept), to, raw, from, length - from)
  /\ length' = length + to

Moved(kept, from, to) ==
  /\ processed' = Copy(Copy(processed, 0, raw, 0, kept), to, raw, from, length - from)
  /\ length' = length + to - from

NormaliseUntagged ==
  Untagged /\ Moved(ETH_MAC_ADDRS_LEN, ETH_TYPE_OFFSET_UNTAGGED, ETH_TYPE_OFFSET_DOUBLE_TAG)

NormaliseSingleInPlace == SingleTagged /\ Moved(0, 0, 0)

NormaliseSingle ==
  SingleTagged /\ Moved(ETH_MAC_ADDRS_LEN, ETH_TYPE_OFFSET_UNTAGGED, ETH_TYPE_OFFSET_SINGLE_TAG)

NormaliseDouble == DoubleTagged /\ Moved(0, 0, 0)

NormaliseQinQ ==
  QinQTagged /\ Moved(ETH_TYPE_OFFSET_SINGLE_TAG, ETH_TYPE_OFFSET_SINGLE_TAG,
                      ETH_TYPE_OFFSET_DOUBLE_TAG)

NoArp ==
  /\ ~(Untagged \/ SingleTagged \/ DoubleTagged \/ QinQTagged)
  /\ length' = 0
  /\ UNCHANGED processed

WholeOffByOne(n) == n > EthHeader + ArpHeader

(* The test that follows sees the new length.                              *)
Whole(n) == n >= EthHeader + ArpHeader

(* The new length is where the last copy ended.  A copy that ended beyond  *)
(* processed_frame has written over what lies behind it: what the program  *)
(* does from there on is undefined.                                        *)
ProcessRawArpFrame ==
  /\ pc = "process_raw_arp_frame"
  /\ NormaliseUntagged \/ NormaliseSingle \/ NormaliseDouble \/ NormaliseQinQ \/ NoArp
  /\ pc' = IF length' > FRAME_BUFFER_SIZE THEN "undefined"
           ELSE IF Whole(length') THEN "get_vlan_info" ELSE "ignored"
  /\ UNCHANGED <<frame, raw, aux, device>>

TagOffsetSwapped(tpid) ==
  IF tpid = DOT1Q THEN ETH_TYPE_OFFSET_UNTAGGED ELSE ETH_TYPE_OFFSET_SINGLE_TAG

(* get_vlan_info: the reported tag, if it is one of the two, goes where    *)
(* the header has room for it.                                             *)
TagOffset(tpid) ==
  IF tpid = QINQ THEN ETH_TYPE_OFFSET_UNTAGGED ELSE ETH_TYPE_OFFSET_SINGLE_TAG

GetVlanInfo ==
  /\ pc = "get_vlan_info" /\ aux.status # "no_tpid"
  /\ pc' = "set_device_data"
  /\ processed' = IF aux.tag.tpid \in {QINQ, DOT1Q}
                    THEN [processed EXCEPT ![TagOffset(aux.tag.tpid)] = aux.tag.tpid,
                                           ![TagOffset(aux.tag.tpid) + 1] = aux.tag.tci]
                    ELSE processed
  /\ UNCHANGED <<frame, raw, length, aux, device>>

SetDeviceData ==
  /\ pc = "set_device_data" /\ pc' = "registered"
  /\ device' = [mac |-> [k \in 1 .. 3 |-> processed[2 + k]],
                qinq_tag |-> [tpid |-> processed[6], tci |-> processed[7]],
                dot1q_tag |-> [tpid |-> processed[8], tci |-> processed[9]],
                ip |-> [k \in 1 .. 2 |-> processed[EthHeader + Spa - 1 + k]]]
  /\ UNCHANGED <<frame, raw, processed, length, aux>>

(* network_error: a reported tag without its TPID, localtime_r() failing.  *)
NetworkError ==
  /\ \/ pc = "get_vlan_info" /\ aux.status = "no_tpid"
     \/ pc = "set_device_data"
  /\ pc' = "exited"
  /\ UNCHANGED <<frame, raw, processed, length, aux, device>>

(* handle_incoming_frame returns, and its buffers are gone.                *)
Return ==
  /\ pc \in {"failed", "ignored", "registered"} /\ pc' = "epoll"
  /\ length' = 0 /\ aux' = [status |-> "none", tag |-> Missing]
  /\ frame' = NONE /\ device' = NONE
  /\ raw' = Zeros /\ processed' = Zeros

Next ==
  \/ (\E f \in Frame : Receive(f)) \/ ReceiveFails
  \/ ProcessRawArpFrame \/ GetVlanInfo \/ SetDeviceData \/ NetworkError \/ Return

Spec == Init /\ [][Next]_vars
-----------------------------------------------------------------------------
(* Types of the variables.  No copy of process_raw_arp_frame ends further  *)
(* behind processed_frame than the room for two tags.                      *)
TypeOK ==
  /\ pc \in {"epoll", "failed", "process_raw_arp_frame", "undefined", "ignored",
             "get_vlan_info", "set_device_data", "registered", "exited"}
  /\ frame \in Frame \cup {NONE}
  /\ raw \in [Buffer -> Nat] /\ processed \in [Buffer -> Nat]
  /\ length \in -1 .. FRAME_BUFFER_SIZE + ETH_QinQ_DOT1Q_TAGS_LEN
  /\ aux \in [status : {"none", "tpid", "no_tpid"}, tag : Tag \cup {Missing}]
  /\ device \in [mac : [1 .. 3 -> Nat], ip : [1 .. 2 -> Nat],
                 qinq_tag : [tpid : Nat, tci : Nat], dot1q_tag : [tpid : Nat, tci : Nat]]
                \cup {NONE}

(* What bringing a header to the form with both tags adds to the frame.    *)
Room(f) == ETH_TYPE_OFFSET_DOUBLE_TAG - TypeOffset(f)

(* process_raw_arp_frame writes beyond processed_frame for no frames but   *)
(* those that fill the buffer so far that the tags they lack do not fit.   *)
(* For those frame_parser.c:65, 79 and 94 do write beyond it: an ARP frame *)
(* of one of the last sizes up to FRAME_BUFFER_SIZE, or a longer one that  *)
(* was cut, which the comment at network_thread.c:28 does not expect and   *)
(* no code refuses.                                                        *)
CopiesFit ==
  pc = "undefined" =>
    /\ frame.type = ARP /\ Room(frame) > 0
    /\ ReceivedLength(frame) + Room(frame) > FRAME_BUFFER_SIZE

(* A device is only made of a whole ARP packet, and has the addresses of   *)
(* its sender, wherever the packet began in the frame.                     *)
SenderRecorded ==
  pc = "registered" =>
    /\ frame.type = ARP /\ Len(frame.body) >= ArpHeader
    /\ \A k \in 1 .. 3 : device.mac[k] = Mac[3 + k]
    /\ \A k \in 1 .. 2 : device.ip[k] = frame.body[Spa + k]

(* Each field for a tag holds the outermost tag of its kind on the wire,   *)
(* or zeros: frame_parser.c:58-60 lets zeros stand for a missing tag.      *)
OutermostTag(tags, tpid) ==
  LET at == {n \in DOMAIN tags : tags[n].tpid = tpid}
  IN  IF at = {} THEN Missing ELSE tags[CHOOSE n \in at : \A m \in at : n <= m]
TagsRecorded ==
  pc = "registered" =>
    /\ device.qinq_tag = OutermostTag(frame.tags, QINQ)
    /\ device.dot1q_tag = OutermostTag(frame.tags, DOT1Q)

(* The record is what the sender sent.                                     *)
DeviceRecorded == SenderRecorded /\ TagsRecorded

(* No whole ARP packet with the tags the two standards allow is ignored,   *)
(* whether or not the network card takes a tag away.                       *)
StandardTags(tags) ==
  LET tpids == [n \in DOMAIN tags |-> tags[n].tpid]
  IN  tpids \in {<<>>, <<DOT1Q>>, <<QINQ>>, <<QINQ, DOT1Q>>}
StandardAccepted ==
  pc = "ignored" =>
    ~(frame.type = ARP /\ Len(frame.body) >= ArpHeader /\ StandardTags(frame.tags))

(* frame_parser.c:60: what is kept has one length, whatever tags it had,   *)
(* but for the end of a frame with both tags that recvmsg() cut.           *)
UniformLength ==
  pc = "get_vlan_info" =>
    length = IF EthHeader + Len(frame.body) <= FRAME_BUFFER_SIZE
             THEN EthHeader + Len(frame.body) ELSE FRAME_BUFFER_SIZE
=============================================================================
