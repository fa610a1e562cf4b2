----------------------------- MODULE DeviceStats ----------------------------
(***************************************************************************)
(* The statistics of one device: the network thread counts its frames and, *)
(* once a second, appends a rate to its ring and tells the main thread     *)
(* (device_raise_frame_count in core/device.c, handle_timer_tick in        *)
(* net/network_thread.c), which redraws them if the inspect popup is open  *)
(* (app/main.c, ui/popup_inspect.c).                                       *)
(*                                                                         *)
(* Nothing but the atomicity of single fields keeps the two apart: one     *)
(* action is one access to the record.  graph.head is not even atomic;     *)
(* a read of it is a step that returns its value at that moment.           *)
(*                                                                         *)
(* Abstracted: the other devices, the fields that never change, rows of    *)
(* the popup that a low window does not show, the width of the counters    *)
(* (uint64_t and uint32_t, not reached in practice), the room in the pipe  *)
(* (module DeviceFlow).                                                    *)
(***************************************************************************)
EXTENDS Integers, Sequences

CONSTANTS
  RATE_HISTORY_SIZE,
  MaxFrames,   \* bound: frames of the device
  MaxTicks,    \* bound: seconds
  OUTSIDE,     \* what is read before the first element of graph.data
  NONE         \* no number was shown yet

ASSUME DeviceStatsAssumption ==
  /\ RATE_HISTORY_SIZE \in Nat \ {0}
  /\ MaxFrames \in Nat /\ MaxTicks \in Nat
  /\ OUTSIDE \notin Nat /\ NONE \notin Nat \cup {OUTSIDE}

VARIABLES
  total,      \* total_frames
  previous,   \* previous_frames
  data,       \* graph.data
  head,       \* graph.head
  netPc,      \* where the network thread is in handle_timer_tick
  ticks,      \* UI_TIMER_TICK messages in the pipe
  mainPc,     \* where main is in drawing the popup: "closed", "idle", a field
  h,          \* the graph.head it has read
  i,          \* the loop counter of get_graph
  max,        \* max in get_graph
  shownTotal, shownRate, blocks,   \* what the popup shows
  totals,     \* history: the frames counted when each second was over
  began       \* history: the seconds that were over when get_rate was called

record == <<total, previous, data, head, totals>>
shown == <<shownTotal, shownRate, blocks>>
vars == <<record, netPc, ticks, mainPc, h, i, max, shown, began>>

Slots == 0 .. RATE_HISTORY_SIZE - 1
Wrapped(k) == k % RATE_HISTORY_SIZE

(* The seconds whose rates are in the ring, up to head.                    *)
Over == IF netPc \in {"previous", "head"} THEN Len(totals) - 1 ELSE Len(totals)

(* The frames there were when the k-th second was over, and those of it.   *)
TotalAfter(k) == IF k > 0 THEN totals[k] ELSE 0
Rate(k) == TotalAfter(k) - TotalAfter(k - 1)

(* device_registry_upsert of a new device.                                 *)
Init ==
  /\ total = 1 /\ previous = 0
  /\ data = [k \in Slots |-> 0] /\ head = 0
  /\ netPc = "loop" /\ ticks = 0
  /\ mainPc = "closed" /\ h = 0 /\ i = 0 /\ max = 0
  /\ shownTotal = NONE /\ shownRate = NONE /\ blocks = <<>>
  /\ totals = <<>> /\ began = 0
-----------------------------------------------------------------------------
(* The network thread, which touches nothing of main's.                    *)
Net(from, to) == netPc = from /\ netPc' = to /\ UNCHANGED <<mainPc, h, i, max, shown, began>>

(* Any frame from the device's address, ARP or not.                        *)
RaiseFrameCount ==
  /\ Net("loop", "loop") /\ total < MaxFrames
  /\ total' = total + 1
  /\ UNCHANGED <<previous, data, head, totals, ticks>>

StoresRate(slot) ==
  /\ Net("loop", "previous") /\ Len(totals) < MaxTicks
  /\ data' = [data EXCEPT ![slot] = total - previous]
  /\ totals' = Append(totals, total)
  /\ UNCHANGED <<total, previous, head, ticks>>

TickRateAhead == StoresRate(Wrapped(head + 1))

(* handle_timer_tick at this device: the rate is stored, ...               *)
TickRate == StoresRate(head)

(* ... the count of the next second starts, ...                            *)
TickPrevious ==
  /\ Net("previous", "head")
  /\ previous' = total
  /\ UNCHANGED <<total, data, head, totals, ticks>>

NextHeadUnwrapped == head + 1
NextHeadShort == (head + 1) % (RATE_HISTORY_SIZE - 1)
NextHead == Wrapped(head + 1)

(* ... the ring moves on, ...                                              *)
TickHead ==
  /\ Net("head", "publish")
  /\ head' = NextHead
  /\ UNCHANGED <<total, previous, data, totals, ticks>>

(* ... and, after the other devices, main is told.                         *)
TickPublish ==
  /\ Net("publish", "loop")
  /\ ticks' = ticks + 1
  /\ UNCHANGED record
-----------------------------------------------------------------------------
(* The main thread, which only reads the record.                           *)
Main(from, to) == mainPc = from /\ mainPc' = to /\ UNCHANGED <<record, netPc>>

(* The popup is opened, or drawn again for a key, a resize or a device.    *)
DrawPopup ==
  /\ Main("closed", "total") \/ Main("idle", "total")
  /\ UNCHANGED <<ticks, h, i, max, shown, began>>

ClosePopup ==
  /\ Main("idle", "closed")
  /\ shownTotal' = NONE /\ shownRate' = NONE /\ blocks' = <<>>
  /\ UNCHANGED <<ticks, h, i, max, began>>

(* UI_TIMER_TICK: draw(), if the popup is open.                            *)
MainReadsTick ==
  /\ ticks > 0 /\ ticks' = ticks - 1
  /\ Main("closed", "closed") \/ Main("idle", "total")
  /\ UNCHANGED <<h, i, max, shown, began>>

(* "Total frames", get_atomic_int64 of previous_frames; ...                *)
ShowTotal ==
  /\ Main("total", "rate")
  /\ shownTotal' = previous
  /\ UNCHANGED <<ticks, h, i, max, shownRate, blocks, began>>

(* ... "Rate history", get_rate: the head, ...                             *)
RateReadsHead ==
  /\ Main("rate", "rate_data")
  /\ h' = head
  /\ began' = Over
  /\ UNCHANGED <<ticks, i, max, shown>>

(* ... and the rate before it; ...                                         *)
ShowRate ==
  /\ Main("rate_data", "graph")
  /\ shownRate' = IF h = 0 THEN OUTSIDE ELSE data[h - 1]
  /\ UNCHANGED <<ticks, h, i, max, shownTotal, blocks, began>>

(* ... the graph, get_graph: the highest rate is looked for, ...           *)
GraphBegins ==
  /\ Main("graph", "max")
  /\ max' = data[0]
  /\ i' = 0
  /\ blocks' = <<>>
  /\ UNCHANGED <<ticks, h, shownTotal, shownRate, began>>

SlotUpToHead == IF i < head THEN i ELSE 0
SlotLookedAt == i
GraphMax ==
  /\ Main("max", "max") /\ i < RATE_HISTORY_SIZE
  /\ max' = IF data[SlotLookedAt] > max THEN data[SlotLookedAt] ELSE max
  /\ i' = i + 1
  /\ UNCHANGED <<ticks, h, shown, began>>

GraphMaxFound ==
  /\ Main("max", "scale") /\ i = RATE_HISTORY_SIZE
  /\ max' = IF max = 0 THEN 1 ELSE max
  /\ i' = 0
  /\ UNCHANGED <<ticks, h, shown, began>>

(* ... and every rate is scaled to one of the blocks 0 .. 7, oldest first, *)
(* reading the head anew for each.  A block is round(rate / max * 7).      *)
Block(rate, highest) == (14 * rate + highest) \div (2 * highest)

GraphReadsHead ==
  /\ Main("scale", "scale_data") /\ i < RATE_HISTORY_SIZE
  /\ h' = head
  /\ UNCHANGED <<ticks, i, max, shown, began>>

GraphScales ==
  /\ Main("scale_data", "scale")
  /\ blocks' = Append(blocks, Block(data[Wrapped(h + i)], max))
  /\ i' = i + 1
  /\ UNCHANGED <<ticks, h, max, shownTotal, shownRate, began>>

ShowGraph ==
  /\ Main("scale", "idle") /\ i = RATE_HISTORY_SIZE
  /\ UNCHANGED <<ticks, h, i, max, shown, began>>

NetStep == RaiseFrameCount \/ TickRate \/ TickPrevious \/ TickHead \/ TickPublish
MainStep ==
  \/ DrawPopup \/ ClosePopup \/ MainReadsTick
  \/ ShowTotal \/ RateReadsHead \/ ShowRate
  \/ GraphBegins \/ GraphMax \/ GraphMaxFound \/ GraphReadsHead \/ GraphScales \/ ShowGraph

Next == NetStep \/ MainStep

Spec == Init /\ [][Next]_vars
-----------------------------------------------------------------------------
(* Types of the variables: head and h are indices of the ring, and no rate *)
(* is divided by zero.                                                     *)
TypeOK ==
  /\ total \in Nat /\ previous \in 0 .. total
  /\ data \in [Slots -> Nat] /\ head \in Slots
  /\ netPc \in {"loop", "previous", "head", "publish"} /\ ticks \in Nat
  /\ mainPc \in {"closed", "idle", "total", "rate", "rate_data", "graph",
                 "max", "scale", "scale_data"}
  /\ h \in Slots /\ i \in 0 .. RATE_HISTORY_SIZE
  /\ max \in Nat
  /\ mainPc \in {"scale", "scale_data"} => max > 0
  /\ shownTotal \in Nat \cup {NONE} /\ shownRate \in Nat \cup {OUTSIDE, NONE}
  /\ blocks \in Seq(Nat) /\ Len(blocks) <= RATE_HISTORY_SIZE
  /\ totals \in Seq(Nat) /\ began \in 0 .. Len(totals)

(* Between two ticks the ring holds the rates of the last seconds, the     *)
(* latest before head, and no frame is missing from the rates or counted   *)
(* in two of them.                                                         *)
Before(k) == Wrapped(head + RATE_HISTORY_SIZE - 1 - k)
Recent(k) == IF k < Len(totals) THEN Rate(Len(totals) - k) ELSE 0
RingIsHistory ==
  netPc = "loop" =>
    /\ \A k \in Slots : data[Before(k)] = Recent(k)
    /\ previous = TotalAfter(Len(totals))

(* The rate shown is that of the last second that was over when main read  *)
(* the head, or of a later one, whatever the network thread stores before  *)
(* main reads the rate.  When a whole number of rings is over, head is 0   *)
(* and get_rate reads before the array; it does so at no other time.       *)
RateFresh ==
  mainPc # "rate_data" /\ shownRate # NONE =>
    \E k \in began .. Len(totals) :
      IF shownRate = OUTSIDE THEN Wrapped(k) = 0
      ELSE k > 0 /\ shownRate = Rate(k)

(* Once every tick has been handled, an open popup shows the second that   *)
(* is over, whenever it was opened or drawn: the frames up to it, its rate *)
(* (unless it is read from before the array) and, oldest first, a graph in *)
(* which a higher rate never has a lower block, the highest has the        *)
(* highest block, and a second without frames the lowest.                  *)
GraphFaithful ==
  \A k \in Slots :
    LET block == blocks[RATE_HISTORY_SIZE - k]
    IN  /\ block \in 0 .. 7
        /\ Recent(k) = 0 => block = 0
        /\ Recent(k) > 0 /\ (\A j \in Slots : Recent(j) <= Recent(k)) => block = 7
        /\ \A j \in Slots :
             Recent(j) <= Recent(k) => blocks[RATE_HISTORY_SIZE - j] <= block
PopupCurrent ==
  netPc = "loop" /\ ticks = 0 /\ mainPc = "idle" =>
    /\ shownTotal = TotalAfter(Len(totals))
    /\ shownRate = IF head = 0 THEN OUTSIDE ELSE Recent(0)
    /\ GraphFaithful

(* What these rest on.  handle_timer_tick keeps its three fields together. *)
Counted ==
  /\ netPc # "loop" => totals # <<>> /\ total = TotalAfter(Len(totals))
  /\ previous = TotalAfter(IF netPc = "previous" THEN Len(totals) - 1 ELSE Len(totals))

(* The k-th second is in the slot k - 1 until the ring comes round to it.  *)
SlotOf(k) == Wrapped(k - 1)
Ring ==
  /\ head = Wrapped(Over)
  /\ \A k \in 1 .. Len(totals) : k + RATE_HISTORY_SIZE > Len(totals) => data[SlotOf(k)] = Rate(k)
  /\ \A slot \in Slots : slot >= Len(totals) => data[slot] = 0

(* Where the drawing is.                                                   *)
Drawing ==
  /\ mainPc = "rate_data" => h = Wrapped(began)
  /\ mainPc = "max" => blocks = <<>>
  /\ mainPc \in {"scale", "scale_data", "idle"} => Len(blocks) = i
  /\ mainPc = "scale_data" => i < RATE_HISTORY_SIZE
  /\ mainPc = "idle" => i = RATE_HISTORY_SIZE /\ max > 0

(* A drawing under way that no tick is to repeat agrees with the record in *)
(* all it has drawn or read so far: its max bounds the slots looked at and *)
(* is one of them, or 1 when all of them are 0.                            *)
Highest ==
  /\ \A slot \in Slots : data[slot] <= max
  /\ \/ max = 1
     \/ \E slot \in Slots : data[slot] = max
DrawnSoFar ==
  netPc = "loop" /\ ticks = 0 =>
    /\ mainPc \notin {"closed", "total"} => shownTotal = previous
    /\ mainPc \in {"graph", "max", "scale", "scale_data", "idle"} =>
         shownRate = IF head = 0 THEN OUTSIDE ELSE data[head - 1]
    /\ mainPc \in {"rate_data", "scale_data"} => h = head
    /\ mainPc = "max" =>
         /\ \E slot \in Slots : data[slot] = max
         /\ \A slot \in Slots : slot < i => data[slot] <= max
    /\ mainPc \in {"scale", "scale_data", "idle"} =>
         /\ Highest
         /\ \A k \in 1 .. i : blocks[k] = Block(data[Wrapped(head + k - 1)], max)

IndInv == TypeOK /\ Counted /\ Ring /\ Drawing /\ RateFresh /\ DrawnSoFar

(* popup_inspect.c:44-53 has one block for each of 0 .. 7.                 *)
BlockExists == \A k \in DOMAIN blocks : blocks[k] \in 0 .. 7
=============================================================================
