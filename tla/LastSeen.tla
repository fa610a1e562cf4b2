------------------------------ MODULE LastSeen ------------------------------
(***************************************************************************)
(* The "Last seen" column: the network thread stores the time of a known   *)
(* device's frame field by field (device_registry_upsert in                *)
(* core/hash_map.c) and publishes an update; main redraws that row         *)
(* (update_row in ui/tui_app.c) or the whole table (print_network_data),   *)
(* reading the same fields one by one.                                     *)
(*                                                                         *)
(* Abstracted: devices that are discovered later and what else changes the *)
(* window: a new entry, a resize, a key or a tick draws the table, and may *)
(* have moved head; popups over the rows; the other columns, which never   *)
(* change.                                                                 *)
(***************************************************************************)
EXTENDS Integers, SequencesExt

CONSTANTS
  Items,      \* the table: the devices in the order of their discovery
  Address,    \* where malloc has put each
  Visible,    \* rows in the window
  Times,      \* the times of day, in order
  BusCap      \* messages the pipe holds

Device == ToSet(Items)
Field == {"hour", "minutes", "seconds"}

ASSUME LastSeenAssumption ==
  /\ Items \in Seq(Device) /\ Items # <<>> /\ IsInjective(Items)
  /\ Address \in [Device -> Nat] /\ IsInjective(Address)
  /\ Visible \in Nat \ {0} /\ BusCap \in Nat \ {0}
  /\ Times # <<>> /\ Times \in Seq([Field -> Nat])

VARIABLES
  now,        \* the time of day, an index of Times
  lastSeen,   \* last_seen of every device
  netPc,      \* the field the network thread stores next
  seen,       \* the device and the time it stores
  bus,        \* the devices in UI_UPDATE_TABLE messages
  head,       \* view.head
  todo,       \* the rows main has still to print, first the one it prints
  field,      \* the field of it main reads next
  screen      \* what the rows of the window show

vars == <<now, lastSeen, netPc, seen, bus, head, todo, field, screen>>
netVars == <<netPc, seen>>
mainVars == <<head, todo, field, screen>>

Rows == 1 .. IF Visible < Len(Items) - head THEN Visible ELSE Len(Items) - head

Init ==
  /\ now = 1
  /\ lastSeen = [d \in Device |-> Times[1]]
  /\ netPc = "loop" /\ seen = [device |-> Items[1], time |-> Times[1]]
  /\ bus = <<>>
  /\ head = 0 /\ todo = <<>> /\ field = "hour"
  /\ screen = [row \in 1 .. Visible |-> Times[1]]
-----------------------------------------------------------------------------
TimePasses ==
  /\ now < Len(Times) /\ now' = now + 1
  /\ UNCHANGED <<lastSeen, netVars, bus, mainVars>>

(* A frame of a known device: set_device_data takes the time, ...          *)
FrameOf(d) ==
  /\ netPc = "loop" /\ netPc' = "hour"
  /\ seen' = [device |-> d, time |-> Times[now]]
  /\ UNCHANGED <<now, lastSeen, bus, mainVars>>

(* ... device_registry_upsert stores it, ...                               *)
Store(f, next) ==
  /\ netPc = f /\ netPc' = next
  /\ lastSeen' = [lastSeen EXCEPT ![seen.device][f] = seen.time[f]]
  /\ UNCHANGED <<now, seen, bus, mainVars>>

StoreTime ==
  Store("hour", "minutes") \/ Store("minutes", "seconds") \/ Store("seconds", "publish")

PublishNonBlocking ==
  /\ netPc = "publish" /\ netPc' = "loop"
  /\ bus' = IF Len(bus) < BusCap THEN Append(bus, seen.device) ELSE bus
  /\ UNCHANGED <<now, lastSeen, seen, mainVars>>

(* ... and main is told.                                                   *)
Publish ==
  /\ netPc = "publish" /\ netPc' = "loop"
  /\ Len(bus) < BusCap
  /\ bus' = Append(bus, seen.device)
  /\ UNCHANGED <<now, lastSeen, seen, mainVars>>
-----------------------------------------------------------------------------
(* update_row looks for the device in the window, unless it lies at a      *)
(* lower address than the first device there.                              *)
NotBelowHead(d) == Address[Items[head + 1]] <= Address[d]

RowsOf(d) == {row \in Rows : NotBelowHead(d) /\ Items[head + row] = d}

UpdateRow ==
  /\ todo = <<>> /\ bus # <<>>
  /\ bus' = Tail(bus)
  /\ \/ \E row \in RowsOf(Head(bus)) : todo' = <<row>>
     \/ RowsOf(Head(bus)) = {} /\ todo' = <<>>
  /\ UNCHANGED <<now, lastSeen, netVars, head, field, screen>>

(* Everything else draws the table, after a key possibly one row further;  *)
(* head may be any item, since a window made taller leaves it where it is. *)
Draw ==
  /\ todo = <<>>
  /\ head' \in {head - 1, head, head + 1} /\ head' \in 0 .. Len(Items) - 1
  /\ todo' = [row \in Rows' |-> row]
  /\ UNCHANGED <<now, lastSeen, netVars, bus, field, screen>>

(* print_lastseen.                                                         *)
Read(f, next) ==
  /\ todo # <<>> /\ field = f
  /\ screen' = [screen EXCEPT ![Head(todo)][f] = lastSeen[Items[head + Head(todo)]][f]]
  /\ field' = next
  /\ todo' = IF f = "seconds" THEN Tail(todo) ELSE todo
  /\ UNCHANGED <<now, lastSeen, netVars, bus, head>>

PrintLastSeen ==
  Read("hour", "minutes") \/ Read("minutes", "seconds") \/ Read("seconds", "hour")

Next ==
  \/ TimePasses
  \/ (\E d \in Device : FrameOf(d)) \/ StoreTime \/ Publish
  \/ UpdateRow \/ Draw \/ PrintLastSeen

Spec == Init /\ [][Next]_vars
-----------------------------------------------------------------------------
(* Main has printed all it was told of.                                    *)
Quiet == bus = <<>> /\ netPc = "loop" /\ todo = <<>>
Shows(row) == screen[row] = lastSeen[Items[head + row]]

(* Fields stored and read one by one may be shown mixed, but not for long: *)
(* when all messages are handled, a row shows the last frame of its        *)
(* device, as far as update_row looks for it.                              *)
RowsCurrent ==
  Quiet => \A row \in Rows : NotBelowHead(Items[head + row]) => Shows(row)

(* Types of the variables: main prints only rows there are.                *)
TypeOK ==
  /\ now \in DOMAIN Times
  /\ lastSeen \in [Device -> [Field -> Nat]]
  /\ netPc \in Field \cup {"loop", "publish"}
  /\ seen \in [device : Device, time : [Field -> Nat]]
  /\ bus \in Seq(Device)
  /\ head \in 0 .. Len(Items) - 1
  /\ todo \in Seq(Rows) /\ field \in Field
  /\ todo = <<>> => field = "hour"
  /\ screen \in [1 .. Visible -> [Field -> Nat]]

(* What RowsCurrent rests on: a field that differs from the device's is    *)
(* still to be told to main, or main has still to read it.                 *)
Unread ==
  {f \in Field : \/ field = "hour"
                 \/ field = "minutes" /\ f # "hour"
                 \/ field = "seconds" /\ f = "seconds"}
ToTell(d) ==
  \/ netPc # "loop" /\ seen.device = d
  \/ \E k \in DOMAIN bus : bus[k] = d
ToRead(row, f) == \E k \in DOMAIN todo : todo[k] = row /\ (k = 1 => f \in Unread)
FieldKept(row, f) ==
  LET d == Items[head + row]
  IN  NotBelowHead(d) => screen[row][f] = lastSeen[d][f] \/ ToTell(d) \/ ToRead(row, f)
IndInv == TypeOK /\ \A row \in Rows, f \in Field : FieldKept(row, f)

(* tui_app.c:185 calls the column "Last seen", in every row.               *)
EveryRowCurrent == Quiet => \A row \in Rows : Shows(row)
=============================================================================
