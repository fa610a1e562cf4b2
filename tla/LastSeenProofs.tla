--------------------------- MODULE LastSeenProofs ---------------------------
(***************************************************************************)
(* Proofs about LastSeen, for every table, window, pipe and times.         *)
(*                                                                         *)
(* The invariant follows one field of one row: it shows what the device    *)
(* has, or main is still to be told of the device, or the field is still   *)
(* to be read.  Each step of the network thread moves a device towards the *)
(* pipe, and each of main's from the pipe to the rows to print and from    *)
(* there to the screen.                                                    *)
(***************************************************************************)
EXTENDS LastSeen, TLAPS

LEMMA Table ==
  /\ Len(Items) \in Nat \ {0} /\ DOMAIN Items = 1 .. Len(Items)
  /\ \A k \in 1 .. Len(Items) : Items[k] \in Device
<1>1. Items \in Seq(Device) /\ Items # <<>>
  BY LastSeenAssumption
<1> QED
  BY <1>1

LEMMA TimesAreTimes ==
  /\ Len(Times) \in Nat \ {0} /\ DOMAIN Times = 1 .. Len(Times)
  /\ \A k \in 1 .. Len(Times) : Times[k] \in [Field -> Nat]
<1>1. Times \in Seq([Field -> Nat]) /\ Times # <<>>
  BY LastSeenAssumption
<1> QED
  BY <1>1

LEMMA RowsAreThere ==
  ASSUME head \in 0 .. Len(Items) - 1
  PROVE  /\ Rows \subseteq 1 .. Visible
         /\ \A row \in Rows : head + row \in DOMAIN Items /\ Items[head + row] \in Device
<1>1. Len(Items) \in Nat /\ Visible \in Nat
  BY Table, LastSeenAssumption
<1>2. ASSUME NEW row \in Rows
      PROVE  row \in 1 .. Visible /\ head + row \in 1 .. Len(Items)
  BY <1>1 DEF Rows
<1> QED
  BY <1>2, Table

LEMMA TypeInit == Init => TypeOK
<1> SUFFICES ASSUME Init PROVE TypeOK
  OBVIOUS
<1>1. Times[1] \in [Field -> Nat] /\ now \in DOMAIN Times
  BY TimesAreTimes DEF Init
<1>2. Items[1] \in Device /\ head \in 0 .. Len(Items) - 1
  BY Table DEF Init
<1>3. bus \in Seq(Device) /\ todo \in Seq(Rows)
  BY DEF Init
<1> QED
  BY <1>1, <1>2, <1>3 DEF Init, TypeOK, Field

LEMMA TypeNext == TypeOK /\ [Next]_vars => TypeOK'
<1> SUFFICES ASSUME TypeOK, [Next]_vars PROVE TypeOK'
  OBVIOUS
<1>0. ASSUME head' = head PROVE Rows' = Rows
  BY <1>0 DEF Rows
<1>1. CASE UNCHANGED vars
  BY <1>0, <1>1 DEF TypeOK, vars
<1>2. CASE TimePasses
  <2>1. now' \in DOMAIN Times
    BY <1>2, TimesAreTimes DEF TypeOK, TimePasses
  <2> QED
    BY <1>0, <1>2, <2>1 DEF TypeOK, TimePasses, netVars, mainVars
<1>3. ASSUME NEW d \in Device, FrameOf(d) PROVE TypeOK'
  <2>1. seen' \in [device : Device, time : [Field -> Nat]]
    BY <1>3, TimesAreTimes DEF TypeOK, FrameOf
  <2> QED
    BY <1>0, <1>3, <2>1 DEF TypeOK, FrameOf, mainVars, Field
<1>4. CASE StoreTime
  <2>1. PICK f \in Field, next \in Field \cup {"publish"} : Store(f, next)
    BY <1>4 DEF StoreTime, Field
  <2>2. lastSeen' \in [Device -> [Field -> Nat]]
    BY <2>1 DEF Store, TypeOK
  <2> QED
    BY <1>0, <2>1, <2>2 DEF TypeOK, Store, mainVars
<1>5. CASE Publish
  <2>1. bus' \in Seq(Device)
    BY <1>5 DEF Publish, TypeOK
  <2> QED
    BY <1>0, <1>5, <2>1 DEF TypeOK, Publish, mainVars
<1>6. CASE UpdateRow
  <2>1. bus' \in Seq(Device)
    BY <1>6 DEF UpdateRow, TypeOK
  <2>2. todo' \in Seq(Rows)
    <3>1. ASSUME NEW row \in RowsOf(Head(bus)), todo' = <<row>>
          PROVE  todo' \in Seq(Rows)
      <4> row \in Rows
        BY <3>1 DEF RowsOf
      <4> QED
        BY <3>1
    <3>2. ASSUME todo' = <<>> PROVE todo' \in Seq(Rows)
      BY <3>2
    <3> QED
      BY <1>6, <3>1, <3>2 DEF UpdateRow
  <2>3. field = "hour"
    BY <1>6 DEF UpdateRow, TypeOK
  <2> QED
    BY <1>0, <1>6, <2>1, <2>2, <2>3 DEF TypeOK, UpdateRow, netVars
<1>7. CASE Draw
  <2>1. todo' \in Seq(Rows')
    <3>1. Len(Items) \in Nat /\ Visible \in Nat /\ head' \in 0 .. Len(Items) - 1
      BY <1>7, Table, LastSeenAssumption DEF Draw
    <3>2. PICK n \in Nat : Rows' = 1 .. n
      BY <3>1 DEF Rows
    <3>3. todo' = [row \in 1 .. n |-> row]
      BY <1>7, <3>2 DEF Draw
    <3> QED
      BY <3>2, <3>3
  <2>2. field = "hour"
    BY <1>7 DEF Draw, TypeOK
  <2> QED
    BY <1>7, <2>1, <2>2 DEF TypeOK, Draw, netVars
<1>8. CASE PrintLastSeen
  <2>1. PICK f \in Field, next \in Field : Read(f, next) /\ (f = "seconds" => next = "hour")
    BY <1>8 DEF PrintLastSeen, Field
  <2>2. Head(todo) \in Rows
    BY <2>1 DEF Read, TypeOK
  <2>3. Head(todo) \in 1 .. Visible /\ Items[head + Head(todo)] \in Device
    BY <2>2, RowsAreThere DEF TypeOK
  <2>4. lastSeen[Items[head + Head(todo)]][f] \in Nat
    BY <2>3 DEF TypeOK
  <2>5. screen' \in [1 .. Visible -> [Field -> Nat]]
    <3> DEFINE n == lastSeen[Items[head + Head(todo)]][f]
               row == Head(todo)
    <3>1. screen' = [screen EXCEPT ![row][f] = n] /\ n \in Nat /\ row \in 1 .. Visible
      BY <2>1, <2>3, <2>4 DEF Read
    <3> HIDE DEF n, row
    <3> QED
      BY <3>1 DEF TypeOK
  <2>6. todo' \in Seq(Rows) /\ (todo' = <<>> => next = "hour")
    BY <2>1 DEF Read, TypeOK
  <2> QED
    BY <1>0, <2>1, <2>5, <2>6 DEF TypeOK, Read, netVars
<1> QED
  BY <1>1, <1>2, <1>3, <1>4, <1>5, <1>6, <1>7, <1>8 DEF Next

(* One field of one row through a step.  Only UpdateRow and Draw change    *)
(* which rows are to be printed, and they start with no row to print.      *)
LEMMA FieldKeptNext ==
  ASSUME TypeOK, [Next]_vars, NEW f \in Field, NEW row \in Rows',
         \A r \in Rows : FieldKept(r, f)
  PROVE  FieldKept(row, f)'
<1> DEFINE d == Items[head + row]
<1> SUFFICES ASSUME NotBelowHead(Items[head + row])'
             PROVE  \/ screen'[row][f] = lastSeen'[Items[head' + row]][f]
                    \/ ToTell(Items[head + row])'
                    \/ ToRead(row, f)'
  BY DEF FieldKept
<1>1. ASSUME head' = head
      PROVE  /\ row \in Rows /\ row \in 1 .. Visible /\ d \in Device /\ NotBelowHead(d)
             /\ Items[head' + row] = d
             /\ screen[row][f] = lastSeen[d][f] \/ ToTell(d) \/ ToRead(row, f)
  <2>1. row \in Rows /\ NotBelowHead(d) /\ Items[head' + row] = d
    BY <1>1 DEF Rows, NotBelowHead
  <2>2. row \in 1 .. Visible /\ d \in Device
    BY <2>1, RowsAreThere DEF TypeOK
  <2> HIDE DEF d
  <2>3. screen[row][f] = lastSeen[d][f] \/ ToTell(d) \/ ToRead(row, f)
    BY <2>1 DEF FieldKept, d
  <2> QED
    BY <2>1, <2>2, <2>3
<1>2. CASE UNCHANGED vars
  BY <1>1, <1>2 DEF vars, ToTell, ToRead, Unread
<1>3. CASE TimePasses
  BY <1>1, <1>3 DEF TimePasses, netVars, mainVars, ToTell, ToRead, Unread
<1>4. CASE \E e \in Device : FrameOf(e)
  <2>1. /\ UNCHANGED <<lastSeen, bus, head, todo, field, screen>> /\ netPc = "loop"
    BY <1>4 DEF FrameOf, mainVars
  <2> HIDE DEF d
  <2>2. ToTell(d) => ToTell(Items[head + row])'
    BY <2>1, <1>1 DEF ToTell
  <2>3. ToRead(row, f) => ToRead(row, f)'
    BY <2>1 DEF ToRead, Unread
  <2> QED
    BY <1>1, <2>1, <2>2, <2>3
<1>5. CASE StoreTime
  <2>1. PICK g \in Field, next \in Field \cup {"publish"} : Store(g, next)
    BY <1>5 DEF StoreTime, Field
  <2>2. /\ netPc # "loop" /\ netPc' # "loop" /\ UNCHANGED <<seen, bus, head, todo, field, screen>>
        /\ \A e \in Device : e # seen.device => lastSeen'[e] = lastSeen[e]
    BY <2>1 DEF Store, mainVars, Field, TypeOK
  <2> HIDE DEF d
  <2>3. CASE d = seen.device
    <3> ToTell(Items[head + row])'
      BY <2>2, <2>3, <1>1 DEF ToTell
    <3> QED
      OBVIOUS
  <2>4. CASE d # seen.device
    <3>1. lastSeen'[d] = lastSeen[d]
      BY <2>2, <2>4, <1>1
    <3>2. ToTell(d) => ToTell(Items[head + row])'
      BY <2>2, <1>1 DEF ToTell
    <3>3. ToRead(row, f) => ToRead(row, f)'
      BY <2>2 DEF ToRead, Unread
    <3> QED
      BY <1>1, <2>2, <3>1, <3>2, <3>3
  <2> QED
    BY <2>3, <2>4
<1>6. CASE Publish
  <2>1. /\ UNCHANGED <<lastSeen, head, todo, field, screen>> /\ bus' = Append(bus, seen.device)
        /\ bus \in Seq(Device) /\ seen.device \in Device
    BY <1>6 DEF Publish, mainVars, TypeOK
  <2>2. /\ DOMAIN bus' = 1 .. Len(bus) + 1 /\ DOMAIN bus = 1 .. Len(bus) /\ Len(bus) \in Nat
        /\ bus'[Len(bus) + 1] = seen.device
        /\ \A k \in 1 .. Len(bus) : bus'[k] = bus[k]
    BY <2>1
  <2> HIDE DEF d
  <2>3. ToTell(d) => \E k \in DOMAIN bus' : bus'[k] = d
    <3>1. CASE seen.device = d
      <4> Len(bus) + 1 \in DOMAIN bus'
        BY <2>2
      <4> QED
        BY <2>2, <3>1
    <3>2. CASE \E k \in DOMAIN bus : bus[k] = d
      <4>1. PICK k \in 1 .. Len(bus) : bus[k] = d
        BY <2>2, <3>2
      <4>2. k \in DOMAIN bus' /\ bus'[k] = d
        BY <2>2, <4>1
      <4> QED
        BY <4>2
    <3> QED
      BY <3>1, <3>2 DEF ToTell
  <2>4. ToTell(d) => ToTell(Items[head + row])'
    BY <2>3, <2>1, <1>1 DEF ToTell
  <2>5. ToRead(row, f) => ToRead(row, f)'
    BY <2>1 DEF ToRead, Unread
  <2> QED
    BY <1>1, <2>1, <2>4, <2>5
<1>7. CASE UpdateRow
  <2>1. /\ UNCHANGED <<lastSeen, netPc, seen, head, field, screen>> /\ todo = <<>> /\ field = "hour"
        /\ bus \in Seq(Device) /\ bus # <<>> /\ bus' = Tail(bus)
    BY <1>7 DEF UpdateRow, netVars, TypeOK
  <2> HIDE DEF d
  <2>2. ~ ToRead(row, f)
    <3> DOMAIN todo = {}
      BY <2>1
    <3> QED
      BY DEF ToRead
  <2>3. CASE d = Head(bus)
    <3>1. row \in RowsOf(Head(bus))
      BY <2>1, <2>3, <1>1 DEF RowsOf, d
    <3>2. PICK r \in RowsOf(Head(bus)) : todo' = <<r>>
      BY <1>7, <3>1 DEF UpdateRow
    <3>3. r = row
      <4>1. /\ head + r \in DOMAIN Items /\ head + row \in DOMAIN Items
            /\ Items[head + r] = Items[head + row]
        BY <3>1, <3>2, RowsAreThere DEF RowsOf, TypeOK
      <4>2. head + r = head + row
        BY <4>1, LastSeenAssumption DEF IsInjective
      <4>3. r \in Int /\ row \in Int /\ head \in Int
        BY <3>1, <3>2, RowsAreThere DEF RowsOf, TypeOK
      <4> QED
        BY <4>2, <4>3
    <3>4. 1 \in DOMAIN todo' /\ todo'[1] = row
      BY <3>2, <3>3
    <3>5. ToRead(row, f)'
      BY <3>4, <2>1 DEF ToRead, Unread
    <3> QED
      BY <3>5
  <2>4. CASE d # Head(bus)
    <3>1. /\ DOMAIN bus = 1 .. Len(bus) /\ Len(bus) \in Nat \ {0} /\ Head(bus) = bus[1]
          /\ DOMAIN bus' = 1 .. Len(bus) - 1
          /\ \A k \in 1 .. Len(bus) - 1 : bus'[k] = bus[k + 1]
      BY <2>1
    <3>2. ASSUME NEW k \in DOMAIN bus, bus[k] = d
          PROVE  \E j \in DOMAIN bus' : bus'[j] = d
      <4>1. k # 1
        BY <3>1, <3>2, <2>4
      <4>2. k - 1 \in 1 .. Len(bus) - 1 /\ (k - 1) + 1 = k
        BY <3>1, <4>1
      <4>3. bus'[k - 1] = d /\ k - 1 \in DOMAIN bus'
        BY <3>1, <3>2, <4>2
      <4> QED
        BY <4>3
    <3>3. ToTell(d) => ToTell(Items[head + row])'
      BY <3>2, <2>1, <1>1 DEF ToTell
    <3> QED
      BY <1>1, <2>1, <2>2, <3>3
  <2> QED
    BY <2>3, <2>4
<1>8. CASE Draw
  <2>1. todo' = [r \in Rows' |-> r] /\ field' = "hour"
    BY <1>8 DEF Draw, TypeOK
  <2>2. row \in DOMAIN todo' /\ todo'[row] = row
    BY <2>1
  <2>3. ToRead(row, f)'
    BY <2>1, <2>2 DEF ToRead, Unread
  <2> QED
    BY <2>3
<1>9. CASE PrintLastSeen
  <2>1. PICK g \in Field, next \in Field :
          /\ Read(g, next)
          /\ \/ g = "hour" /\ next = "minutes"
             \/ g = "minutes" /\ next = "seconds"
             \/ g = "seconds" /\ next = "hour"
    BY <1>9 DEF PrintLastSeen, Field
  <2>2. /\ UNCHANGED <<lastSeen, netPc, seen, bus, head>>
        /\ field = g /\ field' = next /\ todo # <<>> /\ todo \in Seq(Rows)
        /\ screen' = [screen EXCEPT ![Head(todo)][g] = lastSeen[Items[head + Head(todo)]][g]]
        /\ todo' = IF g = "seconds" THEN Tail(todo) ELSE todo
        /\ screen \in [1 .. Visible -> [Field -> Nat]]
    BY <2>1 DEF Read, netVars, TypeOK
  <2>3. row \in Rows /\ row \in 1 .. Visible /\ Items[head' + row] = d
    BY <2>2, <1>1
  <2>4. ToTell(d) => ToTell(Items[head + row])'
    BY <2>2, <2>3 DEF ToTell
  <2>5. /\ DOMAIN todo = 1 .. Len(todo) /\ Len(todo) \in Nat \ {0} /\ Head(todo) = todo[1]
    BY <2>2
  <2>6. CASE row = Head(todo) /\ f = g
    <3>1. screen'[row][f] = lastSeen[Items[head + row]][f]
      BY <2>2, <2>3, <2>6
    <3> QED
      BY <3>1, <2>2, <2>3
  <2>7. CASE ~ (row = Head(todo) /\ f = g)
    <3>1. screen'[row][f] = screen[row][f]
      BY <2>2, <2>3, <2>7
    <3>2. ASSUME NEW k \in DOMAIN todo, todo[k] = row, k = 1 => f \in Unread
          PROVE  ToRead(row, f)'
      <4>1. CASE g = "seconds"
        <5>1. k # 1
          BY <2>1, <2>2, <2>5, <2>7, <3>2, <4>1 DEF Unread
        <5>2. todo' = Tail(todo)
          BY <2>2, <4>1
        <5>3. /\ DOMAIN todo' = 1 .. Len(todo) - 1
              /\ \A j \in 1 .. Len(todo) - 1 : todo'[j] = todo[j + 1]
          BY <5>2, <2>2
        <5>4. k - 1 \in 1 .. Len(todo) - 1 /\ (k - 1) + 1 = k
          BY <5>1, <2>5
        <5>5. k - 1 \in DOMAIN todo' /\ todo'[k - 1] = row
          BY <5>3, <5>4, <3>2
        <5>6. field' = "hour"
          BY <2>1, <2>2, <4>1
        <5> QED
          BY <5>5, <5>6 DEF ToRead, Unread
      <4>2. CASE g # "seconds"
        <5>1. todo' = todo
          BY <2>2, <4>2
        <5>2. k = 1 => f \in Unread'
          BY <2>1, <2>2, <2>5, <2>7, <3>2, <4>2 DEF Unread, Field
        <5> QED
          BY <5>1, <5>2, <3>2 DEF ToRead
      <4> QED
        BY <4>1, <4>2
    <3>3. ToRead(row, f) => ToRead(row, f)'
      BY <3>2 DEF ToRead
    <3> QED
      BY <1>1, <2>2, <2>3, <2>4, <3>1, <3>3
  <2> QED
    BY <2>6, <2>7
<1> QED
  BY <1>2, <1>3, <1>4, <1>5, <1>6, <1>7, <1>8, <1>9 DEF Next
-----------------------------------------------------------------------------
LEMMA IndInvInit == Init => IndInv
<1> SUFFICES ASSUME Init PROVE IndInv
  OBVIOUS
<1>1. TypeOK
  BY TypeInit
<1>2. ASSUME NEW row \in Rows, NEW f \in Field
      PROVE  FieldKept(row, f)
  <2>1. row \in 1 .. Visible /\ Items[head + row] \in Device
    BY <1>1, RowsAreThere DEF TypeOK
  <2>2. screen[row] = Times[1] /\ lastSeen[Items[head + row]] = Times[1]
    BY <2>1 DEF Init
  <2> QED
    BY <2>2 DEF FieldKept
<1> QED
  BY <1>1, <1>2 DEF IndInv

LEMMA IndInvNext == IndInv /\ [Next]_vars => IndInv'
<1> SUFFICES ASSUME IndInv, [Next]_vars PROVE IndInv'
  OBVIOUS
<1>1. TypeOK'
  BY TypeNext DEF IndInv
<1>2. ASSUME NEW row \in Rows', NEW f \in Field
      PROVE  FieldKept(row, f)'
  BY FieldKeptNext DEF IndInv
<1>3. (\A row \in Rows, f \in Field : FieldKept(row, f))'
  BY <1>2 DEF Field
<1> QED
  BY <1>1, <1>3 DEF IndInv

LEMMA QuietShows == IndInv => RowsCurrent
<1> SUFFICES ASSUME IndInv, Quiet, NEW row \in Rows, NotBelowHead(Items[head + row])
             PROVE  Shows(row)
  BY DEF RowsCurrent
<1>1. row \in 1 .. Visible /\ Items[head + row] \in Device
  BY RowsAreThere DEF IndInv, TypeOK
<1>2. ~ ToTell(Items[head + row]) /\ \A f \in Field : ~ ToRead(row, f)
  <2>1. DOMAIN bus = {} /\ DOMAIN todo = {} /\ netPc = "loop"
    BY DEF Quiet
  <2> QED
    BY <2>1 DEF ToTell, ToRead
<1>3. \A f \in Field : screen[row][f] = lastSeen[Items[head + row]][f]
  BY <1>2 DEF IndInv, FieldKept
<1>4. screen[row] \in [Field -> Nat] /\ lastSeen[Items[head + row]] \in [Field -> Nat]
  BY <1>1 DEF IndInv, TypeOK
<1>5. screen[row] = lastSeen[Items[head + row]]
  BY <1>3, <1>4
<1> QED
  BY <1>5 DEF Shows

(* When nothing is under way, every row that update_row looks for shows    *)
(* the last frame of its device.                                           *)
THEOREM RowsCurrentCorrect == Spec => []RowsCurrent
<1>1. Init => IndInv
  BY IndInvInit
<1>2. IndInv /\ [Next]_vars => IndInv'
  BY IndInvNext
<1>3. IndInv => RowsCurrent
  BY QuietShows
<1> QED
  BY <1>1, <1>2, <1>3, PTL DEF Spec
=============================================================================
