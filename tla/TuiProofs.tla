------------------------------ MODULE TuiProofs -----------------------------
(***************************************************************************)
(* Proofs about Tui, for any set of window heights, any number of devices  *)
(* and lists of interfaces of any length.                                  *)
(***************************************************************************)
EXTENDS Tui, WellFoundedInduction, TLAPS

(* scroll_move keeps a view a view of the same list and the selection an   *)
(* item of it, from any view whose selection is one: inside the window or  *)
(* not, with rows in the window or none.                                   *)
LEMMA ScrollMoveView ==
  ASSUME NEW v \in View, SelectionExists(v), NEW direction \in {-1, 1}
  PROVE  /\ ScrollMove(v, direction) \in View
         /\ ScrollMove(v, direction).count = v.count
         /\ SelectionExists(ScrollMove(v, direction))
<1> DEFINE position == v.cursor + direction
<1>0. /\ v.count \in Nat /\ v.head \in Nat /\ v.visible \in Nat /\ v.cursor \in Int
      /\ position \in Int /\ OnScreen(v) \in Nat
  BY DEF View, SelectionExists, OnScreen
<1>1. CASE v.count = 0
  BY <1>1 DEF ScrollMove
<1>2. CASE v.count # 0 /\ position < 0
  <2> DEFINE head == IF v.head > 0 THEN v.head - 1 ELSE 0
  <2>1. ScrollMove(v, direction) = [v EXCEPT !.head = head, !.cursor = 0]
    BY <1>0, <1>2 DEF ScrollMove, ScrollAbove
  <2>2. head \in Nat /\ head <= v.count /\ (v.count > 0 => head < v.count)
    BY <1>0, <1>2 DEF SelectionExists
  <2> DEFINE cursor == 0
             w == [v EXCEPT !.head = head, !.cursor = cursor]
  <2>0. cursor \in Int /\ cursor = 0
    OBVIOUS
  <2> HIDE DEF head, cursor
  <2>3. w \in View /\ w.count = v.count /\ w.head = head /\ w.cursor = cursor
    BY <1>0, <2>0, <2>2 DEF View
  <2> HIDE DEF w
  <2>4. SelectionExists(w)
    BY <1>0, <1>2, <2>0, <2>2, <2>3 DEF SelectionExists, Selected
  <2>5. ScrollMove(v, direction) = w
    BY <2>1 DEF w, cursor
  <2>6. QED
    BY <2>3, <2>4, <2>5
<1>3. CASE v.count # 0 /\ position >= 0 /\ position >= OnScreen(v)
  <2> DEFINE head == IF v.head + OnScreen(v) < v.count THEN v.head + 1 ELSE v.head
             cursor == OnScreen(v) - 1
  <2>1. ScrollMove(v, direction) = [v EXCEPT !.head = head, !.cursor = cursor]
    BY <1>0, <1>3 DEF ScrollMove, ScrollBelow
  <2>2. /\ head \in Nat /\ cursor \in Int /\ head <= v.count /\ cursor >= -1
        /\ head + cursor >= 0 /\ head + cursor < v.count
    BY <1>0, <1>3 DEF SelectionExists, OnScreen
  <2> HIDE DEF head, cursor
  <2> DEFINE w == [v EXCEPT !.head = head, !.cursor = cursor]
  <2>3. w \in View /\ w.count = v.count /\ w.head = head /\ w.cursor = cursor
    BY <1>0, <2>2 DEF View
  <2> HIDE DEF w
  <2>4. SelectionExists(w)
    BY <1>0, <1>3, <2>2, <2>3 DEF SelectionExists, Selected
  <2>5. ScrollMove(v, direction) = w
    BY <2>1 DEF w
  <2>6. QED
    BY <2>3, <2>4, <2>5
<1>4. CASE v.count # 0 /\ position >= 0 /\ position < OnScreen(v)
  <2>1. ScrollMove(v, direction) = [v EXCEPT !.cursor = position]
    BY <1>0, <1>4 DEF ScrollMove
  <2>2. v.head + position >= 0 /\ v.head + position < v.count
    BY <1>0, <1>4 DEF SelectionExists, OnScreen
  <2> DEFINE w == [v EXCEPT !.cursor = position]
  <2> HIDE DEF position
  <2>3. w \in View /\ w.count = v.count /\ w.head = v.head /\ w.cursor = position
    BY <1>0 DEF View
  <2> HIDE DEF w
  <2>4. SelectionExists(w)
    BY <1>0, <1>4, <2>2, <2>3 DEF SelectionExists, Selected
  <2>5. ScrollMove(v, direction) = w
    BY <2>1 DEF w
  <2>6. QED
    BY <2>3, <2>4, <2>5
<1>5. QED
  BY <1>0, <1>1, <1>2, <1>3, <1>4

LEMMA ConfigureView ==
  ASSUME NEW v \in View, NEW n \in Nat, NEW h \in Int
  PROVE  /\ ScrollViewConfigure(v, n, h) \in View
         /\ ScrollViewConfigure(v, n, h).count = n
         /\ ScrollViewConfigure(v, n, h).head = v.head
         /\ ScrollViewConfigure(v, n, h).cursor = v.cursor
<1> DEFINE visible == IF 0 <= h - 2 /\ h - 2 <= n THEN h - 2 ELSE n
<1>1. visible \in Nat
  OBVIOUS
<1>2. ScrollViewConfigure(v, n, h) = [v EXCEPT !.count = n, !.visible = visible]
  BY DEF ScrollViewConfigure
<1> HIDE DEF visible
<1>3. QED
  BY <1>1, <1>2 DEF View

(* draw() changes how many rows the table shows and nothing else.          *)
LEMMA DrawnViews ==
  ASSUME NEW views \in [List -> View], NEW h \in Int, NEW w \in Int, NEW cap \in Nat
  PROVE  /\ Drawn(views, h, w, cap) \in [List -> View]
         /\ \A l \in List : /\ Drawn(views, h, w, cap)[l].count = views[l].count
                            /\ Drawn(views, h, w, cap)[l].head = views[l].head
                            /\ Drawn(views, h, w, cap)[l].cursor = views[l].cursor
BY TuiAssumption DEF Drawn, List, PopupType, View

LEMMA HeightTypes ==
  ASSUME NEW h \in Height
  PROVE  h \in Int /\ Capacity(h) \in Nat /\ PopupHeight(h) \in Int
BY TuiAssumption DEF Capacity, PopupHeight

LEMMA IndInvInit == Init => IndInv
<1> SUFFICES ASSUME Init
             PROVE  IndInv
  OBVIOUS
<1> DEFINE none == [l \in List |-> EmptyView]
<1>1. none \in [List -> View]
  BY DEF EmptyView, View
<1>2. height \in Int /\ capacity \in Nat
  BY HeightTypes DEF Init
<1>3. /\ view \in [List -> View]
      /\ \A l \in List : view[l].count = 0 /\ view[l].head = 0 /\ view[l].cursor = 0
  <2>1. view = Drawn(none, height, width, capacity)
    BY DEF Init
  <2>2. width \in Int
    BY TuiAssumption DEF Init
  <2>3. QED
    BY <1>1, <1>2, <2>1, <2>2, DrawnViews DEF EmptyView
<1>4. SelectionInRange
  BY <1>3 DEF SelectionInRange, SelectionExists, Selected
<1>5. QED
  <2>1. dataCount \in [PopupType -> Nat] /\ popupType \in PopupType /\ popupHeight \in Int
    BY TuiAssumption DEF Init, PopupType
  <2>2. mainActive \in BOOLEAN /\ popupActive \in BOOLEAN /\ isVisible \in BOOLEAN
    BY DEF Init
  <2>3. height \in Height /\ width \in Width /\ window \in BOOLEAN
    BY DEF Init
  <2>4. listed \in BOOLEAN /\ alive \in BOOLEAN /\ inspected \in Nat \cup {-1}
    BY DEF Init
  <2>5. TypeOK
    BY <1>2, <1>3, <2>1, <2>2, <2>3, <2>4 DEF TypeOK
  <2>6. OneWindow /\ InspectedIsSelected /\ PopupCounted
    BY DEF Init, OneWindow, InspectedIsSelected, PopupCounted
  <2>7. QED
    BY <1>4, <2>5, <2>6 DEF IndInv

LEMMA IndInvNext == IndInv /\ [Next]_vars => IndInv'
<1> SUFFICES ASSUME IndInv, [Next]_vars
             PROVE  IndInv'
  OBVIOUS
<1> USE DEF IndInv
<1>0. height \in Int /\ width \in Int /\ capacity \in Nat /\ view \in [List -> View]
  BY HeightTypes, TuiAssumption DEF TypeOK
<1>1. ASSUME NEW h \in Height, NEW w \in Width, Resize(h, w)
      PROVE  IndInv'
  <2> DEFINE views == IF popupActive
                      THEN [view EXCEPT ![popupType] =
                              ScrollViewConfigure(@, dataCount[popupType], PopupHeight(h))]
                      ELSE view
  <2>1. popupType \in List /\ dataCount[popupType] \in Nat
    BY DEF TypeOK, List
  <2>2. /\ views \in [List -> View]
        /\ \A l \in List : /\ views[l].count = view[l].count
                           /\ views[l].head = view[l].head
                           /\ views[l].cursor = view[l].cursor
    <3>1. CASE popupActive
      <4> DEFINE v == ScrollViewConfigure(view[popupType], dataCount[popupType], PopupHeight(h))
      <4>1. /\ v \in View /\ v.count = dataCount[popupType]
            /\ v.head = view[popupType].head /\ v.cursor = view[popupType].cursor
        <5>1. view[popupType] \in View /\ PopupHeight(h) \in Int
          BY <1>0, <2>1, HeightTypes
        <5> HIDE DEF IndInv
        <5>2. QED
          BY <2>1, <5>1, ConfigureView
      <4>2. views = [view EXCEPT ![popupType] = v]
        BY <3>1
      <4> HIDE DEF v, views
      <4>3. QED
        BY <1>0, <2>1, <3>1, <4>1, <4>2 DEF PopupCounted
    <3>2. CASE ~popupActive
      BY <1>0, <3>2
    <3>3. QED
      BY <3>1, <3>2
  <2>3. view' = Drawn(views, h, w, Capacity(h)) /\ alive' \in BOOLEAN
    BY <1>1 DEF Resize, Draw
  <2> HIDE DEF views
  <2>4. /\ view' \in [List -> View]
        /\ \A l \in List : /\ view'[l].count = view[l].count
                           /\ view'[l].head = view[l].head
                           /\ view'[l].cursor = view[l].cursor
    BY <2>2, <2>3, HeightTypes, DrawnViews, TuiAssumption
  <2>5. SelectionInRange'
    BY <2>4 DEF SelectionInRange, SelectionExists, Selected
  <2>6. TypeOK'
    BY <1>1, <2>3, <2>4, HeightTypes DEF Resize, TypeOK
  <2>7. (OneWindow /\ InspectedIsSelected /\ PopupCounted)'
    BY <1>1, <2>1, <2>4
       DEF Resize, OneWindow, InspectedIsSelected, PopupCounted, Selected, List
  <2>8. QED
    BY <2>5, <2>6, <2>7
<1>2. CASE NewDevice
  <2> DEFINE views == [view EXCEPT !["devices"].count = @ + 1]
  <2>1. /\ views \in [List -> View]
        /\ views["devices"].count = view["devices"].count + 1
        /\ \A l \in List \ {"devices"} : views[l] = view[l]
        /\ \A l \in List : views[l].head = view[l].head /\ views[l].cursor = view[l].cursor
    BY <1>0 DEF List, PopupType, View
  <2>2. view' = Drawn(views, height, width, capacity) /\ alive' \in BOOLEAN
    BY <1>2 DEF NewDevice, DrawHere, Draw
  <2> HIDE DEF views
  <2>3. /\ view' \in [List -> View]
        /\ view'["devices"].count = view["devices"].count + 1
        /\ \A l \in List \ {"devices"} : view'[l].count = view[l].count
        /\ \A l \in List : view'[l].head = view[l].head /\ view'[l].cursor = view[l].cursor
    <3>1. /\ view' \in [List -> View]
          /\ \A l \in List : /\ view'[l].count = views[l].count
                             /\ view'[l].head = views[l].head
                             /\ view'[l].cursor = views[l].cursor
      BY <1>0, <2>1, <2>2, DrawnViews
    <3>2. QED
      BY <2>1, <3>1 DEF List
  <2>4. SelectionInRange'
    <3>1. \A l \in List : view[l] \in View /\ view'[l] \in View
      BY <1>0, <2>3
    <3>2. QED
      BY <2>3, <3>1 DEF SelectionInRange, SelectionExists, Selected, View
  <2>5. TypeOK'
    BY <1>2, <2>2, <2>3 DEF NewDevice, TypeOK, terminal, popup
  <2>6. (OneWindow /\ PopupCounted)'
    BY <1>2, <2>3 DEF NewDevice, OneWindow, PopupCounted, popup, List, PopupType, TypeOK
  <2>7. InspectedIsSelected'
    <3>1. view["devices"] \in View /\ view'["devices"] \in View /\ "devices" \in List
      BY <1>0, <2>3 DEF List
    <3>2. QED
      BY <1>2, <2>3, <3>1 DEF NewDevice, InspectedIsSelected, popup, Selected, View, TypeOK
  <2>8. QED
    BY <2>4, <2>5, <2>6, <2>7
<1>3. ASSUME NEW direction \in {-1, 1}, Arrow(direction)
      PROVE  IndInv'
  <2> DEFINE l == IF mainActive THEN "devices" ELSE popupType
             views == [view EXCEPT ![l] = ScrollMove(@, direction)]
  <2>1. l \in List
    BY DEF TypeOK, List
  <2>2. /\ views \in [List -> View]
        /\ \A k \in List : views[k].count = view[k].count /\ SelectionExists(views[k])
        /\ \A k \in List \ {l} : views[k] = view[k]
    BY <1>0, <2>1, ScrollMoveView DEF SelectionInRange
  <2>3. view' = Drawn(views, height, width, capacity) /\ alive' \in BOOLEAN
    BY <1>3 DEF Arrow, DrawHere, Draw
  <2> HIDE DEF views
  <2>4. /\ view' \in [List -> View]
        /\ \A k \in List : /\ view'[k].count = view[k].count
                           /\ view'[k].head = views[k].head
                           /\ view'[k].cursor = views[k].cursor
    BY <1>0, <2>2, <2>3, DrawnViews
  <2>5. SelectionInRange'
    BY <2>2, <2>4 DEF SelectionInRange, SelectionExists, Selected
  <2>6. TypeOK'
    BY <1>3, <2>3, <2>4 DEF Arrow, TypeOK, terminal, popup
  <2>7. (OneWindow /\ PopupCounted)'
    BY <1>3, <2>4 DEF Arrow, OneWindow, PopupCounted, popup, List, TypeOK
  <2>8. InspectedIsSelected'
    BY <1>3, <2>2, <2>4 DEF Arrow, InspectedIsSelected, OneWindow, popup, List, PopupType, Selected, TypeOK
  <2>9. QED
    BY <2>5, <2>6, <2>7, <2>8
<1>4. ASSUME NEW type \in PopupType, NEW n \in Nat, NEW list \in BOOLEAN, Open(type, n, list),
             UNCHANGED terminal,
             list => type = "INTERFACES_LIST",
             type = "INSPECT_LIST" => inspected' = Selected(view["devices"])
                                      /\ inspected' < view["devices"].count,
             type # "INSPECT_LIST" => UNCHANGED inspected
      PROVE  IndInv'
  <2> DEFINE fresh == [ScrollViewConfigure(view[type], n, PopupHeight(height))
                         EXCEPT !.head = 0, !.cursor = 0]
             views == [view EXCEPT ![type] = fresh]
  <2>1. type \in List /\ view[type] \in View
    BY <1>0 DEF List
  <2>2. fresh \in View /\ fresh.count = n /\ fresh.head = 0 /\ fresh.cursor = 0
    <3>1. ScrollViewConfigure(view[type], n, PopupHeight(height)) \in View
      BY <2>1, ConfigureView, HeightTypes DEF TypeOK
    <3>2. ScrollViewConfigure(view[type], n, PopupHeight(height)).count = n
      BY <2>1, ConfigureView, HeightTypes DEF TypeOK
    <3> DEFINE v == ScrollViewConfigure(view[type], n, PopupHeight(height))
               head == 0
               cursor == 0
    <3>3. /\ fresh = [v EXCEPT !.head = head, !.cursor = cursor]
          /\ head \in Nat /\ cursor \in Int /\ head = 0 /\ cursor = 0
      OBVIOUS
    <3> HIDE DEF v, fresh, head, cursor
    <3>4. v \in View /\ v.count = n
      BY <3>1, <3>2 DEF v
    <3>5. fresh \in View /\ fresh.count = n /\ fresh.head = head /\ fresh.cursor = cursor
      BY <3>3, <3>4 DEF View
    <3>6. QED
      BY <3>3, <3>5
  <2>3. /\ views \in [List -> View] /\ views[type] = fresh
        /\ \A l \in List \ {type} : views[l] = view[l]
    BY <1>0, <2>1, <2>2
  <2>4. /\ view' = Drawn(views, height, width, capacity)
        /\ alive' \in BOOLEAN
    BY <1>4 DEF Open
  <2> HIDE DEF views
  <2>5. /\ view' \in [List -> View]
        /\ \A l \in List : /\ view'[l].count = views[l].count
                           /\ view'[l].head = views[l].head
                           /\ view'[l].cursor = views[l].cursor
    BY <1>0, <2>3, <2>4, DrawnViews
  <2>6. SelectionInRange'
    <3> HIDE DEF fresh
    <3>1. ASSUME NEW l \in List
          PROVE  SelectionExists(view'[l])
      <4>1. CASE l = type
        BY <2>2, <2>3, <2>5, <4>1 DEF SelectionExists, Selected
      <4>2. CASE l # type
        BY <2>3, <2>5, <4>2 DEF SelectionInRange, SelectionExists, Selected
      <4>3. QED
        BY <4>1, <4>2
    <3>2. QED
      BY <3>1 DEF SelectionInRange
  <2>7. inspected' \in Nat \cup {-1}
    <3>1. view["devices"] \in View /\ Selected(view["devices"]) >= 0
      BY <1>0 DEF SelectionInRange, SelectionExists, List
    <3>2. QED
      BY <1>4, <3>1 DEF Selected, View, TypeOK, PopupType
  <2>8. TypeOK'
    BY <1>4, <2>4, <2>5, <2>7, HeightTypes DEF Open, TypeOK, terminal
  <2>9. (OneWindow /\ PopupCounted)'
    BY <1>4, <2>1, <2>2, <2>3, <2>5 DEF Open, OneWindow, PopupCounted, TypeOK
  <2>10. InspectedIsSelected'
    BY <1>4, <2>3, <2>5 DEF Open, InspectedIsSelected, Selected, List, PopupType
  <2>11. QED
    BY <2>6, <2>8, <2>9, <2>10
<1>5. ASSUME NEW type \in PopupType, Close(type), UNCHANGED <<terminal, inspected>>
      PROVE  IndInv'
  <2>1. view' = Drawn(view, height, width, capacity) /\ alive' \in BOOLEAN
    BY <1>5 DEF Close, TypeOK
  <2>2. /\ view' \in [List -> View]
        /\ \A l \in List : /\ view'[l].count = view[l].count
                           /\ view'[l].head = view[l].head
                           /\ view'[l].cursor = view[l].cursor
    BY <1>0, <2>1, DrawnViews
  <2>3. SelectionInRange'
    BY <2>2 DEF SelectionInRange, SelectionExists, Selected
  <2>4. TypeOK'
    <3>1. popupHeight' \in Int /\ popupType' \in PopupType /\ dataCount' \in [PopupType -> Nat]
      BY <1>5 DEF Close, TypeOK
    <3>2. mainActive' \in BOOLEAN /\ popupActive' \in BOOLEAN /\ isVisible' \in BOOLEAN
      BY <1>5 DEF Close
    <3>3. QED
      BY <1>5, <2>1, <2>2, <3>1, <3>2 DEF Close, TypeOK, terminal
  <2>5. (OneWindow /\ PopupCounted /\ InspectedIsSelected)'
    BY <1>5 DEF Close, OneWindow, PopupCounted, InspectedIsSelected
  <2>6. QED
    BY <2>3, <2>4, <2>5
<1>6. ASSUME NEW type \in PopupType, OtherOpen(type), UNCHANGED <<terminal, inspected>>
      PROVE  IndInv'
  <2>1. view' = Drawn(view, height, width, capacity) /\ alive' \in BOOLEAN
    BY <1>6 DEF OtherOpen, DrawHere, Draw
  <2>2. /\ view' \in [List -> View]
        /\ \A l \in List : /\ view'[l].count = view[l].count
                           /\ view'[l].head = view[l].head
                           /\ view'[l].cursor = view[l].cursor
    BY <1>0, <2>1, DrawnViews
  <2>3. SelectionInRange'
    BY <2>2 DEF SelectionInRange, SelectionExists, Selected
  <2>4. TypeOK'
    BY <1>6, <2>1, <2>2 DEF OtherOpen, TypeOK, terminal, popup
  <2>5. (OneWindow /\ PopupCounted)'
    BY <1>6, <2>2 DEF OtherOpen, OneWindow, PopupCounted, popup, List, TypeOK
  <2>6. InspectedIsSelected'
    BY <1>6, <2>2 DEF OtherOpen, InspectedIsSelected, Selected, popup, List
  <2>7. QED
    BY <2>3, <2>4, <2>5, <2>6
<1>7. CASE KeyInterfaces
  <2>1. ASSUME NEW n \in ListLength, Open("INTERFACES_LIST", n, TRUE)
        PROVE  IndInv'
    <3>1. n \in Nat /\ "INTERFACES_LIST" \in PopupType
      BY TuiAssumption DEF PopupType
    <3>2. QED
      BY <1>4, <1>7, <2>1, <3>1 DEF KeyInterfaces
  <2>2. CASE Open("INTERFACES_LIST", dataCount["INTERFACES_LIST"], FALSE)
    <3>1. dataCount["INTERFACES_LIST"] \in Nat /\ "INTERFACES_LIST" \in PopupType
      BY DEF TypeOK, PopupType
    <3>2. QED
      BY <1>4, <1>7, <2>2, <3>1 DEF KeyInterfaces
  <2>3. QED
    BY <1>5, <1>6, <1>7, <2>1, <2>2 DEF KeyInterfaces, PopupType
<1>8. CASE KeyInspect
  <2>1. CASE Open("INSPECT_LIST", InspectFieldCount, listed)
    <3>1. /\ InspectFieldCount \in Nat /\ "INSPECT_LIST" \in PopupType
          /\ listed \in BOOLEAN /\ UNCHANGED terminal
      BY <1>8, TuiAssumption DEF TypeOK, PopupType, KeyInspect
    <3>2. ~listed
      BY <2>1 DEF Open, OneWindow
    <3>3. CASE inspected' = Selected(view["devices"])
      BY <1>4, <1>8, <2>1, <3>1, <3>2, <3>3 DEF KeyInspect
    <3>4. QED
      BY <1>8, <2>1, <3>3 DEF KeyInspect, Open, Close, OtherOpen
  <2>2. QED
    BY <1>5, <1>6, <1>8, <2>1 DEF KeyInspect, PopupType
<1>9. CASE Enter
  BY <1>5, <1>9 DEF Enter, PopupType
<1>10. CASE UNCHANGED vars
  BY <1>10
     DEF vars, terminal, popup, TypeOK, SelectionInRange, SelectionExists, Selected,
         OneWindow, InspectedIsSelected, PopupCounted
<1>11. QED
  BY <1>1, <1>2, <1>3, <1>7, <1>8, <1>9, <1>10 DEF Next, Gone

(* The values the variables have, whatever is resized, discovered, pressed *)
(* and whichever list of interfaces the kernel returns or refuses.         *)
THEOREM TypeCorrect == Spec => []TypeOK
BY IndInvInit, IndInvNext, PTL DEF Spec, IndInv

(* 'i' and Enter never read an item that is not in the list.               *)
THEOREM SelectionInRangeCorrect == Spec => []SelectionInRange
BY IndInvInit, IndInvNext, PTL DEF Spec, IndInv

(* The toggle, the two is_active flags and the list of interfaces agree.   *)
THEOREM OneWindowCorrect == Spec => []OneWindow
BY IndInvInit, IndInvNext, PTL DEF Spec, IndInv

(* The inspect popup stays with the device it was opened on.               *)
THEOREM InspectedIsSelectedCorrect == Spec => []InspectedIsSelected
BY IndInvInit, IndInvNext, PTL DEF Spec, IndInv

(* In a window that is drawn, the table has no more rows than fit; so has  *)
(* an open popup, whose height follows that of the table's window.         *)
Fitted ==
  /\ capacity = Capacity(height)
  /\ ~TooSmall(height, width) => view["devices"].visible <= capacity
  /\ popupActive =>
       /\ popupHeight = PopupHeight(height)
       /\ popupHeight >= 2 => view[popupType].visible <= popupHeight - 2

LEMMA DrawnVisible ==
  ASSUME NEW views \in [List -> View], NEW h \in Int, NEW w \in Int, NEW cap \in Nat
  PROVE  /\ ~TooSmall(h, w) => Drawn(views, h, w, cap)["devices"].visible <= cap
         /\ \A type \in PopupType : Drawn(views, h, w, cap)[type].visible = views[type].visible
BY TuiAssumption DEF Drawn, List, PopupType, View

LEMMA ScrollMoveVisible ==
  ASSUME NEW v \in View, NEW direction \in {-1, 1}
  PROVE  ScrollMove(v, direction).visible = v.visible
BY DEF ScrollMove, ScrollAbove, ScrollBelow, View

LEMMA ConfigureVisible ==
  ASSUME NEW v \in View, NEW n \in Nat, NEW h \in Int, h >= 2
  PROVE  ScrollViewConfigure(v, n, h).visible <= h - 2
BY DEF ScrollViewConfigure, View

LEMMA TopOfView ==
  ASSUME NEW v \in View
  PROVE  /\ [v EXCEPT !.head = 0, !.cursor = 0] \in View
         /\ [v EXCEPT !.head = 0, !.cursor = 0].visible = v.visible
<1> DEFINE head == 0
           cursor == 0
<1>1. head \in Nat /\ cursor \in Int
  OBVIOUS
<1> HIDE DEF head, cursor
<1>2. /\ [v EXCEPT !.head = head, !.cursor = cursor] \in View
      /\ [v EXCEPT !.head = head, !.cursor = cursor].visible = v.visible
  BY <1>1 DEF View
<1>3. QED
  BY <1>2 DEF head, cursor

(* A step that draws views whose popup fits leaves everything fitted.      *)
LEMMA DrawnFitted ==
  ASSUME height' \in Height, width' \in Width, capacity' = Capacity(height'),
         NEW views \in [List -> View], view' = Drawn(views, height', width', capacity'),
         popupActive' => /\ popupType' \in PopupType
                         /\ popupHeight' = PopupHeight(height')
                         /\ popupHeight' >= 2 => views[popupType'].visible <= popupHeight' - 2
  PROVE  Fitted'
<1>1. height' \in Int /\ width' \in Int /\ Capacity(height') \in Nat
  BY HeightTypes, TuiAssumption
<1>2. QED
  BY <1>1, DrawnVisible DEF Fitted

LEMMA FittedInit == Init => Fitted
<1> SUFFICES ASSUME Init
             PROVE  Fitted
  OBVIOUS
<1> DEFINE none == [l \in List |-> EmptyView]
<1>1. none \in [List -> View] /\ height \in Int /\ width \in Int /\ capacity \in Nat
  BY HeightTypes, TuiAssumption DEF Init, EmptyView, View
<1>2. view = Drawn(none, height, width, capacity) /\ capacity = Capacity(height) /\ ~popupActive
  BY DEF Init
<1> HIDE DEF none
<1>3. QED
  BY <1>1, <1>2, DrawnVisible DEF Fitted

LEMMA FittedNext == IndInv /\ Fitted /\ [Next]_vars => Fitted'
<1> SUFFICES ASSUME IndInv, Fitted, [Next]_vars
             PROVE  Fitted'
  OBVIOUS
<1>0. /\ height \in Height /\ width \in Width /\ capacity = Capacity(height)
      /\ view \in [List -> View] /\ popupType \in PopupType
      /\ dataCount \in [PopupType -> Nat] /\ PopupHeight(height) \in Int
      /\ PopupType \subseteq List /\ "devices" \in List
  BY HeightTypes DEF IndInv, TypeOK, Fitted, List
<1>1. ASSUME NEW h \in Height, NEW w \in Width, Resize(h, w)
      PROVE  Fitted'
  <2> DEFINE v == ScrollViewConfigure(view[popupType], dataCount[popupType], PopupHeight(h))
             views == IF popupActive THEN [view EXCEPT ![popupType] = v] ELSE view
  <2>1. v \in View /\ (PopupHeight(h) >= 2 => v.visible <= PopupHeight(h) - 2)
    BY <1>0, HeightTypes, ConfigureView, ConfigureVisible
  <2>2. view' = Drawn(views, h, w, Capacity(h))
    BY <1>1 DEF Resize, Draw
  <2> HIDE DEF v
  <2>3. views \in [List -> View] /\ (popupActive => views[popupType] = v)
    BY <1>0, <2>1
  <2> HIDE DEF views
  <2>4. QED
    BY <1>0, <1>1, <2>1, <2>2, <2>3, DrawnFitted DEF Resize
<1>2. ASSUME NEW views \in [List -> View], UNCHANGED <<terminal, popup>>,
             view' = Drawn(views, height, width, capacity),
             \A type \in PopupType : views[type].visible = view[type].visible
      PROVE  Fitted'
  BY <1>0, <1>2, DrawnFitted DEF Fitted, terminal, popup
<1>3. CASE NewDevice
  <2> DEFINE views == [view EXCEPT !["devices"].count = @ + 1]
  <2>1. views \in [List -> View] /\ \A type \in PopupType : views[type] = view[type]
    BY <1>0 DEF List, PopupType, View
  <2>2. QED
    BY <1>2, <1>3, <2>1 DEF NewDevice, DrawHere, Draw
<1>4. ASSUME NEW direction \in {-1, 1}, Arrow(direction)
      PROVE  Fitted'
  <2> DEFINE l == IF mainActive THEN "devices" ELSE popupType
             views == [view EXCEPT ![l] = ScrollMove(@, direction)]
  <2>1. l \in List
    BY <1>0
  <2>2. ScrollMove(view[l], direction) \in View
    BY <1>0, <2>1, ScrollMoveView DEF IndInv, SelectionInRange
  <2>3. ScrollMove(view[l], direction).visible = view[l].visible
    BY <1>0, <2>1, ScrollMoveVisible
  <2>4. view' = Drawn(views, height, width, capacity) /\ UNCHANGED <<terminal, popup>>
    BY <1>4 DEF Arrow, DrawHere, Draw
  <2> HIDE DEF l
  <2>5. views \in [List -> View] /\ \A type \in PopupType : views[type].visible = view[type].visible
    BY <1>0, <2>1, <2>2, <2>3
  <2> HIDE DEF views
  <2>6. QED
    BY <1>2, <2>4, <2>5
<1>5. ASSUME NEW type \in PopupType, NEW n \in Nat, NEW list, Open(type, n, list),
             UNCHANGED terminal
      PROVE  Fitted'
  <2> DEFINE v == ScrollViewConfigure(view[type], n, PopupHeight(height))
             fresh == [v EXCEPT !.head = 0, !.cursor = 0]
             views == [view EXCEPT ![type] = fresh]
  <2>1. v \in View /\ (PopupHeight(height) >= 2 => v.visible <= PopupHeight(height) - 2)
    BY <1>0, HeightTypes, ConfigureView, ConfigureVisible
  <2>2. view' = Drawn(views, height, width, capacity)
    BY <1>5 DEF Open
  <2> HIDE DEF v
  <2>3. fresh \in View /\ fresh.visible = v.visible
    BY <2>1, TopOfView
  <2> HIDE DEF fresh
  <2>4. views \in [List -> View] /\ views[type] = fresh
    BY <1>0, <2>3
  <2> HIDE DEF views
  <2>5. QED
    BY <1>0, <1>5, <2>1, <2>2, <2>3, <2>4, DrawnFitted DEF Open, terminal
<1>6. ASSUME NEW type \in PopupType, Close(type), UNCHANGED terminal
      PROVE  Fitted'
  BY <1>0, <1>6, DrawnFitted DEF Close, terminal
<1>7. ASSUME NEW type \in PopupType, OtherOpen(type), UNCHANGED terminal
      PROVE  Fitted'
  BY <1>0, <1>2, <1>7 DEF OtherOpen, DrawHere, Draw
<1>8. CASE KeyInterfaces
  <2>1. "INTERFACES_LIST" \in PopupType /\ UNCHANGED terminal
    BY <1>8 DEF KeyInterfaces, PopupType
  <2>2. QED
    <3>1. ASSUME NEW n \in ListLength, Open("INTERFACES_LIST", n, TRUE)
          PROVE  Fitted'
      BY <1>5, <2>1, <3>1, TuiAssumption
    <3>2. CASE Open("INTERFACES_LIST", dataCount["INTERFACES_LIST"], FALSE)
      BY <1>0, <1>5, <2>1, <3>2
    <3>3. QED
      BY <1>6, <1>7, <1>8, <2>1, <3>1, <3>2 DEF KeyInterfaces
<1>9. CASE KeyInspect
  <2>1. "INSPECT_LIST" \in PopupType /\ InspectFieldCount \in Nat /\ UNCHANGED terminal
    BY <1>9, TuiAssumption DEF KeyInspect, PopupType
  <2>2. QED
    BY <1>5, <1>6, <1>7, <1>9, <2>1 DEF KeyInspect
<1>10. CASE Enter
  BY <1>6, <1>10 DEF Enter, PopupType
<1>11. CASE UNCHANGED vars
  BY <1>11 DEF vars, terminal, popup, Fitted
<1>12. QED
  BY <1>1, <1>3, <1>4, <1>8, <1>9, <1>10, <1>11 DEF Next, Gone

(* In every window wide enough to be drawn, the columns of the table and   *)
(* the longest lines of the popups fit.                                    *)
LEMMA ColumnsFit ==
  ASSUME NEW w \in Int, w >= MIN_WIDTH
  PROVE  /\ RowEnd(w) <= LastColumn(w)
         /\ \A c \in Column \ {"last_seen"} : TextLength[c] < FieldWidth(w)[c]
<1>1. /\ ColWidth(w) \in Int /\ ColWidth(w) >= 18
      /\ ColRemainder(w) \in 0 .. 3 /\ w - 4 = 4 * ColWidth(w) + ColRemainder(w)
  BY DEF ColWidth, ColRemainder, MIN_WIDTH
<1>2. /\ ColWidth(w) \div 2 \in Int /\ ColWidth(w) \div 2 >= 9
      /\ 2 * (ColWidth(w) \div 2) <= ColWidth(w)
  BY <1>1
<1>3. QED
  BY <1>1, <1>2 DEF RowEnd, LastColumn, Printed, FieldWidth, TextLength, Column

LEMMA LinesFit ==
  ASSUME NEW w \in Int, w >= MIN_WIDTH, NEW h \in Int, NEW type \in PopupType,
         NEW end \in LineEnds[type]
  PROVE  end <= LastColumn(PopupWidth(h, w))
<1>1. AfterTab(AfterTab(2 + 20) + 6) + 6 = 38
  BY DEF AfterTab, TabSize
<1>2. end <= 62
  BY <1>1 DEF LineEnds, PopupType, RATE_HISTORY_SIZE
<1>3. end \in Int
  BY <1>1 DEF LineEnds, PopupType, RATE_HISTORY_SIZE
<1>4. QED
  BY <1>2, <1>3 DEF LastColumn, PopupWidth, MIN_WIDTH

LEMMA FittedIsInFrame == IndInv /\ Fitted => TextInFrame
<1> SUFFICES ASSUME IndInv, Fitted, ~TooSmall(height, width)
             PROVE  TextInFrame
  BY DEF TextInFrame
<1>1. /\ height \in Int /\ height >= 4 /\ width \in Int /\ width >= MIN_WIDTH
      /\ popupType \in PopupType
  BY TuiAssumption DEF TooSmall, MIN_HEIGHT, MIN_WIDTH, IndInv, TypeOK
<1>2. /\ view["devices"] \in View /\ view[popupType] \in View
      /\ OnScreen(view["devices"]) <= view["devices"].visible
      /\ OnScreen(view[popupType]) <= view[popupType].visible
  BY DEF IndInv, TypeOK, List, OnScreen, View
<1>3. RowsInFrame(2, OnScreen(view["devices"]), height)
  <2>1. view["devices"].visible <= height - 3
    BY <1>1, <1>2 DEF Fitted, Capacity
  <2>2. QED
    BY <1>1, <1>2, <2>1 DEF RowsInFrame, LastRow, OnScreen, View
<1>4. ASSUME popupActive
      PROVE  RowsInFrame(1, OnScreen(view[popupType]), popupHeight)
  <2>1. popupHeight \in Int /\ popupHeight >= 2
    BY <1>1, <1>4 DEF Fitted, PopupHeight
  <2>2. view[popupType].visible <= popupHeight - 2
    BY <1>4, <2>1 DEF Fitted
  <2>3. QED
    BY <1>2, <2>1, <2>2 DEF RowsInFrame, LastRow, OnScreen, View
<1>5. \A end \in LineEnds[popupType] : end <= LastColumn(PopupWidth(height, width))
  BY <1>1, LinesFit
<1>6. QED
  BY <1>1, <1>3, <1>4, <1>5, ColumnsFit DEF TextInFrame

(* Nothing that draw() prints leaves its frame, for windows of any size.   *)
THEOREM TextInFrameCorrect == Spec => []TextInFrame
BY IndInvInit, IndInvNext, FittedInit, FittedNext, FittedIsInFrame, PTL DEF Spec

-----------------------------------------------------------------------------
(* KEY_DOWN stays in a lost view, whether the window has rows or not.      *)
LEMMA LostStays ==
  ASSUME NEW v \in View, SelectionExists(v), v.count > 0, Lost(v)
  PROVE  /\ OnScreen(v) = 0 /\ ~Shown(v)
         /\ ScrollMove(v, 1) = v
<1>1. /\ v.count \in Nat \ {0} /\ v.visible \in Nat /\ v.head = v.count
      /\ v.cursor \in Int /\ v.cursor >= -1 /\ v.head + v.cursor < v.count
  BY DEF View, SelectionExists, Selected, Lost
<1>2. v.cursor = -1 /\ v.cursor + 1 = 0
  BY <1>1
<1>3. OnScreen(v) = 0
  BY <1>1 DEF OnScreen
<1>4. ScrollMove(v, 1) = ScrollBelow(v)
  BY <1>1, <1>2, <1>3 DEF ScrollMove
<1>5. v = [count |-> v.count, head |-> v.head, visible |-> v.visible, cursor |-> v.cursor]
  BY DEF View
<1>6. ScrollBelow(v) = [v EXCEPT !.head = v.head, !.cursor = v.cursor]
  <2>1. (IF v.head + OnScreen(v) < v.count THEN v.head + 1 ELSE v.head) = v.head
    BY <1>1, <1>3
  <2>2. OnScreen(v) - 1 = v.cursor
    BY <1>2, <1>3
  <2> HIDE DEF OnScreen
  <2> QED
    BY <1>5, <2>1, <2>2 DEF ScrollBelow
<1>7. [v EXCEPT !.head = v.head, !.cursor = v.cursor] = v
  BY <1>5
<1> QED
  BY <1>1, <1>3, <1>4, <1>6, <1>7 DEF Shown

(* One press down from any view, and from one whose selection is shown.    *)
LEMMA PressDown ==
  ASSUME NEW v \in View, SelectionExists(v), v.count > 0, ~Lost(v), v.visible > 0
  PROVE  LET w == ScrollMove(v, 1)
         IN  /\ Shown(w) /\ ~Lost(w)
             /\ Selected(w) >= 1 \/ Selected(w) = v.count - 1
             /\ Shown(v) => Selected(w) = IF Selected(v) < v.count - 1 THEN Selected(v) + 1 ELSE v.count - 1
<1> DEFINE position == v.cursor + 1
           w == ScrollMove(v, 1)
<1>0. /\ v.count \in Nat \ {0} /\ v.head \in Nat /\ v.visible \in Nat \ {0} /\ v.cursor \in Int
      /\ position \in Int /\ OnScreen(v) \in Nat \ {0} /\ OnScreen(v) <= v.visible
      /\ OnScreen(v) <= v.count - v.head
      /\ OnScreen(v) < v.visible => OnScreen(v) = v.count - v.head
      /\ v.head + v.cursor >= 0 /\ v.head + v.cursor < v.count
  BY DEF View, OnScreen, SelectionExists, Selected, Lost
<1>1. CASE position < 0
  <2> DEFINE head == IF v.head > 0 THEN v.head - 1 ELSE 0
  <2>1. w = [v EXCEPT !.head = head, !.cursor = 0]
    BY <1>0, <1>1 DEF ScrollMove, ScrollAbove, View
  <2>2. head = v.head - 1 /\ v.head >= 2
    BY <1>0, <1>1
  <2>3. w.head = head /\ w.cursor = 0 /\ w.count = v.count /\ w.visible = v.visible
    BY <1>0, <2>1 DEF View
  <2>4. w.head = v.head - 1 /\ w.cursor = 0 /\ w.count = v.count /\ w.visible = v.visible
    BY <2>2, <2>3
  <2>5. OnScreen(w) > 0
    BY <1>0, <2>2, <2>4 DEF OnScreen
  <2> QED
    BY <1>0, <1>1, <2>2, <2>4, <2>5 DEF Shown, Selected, Lost
<1>2. CASE position >= 0 /\ position >= OnScreen(v)
  <2> DEFINE head == IF v.head + OnScreen(v) < v.count THEN v.head + 1 ELSE v.head
  <2>1. w = [v EXCEPT !.head = head, !.cursor = OnScreen(v) - 1]
    BY <1>0, <1>2 DEF ScrollMove, ScrollBelow, View
  <2>2. w.head = head /\ w.cursor = OnScreen(v) - 1 /\ w.count = v.count /\ w.visible = v.visible
    BY <1>0, <2>1 DEF View
  <2>3. OnScreen(w) = OnScreen(v)
    BY <1>0, <2>2 DEF OnScreen
  <2> QED
    BY <1>0, <1>2, <2>2, <2>3 DEF Shown, Selected, Lost
<1>3. CASE position >= 0 /\ position < OnScreen(v)
  <2>1. w = [v EXCEPT !.cursor = position]
    BY <1>0, <1>3 DEF ScrollMove
  <2>2. w.head = v.head /\ w.cursor = position /\ w.count = v.count /\ w.visible = v.visible
    BY <1>0, <2>1 DEF View
  <2>3. OnScreen(w) = OnScreen(v)
    BY <2>2 DEF OnScreen
  <2> QED
    BY <1>0, <1>3, <2>2, <2>3 DEF Shown, Selected, Lost
<1> QED
  BY <1>0, <1>1, <1>2, <1>3

(* One press up, from a lost view too: the last item is then shown.        *)
LEMMA PressUp ==
  ASSUME NEW v \in View, SelectionExists(v), v.count > 0, v.visible > 0
  PROVE  LET w == ScrollMove(v, -1)
         IN  /\ Shown(w) /\ ~Lost(w)
             /\ Shown(v) => Selected(w) = IF Selected(v) > 0 THEN Selected(v) - 1 ELSE 0
<1> DEFINE position == v.cursor + (-1)
           w == ScrollMove(v, -1)
<1>0. /\ v.count \in Nat \ {0} /\ v.head \in Nat /\ v.visible \in Nat \ {0} /\ v.cursor \in Int
      /\ position \in Int /\ OnScreen(v) \in Nat /\ OnScreen(v) <= v.visible
      /\ OnScreen(v) <= v.count - v.head /\ v.head <= v.count
      /\ v.head < v.count => OnScreen(v) > 0
      /\ v.head + v.cursor >= 0 /\ v.head + v.cursor < v.count
  BY DEF View, OnScreen, SelectionExists, Selected
<1>1. CASE position < 0
  <2> DEFINE head == IF v.head > 0 THEN v.head - 1 ELSE 0
  <2>1. w = [v EXCEPT !.head = head, !.cursor = 0]
    BY <1>0, <1>1 DEF ScrollMove, ScrollAbove, View
  <2>2. w.head = head /\ w.cursor = 0 /\ w.count = v.count /\ w.visible = v.visible
    BY <1>0, <2>1 DEF View
  <2>3. head \in Nat /\ head < v.count /\ (v.head > 0 => head = v.head - 1) /\ (v.head = 0 => head = 0)
    BY <1>0
  <2> HIDE DEF head, w
  <2>4. OnScreen(w) > 0
    BY <1>0, <2>2, <2>3 DEF OnScreen
  <2>5. Shown(w) /\ ~Lost(w) /\ Selected(w) = head
    BY <2>2, <2>3, <2>4 DEF Shown, Selected, Lost
  <2>6. Shown(v) => v.cursor = 0
    BY <1>0, <1>1 DEF Shown
  <2> QED
    BY <1>0, <2>3, <2>5, <2>6 DEF w, Selected
<1>2. CASE position >= 0
  <2>1. v.head < v.count /\ OnScreen(v) > 0
    BY <1>0, <1>2
  <2>2. CASE position >= OnScreen(v)
    <3> DEFINE head == IF v.head + OnScreen(v) < v.count THEN v.head + 1 ELSE v.head
    <3>1. w = [v EXCEPT !.head = head, !.cursor = OnScreen(v) - 1]
      BY <1>0, <1>2, <2>2 DEF ScrollMove, ScrollBelow, View
    <3>2. w.head = head /\ w.cursor = OnScreen(v) - 1 /\ w.count = v.count /\ w.visible = v.visible
      BY <1>0, <3>1 DEF View
    <3>3. OnScreen(w) = OnScreen(v)
      BY <1>0, <2>1, <3>2 DEF OnScreen
    <3> QED
      BY <1>0, <2>1, <2>2, <3>2, <3>3 DEF Shown, Selected, Lost
  <2>3. CASE position < OnScreen(v)
    <3>1. w = [v EXCEPT !.cursor = position]
      BY <1>0, <1>2, <2>3 DEF ScrollMove
    <3>2. w.head = v.head /\ w.cursor = position /\ w.count = v.count /\ w.visible = v.visible
      BY <1>0, <3>1 DEF View
    <3>3. OnScreen(w) = OnScreen(v)
      BY <3>2 DEF OnScreen
    <3> QED
      BY <1>0, <1>2, <2>1, <2>3, <3>2, <3>3 DEF Shown, Selected, Lost
  <2> QED
    BY <1>0, <2>2, <2>3
<1> QED
  BY <1>0, <1>1, <1>2

(* An arrow key (scroll_move) brings the cursor back into its window after *)
(* any history of resizes and never skips an item, but KEY_DOWN in a lost  *)
(* view, which stays as it is.                                             *)
THEOREM ArrowLandsCorrect == Spec => []ArrowLandsInWindow
<1>1. IndInv => ArrowLandsInWindow
  <2> SUFFICES ASSUME IndInv, NEW l \in List, NEW direction \in {-1, 1}
               PROVE  ArrowLands(view[l], direction)
    BY DEF ArrowLandsInWindow
  <2> DEFINE v == view[l]
             w == ScrollMove(v, direction)
  <2> SUFFICES ASSUME v.count > 0, v.visible > 0
               PROVE  IF Lost(v) /\ direction = 1 THEN w = v /\ ~Shown(v)
                      ELSE Shown(w) /\ (Shown(v) => Selected(w) - Selected(v) \in {0, direction})
    BY DEF ArrowLands
  <2>1. v \in View /\ SelectionExists(v)
    BY DEF IndInv, TypeOK, SelectionInRange
  <2>2. Selected(v) \in Int /\ 0 <= Selected(v) /\ Selected(v) < v.count /\ v.count \in Nat
    BY <2>1 DEF Selected, View, SelectionExists
  <2> HIDE DEF v
  <2>3. CASE direction = -1
    BY <2>1, <2>2, <2>3, PressUp
  <2>4. CASE direction = 1 /\ Lost(v)
    BY <2>1, <2>4, LostStays
  <2>5. CASE direction = 1 /\ ~Lost(v)
    BY <2>1, <2>2, <2>5, PressDown
  <2> QED
    BY <2>3, <2>4, <2>5
<1> QED
  BY <1>1, IndInvInit, IndInvNext, PTL DEF Spec
-----------------------------------------------------------------------------
(* Induction over the naturals, for a set.                                 *)
LEMMA NatInduct ==
  ASSUME NEW S, 0 \in S, \A n \in Nat : n \in S => n + 1 \in S
  PROVE  Nat \subseteq S
<1> DEFINE T == Nat \ S
<1> SUFFICES ASSUME T # {} PROVE FALSE
  OBVIOUS
<1>1. IsWellFoundedOn(OpToRel(<, Nat), Nat)
  BY NatLessThanWellFounded
<1>2. OpToRel(<, Nat) = {ss \in Nat \X Nat : ss[1] < ss[2]}
  BY DEF OpToRel
<1>3. PICK x \in T : \A y \in T : ~ (<<y, x>> \in {ss \in Nat \X Nat : ss[1] < ss[2]})
  <2> DEFINE R == {ss \in Nat \X Nat : ss[1] < ss[2]}
  <2>1. IsWellFoundedOn(R, Nat)
    BY <1>1, <1>2
  <2>2. T \subseteq Nat /\ T # {}
    OBVIOUS
  <2> HIDE DEF R, T
  <2>3. \E x \in T : \A y \in T : ~ (<<y, x>> \in R)
    BY <2>1, <2>2, WFMin
  <2> QED
    BY <2>3 DEF R
<1>4. x \in Nat /\ x # 0 /\ x - 1 \in Nat
  OBVIOUS
<1>5. x - 1 \in S
  <2>1. <<x - 1, x>> \in {ss \in Nat \X Nat : ss[1] < ss[2]}
    BY <1>4
  <2>2. x - 1 \notin T
    BY <1>3, <2>1
  <2> QED
    BY <1>4, <2>2
<1> QED
  BY <1>4, <1>5

(* Scrolled's recursive function exists: there is one for every number of *)
(* presses, and it is what its definition says.                            *)
LEMMA ScrolledIs ==
  ASSUME NEW v, NEW direction, NEW n \in Nat
  PROVE  \E f : /\ \A k \in 0 .. n : f[k] = IF k = 0 THEN v ELSE ScrollMove(f[k - 1], direction)
                /\ Scrolled(v, direction, n) = f[n]
<1> DEFINE Is(f, m) == f = [k \in 0 .. m |-> IF k = 0 THEN v ELSE ScrollMove(f[k - 1], direction)]
           S == {m \in Nat : \E f : Is(f, m)}
<1>1. 0 \in S
  <2>1. Is([k \in 0 .. 0 |-> v], 0)
    OBVIOUS
  <2> QED
    BY <2>1
<1>2. ASSUME NEW m \in Nat, m \in S PROVE m + 1 \in S
  <2>1. PICK f : Is(f, m)
    BY <1>2
  <2> DEFINE g == [k \in 0 .. m + 1 |-> IF k <= m THEN f[k] ELSE ScrollMove(f[m], direction)]
  <2>2. ASSUME NEW k \in 0 .. m + 1
        PROVE  g[k] = IF k = 0 THEN v ELSE ScrollMove(g[k - 1], direction)
    <3>1. CASE k = 0
      BY <3>1, <2>1
    <3>2. CASE k # 0 /\ k <= m
      <4> k \in 0 .. m /\ k - 1 \in 0 .. m
        BY <3>2
      <4> QED
        BY <3>2, <2>1
    <3>3. CASE k = m + 1
      <4> m \in 0 .. m + 1 /\ ~ (m + 1 <= m) /\ k - 1 = m /\ k # 0
        BY <3>3
      <4> QED
        BY <3>3
    <3> QED
      BY <3>1, <3>2, <3>3
  <2>3. Is(g, m + 1)
    <3> DOMAIN g = 0 .. m + 1 /\ g = [k \in 0 .. m + 1 |-> g[k]]
      OBVIOUS
    <3> HIDE DEF g
    <3> QED
      BY <2>2
  <2> HIDE DEF g, Is
  <2> QED
    BY <2>3
<1>3. Nat \subseteq S
  BY <1>1, <1>2, NatInduct
<1>4. \E f : Is(f, n)
  BY <1>3
<1>5. Is(CHOOSE f : Is(f, n), n)
  BY <1>4
<1>6. Scrolled(v, direction, n) = (CHOOSE f : Is(f, n))[n]
  BY DEF Scrolled
<1> HIDE DEF S
<1>7. PICK f : Is(f, n) /\ Scrolled(v, direction, n) = f[n]
  <2> HIDE DEF Is
  <2> QED
    BY <1>5, <1>6
<1>8. \A k \in 0 .. n : f[k] = IF k = 0 THEN v ELSE ScrollMove(f[k - 1], direction)
  BY <1>7
<1> QED
  BY <1>7, <1>8

(* The views an arrow key goes through, one press after the other.         *)
LEMMA Presses ==
  ASSUME NEW v \in View, SelectionExists(v), NEW direction \in {-1, 1}, NEW n \in Nat
  PROVE  \E f : /\ f[0] = v /\ Scrolled(v, direction, n) = f[n]
                /\ \A k \in 0 .. n : k > 0 => f[k] = ScrollMove(f[k - 1], direction)
                /\ \A k \in 0 .. n : /\ f[k] \in View /\ SelectionExists(f[k])
                                     /\ f[k].count = v.count /\ f[k].visible = v.visible
<1>1. PICK f : /\ \A k \in 0 .. n : f[k] = IF k = 0 THEN v ELSE ScrollMove(f[k - 1], direction)
               /\ Scrolled(v, direction, n) = f[n]
  BY ScrolledIs
<1>2. \A k \in 0 .. n : f[k] = IF k = 0 THEN v ELSE ScrollMove(f[k - 1], direction)
  BY <1>1
<1> DEFINE Kept(w) == /\ w \in View /\ SelectionExists(w)
                      /\ w.count = v.count /\ w.visible = v.visible
           S == {k \in Nat : k <= n => Kept(f[k])}
<1>3. f[0] = v
  BY <1>2
<1>4. 0 \in S
  BY <1>3
<1>5. ASSUME NEW k \in Nat, k \in S PROVE k + 1 \in S
  <2>1. SUFFICES ASSUME k + 1 <= n PROVE Kept(f[k + 1])
    BY <1>5
  <2>2. Kept(f[k])
    BY <1>5, <2>1
  <2>3. f[k + 1] = ScrollMove(f[k], direction)
    <3> k + 1 \in 0 .. n /\ k + 1 # 0 /\ (k + 1) - 1 = k
      BY <2>1
    <3> QED
      BY <1>2
  <2> QED
    BY <2>2, <2>3, ScrollMoveView, ScrollMoveVisible
<1>6. Nat \subseteq S
  BY <1>4, <1>5, NatInduct
<1>7. \A k \in 0 .. n : Kept(f[k])
  BY <1>6
<1> QED
  BY <1>1, <1>2, <1>3, <1>7

(* Enough presses: after k of them, of which the first brings the cursor   *)
(* into the window, the selection is k items from where it could be.       *)
LEMMA ReachesBottom ==
  ASSUME NEW v \in View, SelectionExists(v), v.count > 0, ~Lost(v), v.visible > 0
  PROVE  LET w == Scrolled(v, 1, v.count + 1)
         IN  Shown(w) /\ Selected(w) = v.count - 1
<1> DEFINE n == v.count + 1
<1>0. v.count \in Nat \ {0} /\ n \in Nat
  BY DEF View
<1>1. PICK f : /\ f[0] = v /\ Scrolled(v, 1, n) = f[n]
               /\ \A k \in 0 .. n : k > 0 => f[k] = ScrollMove(f[k - 1], 1)
               /\ \A k \in 0 .. n : /\ f[k] \in View /\ SelectionExists(f[k])
                                    /\ f[k].count = v.count /\ f[k].visible = v.visible
  BY <1>0, Presses
<1> DEFINE Far(k) == /\ Shown(f[k]) /\ ~Lost(f[k])
                     /\ Selected(f[k]) >= k \/ Selected(f[k]) = v.count - 1
           S == {k \in Nat : k + 1 <= n => Far(k + 1)}
<1>2. 0 \in S
  <2>1. 1 \in 0 .. n /\ 1 > 0 /\ 1 - 1 = 0
    BY <1>0
  <2>2. f[1] = ScrollMove(v, 1) /\ f[1].count = v.count
    BY <1>1, <2>1
  <2> QED
    BY <2>2, PressDown
<1>3. ASSUME NEW k \in Nat, k \in S PROVE k + 1 \in S
  <2>1. SUFFICES ASSUME k + 2 <= n PROVE Far(k + 2)
    BY <1>3, (k + 1) + 1 = k + 2
  <2>2. Far(k + 1)
    <3>1. k + 1 <= n
      BY <1>0, <2>1
    <3> HIDE DEF Far
    <3> QED
      BY <1>3, <3>1
  <2>3. k + 1 \in 0 .. n /\ k + 2 \in 0 .. n /\ k + 2 > 0 /\ (k + 2) - 1 = k + 1
    BY <2>1, <1>0
  <2>4. /\ f[k + 2] = ScrollMove(f[k + 1], 1)
        /\ f[k + 1] \in View /\ SelectionExists(f[k + 1])
        /\ f[k + 1].count = v.count /\ f[k + 1].visible = v.visible
        /\ f[k + 2].count = v.count
    BY <1>1, <2>3
  <2>5. /\ Shown(f[k + 2]) /\ ~Lost(f[k + 2])
        /\ Selected(f[k + 2]) = IF Selected(f[k + 1]) < v.count - 1 THEN Selected(f[k + 1]) + 1 ELSE v.count - 1
    BY <2>2, <2>4, PressDown
  <2>6. Selected(f[k + 1]) \in Int /\ Selected(f[k + 1]) < v.count
    BY <2>4, <1>0 DEF Selected, View, SelectionExists
  <2> QED
    BY <1>0, <2>2, <2>5, <2>6
<1>4. v.count \in S
  <2> HIDE DEF S
  <2>1. Nat \subseteq S
    BY <1>2, <1>3, NatInduct
  <2> QED
    BY <1>0, <2>1
<1>5. Far(n)
  BY <1>0, <1>4
<1>6. Selected(f[n]) \in Int /\ Selected(f[n]) < v.count
  <2> f[n] \in View /\ SelectionExists(f[n]) /\ f[n].count = v.count
    BY <1>0, <1>1
  <2> QED
    BY <1>0 DEF Selected, View, SelectionExists
<1> QED
  BY <1>0, <1>1, <1>5, <1>6

LEMMA ReachesTop ==
  ASSUME NEW v \in View, SelectionExists(v), v.count > 0, v.visible > 0
  PROVE  LET w == Scrolled(v, -1, 2 * v.count + 1)
         IN  /\ w \in View /\ SelectionExists(w) /\ w.count = v.count /\ w.visible = v.visible
             /\ Shown(w) /\ Selected(w) = 0 /\ ~Lost(w)
<1> DEFINE n == 2 * v.count + 1
<1>0. v.count \in Nat \ {0} /\ n \in Nat
  BY DEF View
<1>1. PICK f : /\ f[0] = v /\ Scrolled(v, -1, n) = f[n]
               /\ \A k \in 0 .. n : k > 0 => f[k] = ScrollMove(f[k - 1], -1)
               /\ \A k \in 0 .. n : /\ f[k] \in View /\ SelectionExists(f[k])
                                    /\ f[k].count = v.count /\ f[k].visible = v.visible
  BY <1>0, Presses
<1> DEFINE Near(k) == /\ Shown(f[k]) /\ ~Lost(f[k])
                      /\ Selected(f[k]) <= v.count - k \/ Selected(f[k]) = 0
           S == {k \in Nat : k + 1 <= n => Near(k + 1)}
<1>2. 0 \in S
  <2>1. 1 \in 0 .. n /\ 1 > 0 /\ 1 - 1 = 0
    BY <1>0
  <2>2. /\ f[1] = ScrollMove(v, -1) /\ f[1].count = v.count
        /\ f[1] \in View /\ SelectionExists(f[1])
    BY <1>1, <2>1
  <2>3. Selected(f[1]) \in Int /\ Selected(f[1]) < v.count
    BY <2>2, <1>0 DEF Selected, View, SelectionExists
  <2>4. Shown(f[1]) /\ ~Lost(f[1])
    BY <2>2, PressUp
  <2> QED
    BY <1>0, <2>3, <2>4
<1>3. ASSUME NEW k \in Nat, k \in S PROVE k + 1 \in S
  <2>1. SUFFICES ASSUME k + 2 <= n PROVE Near(k + 2)
    BY <1>3, (k + 1) + 1 = k + 2
  <2>2. Near(k + 1)
    <3>1. k + 1 <= n
      BY <1>0, <2>1
    <3> HIDE DEF Near
    <3> QED
      BY <1>3, <3>1
  <2>3. k + 1 \in 0 .. n /\ k + 2 \in 0 .. n /\ k + 2 > 0 /\ (k + 2) - 1 = k + 1
    BY <2>1, <1>0
  <2>4. /\ f[k + 2] = ScrollMove(f[k + 1], -1)
        /\ f[k + 1] \in View /\ SelectionExists(f[k + 1])
        /\ f[k + 1].count = v.count /\ f[k + 1].visible = v.visible
        /\ f[k + 2].count = v.count
    BY <1>1, <2>3
  <2>5. /\ Shown(f[k + 2]) /\ ~Lost(f[k + 2])
        /\ Selected(f[k + 2]) = IF Selected(f[k + 1]) > 0 THEN Selected(f[k + 1]) - 1 ELSE 0
    BY <2>2, <2>4, PressUp
  <2>6. Selected(f[k + 1]) \in Int /\ Selected(f[k + 1]) >= 0
    BY <2>4, <1>0 DEF Selected, View, SelectionExists
  <2> QED
    BY <1>0, <2>2, <2>5, <2>6
<1>4. 2 * v.count \in S
  <2> HIDE DEF S
  <2>1. Nat \subseteq S
    BY <1>2, <1>3, NatInduct
  <2> QED
    BY <1>0, <2>1
<1>5. Near(n)
  BY <1>0, <1>4
<1>6. /\ f[n] \in View /\ SelectionExists(f[n])
      /\ f[n].count = v.count /\ f[n].visible = v.visible
  BY <1>0, <1>1
<1>7. Selected(f[n]) \in Int /\ Selected(f[n]) >= 0
  BY <1>0, <1>6 DEF Selected, View, SelectionExists
<1>8. Shown(f[n]) /\ ~Lost(f[n]) /\ Selected(f[n]) = 0
  BY <1>0, <1>5, <1>7
<1> QED
  BY <1>1, <1>6, <1>8

(* KEY_DOWN leaves a lost view lost, however often it is pressed.          *)
LEMMA LostForEver ==
  ASSUME NEW v \in View, SelectionExists(v), v.count > 0, Lost(v), NEW n \in Nat
  PROVE  Scrolled(v, 1, n) = v
<1>1. PICK f : /\ f[0] = v /\ Scrolled(v, 1, n) = f[n]
               /\ \A k \in 0 .. n : k > 0 => f[k] = ScrollMove(f[k - 1], 1)
               /\ \A k \in 0 .. n : /\ f[k] \in View /\ SelectionExists(f[k])
                                    /\ f[k].count = v.count /\ f[k].visible = v.visible
  BY Presses
<1> DEFINE S == {k \in Nat : k <= n => f[k] = v}
<1>2. 0 \in S
  BY <1>1
<1>3. ASSUME NEW k \in Nat, k \in S PROVE k + 1 \in S
  <2>1. SUFFICES ASSUME k + 1 <= n PROVE f[k + 1] = v
    OBVIOUS
  <2>2. f[k] = v
    BY <1>3, <2>1
  <2>3. k + 1 \in 0 .. n /\ k + 1 > 0 /\ (k + 1) - 1 = k
    BY <2>1
  <2>4. f[k + 1] = ScrollMove(f[k], 1)
    BY <1>1, <2>3
  <2> QED
    BY <2>2, <2>4, LostStays
<1>4. Nat \subseteq S
  BY <1>2, <1>3, NatInduct
<1> QED
  BY <1>1, <1>4

(* Whatever resizes are behind it, the arrow keys (scroll_move) reach both *)
(* ends of the list: KEY_UP from every view, KEY_DOWN from every view that *)
(* is not lost, and a lost view KEY_DOWN never changes.                    *)
THEOREM EveryItemReachableCorrect == Spec => []EveryItemReachable
<1>1. IndInv => EveryItemReachable
  <2> SUFFICES ASSUME IndInv, NEW l \in List, view[l].count > 0, view[l].visible > 0
               PROVE  LET v == view[l]
                          top == Scrolled(v, -1, 2 * v.count + 1)
                          topToBottom == Scrolled(top, 1, v.count + 1)
                          bottom == Scrolled(v, 1, v.count + 1)
                      IN  /\ Shown(top) /\ Selected(top) = 0
                          /\ Shown(topToBottom) /\ Selected(topToBottom) = v.count - 1
                          /\ IF Lost(v) THEN bottom = v /\ OnScreen(v) = 0
                                        ELSE Shown(bottom) /\ Selected(bottom) = v.count - 1
    BY DEF EveryItemReachable
  <2> DEFINE v == view[l]
             top == Scrolled(v, -1, 2 * v.count + 1)
  <2>1. v \in View /\ SelectionExists(v) /\ v.count + 1 \in Nat /\ v.count > 0 /\ v.visible > 0
    BY DEF IndInv, TypeOK, SelectionInRange, View
  <2> HIDE DEF v
  <2>2. /\ top \in View /\ SelectionExists(top) /\ top.count = v.count /\ top.visible = v.visible
        /\ Shown(top) /\ Selected(top) = 0 /\ ~Lost(top)
    BY <2>1, ReachesTop
  <2> HIDE DEF top
  <2>3. /\ Shown(Scrolled(top, 1, v.count + 1))
        /\ Selected(Scrolled(top, 1, v.count + 1)) = v.count - 1
    BY <2>1, <2>2, ReachesBottom
  <2>4. CASE Lost(v)
    BY <2>1, <2>2, <2>3, <2>4, LostForEver, LostStays DEF v, top
  <2>5. CASE ~Lost(v)
    BY <2>1, <2>2, <2>3, <2>5, ReachesBottom DEF v, top
  <2> QED
    BY <2>4, <2>5
<1> QED
  BY <1>1, IndInvInit, IndInvNext, PTL DEF Spec
=============================================================================
