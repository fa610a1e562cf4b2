--------------------------------- MODULE Tui --------------------------------
(***************************************************************************)
(* The screen, all of it the main thread's: the device table and the two   *)
(* popups (ui/tui.c, ui/tui_app.c, ui/tui_popup.c, ui/popup_templates.c,   *)
(* ui/popup_interfaces.c), as the events of app/main.c and the keys change *)
(* it.  One action is one event with the draw() that follows it.           *)
(*                                                                         *)
(* Abstracted: colours, and of a text all but its length; a device is its  *)
(* row.  What Enter asks of the network thread and the end of the program  *)
(* are not here.                                                           *)
(***************************************************************************)
EXTENDS ScrollView, Layout

CONSTANTS
  Height,        \* heights main_window may get: LINES - 2 * WINDOW_OUTER_INDENT
  Width,         \* widths it may get: COLS - 2 * WINDOW_OUTER_INDENT
  BufferSize,    \* data->size
  MaxDevices,    \* bound: devices discovered
  ListLength,    \* lengths the list of interfaces may have, "all" included
  InspectFieldCount,
  UINT32_MAX     \* what -1 becomes in an unsigned variable

ASSUME TuiAssumption ==
  /\ Height \subseteq Int /\ Width \subseteq Int
  /\ BufferSize \in Nat \ {0}
  /\ MaxDevices \in Nat
  /\ ListLength \subseteq Nat \ {0}
  /\ InspectFieldCount \in Nat \ {0}
  /\ UINT32_MAX \in Nat /\ \A h \in Height : h < UINT32_MAX

VARIABLES
  height,        \* main_window.height
  width,         \* main_window.width
  window,        \* newwin() made main_window.window
  capacity,      \* viewport_capacity of the table
  view,          \* the scroll_view of the table and of the two popups
  dataCount,     \* data_count of the two popups
  mainActive,    \* main_window.is_active
  popupActive,   \* popup_window.is_active
  popupType,     \* popup_window.popup_type
  popupHeight,   \* popup_window.height
  isVisible,     \* popup_window_action's static: the next call opens
  listed,        \* popup_list # NULL
  inspected,     \* the device the fields of the inspect popup point into
  alive          \* no NULL pointer was followed yet

popup == <<mainActive, popupActive, popupType, popupHeight, isVisible>>
terminal == <<height, width, window, capacity>>
vars == <<terminal, view, dataCount, popup, listed, inspected, alive>>

PopupType == {"INTERFACES_LIST", "INSPECT_LIST"}
List == PopupType \cup {"devices"}

(* viewport_capacity: the lines in the frame, less one for the header.     *)
CapacitySigned(h) == h - 3
Capacity(h) == IF h - 2 < 0 THEN 0 ELSE IF h = 2 THEN UINT32_MAX ELSE h - 3

PopupHeight(h) == IF h - 10 >= 3 THEN h - 10 ELSE h
PopupWidth(h, w) == IF h - 10 >= 3 THEN w - 10 ELSE w

TooSmall(h, w) == h < MIN_HEIGHT \/ w < MIN_WIDTH

(* draw() does nothing but say so in a window that is too small; else      *)
(* sync_display_limit adapts the table to the window.                      *)
Drawn(views, h, w, cap) ==
  IF TooSmall(h, w) THEN views
  ELSE [views EXCEPT !["devices"].visible = IF cap < BufferSize THEN cap ELSE BufferSize]

(* draw_popup goes through popup_list once per row, and there is a row.    *)
ListRowDrawn(views) == OnScreen(views["INTERFACES_LIST"]) > 0

Init ==
  /\ height \in Height /\ width \in Width
  /\ window = (height >= 0)
  /\ capacity = Capacity(height)
  /\ view = Drawn([l \in List |-> EmptyView], height, width, capacity)
  /\ dataCount = [t \in PopupType |-> IF t = "INSPECT_LIST" THEN InspectFieldCount ELSE 0]
  /\ mainActive = TRUE /\ popupActive = FALSE
  /\ popupType = "INTERFACES_LIST" /\ popupHeight = 0
  /\ isVisible = TRUE
  /\ listed = FALSE
  /\ inspected = -1
  /\ alive = TRUE

(* draw(), with these views and a list that is there or not.               *)
Draw(views, h, w, cap, active, type, list) ==
  /\ view' = Drawn(views, h, w, cap)
  /\ alive' = ~( /\ active /\ type = "INTERFACES_LIST" /\ ~list
                 /\ ~TooSmall(h, w)
                 /\ ListRowDrawn(views) )

DrawHere(views) == Draw(views, height, width, capacity, popupActive, popupType, listed)
-----------------------------------------------------------------------------
(* UI_RESIZE: resize_handler and draw().                                   *)
Resize(h, w) ==
  /\ alive
  /\ height' = h /\ width' = w /\ capacity' = Capacity(h)
  /\ popupHeight' = IF popupActive THEN PopupHeight(h) ELSE popupHeight
  /\ LET views == IF popupActive
                  THEN [view EXCEPT ![popupType] =
                          ScrollViewConfigure(@, dataCount[popupType], PopupHeight(h))]
                  ELSE view
     IN  Draw(views, h, w, Capacity(h), popupActive, popupType, listed)
  /\ UNCHANGED <<window, dataCount, mainActive, popupActive, popupType, isVisible,
                 listed, inspected>>

(* UI_NEW_ENTRY of a device that could be stored.                          *)
NewDevice ==
  /\ alive
  /\ view["devices"].count < MaxDevices
  /\ DrawHere([view EXCEPT !["devices"].count = @ + 1])
  /\ UNCHANGED <<terminal, dataCount, popup, listed, inspected>>

(* wgetch() on a window that newwin() could not make has no key to give.   *)
HasKey == alive /\ window

ArrowMovesTable(direction) ==
  /\ HasKey
  /\ DrawHere([view EXCEPT !["devices"] = ScrollMove(@, direction)])
  /\ UNCHANGED <<terminal, dataCount, popup, listed, inspected>>

(* KEY_UP and KEY_DOWN move the cursor of the window that is active.       *)
Arrow(direction) ==
  /\ HasKey
  /\ DrawHere([view EXCEPT ![IF mainActive THEN "devices" ELSE popupType] =
                 ScrollMove(@, direction)])
  /\ UNCHANGED <<terminal, dataCount, popup, listed, inspected>>

(* popup_window_action when no popup is open: popup_init, data_init with n *)
(* entries, and the view of the popup from its top.                        *)
Open(type, n, list) ==
  /\ isVisible
  /\ isVisible' = FALSE
  /\ mainActive' = FALSE /\ popupActive' = TRUE
  /\ popupType' = type /\ popupHeight' = PopupHeight(height)
  /\ listed' = list
  /\ dataCount' = [dataCount EXCEPT ![type] = n]
  /\ LET views == [view EXCEPT ![type] =
                     [ScrollViewConfigure(@, n, PopupHeight(height))
                        EXCEPT !.head = 0, !.cursor = 0]]
     IN  /\ view' = Drawn(views, height, width, capacity)
         /\ alive' = (type = "INTERFACES_LIST" /\ ListRowDrawn(views) => list)

CloseLeaking(type) ==
  /\ ~isVisible /\ popupType = type
  /\ isVisible' = TRUE
  /\ mainActive' = TRUE /\ popupActive' = FALSE
  /\ popupHeight' = 0
  /\ view' = Drawn(view, height, width, capacity)
  /\ UNCHANGED <<popupType, dataCount, listed, alive>>

(* popup_window_action when the popup of this type is open: closed, and    *)
(* its list freed by following popup_list.                                 *)
Close(type) ==
  /\ ~isVisible /\ popupType = type
  /\ isVisible' = TRUE
  /\ mainActive' = TRUE /\ popupActive' = FALSE
  /\ popupHeight' = 0
  /\ listed' = FALSE
  /\ alive' = (type = "INTERFACES_LIST" => listed)
  /\ view' = Drawn(view, height, width, capacity)
  /\ UNCHANGED <<popupType, dataCount>>

(* ... and when the other one is: nothing happens.                         *)
OtherOpen(type) ==
  /\ ~isVisible /\ popupType # type
  /\ DrawHere(view)
  /\ UNCHANGED <<dataCount, popup, listed>>

(* 'b': prepare_interface_list gets a list, or fails and leaves what was   *)
(* there: no list and the data_count of the one before.                    *)
KeyInterfaces ==
  /\ HasKey
  /\ \/ \E n \in ListLength : Open("INTERFACES_LIST", n, TRUE)
     \/ Open("INTERFACES_LIST", dataCount["INTERFACES_LIST"], FALSE)
     \/ Close("INTERFACES_LIST")
     \/ OtherOpen("INTERFACES_LIST")
  /\ UNCHANGED <<terminal, inspected>>

(* 'i', with a device under the cursor of the table.                       *)
KeyInspect ==
  /\ HasKey
  /\ Selected(view["devices"]) < view["devices"].count
  /\ \/ /\ Open("INSPECT_LIST", InspectFieldCount, listed)
        /\ inspected' = Selected(view["devices"])
     \/ Close("INSPECT_LIST") /\ UNCHANGED inspected
     \/ OtherOpen("INSPECT_LIST") /\ UNCHANGED inspected
  /\ UNCHANGED terminal

(* '\n' on an entry of the list of interfaces: bound, and the popup closed.*)
Enter ==
  /\ HasKey
  /\ popupActive /\ popupType = "INTERFACES_LIST"
  /\ Selected(view[popupType]) < view[popupType].count
  /\ Close("INTERFACES_LIST")
  /\ UNCHANGED <<terminal, inspected>>

(* A NULL pointer was followed: the program is gone.                       *)
Gone == ~alive /\ UNCHANGED vars

Next ==
  \/ \E h \in Height, w \in Width : Resize(h, w)
  \/ NewDevice
  \/ Arrow(1) \/ Arrow(-1)
  \/ KeyInterfaces \/ KeyInspect \/ Enter
  \/ Gone

Spec == Init /\ [][Next]_vars
-----------------------------------------------------------------------------
(* Types of the variables.                                                 *)
TypeOK ==
  /\ height \in Height /\ width \in Width /\ window \in BOOLEAN
  /\ capacity \in Nat
  /\ view \in [List -> View]
  /\ dataCount \in [PopupType -> Nat]
  /\ mainActive \in BOOLEAN /\ popupActive \in BOOLEAN /\ isVisible \in BOOLEAN
  /\ popupType \in PopupType /\ popupHeight \in Int
  /\ listed \in BOOLEAN
  /\ inspected \in Nat \cup {-1}
  /\ alive \in BOOLEAN

(* However the windows were resized and the arrow keys pressed, the item   *)
(* 'i' and Enter read is an item of the list (of an empty table, the first *)
(* slot, which is NULL), the item before the first never is, and the rows  *)
(* left below the head, an unsigned difference, are not negative.  The     *)
(* cursor is at most one row above the window, where KEY_DOWN in a window  *)
(* without rows leaves it.                                                 *)
SelectionExists(v) ==
  /\ v.head <= v.count
  /\ v.cursor >= -1
  /\ Selected(v) >= 0
  /\ v.count > 0 => Selected(v) < v.count
  /\ v.count = 0 => Selected(v) = 0
SelectionInRange == \A l \in List : SelectionExists(view[l])

(* Keys go to one window: the table's or the popup's; the static toggle of *)
(* popup_window_action agrees with it; the list of interfaces is allocated *)
(* only while its popup is open, so none is leaked or freed twice.         *)
OneWindow ==
  /\ popupActive = ~mainActive
  /\ isVisible = mainActive
  /\ listed => popupActive /\ popupType = "INTERFACES_LIST"

(* The inspect popup shows the device under the cursor of the table for as *)
(* long as it is open, and the key that closes it keeps finding a device   *)
(* there, whatever is discovered, resized or scrolled meanwhile.           *)
InspectedIsSelected ==
  popupActive /\ popupType = "INSPECT_LIST" =>
    /\ inspected = Selected(view["devices"])
    /\ inspected < view["devices"].count

(* What draw() prints stays inside the frames, whatever resizes, popups    *)
(* and discoveries came before: every row of the table and of the popup is *)
(* above the last row of its window, every column and line ends before the *)
(* last column, and a blank is left between the columns.                   *)
RowsInFrame(first, rows, h) == rows > 0 => first + rows - 1 < LastRow(h)
TextInFrame ==
  ~TooSmall(height, width) =>
    /\ RowsInFrame(2, OnScreen(view["devices"]), height)
    /\ RowEnd(width) <= LastColumn(width)
    /\ \A c \in Column \ {"last_seen"} : TextLength[c] < FieldWidth(width)[c]
    /\ popupActive =>
         /\ RowsInFrame(1, OnScreen(view[popupType]), popupHeight)
         /\ \A end \in LineEnds[popupType] : end <= LastColumn(PopupWidth(height, width))

(* The inductive invariant behind the three above: an open popup scrolls   *)
(* through as many items as there are.                                     *)
PopupCounted == popupActive => view[popupType].count = dataCount[popupType]
IndInv == TypeOK /\ SelectionInRange /\ OneWindow /\ InspectedIsSelected /\ PopupCounted

(* scroll_move in a window without rows, whose "last row" is row -1, moves *)
(* the head on, past the last item in the end.  In a window that has rows  *)
(* again no item is left to show, and KEY_DOWN changes nothing for ever    *)
(* (scroll_view.c:23-29): the view is lost until KEY_UP.                   *)
Lost(v) == v.head = v.count
Shown(v) == 0 <= v.cursor /\ v.cursor < OnScreen(v)

(* In a window with rows, from every view of a list that is not empty, a   *)
(* history of resizes behind it or not, KEY_UP pressed often enough shows  *)
(* and selects the first item, and KEY_DOWN from there the last one.       *)
(* KEY_DOWN alone reaches the last one too, but not from a lost view,      *)
(* which it leaves as it is, with no item on the screen.                   *)
EveryItemReachable ==
  \A l \in List :
    LET v == view[l]
        top == Scrolled(v, -1, 2 * v.count + 1)
        topToBottom == Scrolled(top, 1, v.count + 1)
        bottom == Scrolled(v, 1, v.count + 1)
    IN  v.count > 0 /\ v.visible > 0 =>
          /\ Shown(top) /\ Selected(top) = 0
          /\ Shown(topToBottom) /\ Selected(topToBottom) = v.count - 1
          /\ IF Lost(v) THEN bottom = v /\ OnScreen(v) = 0
                        ELSE Shown(bottom) /\ Selected(bottom) = v.count - 1

(* One press of an arrow key brings a cursor that a resize left outside    *)
(* the window back into it, and moves one that is inside by one item in    *)
(* the key's direction or not at all; but KEY_DOWN in a lost view stays    *)
(* there.                                                                  *)
ArrowLands(v, direction) ==
  LET w == ScrollMove(v, direction) IN
  v.count > 0 /\ v.visible > 0 =>
    IF Lost(v) /\ direction = 1 THEN w = v /\ ~Shown(v)
    ELSE /\ Shown(w)
         /\ Shown(v) => Selected(w) - Selected(v) \in {0, direction}
ArrowLandsInWindow == \A l \in List, direction \in {-1, 1} : ArrowLands(view[l], direction)
=============================================================================
