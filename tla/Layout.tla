------------------------------- MODULE Layout -------------------------------
(***************************************************************************)
(* Where the texts of the screen begin and end: the frame and the columns  *)
(* of the table (ui/tui.c, ui/tui_app.c) and the lines of the popups       *)
(* (ui/popup_interfaces.c, ui/popup_inspect.c), in the coordinates of the  *)
(* window, each text at the longest it can be.                             *)
(***************************************************************************)
EXTENDS Integers

MIN_WIDTH == 76
MIN_HEIGHT == 4
RATE_HISTORY_SIZE == 60
TabSize == 8

(* draw_window_frame: the frame takes the first row and column and these.  *)
LastRow(h) == h - 1
LastColumn(w) == w - 1

ColWidthToTheEdge(w) == w \div 4

(* table_layout_compute.  C divides towards zero, which is the same for    *)
(* the widths in which draw() uses the result.                             *)
ColWidth(w) == (w - 4) \div 4
ColRemainder(w) == (w - 4) % 4

Column == {"mac", "ip", "qinq", "dot1q", "last_seen"}

(* The longest of the header and what print_mac, print_ip, print_qinq,     *)
(* print_dot1q and print_lastseen make of a device.                        *)
TextLength == [mac |-> 17, ip |-> 15, qinq |-> 7, dot1q |-> 6, last_seen |-> 9]

FieldWidth(w) ==
  [mac |-> ColWidth(w), ip |-> ColWidth(w), qinq |-> ColWidth(w),
   dot1q |-> ColWidth(w) \div 2, last_seen |-> ColWidth(w) \div 2 + ColRemainder(w)]

(* "%-*s" pads a text to the width of its field and never cuts it.         *)
Printed(field, text) == IF text < field THEN field ELSE text

(* The column behind a row of the table, which begins at column 2.         *)
RowEnd(w) ==
  LET end(c) == Printed(FieldWidth(w)[c], TextLength[c])
  IN  2 + end("mac") + end("ip") + end("qinq") + end("dot1q") + end("last_seen")

(* A tab goes on to the next multiple of eight columns.                    *)
AfterTab(column) == (column \div TabSize + 1) * TabSize

(* The column behind each line of the two popups: the mark and the name of *)
(* an interface; the address, a tag with its two tabs, the two numbers and *)
(* the graph.                                                              *)
LineEnds ==
  [INTERFACES_LIST |-> {2 + 6 + 15},
   INSPECT_LIST |-> {2 + 19, AfterTab(AfterTab(2 + 20) + 6) + 6, 2 + 14 + 11, 2 + 14 + 12,
                     2 + RATE_HISTORY_SIZE}]
=============================================================================
