----------------------------- MODULE ScrollView -----------------------------
(***************************************************************************)
(* ui/scroll_view.c: a window of some rows on a list, with a cursor in it. *)
(* Pure operators on the fields the two functions read and write; module   *)
(* Tui has the three views of the program.                                 *)
(***************************************************************************)
EXTENDS Integers

View == [count : Nat,     \* items in the list
         head : Nat,      \* the item in the first row
         visible : Nat,   \* rows of the window
         cursor : Int]    \* the selected row

EmptyView == [count |-> 0, head |-> 0, visible |-> 0, cursor |-> 0]

(* The item Enter and 'i' act on.                                          *)
Selected(v) == v.head + v.cursor

(* records_on_screen: the rows that have an item.                          *)
OnScreen(v) == IF v.count - v.head > v.visible THEN v.visible ELSE v.count - v.head

(* scroll_move with the cursor above the window, below it, and in it.      *)
ScrollAboveLosingCursor(v) == [v EXCEPT !.head = IF @ > 0 THEN @ - 1 ELSE 0]
ScrollAboveToTop(v) == [v EXCEPT !.head = 0, !.cursor = 0]
ScrollAbove(v) == [v EXCEPT !.head = IF @ > 0 THEN @ - 1 ELSE 0, !.cursor = 0]

ScrollBelowStaying(v) == [v EXCEPT !.cursor = OnScreen(v) - 1]
ScrollBelow(v) ==
  [v EXCEPT !.head = IF @ + OnScreen(v) < v.count THEN @ + 1 ELSE @,
            !.cursor = OnScreen(v) - 1]

ScrollMove(v, direction) ==
  LET position == v.cursor + direction IN
  CASE v.count = 0 -> v
    [] v.count # 0 /\ position < 0 -> ScrollAbove(v)
    [] v.count # 0 /\ position >= 0 /\ position >= OnScreen(v) -> ScrollBelow(v)
    [] OTHER -> [v EXCEPT !.cursor = position]

(* scroll_view_configure: visible is unsigned, so that a window of less    *)
(* than its two frame lines has room for every item.                       *)
ScrollViewConfigure(v, count, height) ==
  [v EXCEPT !.count = count,
            !.visible = IF 0 <= height - 2 /\ height - 2 <= count THEN height - 2 ELSE count]

(* n presses of the same arrow key.                                        *)
Scrolled(v, direction, n) ==
  LET after[k \in 0 .. n] ==
        IF k = 0 THEN v ELSE ScrollMove(after[k - 1], direction)
  IN  after[n]
=============================================================================
