------------------------------- MODULE MCTui --------------------------------
(* Heights of the table's window: impossible, a frame with nothing in it,  *)
(* too small to draw, two rows for devices, and room for all of them.  The *)
(* popup then has room for every entry, none, one, three and two.          *)
EXTENDS Tui

MCHeight == {-1, 2, 3, 5, 14}
=============================================================================
