----------------------------- MODULE DeviceTable ----------------------------
(***************************************************************************)
(* What the user is promised about the device table: every device the      *)
(* network thread discovers is taken in, once and in the order of          *)
(* discovery; the one reason for a discovered device not to be in the      *)
(* table is memory that ran out; nothing is discovered and nothing enters  *)
(* the table once it has been torn down.                                   *)
(***************************************************************************)
EXTENDS Naturals, Sequences

CONSTANT Device

VARIABLES
  discovered,   \* every device discovered so far, in order
  taken,        \* how many of them the table has taken notice of
  table,        \* the devices in the table, from the top
  open          \* the table has not been torn down

vars == <<discovered, taken, table, open>>

Init ==
  /\ discovered = <<>>
  /\ taken = 0
  /\ table = <<>>
  /\ open = TRUE

Discover(d) ==
  /\ open
  /\ \A k \in DOMAIN discovered : discovered[k] # d
  /\ discovered' = Append(discovered, d)
  /\ UNCHANGED <<taken, table, open>>

Take ==
  /\ open
  /\ taken < Len(discovered)
  /\ taken' = taken + 1
  /\ table' = Append(table, discovered[taken + 1])
  /\ UNCHANGED <<discovered, open>>

(* No memory for one more row.                                             *)
Drop ==
  /\ open
  /\ taken < Len(discovered)
  /\ taken' = taken + 1
  /\ UNCHANGED <<discovered, table, open>>

TearDown ==
  /\ open
  /\ open' = FALSE
  /\ table' = <<>>
  /\ UNCHANGED <<discovered, taken>>

Next == (\E d \in Device : Discover(d)) \/ Take \/ Drop \/ TearDown

Spec == Init /\ [][Next]_vars
=============================================================================
