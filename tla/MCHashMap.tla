----------------------------- MODULE MCHashMap ------------------------------
(* Four addresses.  In a table of 2 slots all hash to the last one, in one *)
(* of 4 too (their chain runs over the end of the table), in one of 8      *)
(* three of them still do.  The initial size doubles twice.                *)
EXTENDS HashMap

MCMac == 1 .. 4
MCHashMac == <<7, 7, 3, 15>>
MCDevice == {"d1", "d2", "d3", "d4"}
=============================================================================
