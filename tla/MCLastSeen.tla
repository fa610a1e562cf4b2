----------------------------- MODULE MCLastSeen -----------------------------
(* Instance of LastSeen: the second of three devices lies below the first, *)
(* and the hour, the minutes and the seconds change at once.               *)
EXTENDS LastSeen

CONSTANTS a, b, c

MCItems == <<a, b, c>>
MCAddress == (a :> 2) @@ (b :> 1) @@ (c :> 3)
MCTimes == <<[hour |-> 9, minutes |-> 59, seconds |-> 59],
             [hour |-> 10, minutes |-> 0, seconds |-> 0]>>
=============================================================================
