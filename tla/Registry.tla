------------------------------ MODULE Registry ------------------------------
(***************************************************************************)
(* What core/hash_map.c promises its only client, the network thread: a    *)
(* finite set of devices, at most one per MAC address, that only grows,    *)
(* and a search that answers with the device stored under the address it   *)
(* was asked for, or with NULL when there is none.                         *)
(***************************************************************************)
CONSTANTS Mac, Device, NULL

VARIABLES
  devices,   \* the entries [mac, device] registered so far
  reply      \* the last answer of a search: [mac, device], device = NULL if unknown

vars == <<devices, reply>>

Registered(m) == \E e \in devices : e.mac = m

Init ==
  /\ devices = {}
  /\ reply = [mac |-> NULL, device |-> NULL]

(* A search that finds the device of m ...                                 *)
FindKnown(m) ==
  /\ \E e \in devices : e.mac = m /\ reply' = [mac |-> m, device |-> e.device]
  /\ UNCHANGED devices

(* ... and one that does not: only when m really is unknown.               *)
FindUnknown(m) ==
  /\ ~Registered(m)
  /\ reply' = [mac |-> m, device |-> NULL]
  /\ UNCHANGED devices

(* Registering the device of an address nobody registered yet.             *)
Insert(m, d) ==
  /\ ~Registered(m)
  /\ devices' = devices \cup {[mac |-> m, device |-> d]}
  /\ UNCHANGED reply

Next ==
  \E m \in Mac :
    \/ FindKnown(m)
    \/ FindUnknown(m)
    \/ \E d \in Device : Insert(m, d)

Spec == Init /\ [][Next]_vars
=============================================================================
