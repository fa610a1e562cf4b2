------------------------------- MODULE HashMap ------------------------------
(***************************************************************************)
(* core/hash_map.c: the open-addressing table in which the network thread  *)
(* keeps one device per MAC address.  Linear probing, growth by doubling   *)
(* when the next entry would exceed a load of 0.8, entries never removed.  *)
(*                                                                         *)
(* One action is one turn of a loop of the C code, or the straight-line    *)
(* code between two loops, so that termination of the loops is something   *)
(* to check and not something the model assumes.  The map has one owner,   *)
(* the network thread: no other thread's action interleaves.               *)
(*                                                                         *)
(* Abstracted: the bits of an address and the arithmetic of hash_mac       *)
(* (HashMac is any function), the other fields of a device (last_seen and  *)
(* the counters do not influence the table).                               *)
(***************************************************************************)
EXTENDS Integers, FiniteSets

CONSTANTS
  Mac,          \* hardware addresses
  Device,       \* addresses malloc() may return for a device
  NULL,
  HashMac,      \* hash_mac: the 32-bit hash of every address
  InitialSize   \* BUFFER_INITIAL_SIZE

ASSUME HashMapAssumption ==
  /\ NULL \notin Device
  /\ HashMac \in [Mac -> Nat]
  /\ InitialSize \in Nat \ {0}

VARIABLES
  table,   \* map->table: the slots 0 .. size - 1
  size,    \* map->size
  count,   \* map->count
  tmp,     \* hashmap_realloc's new table, slots 0 .. 2 * size - 1
  i,       \* hashmap_realloc's loop counter
  index,   \* index in hashmap_check_entry or store_entry
  start,   \* start_index in hashmap_check_entry
  op,      \* the function called: "find" (hashmap_check_entry) or "upsert"
  arg,     \* its argument; device = NULL for "find"
  pc,      \* where the network thread is in it
  reply    \* the last answer of hashmap_check_entry, with the address asked for

vars == <<table, size, count, tmp, i, index, start, op, arg, pc, reply>>

(* A slot of a calloc'ed table is empty: its device is NULL.               *)
EmptySlot == [mac |-> NULL, device |-> NULL]
EmptyTable(n) == [k \in 0 .. n-1 |-> EmptySlot]
Entry == [mac : Mac, device : Device]
Slot == Entry \cup {EmptySlot}

NewSize == 2 * size

Home(m, n) == HashMac[m] % n

(* index = (index + 1) % map_size.  NextIndexUnwrapped is the first of the *)
(* faulty variants of this module: each is named after a definition of the *)
(* code and a fault in it, and is there for the properties to refute.      *)
NextIndexUnwrapped(k, n) == k + 1
NextIndex(k, n) == (k + 1) % n

(* (count + 1) > size * 0.8, in integers                                   *)
NeedsGrowLate == count > size
NeedsGrowOffByOne == 10 * count > 8 * size
NeedsGrow == 10 * (count + 1) > 8 * size

Contents(t, n) == {t[k] : k \in {j \in 0 .. n-1 : t[j].device # NULL}}
-----------------------------------------------------------------------------
Init ==
  /\ size = InitialSize
  /\ count = 0
  /\ table = EmptyTable(InitialSize)
  /\ tmp = EmptyTable(2 * InitialSize)
  /\ i = 0
  /\ index = 0
  /\ start = 0
  /\ op = "find"
  /\ arg = EmptySlot
  /\ pc = "idle"
  /\ reply = EmptySlot

(* Entering hashmap_check_entry, called for itself (to count a frame, or   *)
(* to find the device to refresh) or as the first act of                   *)
(* device_registry_upsert.                                                 *)
EnterCheck(o, m, d) ==
  /\ pc = "idle"
  /\ op' = o
  /\ arg' = [mac |-> m, device |-> d]
  /\ index' = Home(m, size)
  /\ start' = Home(m, size)
  /\ pc' = "check"
  /\ UNCHANGED <<table, size, count, tmp, i, reply>>

CallCheckEntry(m) == EnterCheck("find", m, NULL)

(* The incoming device was just malloc'ed: no stored device is there.      *)
CallUpsert(m, d) ==
  /\ \A e \in Contents(table, size) : e.device # d
  /\ EnterCheck("upsert", m, d)

(* hashmap_check_entry returns NULL: device_registry_upsert goes on to     *)
(* hashmap_store_entry, a plain search is over.                            *)
AfterMiss == IF op = "upsert" THEN "store" ELSE "idle"

CheckMiss ==
  /\ pc = "check"
  /\ table[index].device = NULL
  /\ reply' = [mac |-> arg.mac, device |-> NULL]
  /\ pc' = AfterMiss
  /\ UNCHANGED <<table, size, count, tmp, i, index, start, op, arg>>

CheckHit ==
  /\ pc = "check"
  /\ table[index].device # NULL
  /\ table[index].mac = arg.mac
  /\ reply' = table[index]
  /\ pc' = "idle"
  /\ UNCHANGED <<table, size, count, tmp, i, index, start, op, arg>>

CheckAdvanceGivingUp ==
  /\ pc = "check"
  /\ table[index].device # NULL
  /\ table[index].mac # arg.mac
  /\ index' = NextIndex(index, size)
  /\ reply' = [mac |-> arg.mac, device |-> NULL]
  /\ pc' = AfterMiss
  /\ UNCHANGED <<table, size, count, tmp, i, start, op, arg>>

(* The next slot of the probe sequence, unless it is the first one again.  *)
CheckAdvance ==
  /\ pc = "check"
  /\ table[index].device # NULL
  /\ table[index].mac # arg.mac
  /\ index' = NextIndex(index, size)
  /\ IF index' = start
     THEN /\ reply' = [mac |-> arg.mac, device |-> NULL]
          /\ pc' = AfterMiss
     ELSE UNCHANGED <<reply, pc>>
  /\ UNCHANGED <<table, size, count, tmp, i, start, op, arg>>
-----------------------------------------------------------------------------
(* hashmap_store_entry up to its first loop.                               *)
StoreFits ==
  /\ pc = "store"
  /\ ~NeedsGrow
  /\ index' = Home(arg.mac, size)
  /\ pc' = "place"
  /\ UNCHANGED <<table, size, count, tmp, i, start, op, arg, reply>>

StoreGrows ==
  /\ pc = "store"
  /\ NeedsGrow
  /\ tmp' = EmptyTable(NewSize)
  /\ i' = 0
  /\ pc' = "rehash"
  /\ UNCHANGED <<table, size, count, index, start, op, arg, reply>>

(* calloc() returned NULL: -1 travels up to device_registry_upsert, whose  *)
(* network_error() ends the thread with the table as it was.               *)
StoreFails ==
  /\ pc = "store"
  /\ NeedsGrow
  /\ pc' = "exited"
  /\ UNCHANGED <<table, size, count, tmp, i, index, start, op, arg, reply>>

(* hashmap_realloc's loop over the old table.                              *)
RehashSkip ==
  /\ pc = "rehash"
  /\ i < size
  /\ table[i].device = NULL
  /\ i' = i + 1
  /\ UNCHANGED <<table, size, count, tmp, index, start, op, arg, pc, reply>>

RehashEnterStoreOldHome ==
  /\ pc = "rehash"
  /\ i < size
  /\ table[i].device # NULL
  /\ index' = Home(table[i].mac, size)
  /\ pc' = "move"
  /\ UNCHANGED <<table, size, count, tmp, i, start, op, arg, reply>>

RehashEnterStore ==
  /\ pc = "rehash"
  /\ i < size
  /\ table[i].device # NULL
  /\ index' = Home(table[i].mac, NewSize)
  /\ pc' = "move"
  /\ UNCHANGED <<table, size, count, tmp, i, start, op, arg, reply>>

(* store_entry on the new table, for the old entry i.                      *)
MoveProbe ==
  /\ pc = "move"
  /\ tmp[index].device # NULL
  /\ index' = NextIndex(index, NewSize)
  /\ UNCHANGED <<table, size, count, tmp, i, start, op, arg, pc, reply>>

MoveWrite ==
  /\ pc = "move"
  /\ tmp[index].device = NULL
  /\ tmp' = [tmp EXCEPT ![index] = table[i]]
  /\ i' = i + 1
  /\ pc' = "rehash"
  /\ UNCHANGED <<table, size, count, index, start, op, arg, reply>>

RehashDone ==
  /\ pc = "rehash"
  /\ i = size
  /\ table' = tmp
  /\ size' = NewSize
  /\ tmp' = EmptyTable(2 * NewSize)
  /\ index' = Home(arg.mac, NewSize)
  /\ pc' = "place"
  /\ UNCHANGED <<count, i, start, op, arg, reply>>

(* store_entry on the table itself, for the incoming device.               *)
PlaceProbe ==
  /\ pc = "place"
  /\ table[index].device # NULL
  /\ index' = NextIndex(index, size)
  /\ UNCHANGED <<table, size, count, tmp, i, start, op, arg, pc, reply>>

PlaceWrite ==
  /\ pc = "place"
  /\ table[index].device = NULL
  /\ table' = [table EXCEPT ![index] = arg]
  /\ count' = count + 1
  /\ pc' = "idle"
  /\ UNCHANGED <<size, tmp, i, index, start, op, arg, reply>>

(* The steps the thread takes by itself once it has called an operation.   *)
Step ==
  \/ CheckMiss \/ CheckHit \/ CheckAdvance
  \/ StoreFits \/ StoreGrows \/ StoreFails
  \/ RehashSkip \/ RehashEnterStore \/ RehashDone
  \/ MoveProbe \/ MoveWrite
  \/ PlaceProbe \/ PlaceWrite

Call == \E m \in Mac : CallCheckEntry(m) \/ \E d \in Device : CallUpsert(m, d)

(* pthread_exit() left nothing to do.                                      *)
Exited == pc = "exited" /\ UNCHANGED vars

Next == Call \/ Step \/ Exited

(* The thread keeps running inside an operation; nothing obliges a frame   *)
(* to arrive.                                                              *)
Spec == Init /\ [][Next]_vars /\ WF_vars(Step)
-----------------------------------------------------------------------------
(* Types of the variables; every index is inside the table it indexes.     *)
TypeOK ==
  /\ size \in Nat \ {0}
  /\ count \in Nat
  /\ table \in [0 .. size-1 -> Slot]
  /\ tmp \in [0 .. NewSize-1 -> Slot]
  /\ i \in 0 .. size
  /\ index \in 0 .. NewSize-1
  /\ pc \in {"check", "place"} => index \in 0 .. size-1
  /\ pc = "move" => i < size /\ table[i].device # NULL
  /\ start \in 0 .. size-1
  /\ op \in {"find", "upsert"}
  /\ arg \in [mac : Mac \cup {NULL}, device : Device \cup {NULL}]
  /\ pc # "idle" => arg.mac \in Mac
  /\ op = "upsert" /\ pc # "idle" => arg.device \in Device
  /\ pc \in {"store", "rehash", "move", "place"} => op = "upsert"
  /\ pc \in {"idle", "check", "store", "rehash", "move", "place", "exited"}
  /\ reply \in [mac : Mac \cup {NULL}, device : Device \cup {NULL}]

(* The slots a probe from a visits before it reaches b, in a table of n.   *)
Arc(a, b, n) == IF a <= b THEN a .. b-1 ELSE (a .. n-1) \cup (0 .. b-1)

(* No hole separates an entry from its home slot: what makes it right for  *)
(* hashmap_check_entry to stop at the first empty slot.                    *)
Chained(t, n) ==
  \A k \in 0 .. n-1 : t[k].device # NULL =>
    \A j \in Arc(Home(t[k].mac, n), k, n) : t[j].device # NULL

(* An address is in one slot at most: hashmap_check_entry's answer does    *)
(* not depend on which slot it meets first.                                *)
Distinct(t, n) ==
  \A j, k \in 0 .. n-1 :
    t[j].device # NULL /\ t[k].device # NULL /\ t[j].mac = t[k].mac => j = k

(* The table, and the table a growth is filling, keep both after every     *)
(* insertion and through every rehash.                                     *)
ProbeInvariant ==
  /\ Chained(table, size) /\ Distinct(table, size)
  /\ pc \in {"rehash", "move"} => Chained(tmp, NewSize) /\ Distinct(tmp, NewSize)

(* map->count, on which the decision to grow rests, is the number of       *)
(* occupied slots, and at most 0.8 of the slots are occupied: a probe      *)
(* always has an empty slot to stop at.                                    *)
Occupied(t, n) == {k \in 0 .. n-1 : t[k].device # NULL}
LoadFactor ==
  /\ count = Cardinality(Occupied(table, size))
  /\ 10 * count <= 8 * size

(* The inductive invariant behind the two above and the refinement below:  *)
(* what each loop of the code has established so far.                      *)
Searched == pc = "check" =>
  /\ start = Home(arg.mac, size)
  /\ \A j \in Arc(start, index, size) :
       table[j].device # NULL /\ table[j].mac # arg.mac

NotStoredYet == pc \in {"store", "rehash", "move", "place"} =>
  \A k \in 0 .. size-1 : table[k].device # NULL => table[k].mac # arg.mac

Copied == pc \in {"rehash", "move"} =>
  /\ \A k \in 0 .. i-1 : table[k].device # NULL =>
       \E j \in 0 .. NewSize-1 : tmp[j] = table[k]
  /\ \A j \in 0 .. NewSize-1 : tmp[j].device # NULL =>
       \E k \in 0 .. i-1 : tmp[j] = table[k]

Probed ==
  /\ pc = "move" =>
       \A j \in Arc(Home(table[i].mac, NewSize), index, NewSize) : tmp[j].device # NULL
  /\ pc = "place" =>
       \A j \in Arc(Home(arg.mac, size), index, size) : table[j].device # NULL

IndInv == TypeOK /\ ProbeInvariant /\ Searched /\ NotStoredYet /\ Copied /\ Probed

(* The inductive invariant behind LoadFactor: how many entries a growth    *)
(* has copied, and that hashmap_store_entry only places what fits.         *)
LoadInv ==
  /\ LoadFactor
  /\ pc \in {"rehash", "move"} =>
       Cardinality(Occupied(tmp, NewSize)) = Cardinality(Occupied(table, i))
  /\ pc = "place" => ~NeedsGrow

(* Every call of the map returns or, when memory runs out, ends the        *)
(* thread: neither probing loop goes round the table for ever.             *)
Returns == pc # "idle" ~> pc \in {"idle", "exited"}

(* The map implements the registry: growing never loses, duplicates or     *)
(* re-keys a device, and every search gives the registry's answer.         *)
R == INSTANCE Registry WITH devices <- Contents(table, size)
RefinesRegistry == R!Spec
=============================================================================
