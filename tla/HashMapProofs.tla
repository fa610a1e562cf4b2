---------------------------- MODULE HashMapProofs ---------------------------
(***************************************************************************)
(* Proofs about HashMap, for any set of addresses, any hash function and   *)
(* any initial size: the types, the probe invariant, the load factor, and  *)
(* that the table implements the registry.                                 *)
(***************************************************************************)
EXTENDS HashMap, FiniteSetTheorems, WellFoundedInduction, TLAPS

(* The home slot of an address is a slot of the table.                     *)
LEMMA HomeType ==
  ASSUME NEW m \in Mac, NEW n \in Nat \ {0}
  PROVE  Home(m, n) \in 0 .. n-1
<1>1. HashMac[m] \in Nat
  BY HashMapAssumption
<1>2. QED
  BY <1>1 DEF Home

(* index = (index + 1) % size without the remainder.                       *)
LEMMA NextIndexType ==
  ASSUME NEW n \in Nat \ {0}, NEW k \in 0 .. n-1
  PROVE  /\ NextIndex(k, n) = IF k + 1 = n THEN 0 ELSE k + 1
         /\ NextIndex(k, n) \in 0 .. n-1
BY DEF NextIndex

(* A probe visits slots of the table only.                                 *)
LEMMA ArcType ==
  ASSUME NEW n \in Nat \ {0}, NEW a \in 0 .. n-1, NEW b \in 0 .. n-1
  PROVE  Arc(a, b, n) \subseteq 0 .. n-1
BY DEF Arc

(* One more turn of a probing loop adds the slot just seen, ...            *)
LEMMA ArcNext ==
  ASSUME NEW n \in Nat \ {0}, NEW a \in 0 .. n-1, NEW b \in 0 .. n-1
  PROVE  Arc(a, NextIndex(b, n), n) \subseteq Arc(a, b, n) \cup {b}
BY NextIndexType DEF Arc

(* ... and the turn that comes back to the start has seen every slot.      *)
LEMMA ArcWrap ==
  ASSUME NEW n \in Nat \ {0}, NEW a \in 0 .. n-1, NEW b \in 0 .. n-1,
         NextIndex(b, n) = a
  PROVE  Arc(a, b, n) \cup {b} = 0 .. n-1
BY NextIndexType DEF Arc

(* Two slots that are not the same are in one of the two arcs.             *)
LEMMA ArcSplit ==
  ASSUME NEW n \in Nat \ {0}, NEW a \in 0 .. n-1, NEW b \in 0 .. n-1, NEW c \in 0 .. n-1,
         b \notin Arc(a, c, n)
  PROVE  c = b \/ c \in Arc(a, b, n)
BY DEF Arc

(* The empty table has no entry, hence no entry out of place.              *)
LEMMA EmptyTableOK ==
  ASSUME NEW n \in Nat \ {0}
  PROVE  /\ EmptyTable(n) \in [0 .. n-1 -> Slot]
         /\ \A k \in 0 .. n-1 : EmptyTable(n)[k].device = NULL
         /\ Chained(EmptyTable(n), n)
         /\ Distinct(EmptyTable(n), n)
BY DEF EmptyTable, EmptySlot, Slot, Chained, Distinct

(* store_entry's write, at the first empty slot from the home of an entry  *)
(* whose address the table does not hold, keeps both structural facts.     *)
LEMMA StoreEntryOK ==
  ASSUME NEW n \in Nat \ {0}, NEW t \in [0 .. n-1 -> Slot],
         NEW e \in Entry, NEW k \in 0 .. n-1,
         Chained(t, n), Distinct(t, n),
         t[k].device = NULL,
         \A j \in Arc(Home(e.mac, n), k, n) : t[j].device # NULL,
         \A j \in 0 .. n-1 : t[j].device # NULL => t[j].mac # e.mac
  PROVE  /\ [t EXCEPT ![k] = e] \in [0 .. n-1 -> Slot]
         /\ Chained([t EXCEPT ![k] = e], n)
         /\ Distinct([t EXCEPT ![k] = e], n)
<1> DEFINE u == [t EXCEPT ![k] = e]
<1>1. /\ u \in [0 .. n-1 -> Slot]
      /\ u[k] = e
      /\ \A j \in 0 .. n-1 : j # k => u[j] = t[j]
  BY DEF Slot
<1>2. e.device # NULL /\ e.mac \in Mac
  BY HashMapAssumption DEF Entry
<1>3. \A j \in 0 .. n-1 : t[j].device # NULL => t[j].mac \in Mac
  BY DEF Slot, EmptySlot, Entry
<1>4. Chained(u, n)
  <2> SUFFICES ASSUME NEW q \in 0 .. n-1, u[q].device # NULL,
                      NEW j \in Arc(Home(u[q].mac, n), q, n)
               PROVE  u[j].device # NULL
    BY DEF Chained
  <2>1. Home(u[q].mac, n) \in 0 .. n-1
    BY <1>1, <1>2, <1>3, HomeType
  <2>2. j \in 0 .. n-1
    BY <2>1, ArcType
  <2>3. CASE q = k
    BY <2>2, <2>3, <1>1, <1>2
  <2>4. CASE q # k
    BY <2>2, <2>4, <1>1, <1>2 DEF Chained
  <2>5. QED
    BY <2>3, <2>4
<1>5. Distinct(u, n)
  BY <1>1 DEF Distinct
<1>6. QED
  BY <1>1, <1>4, <1>5
-----------------------------------------------------------------------------
(* Type correctness.  The only facts about the loops it needs: where the   *)
(* indices start (HomeType) and that NextIndex stays in the table.         *)
LEMMA TypeOKInit == Init => TypeOK
<1> SUFFICES ASSUME Init
             PROVE  TypeOK
  OBVIOUS
<1>1. size \in Nat \ {0} /\ 2 * InitialSize \in Nat \ {0} /\ NewSize = 2 * InitialSize
  BY HashMapAssumption DEF Init, NewSize
<1>2. table \in [0 .. size-1 -> Slot] /\ tmp \in [0 .. NewSize-1 -> Slot]
  BY <1>1, EmptyTableOK DEF Init
<1>3. QED
  BY <1>1, <1>2 DEF Init, TypeOK, EmptySlot

LEMMA TypeOKNext == TypeOK /\ [Next]_vars => TypeOK'
<1> SUFFICES ASSUME TypeOK, [Next]_vars
             PROVE  TypeOK'
  OBVIOUS
<1> USE DEF TypeOK
<1>a. NewSize \in Nat \ {0} /\ NewSize = 2 * size
  BY DEF NewSize
<1>1. ASSUME NEW o \in {"find", "upsert"}, NEW m \in Mac, NEW d \in Device \cup {NULL},
             o = "upsert" => d \in Device, EnterCheck(o, m, d)
      PROVE  TypeOK'
  <2>1. Home(m, size) \in 0 .. size-1
    BY HomeType
  <2>2. QED
    BY <1>1, <2>1, <1>a DEF EnterCheck, NewSize
<1>2. ASSUME NEW m \in Mac, CallCheckEntry(m)
      PROVE  TypeOK'
  BY <1>1, <1>2 DEF CallCheckEntry
<1>3. ASSUME NEW m \in Mac, NEW d \in Device, CallUpsert(m, d)
      PROVE  TypeOK'
  BY <1>1, <1>3 DEF CallUpsert
<1>4. CASE CheckMiss
  BY <1>4 DEF CheckMiss, AfterMiss, NewSize
<1>5. CASE CheckHit
  <2>1. table[index] \in Entry
    BY <1>5 DEF CheckHit, Slot, EmptySlot
  <2>2. QED
    BY <1>5, <2>1 DEF CheckHit, NewSize, Entry
<1>6. CASE CheckAdvance
  <2>1. NextIndex(index, size) \in 0 .. size-1
    BY <1>6, NextIndexType DEF CheckAdvance
  <2>2. QED
    BY <1>6, <2>1, <1>a DEF CheckAdvance, AfterMiss, NewSize
<1>7. CASE StoreFits
  <2>1. Home(arg.mac, size) \in 0 .. size-1
    BY <1>7, HomeType DEF StoreFits
  <2>2. QED
    BY <1>7, <2>1, <1>a DEF StoreFits, NewSize
<1>8. CASE StoreGrows
  <2>1. EmptyTable(NewSize) \in [0 .. NewSize-1 -> Slot]
    BY <1>a, EmptyTableOK
  <2>2. QED
    BY <1>8, <2>1 DEF StoreGrows, NewSize
<1>9. CASE StoreFails
  BY <1>9 DEF StoreFails, NewSize
<1>10. CASE RehashSkip
  BY <1>10 DEF RehashSkip, NewSize
<1>11. CASE RehashEnterStore
  <2>1. table[i].mac \in Mac
    BY <1>11 DEF RehashEnterStore, Slot, EmptySlot, Entry
  <2>2. Home(table[i].mac, NewSize) \in 0 .. NewSize-1
    BY <2>1, <1>a, HomeType
  <2>3. QED
    BY <1>11, <2>2 DEF RehashEnterStore, NewSize
<1>12. CASE RehashDone
  <2>1. Home(arg.mac, NewSize) \in 0 .. NewSize-1
    BY <1>12, <1>a, HomeType DEF RehashDone
  <2>2. EmptyTable(2 * NewSize) \in [0 .. 2 * NewSize - 1 -> Slot]
    BY <1>a, EmptyTableOK
  <2>3. QED
    BY <1>12, <2>1, <2>2, <1>a DEF RehashDone, NewSize
<1>13. CASE MoveProbe
  <2>1. NextIndex(index, NewSize) \in 0 .. NewSize-1
    BY <1>a, NextIndexType
  <2>2. QED
    BY <1>13, <2>1 DEF MoveProbe, NewSize
<1>14. CASE MoveWrite
  BY <1>14 DEF MoveWrite, NewSize
<1>15. CASE PlaceProbe
  <2>1. NextIndex(index, size) \in 0 .. size-1
    BY <1>15, NextIndexType DEF PlaceProbe
  <2>2. QED
    BY <1>15, <2>1, <1>a DEF PlaceProbe, NewSize
<1>16. CASE PlaceWrite
  <2>1. arg \in Slot
    BY <1>16 DEF PlaceWrite, Slot, Entry
  <2>2. QED
    BY <1>16, <2>1 DEF PlaceWrite, NewSize
<1>17. CASE UNCHANGED vars
  BY <1>17 DEF vars, NewSize
<1>18. QED
  BY <1>2, <1>3, <1>4, <1>5, <1>6, <1>7, <1>8, <1>9, <1>10, <1>11, <1>12, <1>13,
     <1>14, <1>15, <1>16, <1>17 DEF Next, Call, Step, Exited

(* Every variable keeps its type, and no index leaves its table, in every  *)
(* behaviour of the map.                                                   *)
THEOREM TypeCorrect == Spec => []TypeOK
BY TypeOKInit, TypeOKNext, PTL DEF Spec
-----------------------------------------------------------------------------
(* The probe invariant.  IndInv adds to it what the loops have established *)
(* at each of their turns; without Searched nothing would say, when        *)
(* hashmap_store_entry is reached, that the address is not in the table,   *)
(* and without Copied nothing would say it of the table growth leaves.     *)
LEMMA IndInvInit == Init => IndInv
<1> SUFFICES ASSUME Init
             PROVE  IndInv
  OBVIOUS
<1>1. TypeOK
  BY TypeOKInit
<1>2. Chained(table, size) /\ Distinct(table, size)
  BY HashMapAssumption, EmptyTableOK DEF Init
<1>3. QED
  BY <1>1, <1>2 DEF Init, IndInv, ProbeInvariant, Searched, NotStoredYet, Copied, Probed

LEMMA IndInvNext == IndInv /\ [Next]_vars => IndInv'
<1> SUFFICES ASSUME IndInv, [Next]_vars
             PROVE  IndInv'
  OBVIOUS
<1> USE DEF IndInv
<1>t. TypeOK'
  BY TypeOKNext
<1>a. NewSize \in Nat \ {0} /\ NewSize = 2 * size /\ size \in Nat \ {0}
  BY DEF TypeOK, NewSize
<1> DEFINE Rest == ProbeInvariant /\ Searched /\ NotStoredYet /\ Copied /\ Probed
<1> SUFFICES Rest'
  BY <1>t
<1>1. ASSUME NEW o, NEW m \in Mac, NEW d, EnterCheck(o, m, d)
      PROVE  Rest'
  <2>1. Arc(start', index', size) = {}
    BY <1>1, <1>a, HomeType DEF EnterCheck, Arc
  <2>2. QED
    BY <1>1, <2>1 DEF EnterCheck, ProbeInvariant, Searched, NotStoredYet, Copied, Probed
<1>2. ASSUME NEW m \in Mac, CallCheckEntry(m)
      PROVE  Rest'
  BY <1>1, <1>2 DEF CallCheckEntry
<1>3. ASSUME NEW m \in Mac, NEW d \in Device, CallUpsert(m, d)
      PROVE  Rest'
  BY <1>1, <1>3 DEF CallUpsert
<1>4. CASE CheckMiss
  \* An entry for the address would have its home at start, and the hole at
  \* index would be on its way there.
  <2>1. \A k \in 0 .. size-1 : table[k].device # NULL => table[k].mac # arg.mac
    <3> SUFFICES ASSUME NEW k \in 0 .. size-1, table[k].device # NULL,
                        table[k].mac = arg.mac
                 PROVE  FALSE
      OBVIOUS
    <3>1. index \in 0 .. size-1 /\ start \in 0 .. size-1 /\ start = Home(arg.mac, size)
      BY <1>4 DEF CheckMiss, TypeOK, Searched
    <3>2. index \notin Arc(start, k, size)
      BY <1>4, <3>1 DEF CheckMiss, ProbeInvariant, Chained
    <3>3. k = index \/ k \in Arc(start, index, size)
      BY <3>1, <3>2, <1>a, ArcSplit
    <3>4. QED
      BY <1>4, <3>3 DEF CheckMiss, Searched
  <2>2. QED
    BY <1>4, <2>1 DEF CheckMiss, AfterMiss, ProbeInvariant, Searched, NotStoredYet, Copied, Probed
<1>5. CASE CheckHit
  BY <1>5 DEF CheckHit, ProbeInvariant, Searched, NotStoredYet, Copied, Probed
<1>6. CASE CheckAdvance
  <2>1. index \in 0 .. size-1 /\ start \in 0 .. size-1
    BY <1>6 DEF CheckAdvance, TypeOK
  <2>2. \A j \in Arc(start, index, size) \cup {index} :
          table[j].device # NULL /\ table[j].mac # arg.mac
    BY <1>6 DEF CheckAdvance, Searched
  <2>3. CASE index' = start
    <3>1. Arc(start, index, size) \cup {index} = 0 .. size-1
      BY <1>6, <2>1, <2>3, <1>a, ArcWrap DEF CheckAdvance
    <3>2. QED
      BY <1>6, <2>2, <2>3, <3>1
         DEF CheckAdvance, AfterMiss, ProbeInvariant, Searched, NotStoredYet, Copied, Probed
  <2>4. CASE index' # start
    <3>1. Arc(start, index', size) \subseteq Arc(start, index, size) \cup {index}
      BY <1>6, <2>1, <1>a, ArcNext DEF CheckAdvance
    <3>2. QED
      BY <1>6, <2>2, <2>4, <3>1
         DEF CheckAdvance, ProbeInvariant, Searched, NotStoredYet, Copied, Probed
  <2>5. QED
    BY <2>3, <2>4
<1>7. CASE StoreFits
  <2>1. Arc(Home(arg.mac, size), index', size) = {}
    BY <1>7, <1>a, HomeType DEF StoreFits, Arc, TypeOK
  <2>2. QED
    BY <1>7, <2>1 DEF StoreFits, ProbeInvariant, Searched, NotStoredYet, Copied, Probed
<1>8. CASE StoreGrows
  BY <1>8, <1>a, EmptyTableOK
     DEF StoreGrows, ProbeInvariant, Searched, NotStoredYet, Copied, Probed, NewSize
<1>9. CASE StoreFails
  BY <1>9 DEF StoreFails, ProbeInvariant, Searched, NotStoredYet, Copied, Probed
<1>10. CASE RehashSkip
  <2>1. \A k \in 0 .. i : k \in 0 .. i-1 \/ k = i
    BY DEF TypeOK
  <2>2. Copied'
    BY <1>10, <2>1 DEF RehashSkip, Copied, TypeOK, NewSize
  <2>3. QED
    BY <1>10, <2>2 DEF RehashSkip, ProbeInvariant, Searched, NotStoredYet, Probed, NewSize
<1>11. CASE RehashEnterStore
  <2>1. table[i].mac \in Mac
    BY <1>11 DEF RehashEnterStore, TypeOK, Slot, EmptySlot, Entry
  <2>2. Arc(Home(table[i].mac, NewSize), index', NewSize) = {}
    BY <1>11, <2>1, <1>a, HomeType DEF RehashEnterStore, Arc
  <2>3. QED
    BY <1>11, <2>2
       DEF RehashEnterStore, ProbeInvariant, Searched, NotStoredYet, Copied, Probed, NewSize
<1>12. CASE RehashDone
  <2>1. Chained(tmp, NewSize) /\ Distinct(tmp, NewSize)
    BY <1>12 DEF RehashDone, ProbeInvariant
  <2>2. \A k \in 0 .. NewSize-1 : tmp[k].device # NULL => tmp[k].mac # arg.mac
    BY <1>12, <1>a DEF RehashDone, Copied, NotStoredYet
  <2>3. Arc(Home(arg.mac, NewSize), index', NewSize) = {}
    BY <1>12, <1>a, HomeType DEF RehashDone, Arc, TypeOK
  <2>4. QED
    BY <1>12, <2>1, <2>2, <2>3
       DEF RehashDone, ProbeInvariant, Searched, NotStoredYet, Copied, Probed
<1>13. CASE MoveProbe
  <2>1. table[i].mac \in Mac /\ index \in 0 .. NewSize-1
    BY <1>13 DEF MoveProbe, TypeOK, Slot, EmptySlot, Entry
  <2>2. Arc(Home(table[i].mac, NewSize), index', NewSize)
          \subseteq Arc(Home(table[i].mac, NewSize), index, NewSize) \cup {index}
    BY <1>13, <2>1, <1>a, HomeType, ArcNext DEF MoveProbe
  <2>3. QED
    BY <1>13, <2>2
       DEF MoveProbe, ProbeInvariant, Searched, NotStoredYet, Copied, Probed, NewSize
<1>14. CASE MoveWrite
  <2>1. /\ table[i] \in Entry /\ i \in 0 .. size-1 /\ index \in 0 .. NewSize-1
        /\ tmp \in [0 .. NewSize-1 -> Slot]
    BY <1>14 DEF MoveWrite, TypeOK, Slot, EmptySlot
  <2>2. \A j \in 0 .. NewSize-1 : tmp[j].device # NULL => tmp[j].mac # table[i].mac
    <3> SUFFICES ASSUME NEW j \in 0 .. NewSize-1, tmp[j].device # NULL,
                        tmp[j].mac = table[i].mac
                 PROVE  FALSE
      OBVIOUS
    <3>1. PICK k \in 0 .. i-1 : tmp[j] = table[k]
      BY <1>14 DEF MoveWrite, Copied
    <3>2. k \in 0 .. size-1 /\ k # i
      BY <2>1, <1>a
    <3>3. table[i].device # NULL
      BY <1>14 DEF MoveWrite, TypeOK
    <3>4. QED
      BY <2>1, <3>1, <3>2, <3>3 DEF ProbeInvariant, Distinct
  <2>3. Chained(tmp', NewSize) /\ Distinct(tmp', NewSize)
    BY <1>14, <2>1, <2>2, <1>a, StoreEntryOK DEF MoveWrite, ProbeInvariant, Probed
  <2>4. Copied'
    <3>1. tmp'[index] = table[i] /\ \A j \in 0 .. NewSize-1 : j # index => tmp'[j] = tmp[j]
      BY <1>14, <2>1 DEF MoveWrite
    <3>2. \A k \in 0 .. i : k \in 0 .. i-1 \/ k = i
      BY <2>1, <1>a
    <3>3. ASSUME NEW k \in 0 .. i, table[k].device # NULL
          PROVE  \E j \in 0 .. NewSize-1 : tmp'[j] = table[k]
      <4>1. CASE k = i
        BY <4>1, <3>1, <2>1
      <4>2. CASE k # i
        <5>1. PICK j \in 0 .. NewSize-1 : tmp[j] = table[k]
          BY <4>2, <3>2, <3>3, <1>14 DEF MoveWrite, Copied
        <5>2. j # index
          BY <5>1, <3>3, <1>14 DEF MoveWrite
        <5>3. QED
          BY <5>1, <5>2, <3>1
      <4>3. QED
        BY <4>1, <4>2
    <3>4. ASSUME NEW j \in 0 .. NewSize-1, tmp'[j].device # NULL
          PROVE  \E k \in 0 .. i : tmp'[j] = table[k]
      <4>1. CASE j = index
        BY <4>1, <3>1, <2>1
      <4>2. CASE j # index
        <5>1. PICK k \in 0 .. i-1 : tmp[j] = table[k]
          BY <4>2, <3>1, <3>4, <1>14 DEF MoveWrite, Copied
        <5>2. k \in 0 .. i
          BY <2>1
        <5>3. QED
          BY <5>1, <5>2, <4>2, <3>1
      <4>3. QED
        BY <4>1, <4>2
    <3>5. i' = i + 1 /\ table' = table /\ NewSize' = NewSize
      BY <1>14, <2>1 DEF MoveWrite, NewSize
    <3>6. i' - 1 = i
      BY <3>5, <2>1
    <3>7. QED
      BY <3>3, <3>4, <3>5, <3>6 DEF Copied
  <2>5. QED
    BY <1>14, <2>3, <2>4
       DEF MoveWrite, ProbeInvariant, Searched, NotStoredYet, Probed, NewSize
<1>15. CASE PlaceProbe
  <2>1. arg.mac \in Mac /\ index \in 0 .. size-1
    BY <1>15 DEF PlaceProbe, TypeOK
  <2>2. Arc(Home(arg.mac, size), index', size)
          \subseteq Arc(Home(arg.mac, size), index, size) \cup {index}
    BY <1>15, <2>1, <1>a, HomeType, ArcNext DEF PlaceProbe
  <2>3. QED
    BY <1>15, <2>2 DEF PlaceProbe, ProbeInvariant, Searched, NotStoredYet, Copied, Probed
<1>16. CASE PlaceWrite
  <2>1. /\ arg \in Entry /\ index \in 0 .. size-1 /\ table \in [0 .. size-1 -> Slot]
    BY <1>16 DEF PlaceWrite, TypeOK, Entry
  <2>2. Chained(table', size) /\ Distinct(table', size)
    BY <1>16, <2>1, <1>a, StoreEntryOK DEF PlaceWrite, ProbeInvariant, Probed, NotStoredYet
  <2>3. QED
    BY <1>16, <2>2 DEF PlaceWrite, ProbeInvariant, Searched, NotStoredYet, Copied, Probed
<1>17. CASE UNCHANGED vars
  BY <1>17 DEF vars, ProbeInvariant, Searched, NotStoredYet, Copied, Probed, NewSize, NextIndex
<1>18. QED
  BY <1>2, <1>3, <1>4, <1>5, <1>6, <1>7, <1>8, <1>9, <1>10, <1>11, <1>12, <1>13,
     <1>14, <1>15, <1>16, <1>17 DEF Next, Call, Step, Exited

(* Between and during all operations, growth included, an entry can be     *)
(* reached from its home slot without meeting a hole, and an address has   *)
(* one slot: hashmap_check_entry may stop at the first hole or match.      *)
THEOREM ProbeInvariantCorrect == Spec => []ProbeInvariant
<1>1. IndInv => ProbeInvariant
  BY DEF IndInv
<1>2. QED
  BY <1>1, IndInvInit, IndInvNext, PTL DEF Spec
-----------------------------------------------------------------------------
(* The load factor.                                                        *)

(* The occupied slots of a table can be counted.                           *)
LEMMA OccupiedFinite ==
  ASSUME NEW n \in Nat, NEW t
  PROVE  IsFiniteSet(Occupied(t, n)) /\ Cardinality(Occupied(t, n)) \in Nat
<1>1. IsFiniteSet(0 .. n-1)
  BY FS_Interval
<1>2. Occupied(t, n) \in SUBSET (0 .. n-1)
  BY DEF Occupied
<1>3. IsFiniteSet(Occupied(t, n))
  BY <1>1, <1>2, FS_Subset
<1>4. QED
  BY <1>3, FS_CardinalityType

(* A write at an empty slot occupies one slot more.                        *)
LEMMA OccupiedWrite ==
  ASSUME NEW n \in Nat, NEW t \in [0 .. n-1 -> Slot], NEW e \in Entry,
         NEW k \in 0 .. n-1, t[k].device = NULL
  PROVE  Cardinality(Occupied([t EXCEPT ![k] = e], n)) = Cardinality(Occupied(t, n)) + 1
<1>1. e.device # NULL
  BY HashMapAssumption DEF Entry
<1>2. Occupied([t EXCEPT ![k] = e], n) = Occupied(t, n) \cup {k}
  BY <1>1 DEF Occupied
<1>3. k \notin Occupied(t, n)
  BY DEF Occupied
<1>4. IsFiniteSet(Occupied(t, n))
  BY OccupiedFinite
<1>5. QED
  BY <1>2, <1>3, <1>4, FS_AddElement

(* An empty table has no occupied slot.                                    *)
LEMMA OccupiedEmpty ==
  ASSUME NEW n \in Nat, NEW t, \A k \in 0 .. n-1 : t[k].device = NULL
  PROVE  Cardinality(Occupied(t, n)) = 0
<1>1. Occupied(t, n) = {}
  BY DEF Occupied
<1>2. QED
  BY <1>1, FS_EmptySet

(* Going over one more slot counts it if it is occupied.                   *)
LEMMA OccupiedPrefix ==
  ASSUME NEW n \in Nat, NEW t
  PROVE  Cardinality(Occupied(t, n+1)) =
           Cardinality(Occupied(t, n)) + (IF t[n].device = NULL THEN 0 ELSE 1)
<1>1. \A k : k \in 0 .. n <=> k \in 0 .. n-1 \/ k = n
  OBVIOUS
<1>2. n \notin Occupied(t, n)
  BY DEF Occupied
<1>3. IsFiniteSet(Occupied(t, n)) /\ Cardinality(Occupied(t, n)) \in Nat
  BY OccupiedFinite
<1>4. CASE t[n].device = NULL
  <2>1. Occupied(t, n+1) = Occupied(t, n)
    BY <1>1, <1>4 DEF Occupied
  <2>2. QED
    BY <2>1, <1>3, <1>4
<1>5. CASE t[n].device # NULL
  <2>1. Occupied(t, n+1) = Occupied(t, n) \cup {n}
    BY <1>1, <1>5 DEF Occupied
  <2>2. QED
    BY <2>1, <1>2, <1>3, <1>5, FS_AddElement
<1>6. QED
  BY <1>4, <1>5

LEMMA LoadInvInit == Init => LoadInv
<1> SUFFICES ASSUME Init
             PROVE  LoadInv
  OBVIOUS
<1>1. Cardinality(Occupied(table, size)) = 0
  BY HashMapAssumption, EmptyTableOK, OccupiedEmpty DEF Init
<1>2. QED
  BY <1>1, HashMapAssumption DEF Init, LoadInv, LoadFactor

LEMMA LoadInvNext == TypeOK /\ LoadInv /\ [Next]_vars => LoadInv'
<1> SUFFICES ASSUME TypeOK, LoadInv, [Next]_vars
             PROVE  LoadInv'
  OBVIOUS
<1> USE DEF LoadInv
<1>a. NewSize \in Nat \ {0} /\ NewSize = 2 * size /\ size \in Nat \ {0} /\ count \in Nat
  BY DEF TypeOK, NewSize
<1>1. ASSUME NEW o, NEW m \in Mac, NEW d, EnterCheck(o, m, d)
      PROVE  LoadInv'
  BY <1>1 DEF EnterCheck, LoadFactor, NewSize, Occupied
<1>2. ASSUME NEW m \in Mac, CallCheckEntry(m)
      PROVE  LoadInv'
  BY <1>1, <1>2 DEF CallCheckEntry
<1>3. ASSUME NEW m \in Mac, NEW d \in Device, CallUpsert(m, d)
      PROVE  LoadInv'
  BY <1>1, <1>3 DEF CallUpsert
<1>4. CASE CheckMiss \/ CheckHit \/ CheckAdvance
  BY <1>4 DEF CheckMiss, CheckHit, CheckAdvance, AfterMiss, LoadFactor, NewSize
<1>5. CASE StoreFits
  BY <1>5 DEF StoreFits, LoadFactor, NeedsGrow
<1>6. CASE StoreGrows
  <2>1. Cardinality(Occupied(tmp', NewSize)) = 0
    BY <1>6, <1>a, EmptyTableOK, OccupiedEmpty DEF StoreGrows
  <2>2. Cardinality(Occupied(table, 0)) = 0
    BY OccupiedEmpty
  <2>3. QED
    BY <1>6, <2>1, <2>2 DEF StoreGrows, LoadFactor, NewSize
<1>7. CASE StoreFails
  BY <1>7 DEF StoreFails, LoadFactor
<1>8. CASE RehashSkip
  <2>1. i \in Nat /\ Cardinality(Occupied(table, i)) \in Nat
    BY OccupiedFinite DEF TypeOK
  <2>2. Cardinality(Occupied(table, i+1)) = Cardinality(Occupied(table, i))
    BY <1>8, <2>1, OccupiedPrefix DEF RehashSkip
  <2>3. QED
    BY <1>8, <2>2 DEF RehashSkip, LoadFactor, NewSize
<1>9. CASE RehashEnterStore
  BY <1>9 DEF RehashEnterStore, LoadFactor, NewSize
<1>10. CASE RehashDone
  <2>1. Cardinality(Occupied(table', size')) = count'
    BY <1>10 DEF RehashDone, LoadFactor
  <2>2. 10 * (count' + 1) <= 8 * size'
    BY <1>10, <1>a DEF RehashDone, LoadFactor
  <2>3. QED
    BY <1>10, <1>a, <2>1, <2>2 DEF RehashDone, LoadFactor, NeedsGrow
<1>11. CASE MoveProbe
  BY <1>11 DEF MoveProbe, LoadFactor, NewSize
<1>12. CASE MoveWrite
  <2>1. /\ table[i] \in Entry /\ table[i].device # NULL
        /\ i \in Nat /\ index \in 0 .. NewSize-1
        /\ tmp \in [0 .. NewSize-1 -> Slot]
    BY <1>12 DEF MoveWrite, TypeOK, Slot, EmptySlot
  <2>2. Cardinality(Occupied(tmp', NewSize)) = Cardinality(Occupied(tmp, NewSize)) + 1
    BY <1>12, <2>1, <1>a, OccupiedWrite DEF MoveWrite
  <2>3. Cardinality(Occupied(table, i+1)) = Cardinality(Occupied(table, i)) + 1
    BY <2>1, OccupiedPrefix
  <2>4. QED
    BY <1>12, <2>2, <2>3 DEF MoveWrite, LoadFactor, NewSize
<1>13. CASE PlaceProbe
  BY <1>13 DEF PlaceProbe, LoadFactor, NeedsGrow
<1>14. CASE PlaceWrite
  <2>1. arg \in Entry /\ index \in 0 .. size-1 /\ table \in [0 .. size-1 -> Slot]
    BY <1>14 DEF PlaceWrite, TypeOK, Entry
  <2>2. Cardinality(Occupied(table', size)) = count + 1
    BY <1>14, <2>1, <1>a, OccupiedWrite DEF PlaceWrite, LoadFactor
  <2>3. QED
    BY <1>14, <2>2, <1>a DEF PlaceWrite, LoadFactor, NeedsGrow
<1>15. CASE UNCHANGED vars
  BY <1>15 DEF vars, LoadFactor, NewSize, NeedsGrow
<1>16. QED
  BY <1>2, <1>3, <1>4, <1>5, <1>6, <1>7, <1>8, <1>9, <1>10, <1>11, <1>12, <1>13,
     <1>14, <1>15 DEF Next, Call, Step, Exited

(* map->count counts the occupied slots and stays at or below 0.8 of the   *)
(* table in every state: the probing loops always have a hole ahead.       *)
THEOREM LoadFactorCorrect == Spec => []LoadFactor
<1>1. LoadInv => LoadFactor
  BY DEF LoadInv
<1>2. QED
  BY <1>1, TypeOKInit, TypeOKNext, LoadInvInit, LoadInvNext, PTL DEF Spec
-----------------------------------------------------------------------------
(* The refinement.                                                         *)

(* A write at an empty slot adds its entry to the contents.                *)
LEMMA ContentsWrite ==
  ASSUME NEW n \in Nat, NEW t \in [0 .. n-1 -> Slot], NEW e \in Entry,
         NEW k \in 0 .. n-1, t[k].device = NULL
  PROVE  Contents([t EXCEPT ![k] = e], n) = Contents(t, n) \cup {e}
<1> DEFINE u == [t EXCEPT ![k] = e]
<1>1. e.device # NULL /\ u[k] = e /\ \A j \in 0 .. n-1 : j # k => u[j] = t[j]
  BY HashMapAssumption DEF Entry
<1>2. \A x : x \in Contents(u, n) <=> \E j \in 0 .. n-1 : u[j].device # NULL /\ x = u[j]
  BY DEF Contents
<1>3. \A x : x \in Contents(t, n) <=> \E j \in 0 .. n-1 : t[j].device # NULL /\ x = t[j]
  BY DEF Contents
<1>4. \A x : x \in Contents(u, n) <=> x \in Contents(t, n) \/ x = e
  BY <1>1, <1>2, <1>3
<1>5. QED
  BY <1>4

LEMMA RefinementInit == Init => R!Init
BY HashMapAssumption, EmptyTableOK DEF Init, R!Init, Contents, EmptySlot

LEMMA RefinementStep == IndInv /\ [Next]_vars => [R!Next]_R!vars
<1> SUFFICES ASSUME IndInv, [Next]_vars
             PROVE  [R!Next]_R!vars
  OBVIOUS
<1> USE DEF IndInv
<1> DEFINE devices == Contents(table, size)
<1>a. size \in Nat \ {0} /\ table \in [0 .. size-1 -> Slot]
  BY DEF TypeOK
<1>b. \A x : x \in devices <=> \E j \in 0 .. size-1 : table[j].device # NULL /\ x = table[j]
  BY DEF Contents
<1>1. ASSUME UNCHANGED <<devices, reply>>
      PROVE  [R!Next]_R!vars
  BY <1>1 DEF R!vars
<1>2. ASSUME UNCHANGED <<table, size, reply>>
      PROVE  [R!Next]_R!vars
  BY <1>1, <1>2
<1>3. CASE Call \/ Exited
  BY <1>3, <1>2 DEF Call, CallCheckEntry, CallUpsert, EnterCheck, Exited, vars
<1>4. ASSUME \A k \in 0 .. size-1 : table[k].device # NULL => table[k].mac # arg.mac,
             arg.mac \in Mac, UNCHANGED <<table, size>>,
             reply' = [mac |-> arg.mac, device |-> NULL]
      PROVE  [R!Next]_R!vars
  <2>1. ~R!Registered(arg.mac)
    BY <1>4, <1>b DEF R!Registered
  <2>2. R!FindUnknown(arg.mac)
    BY <1>4, <2>1 DEF R!FindUnknown
  <2>3. QED
    BY <1>4, <2>2 DEF R!Next
<1>5. CASE CheckMiss
  <2>1. \A k \in 0 .. size-1 : table[k].device # NULL => table[k].mac # arg.mac
    <3> SUFFICES ASSUME NEW k \in 0 .. size-1, table[k].device # NULL,
                        table[k].mac = arg.mac
                 PROVE  FALSE
      OBVIOUS
    <3>1. index \in 0 .. size-1 /\ start \in 0 .. size-1 /\ start = Home(arg.mac, size)
      BY <1>5 DEF CheckMiss, TypeOK, Searched
    <3>2. index \notin Arc(start, k, size)
      BY <1>5, <3>1 DEF CheckMiss, ProbeInvariant, Chained
    <3>3. k = index \/ k \in Arc(start, index, size)
      BY <3>1, <3>2, <1>a, ArcSplit
    <3>4. QED
      BY <1>5, <3>3 DEF CheckMiss, Searched
  <2>2. QED
    BY <1>5, <1>4, <2>1 DEF CheckMiss, TypeOK
<1>6. CASE CheckHit
  <2>1. arg.mac \in Mac /\ table[index] \in Entry /\ table[index] \in devices
    BY <1>6, <1>a, <1>b DEF CheckHit, TypeOK, Slot, EmptySlot
  <2>2. reply' = [mac |-> arg.mac, device |-> table[index].device]
    BY <1>6, <2>1 DEF CheckHit, Entry
  <2>3. R!FindKnown(arg.mac)
    BY <1>6, <2>1, <2>2 DEF CheckHit, R!FindKnown
  <2>4. QED
    BY <2>1, <2>3 DEF R!Next
<1>7. CASE CheckAdvance
  <2>1. CASE index' = start
    <3>1. index \in 0 .. size-1 /\ start \in 0 .. size-1 /\ arg.mac \in Mac
      BY <1>7 DEF CheckAdvance, TypeOK
    <3>2. Arc(start, index, size) \cup {index} = 0 .. size-1
      BY <1>7, <2>1, <3>1, <1>a, ArcWrap DEF CheckAdvance
    <3>3. \A k \in 0 .. size-1 : table[k].device # NULL => table[k].mac # arg.mac
      BY <1>7, <3>2 DEF CheckAdvance, Searched
    <3>4. QED
      BY <1>7, <2>1, <3>1, <3>3, <1>4 DEF CheckAdvance
  <2>2. CASE index' # start
    BY <1>7, <2>2, <1>2 DEF CheckAdvance
  <2>3. QED
    BY <2>1, <2>2
<1>8. CASE StoreFits \/ StoreGrows \/ StoreFails
  BY <1>8, <1>2 DEF StoreFits, StoreGrows, StoreFails
<1>9. CASE RehashSkip \/ RehashEnterStore \/ MoveProbe \/ MoveWrite \/ PlaceProbe
  BY <1>9, <1>2 DEF RehashSkip, RehashEnterStore, MoveProbe, MoveWrite, PlaceProbe
<1>10. CASE RehashDone
  <2>1. \A x : x \in Contents(tmp, NewSize)
               <=> \E j \in 0 .. NewSize-1 : tmp[j].device # NULL /\ x = tmp[j]
    BY DEF Contents
  <2>2. /\ \A k \in 0 .. size-1 : table[k].device # NULL =>
             \E j \in 0 .. NewSize-1 : tmp[j] = table[k]
        /\ \A j \in 0 .. NewSize-1 : tmp[j].device # NULL =>
             \E k \in 0 .. size-1 : tmp[j] = table[k]
    BY <1>10 DEF RehashDone, Copied
  <2>3. Contents(tmp, NewSize) = devices
    <3>1. ASSUME NEW x \in Contents(tmp, NewSize)
          PROVE  x \in devices
      BY <2>1, <2>2, <1>b
    <3>2. ASSUME NEW x \in devices
          PROVE  x \in Contents(tmp, NewSize)
      BY <2>1, <2>2, <1>b
    <3>3. QED
      BY <3>1, <3>2
  <2>4. QED
    BY <1>10, <2>3, <1>1 DEF RehashDone
<1>11. CASE PlaceWrite
  <2>1. /\ arg \in Entry /\ arg.mac \in Mac /\ arg.device \in Device
        /\ index \in 0 .. size-1 /\ arg = [mac |-> arg.mac, device |-> arg.device]
    BY <1>11 DEF PlaceWrite, TypeOK, Entry
  <2>2. devices' = devices \cup {arg}
    BY <1>11, <2>1, <1>a, ContentsWrite DEF PlaceWrite
  <2>3. ~R!Registered(arg.mac)
    BY <1>11, <1>b DEF PlaceWrite, NotStoredYet, R!Registered
  <2>4. R!Insert(arg.mac, arg.device)
    BY <1>11, <2>1, <2>2, <2>3 DEF PlaceWrite, R!Insert
  <2>5. QED
    BY <2>1, <2>4 DEF R!Next
<1>12. CASE UNCHANGED vars
  BY <1>12, <1>2 DEF vars
<1>13. QED
  BY <1>3, <1>5, <1>6, <1>7, <1>8, <1>9, <1>10, <1>11, <1>12 DEF Next, Step

(* The table implements the registry: a growth, at any of its steps, never *)
(* loses, duplicates or re-keys a device, and every search answers what    *)
(* the registry would.                                                     *)
THEOREM RegistryRefined == Spec => RefinesRegistry
<1>1. Spec => []IndInv
  BY IndInvInit, IndInvNext, PTL DEF Spec
<1>2. QED
  BY <1>1, RefinementInit, RefinementStep, PTL DEF Spec, RefinesRegistry, R!Spec
-----------------------------------------------------------------------------
(* Termination: what is left to do of a call, as a triple of numbers in    *)
(* lexicographic order, and that no step leaves it as large as it was.     *)

(* The slots a probe that started at a has still ahead when it is at b.    *)
Ahead(a, b, n) == IF a <= b THEN n - (b - a) ELSE a - b

Phase == [check |-> 4, store |-> 3, rehash |-> 2, move |-> 2, place |-> 1,
          idle |-> 0, exited |-> 0][pc]

EntriesLeft == IF pc \in {"rehash", "move"} THEN size - i ELSE 0

SlotsLeft ==
  IF pc = "check" THEN Ahead(start, index, size)
  ELSE IF pc = "rehash" THEN NewSize + 1
  ELSE IF pc = "move" THEN Ahead(Home(table[i].mac, NewSize), index, NewSize)
  ELSE IF pc = "place" THEN Ahead(Home(arg.mac, size), index, size)
  ELSE 0

Work == <<Phase, <<EntriesLeft, SlotsLeft>>>>
Amount == Nat \X (Nat \X Nat)

Fewer == OpToRel(<, Nat)
Less == LexPairOrdering(Fewer, LexPairOrdering(Fewer, Fewer, Nat, Nat), Nat, Nat \X Nat)

(* Nothing decreases in this order for ever.                               *)
LEMMA LessWellFounded == IsWellFoundedOn(Less, Amount)
<1>1. IsWellFoundedOn(Fewer, Nat)
  BY NatLessThanWellFounded, Zenon DEF Fewer
<1>2. IsWellFoundedOn(LexPairOrdering(Fewer, Fewer, Nat, Nat), Nat \X Nat)
  BY <1>1, WFLexPairOrdering, Zenon
<1>3. QED
  BY <1>1, <1>2, WFLexPairOrdering, Zenon DEF Less, Amount

LEMMA LessCases ==
  ASSUME NEW a \in Nat, NEW b \in Nat, NEW c \in Nat,
         NEW x \in Nat, NEW y \in Nat, NEW z \in Nat,
         x < a \/ (x = a /\ (y < b \/ (y = b /\ z < c)))
  PROVE  <<<<x, <<y, z>>>>, <<a, <<b, c>>>>>> \in Less
BY DEF Less, LexPairOrdering, Fewer, OpToRel

(* A turn of a probing loop leaves one slot less, or has gone all round.   *)
LEMMA AheadNext ==
  ASSUME NEW n \in Nat \ {0}, NEW a \in 0 .. n-1, NEW b \in 0 .. n-1
  PROVE  /\ Ahead(a, b, n) \in 1 .. n
         /\ NextIndex(b, n) # a =>
              /\ Ahead(a, NextIndex(b, n), n) \in 1 .. n
              /\ Ahead(a, NextIndex(b, n), n) < Ahead(a, b, n)
BY NextIndexType DEF Ahead

(* There are n slots before slot n.                                        *)
LEMMA OccupiedAtMost ==
  ASSUME NEW n \in Nat, NEW t
  PROVE  Cardinality(Occupied(t, n)) \in Nat /\ Cardinality(Occupied(t, n)) <= n
<1>1. /\ IsFiniteSet(0 .. n-1)
      /\ Cardinality(0 .. n-1) = n
  BY FS_Interval
<1>2. Occupied(t, n) \in SUBSET (0 .. n-1)
  BY DEF Occupied
<1>3. Cardinality(Occupied(t, n)) <= Cardinality(0 .. n-1)
  BY <1>1, <1>2, FS_Subset
<1>4. QED
  BY <1>1, <1>3, OccupiedFinite

(* A probe of a table that is not full meets an empty slot before it is    *)
(* back where it started.                                                  *)
LEMMA HoleAhead ==
  ASSUME NEW n \in Nat \ {0}, NEW t, NEW a \in 0 .. n-1, NEW b \in 0 .. n-1,
         Cardinality(Occupied(t, n)) < n,
         \A j \in Arc(a, b, n) : t[j].device # NULL,
         t[b].device # NULL
  PROVE  NextIndex(b, n) # a
<1> SUFFICES ASSUME NextIndex(b, n) = a
             PROVE  FALSE
  OBVIOUS
<1>1. Occupied(t, n) = 0 .. n-1
  BY ArcWrap DEF Occupied
<1>2. Cardinality(0 .. n-1) = n
  BY FS_Interval
<1>3. QED
  BY <1>1, <1>2

(* Where a probe starts and where it is are slots of the table it probes.  *)
LEMMA ProbeIndices ==
  ASSUME TypeOK
  PROVE  /\ size \in Nat \ {0} /\ NewSize \in Nat \ {0} /\ NewSize = 2 * size
         /\ i \in 0 .. size
         /\ pc = "check" => start \in 0 .. size-1 /\ index \in 0 .. size-1
         /\ pc = "rehash" /\ i < size /\ table[i].device # NULL =>
              Home(table[i].mac, NewSize) \in 0 .. NewSize-1
         /\ pc = "move" =>
              /\ Home(table[i].mac, NewSize) \in 0 .. NewSize-1
              /\ index \in 0 .. NewSize-1
              /\ i \in 0 .. size-1
         /\ pc \in {"store", "rehash", "place"} =>
              /\ Home(arg.mac, size) \in 0 .. size-1
              /\ Home(arg.mac, NewSize) \in 0 .. NewSize-1
         /\ pc = "place" => index \in 0 .. size-1
<1>1. size \in Nat \ {0} /\ NewSize \in Nat \ {0} /\ NewSize = 2 * size
  BY DEF TypeOK, NewSize
<1>2. /\ i \in 0 .. size
      /\ pc = "check" => start \in 0 .. size-1 /\ index \in 0 .. size-1
      /\ pc = "move" => i < size /\ index \in 0 .. NewSize-1
      /\ pc = "place" => index \in 0 .. size-1
  BY DEF TypeOK
<1>3. ASSUME i < size, table[i].device # NULL
      PROVE  Home(table[i].mac, NewSize) \in 0 .. NewSize-1
  <2>1. table[i] \in Slot
    BY <1>1, <1>2, <1>3 DEF TypeOK
  <2>2. table[i].mac \in Mac
    BY <1>3, <2>1 DEF Slot, EmptySlot, Entry
  <2>3. QED
    BY <1>1, <2>2, HomeType
<1>4. pc = "move" => i < size /\ table[i].device # NULL
  BY DEF TypeOK
<1>5. ASSUME pc \in {"store", "rehash", "place"}
      PROVE  /\ Home(arg.mac, size) \in 0 .. size-1
             /\ Home(arg.mac, NewSize) \in 0 .. NewSize-1
  <2>1. arg.mac \in Mac
    BY <1>5 DEF TypeOK
  <2>2. QED
    BY <1>1, <2>1, HomeType
<1>6. QED
  BY <1>1, <1>2, <1>3, <1>4, <1>5

(* The types of the three numbers.                                         *)
LEMMA WorkType ==
  TypeOK => Phase \in Nat /\ EntriesLeft \in Nat /\ SlotsLeft \in Nat
<1> SUFFICES ASSUME TypeOK
             PROVE  Phase \in Nat /\ EntriesLeft \in Nat /\ SlotsLeft \in Nat
  OBVIOUS
<1>1. Phase \in Nat
  BY DEF Phase, TypeOK
<1>2. EntriesLeft \in Nat
  BY ProbeIndices DEF EntriesLeft
<1>3. CASE pc = "check"
  <2>1. Ahead(start, index, size) \in 1 .. size
    BY <1>3, ProbeIndices, AheadNext
  <2>2. QED
    BY <1>1, <1>2, <1>3, <2>1, ProbeIndices DEF SlotsLeft
<1>4. CASE pc = "move"
  <2>1. Ahead(Home(table[i].mac, NewSize), index, NewSize) \in 1 .. NewSize
    BY <1>4, ProbeIndices, AheadNext
  <2>2. QED
    BY <1>1, <1>2, <1>4, <2>1, ProbeIndices DEF SlotsLeft
<1>5. CASE pc = "place"
  <2>1. Ahead(Home(arg.mac, size), index, size) \in 1 .. size
    BY <1>5, ProbeIndices, AheadNext
  <2>2. QED
    BY <1>1, <1>2, <1>5, <2>1, ProbeIndices DEF SlotsLeft
<1>6. CASE pc \notin {"check", "move", "place"}
  BY <1>1, <1>2, <1>6, ProbeIndices DEF SlotsLeft
<1>7. QED
  BY <1>3, <1>4, <1>5, <1>6

LEMMA WorkTypeNext ==
  TypeOK' => (Phase \in Nat /\ EntriesLeft \in Nat /\ SlotsLeft \in Nat)'
BY WorkType, PTL

(* Every turn of a loop and every step between two loops leaves less to    *)
(* do: the search ends at its own test, the two probes of store_entry,     *)
(* whose loop tests nothing but the slot, because LoadInv puts a hole      *)
(* ahead of them.                                                          *)
LEMMA StepLeavesLess ==
  IndInv /\ LoadInv /\ TypeOK' /\ Step => <<Work', Work>> \in Less
<1> SUFFICES ASSUME IndInv, LoadInv, TypeOK', Step
             PROVE  <<Work', Work>> \in Less
  OBVIOUS
<1>t. TypeOK
  BY DEF IndInv
<1>n. /\ Phase \in Nat /\ EntriesLeft \in Nat /\ SlotsLeft \in Nat
      /\ Phase' \in Nat /\ EntriesLeft' \in Nat /\ SlotsLeft' \in Nat
  BY <1>t, WorkType, WorkTypeNext
<1> SUFFICES \/ Phase' < Phase
             \/ /\ Phase' = Phase
                /\ \/ EntriesLeft' < EntriesLeft
                   \/ EntriesLeft' = EntriesLeft /\ SlotsLeft' < SlotsLeft
  BY <1>n, LessCases DEF Work
<1>1. CASE CheckMiss \/ CheckHit
  BY <1>1, <1>t DEF CheckMiss, CheckHit, AfterMiss, Phase, TypeOK
<1>2. CASE CheckAdvance
  <2>1. index \in 0 .. size-1 /\ start \in 0 .. size-1 /\ size \in Nat \ {0}
    BY <1>2, <1>t, ProbeIndices DEF CheckAdvance
  <2>2. CASE index' = start
    BY <1>2, <2>2, <1>t DEF CheckAdvance, AfterMiss, Phase
  <2>3. CASE index' # start
    <3>1. Ahead(start, index', size) < Ahead(start, index, size)
      BY <1>2, <2>1, <2>3, AheadNext DEF CheckAdvance
    <3>2. SlotsLeft' < SlotsLeft
      BY <1>2, <2>3, <3>1 DEF CheckAdvance, SlotsLeft
    <3>3. QED
      BY <1>2, <2>3, <3>2 DEF CheckAdvance, Phase, EntriesLeft
  <2>4. QED
    BY <2>2, <2>3
<1>3. CASE StoreFits \/ StoreGrows \/ StoreFails
  BY <1>3 DEF StoreFits, StoreGrows, StoreFails, Phase
<1>4. CASE RehashSkip
  BY <1>4, <1>t, ProbeIndices DEF RehashSkip, Phase, EntriesLeft
<1>5. CASE RehashEnterStore
  <2>1. Ahead(index', index', NewSize) = NewSize /\ NewSize \in Nat
    BY <1>5, <1>t, ProbeIndices DEF RehashEnterStore, Ahead
  <2>2. SlotsLeft' < SlotsLeft
    BY <1>5, <2>1 DEF RehashEnterStore, SlotsLeft, NewSize
  <2>3. QED
    BY <1>5, <2>2 DEF RehashEnterStore, Phase, EntriesLeft
<1>6. CASE RehashDone
  BY <1>6 DEF RehashDone, Phase
<1>7. CASE MoveProbe
  <2> DEFINE home == Home(table[i].mac, NewSize)
  <2>1. /\ home \in 0 .. NewSize-1 /\ index \in 0 .. NewSize-1
        /\ NewSize \in Nat \ {0} /\ NewSize = 2 * size /\ i \in 0 .. size-1
        /\ size \in Nat
    BY <1>7, <1>t, ProbeIndices DEF MoveProbe
  <2>2. Cardinality(Occupied(tmp, NewSize)) < NewSize
    <3>1. Cardinality(Occupied(tmp, NewSize)) = Cardinality(Occupied(table, i))
      BY <1>7 DEF MoveProbe, LoadInv
    <3>2. /\ Cardinality(Occupied(table, i)) \in Nat
          /\ Cardinality(Occupied(table, i)) <= i
      BY <2>1, OccupiedAtMost
    <3>3. QED
      BY <2>1, <3>1, <3>2
  <2>3. \A j \in Arc(home, index, NewSize) : tmp[j].device # NULL
    BY <1>7 DEF MoveProbe, IndInv, Probed
  <2>4. NextIndex(index, NewSize) # home
    BY <1>7, <2>1, <2>2, <2>3, HoleAhead DEF MoveProbe
  <2>5. Ahead(home, index', NewSize) < Ahead(home, index, NewSize)
    BY <1>7, <2>1, <2>4, AheadNext DEF MoveProbe
  <2>6. SlotsLeft' < SlotsLeft
    BY <1>7, <2>5 DEF MoveProbe, SlotsLeft, NewSize
  <2>7. QED
    BY <1>7, <2>6 DEF MoveProbe, Phase, EntriesLeft
<1>8. CASE MoveWrite
  BY <1>8, <1>t, ProbeIndices DEF MoveWrite, Phase, EntriesLeft
<1>9. CASE PlaceProbe
  <2> DEFINE home == Home(arg.mac, size)
  <2>1. home \in 0 .. size-1 /\ index \in 0 .. size-1 /\ size \in Nat \ {0}
    BY <1>9, <1>t, ProbeIndices DEF PlaceProbe
  <2>2. Cardinality(Occupied(table, size)) < size
    BY <1>9, <2>1, OccupiedFinite DEF PlaceProbe, LoadInv, LoadFactor, NeedsGrow
  <2>3. \A j \in Arc(home, index, size) : table[j].device # NULL
    BY <1>9 DEF PlaceProbe, IndInv, Probed
  <2>4. NextIndex(index, size) # home
    BY <1>9, <2>1, <2>2, <2>3, HoleAhead DEF PlaceProbe
  <2>5. Ahead(home, index', size) < Ahead(home, index, size)
    BY <1>9, <2>1, <2>4, AheadNext DEF PlaceProbe
  <2>6. SlotsLeft' < SlotsLeft
    BY <1>9, <2>5 DEF PlaceProbe, SlotsLeft
  <2>7. QED
    BY <1>9, <2>6 DEF PlaceProbe, Phase, EntriesLeft
<1>10. CASE PlaceWrite
  BY <1>10 DEF PlaceWrite, Phase
<1>11. QED
  BY <1>1, <1>2, <1>3, <1>4, <1>5, <1>6, <1>7, <1>8, <1>9, <1>10 DEF Step

(* No call of the map goes round a loop for ever: what is left of it       *)
(* decreases with every step, in an order in which nothing can decrease    *)
(* for ever (LessWellFounded).                                             *)
THEOREM NoEndlessCall == Spec => [][Step => <<Work', Work>> \in Less]_vars
<1>1. IndInv => TypeOK
  BY DEF IndInv
<1>2. IndInv /\ LoadInv /\ TypeOK' /\ [Next]_vars =>
        [Step => <<Work', Work>> \in Less]_vars
  BY StepLeavesLess
<1>3. QED
  BY <1>1, <1>2, TypeOKInit, TypeOKNext, IndInvInit, IndInvNext, LoadInvInit,
     LoadInvNext, PTL DEF Spec

=============================================================================
