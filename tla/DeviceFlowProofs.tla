--------------------------- MODULE DeviceFlowProofs ---------------------------
(***************************************************************************)
(* Proofs about DeviceFlow, for any number of devices and any capacity of  *)
(* the pipe.                                                               *)
(***************************************************************************)
EXTENDS DeviceFlow, SequenceTheorems, TLAPS

Carried == Message \cup {NoMsg}

(* The two types of message that carry a device, and what tells them apart.*)
LEMMA MessageFields ==
  /\ \A d \in Device : /\ NewEntry(d) \in Message /\ Update(d) \in Message
                       /\ NewEntry(d).type = "UI_NEW_ENTRY" /\ NewEntry(d).data = d
                       /\ Update(d).type = "UI_UPDATE_TABLE" /\ Update(d).data = d
                       /\ NewEntry(d) # NoMsg /\ Update(d) # NoMsg
  /\ Resize \in Message /\ Tick \in Message /\ Tick # NoMsg
  /\ {Resize.type, Tick.type, NoMsg.type} \cap {"UI_NEW_ENTRY", "UI_UPDATE_TABLE"} = {}
  /\ Resize.data = NULL /\ Tick.data = NULL /\ NoMsg.data = NULL
  /\ \A x \in Carried : x.type = "UI_NEW_ENTRY" => x.data \in Device /\ x = NewEntry(x.data)
  /\ NoMsg \notin Message
BY DEF Message, Carried, NewEntry, Update, Resize, Tick, NoMsg

LEMMA AppendAt ==
  ASSUME NEW S, NEW s \in Seq(S), NEW x \in S
  PROVE  /\ Append(s, x) \in Seq(S) /\ Len(s) \in Nat /\ Len(Append(s, x)) = Len(s) + 1
         /\ DOMAIN s = 1 .. Len(s) /\ DOMAIN Append(s, x) = 1 .. (Len(s) + 1)
         /\ \A k \in DOMAIN s : Append(s, x)[k] = s[k]
         /\ Append(s, x)[Len(s) + 1] = x
BY AppendProperties, LenProperties

LEMMA TailAt ==
  ASSUME NEW S, NEW s \in Seq(S), s # <<>>
  PROVE  /\ Tail(s) \in Seq(S) /\ Len(s) \in Nat \ {0} /\ Len(Tail(s)) = Len(s) - 1
         /\ DOMAIN s = 1 .. Len(s) /\ DOMAIN Tail(s) = 1 .. (Len(s) - 1)
         /\ \A k \in DOMAIN Tail(s) : Tail(s)[k] = s[k + 1]
         /\ Head(s) = s[1] /\ Head(s) \in S
<1>1. /\ Tail(s) \in Seq(S) /\ Len(Tail(s)) = Len(s) - 1 /\ Head(s) \in S
      /\ \A k \in 1 .. Len(Tail(s)) : Tail(s)[k] = s[k + 1]
  BY HeadTailProperties
<1>2. Len(s) \in Nat \ {0}
  BY EmptySeq
<1>3. DOMAIN s = 1 .. Len(s) /\ DOMAIN Tail(s) = 1 .. Len(Tail(s))
  BY <1>1, LenProperties
<1>4. Head(s) = s[1]
  OBVIOUS
<1>5. QED
  BY <1>1, <1>2, <1>3, <1>4

(* Reading the oldest message off the pipe reads it off the way.           *)
LEMMA TailOfWay ==
  ASSUME NEW S, NEW s \in Seq(S), s # <<>>, NEW x \in S
  PROVE  /\ Append(Tail(s), x) = Tail(Append(s, x))
         /\ Append(s, x) # <<>> /\ Head(Append(s, x)) = Head(s)
<1>1. /\ Append(s, x) \in Seq(S) /\ Len(Append(s, x)) = Len(s) + 1
      /\ \A k \in DOMAIN s : Append(s, x)[k] = s[k]
      /\ Append(s, x)[Len(s) + 1] = x /\ DOMAIN Append(s, x) = 1 .. (Len(s) + 1)
  BY AppendAt
<1>2. /\ Tail(s) \in Seq(S) /\ Len(s) \in Nat \ {0} /\ Len(Tail(s)) = Len(s) - 1
      /\ DOMAIN s = 1 .. Len(s) /\ DOMAIN Tail(s) = 1 .. (Len(s) - 1)
      /\ \A k \in DOMAIN Tail(s) : Tail(s)[k] = s[k + 1] /\ Head(s) = s[1]
  BY TailAt
<1>3. Append(s, x) # <<>>
  BY <1>1, <1>2, EmptySeq
<1>4. /\ Tail(Append(s, x)) \in Seq(S) /\ Len(Tail(Append(s, x))) = Len(s)
      /\ \A k \in 1 .. Len(s) : Tail(Append(s, x))[k] = Append(s, x)[k + 1]
      /\ Head(Append(s, x)) = Append(s, x)[1]
  <2>1. /\ Tail(Append(s, x)) \in Seq(S)
        /\ Len(Tail(Append(s, x))) = Len(Append(s, x)) - 1
        /\ DOMAIN Tail(Append(s, x)) = 1 .. (Len(Append(s, x)) - 1)
        /\ \A k \in DOMAIN Tail(Append(s, x)) : Tail(Append(s, x))[k] = Append(s, x)[k + 1]
        /\ Head(Append(s, x)) = Append(s, x)[1]
    BY <1>1, <1>3, TailAt
  <2>2. QED
    BY <1>1, <1>2, <2>1
<1>5. /\ Append(Tail(s), x) \in Seq(S) /\ Len(Append(Tail(s), x)) = Len(s)
      /\ \A k \in 1 .. Len(s) - 1 : Append(Tail(s), x)[k] = Tail(s)[k]
      /\ Append(Tail(s), x)[Len(s)] = x
  <2>1. /\ Append(Tail(s), x) \in Seq(S) /\ Len(Append(Tail(s), x)) = Len(Tail(s)) + 1
        /\ \A k \in DOMAIN Tail(s) : Append(Tail(s), x)[k] = Tail(s)[k]
        /\ Append(Tail(s), x)[Len(Tail(s)) + 1] = x
    BY <1>2, AppendAt
  <2>2. QED
    BY <1>2, <2>1
<1>6. \A k \in 1 .. Len(s) : Append(Tail(s), x)[k] = Tail(Append(s, x))[k]
  <2>1. ASSUME NEW k \in 1 .. Len(s) - 1
        PROVE  Append(Tail(s), x)[k] = Tail(Append(s, x))[k]
    <3>1. k \in DOMAIN Tail(s) /\ k + 1 \in DOMAIN s
      BY <1>2
    <3>2. QED
      BY <1>1, <1>2, <1>4, <1>5, <3>1
  <2>2. Append(Tail(s), x)[Len(s)] = Tail(Append(s, x))[Len(s)]
    <3>1. Len(s) \in 1 .. Len(s)
      BY <1>2
    <3>2. Tail(Append(s, x))[Len(s)] = Append(s, x)[Len(s) + 1]
      BY <1>4, <3>1
    <3>3. QED
      BY <1>1, <1>5, <3>2
  <2>3. \A k \in 1 .. Len(s) : k \in 1 .. Len(s) - 1 \/ k = Len(s)
    <3>1. Len(s) \in Nat \ {0}
      BY <1>2
    <3>2. QED
      BY <3>1
  <2>4. QED
    BY <2>1, <2>2, <2>3, Zenon
<1>7. Append(Tail(s), x) = Tail(Append(s, x))
  BY <1>4, <1>5, <1>6, SeqEqual
<1>8. QED
  BY <1>1, <1>2, <1>3, <1>4, <1>7

Kept(way) == {k \in DOMAIN way : way[k].type \in {"UI_NEW_ENTRY", "UI_UPDATE_TABLE"}}

(* A way with the same new devices, in the same order, and no update that  *)
(* was not on it before: what else comes or goes makes no difference.      *)
LEMMA SameDevices ==
  ASSUME NEW v \in Seq(Carried), NEW w \in Seq(Carried),
         NEW D \in Seq(Device), NEW c \in Nat,
         NEW f \in [Kept(w) -> Kept(v)],
         \A k \in Kept(w) : w[k] = v[f[k]],
         \A k \in Kept(v) : v[k].type = "UI_NEW_ENTRY" => \E j \in Kept(w) : f[j] = k,
         \A j, k \in Kept(w) : j < k <=> f[j] < f[k],
         InOrder(v, D, c), UpdatesFollow(v, D, c)
  PROVE  InOrder(w, D, c) /\ UpdatesFollow(w, D, c)
<1> DEFINE New(s) == {k \in DOMAIN s : s[k].type = "UI_NEW_ENTRY"}
<1>1. \A k \in New(w) : k \in Kept(w) /\ f[k] \in New(v)
  BY DEF Kept
<1>2. \A k \in New(v) : \E j \in New(w) : f[j] = k
  BY DEF Kept
<1>3. InOrder(w, D, c)
  <2>1. c <= Len(D)
    BY DEF InOrder
  <2>2. \A n \in c + 1 .. Len(D) : \E k \in New(w) : w[k].data = D[n]
    <3>1. \A n \in c + 1 .. Len(D) : \E k \in New(v) : v[k].data = D[n]
      BY DEF InOrder
    <3>2. QED
      BY <1>1, <1>2, <3>1
  <2>3. \A k \in New(w) : \E n \in c + 1 .. Len(D) : w[k].data = D[n]
    <3>1. \A k \in New(v) : \E n \in c + 1 .. Len(D) : v[k].data = D[n]
      BY DEF InOrder
    <3>2. QED
      BY <1>1, <3>1
  <2>4. \A j, k \in New(w) : \A m, n \in DOMAIN D :
           w[j].data = D[m] /\ w[k].data = D[n] => (j < k <=> m < n)
    <3>1. \A j, k \in New(v) : \A m, n \in DOMAIN D :
             v[j].data = D[m] /\ v[k].data = D[n] => (j < k <=> m < n)
      BY DEF InOrder
    <3>2. QED
      BY <1>1, <3>1
  <2>5. QED
    BY <2>1, <2>2, <2>3, <2>4 DEF InOrder
<1>4. UpdatesFollow(w, D, c)
  <2> SUFFICES ASSUME NEW k \in DOMAIN w, w[k].type = "UI_UPDATE_TABLE",
                      ~ \E n \in 1 .. c : D[n] = w[k].data
               PROVE  \E j \in 1 .. k-1 : w[j] = NewEntry(w[k].data)
    BY DEF UpdatesFollow
  <2>1. k \in Kept(w) /\ f[k] \in DOMAIN v /\ v[f[k]] = w[k]
    BY DEF Kept
  <2>2. PICK i \in 1 .. f[k]-1 : v[i] = NewEntry(w[k].data)
    <3>1. \A h \in DOMAIN v : v[h].type = "UI_UPDATE_TABLE" =>
             \/ \E n \in 1 .. c : D[n] = v[h].data
             \/ \E i \in 1 .. h-1 : v[i] = NewEntry(v[h].data)
      BY DEF UpdatesFollow
    <3>2. \E i \in 1 .. f[k]-1 : v[i] = NewEntry(v[f[k]].data)
      BY <2>1, <3>1
    <3>3. QED
      BY <2>1, <3>2
  <2>3. DOMAIN v = 1 .. Len(v) /\ Len(v) \in Nat /\ DOMAIN w = 1 .. Len(w) /\ Len(w) \in Nat
    BY LenProperties
  <2>4. i \in Kept(v) /\ i < f[k] /\ v[i].type = "UI_NEW_ENTRY"
    BY <2>1, <2>2, <2>3 DEF Kept, NewEntry
  <2>5. PICK j \in Kept(w) : f[j] = i
    BY <2>4
  <2>6. j < k /\ j \in DOMAIN w /\ w[j] = NewEntry(w[k].data)
    BY <2>1, <2>2, <2>4, <2>5 DEF Kept
  <2>7. QED
    BY <2>3, <2>6
<1>5. QED
  BY <1>3, <1>4

Bare(x) == x.type \notin {"UI_NEW_ENTRY", "UI_UPDATE_TABLE"}

(* A message without a device is written behind the pipe's last one, or    *)
(* takes the place of none, or of one that was published.                  *)
LEMMA BareAppended ==
  ASSUME NEW p \in Seq(Carried), NEW m \in Carried, NEW x \in Carried, Bare(x),
         NEW D \in Seq(Device), NEW c \in Nat,
         InOrder(Append(p, m), D, c), UpdatesFollow(Append(p, m), D, c)
  PROVE  /\ InOrder(Append(Append(p, x), m), D, c)
         /\ UpdatesFollow(Append(Append(p, x), m), D, c)
<1> DEFINE v == Append(p, m)
           q == Append(p, x)
           w == Append(q, m)
           L == Len(p)
<1>1. /\ v \in Seq(Carried) /\ L \in Nat /\ DOMAIN p = 1 .. L /\ DOMAIN v = 1 .. (L + 1)
      /\ \A k \in 1 .. L : v[k] = p[k]
      /\ v[L + 1] = m
  BY AppendAt
<1>2. /\ q \in Seq(Carried) /\ Len(q) = L + 1 /\ DOMAIN q = 1 .. (L + 1)
      /\ \A k \in 1 .. L : q[k] = p[k]
      /\ q[L + 1] = x
  BY AppendAt
<1> HIDE DEF q
<1>3. /\ w \in Seq(Carried) /\ DOMAIN w = 1 .. (L + 2)
      /\ \A k \in 1 .. (L + 1) : w[k] = q[k]
      /\ w[L + 2] = m
  <2>1. /\ w \in Seq(Carried) /\ DOMAIN w = 1 .. (Len(q) + 1)
        /\ \A k \in DOMAIN q : w[k] = q[k]
        /\ w[Len(q) + 1] = m
    BY <1>2, AppendAt
  <2>2. QED
    BY <1>1, <1>2, <2>1
<1> HIDE DEF v, w, L
<1> DEFINE f == [k \in Kept(w) |-> IF k = L + 2 THEN L + 1 ELSE k]
<1>4. \A k \in Kept(w) : k \in 1 .. L \/ k = L + 2
  BY <1>1, <1>2, <1>3 DEF Kept, Bare
<1>5. \A k \in Kept(w) : f[k] \in Kept(v) /\ w[k] = v[f[k]]
  BY <1>1, <1>2, <1>3, <1>4 DEF Kept
<1>6. f \in [Kept(w) -> Kept(v)]
  BY <1>5
<1>7. \A k \in Kept(v) : \E j \in Kept(w) : f[j] = k
  <2>1. ASSUME NEW k \in Kept(v), k \in 1 .. L
        PROVE  k \in Kept(w) /\ f[k] = k
    BY <1>1, <1>2, <1>3, <2>1 DEF Kept
  <2>2. ASSUME NEW k \in Kept(v), k = L + 1
        PROVE  L + 2 \in Kept(w) /\ f[L + 2] = k
    BY <1>1, <1>2, <1>3, <2>2 DEF Kept
  <2>3. \A k \in Kept(v) : k \in 1 .. L \/ k = L + 1
    BY <1>1 DEF Kept
  <2>4. QED
    BY <2>1, <2>2, <2>3
<1>8. ASSUME NEW j \in Kept(w), NEW k \in Kept(w)
      PROVE  j < k <=> f[j] < f[k]
  <2>1. /\ (j \in 1 .. L /\ f[j] = j) \/ (j = L + 2 /\ f[j] = L + 1)
        /\ (k \in 1 .. L /\ f[k] = k) \/ (k = L + 2 /\ f[k] = L + 1)
    BY <1>1, <1>4
  <2>2. L \in Nat
    BY <1>1
  <2> HIDE DEF f
  <2>3. QED
    BY <2>1, <2>2
<1>9. InOrder(v, D, c) /\ UpdatesFollow(v, D, c)
  BY DEF v
<1> HIDE DEF f
<1>10. InOrder(w, D, c) /\ UpdatesFollow(w, D, c)
  BY <1>1, <1>3, <1>5, <1>6, <1>7, <1>8, <1>9, SameDevices
<1>11. QED
  BY <1>10 DEF w, q

(* ... and the message about to be published changes from one without a    *)
(* device to another.                                                      *)
LEMMA BareReplaced ==
  ASSUME NEW p \in Seq(Carried), NEW x \in Carried, Bare(x), NEW y \in Carried, Bare(y),
         NEW D \in Seq(Device), NEW c \in Nat,
         InOrder(Append(p, x), D, c), UpdatesFollow(Append(p, x), D, c)
  PROVE  InOrder(Append(p, y), D, c) /\ UpdatesFollow(Append(p, y), D, c)
<1> DEFINE v == Append(p, x)
           w == Append(p, y)
           L == Len(p)
<1>1. /\ v \in Seq(Carried) /\ L \in Nat /\ DOMAIN v = 1 .. (L + 1)
      /\ \A k \in 1 .. L : v[k] = p[k]
      /\ v[L + 1] = x
  BY AppendAt
<1>2. /\ w \in Seq(Carried) /\ DOMAIN w = 1 .. (L + 1)
      /\ \A k \in 1 .. L : w[k] = p[k]
      /\ w[L + 1] = y
  BY AppendAt
<1>3. InOrder(v, D, c) /\ UpdatesFollow(v, D, c)
  OBVIOUS
<1> HIDE DEF v, w, L
<1>4. \A k \in Kept(w) : k \in Kept(v) /\ w[k] = v[k]
  BY <1>1, <1>2 DEF Kept, Bare
<1>5. \A k \in Kept(v) : k \in Kept(w)
  BY <1>1, <1>2 DEF Kept, Bare
<1> DEFINE f == [k \in Kept(w) |-> k]
<1>6. /\ f \in [Kept(w) -> Kept(v)]
      /\ \A k \in Kept(w) : w[k] = v[f[k]]
      /\ \A k \in Kept(v) : \E j \in Kept(w) : f[j] = k
      /\ \A j, k \in Kept(w) : j < k <=> f[j] < f[k]
  BY <1>4, <1>5
<1> HIDE DEF f
<1>7. InOrder(w, D, c) /\ UpdatesFollow(w, D, c)
  BY <1>1, <1>2, <1>3, <1>6, SameDevices
<1>8. QED
  BY <1>7 DEF w

(* ... and is gone once it is in the pipe.                                 *)
LEMMA BareLast ==
  ASSUME NEW v \in Seq(Carried), NEW x \in Carried, Bare(x),
         NEW D \in Seq(Device), NEW c \in Nat,
         InOrder(v, D, c), UpdatesFollow(v, D, c)
  PROVE  InOrder(Append(v, x), D, c) /\ UpdatesFollow(Append(v, x), D, c)
<1> DEFINE w == Append(v, x)
           L == Len(v)
<1>1. /\ w \in Seq(Carried) /\ L \in Nat /\ DOMAIN v = 1 .. L /\ DOMAIN w = 1 .. (L + 1)
      /\ \A k \in 1 .. L : w[k] = v[k]
      /\ w[L + 1] = x
  BY AppendAt
<1> HIDE DEF w, L
<1>2. \A k \in Kept(w) : k \in Kept(v) /\ w[k] = v[k]
  BY <1>1 DEF Kept, Bare
<1>3. \A k \in Kept(v) : k \in Kept(w)
  BY <1>1 DEF Kept, Bare
<1> DEFINE f == [k \in Kept(w) |-> k]
<1>4. /\ f \in [Kept(w) -> Kept(v)]
      /\ \A k \in Kept(w) : w[k] = v[f[k]]
      /\ \A k \in Kept(v) : \E j \in Kept(w) : f[j] = k
      /\ \A j, k \in Kept(w) : j < k <=> f[j] < f[k]
  BY <1>2, <1>3
<1> HIDE DEF f
<1>5. InOrder(w, D, c) /\ UpdatesFollow(w, D, c)
  BY <1>1, <1>4, SameDevices
<1>6. QED
  BY <1>5 DEF w

(* A message that is read and announces no new device.                     *)
LEMMA OldRead ==
  ASSUME NEW v \in Seq(Carried), v # <<>>, Head(v).type # "UI_NEW_ENTRY",
         NEW D \in Seq(Device), NEW c \in Nat,
         InOrder(v, D, c), UpdatesFollow(v, D, c)
  PROVE  InOrder(Tail(v), D, c) /\ UpdatesFollow(Tail(v), D, c)
<1> DEFINE w == Tail(v)
           L == Len(v)
<1>1. /\ w \in Seq(Carried) /\ L \in Nat \ {0}
      /\ DOMAIN v = 1 .. L /\ DOMAIN w = 1 .. (L - 1)
      /\ \A k \in 1 .. (L - 1) : w[k] = v[k + 1]
      /\ v[1].type # "UI_NEW_ENTRY"
  BY TailAt
<1> HIDE DEF w, L
<1> DEFINE f == [k \in Kept(w) |-> k + 1]
<1>2. \A k \in Kept(w) : k \in 1 .. (L - 1) /\ k + 1 \in Kept(v) /\ w[k] = v[k + 1]
  BY <1>1 DEF Kept
<1>3. f \in [Kept(w) -> Kept(v)] /\ \A k \in Kept(w) : w[k] = v[f[k]]
  BY <1>2
<1>4. ASSUME NEW k \in Kept(v), v[k].type = "UI_NEW_ENTRY"
      PROVE  \E j \in Kept(w) : f[j] = k
  <2>1. k \in 1 .. L /\ k # 1
    BY <1>1, <1>4 DEF Kept
  <2>2. k - 1 \in 1 .. (L - 1) /\ (k - 1) + 1 = k
    BY <1>1, <2>1
  <2>3. k - 1 \in Kept(w)
    BY <1>1, <1>4, <2>2 DEF Kept
  <2>4. QED
    BY <2>2, <2>3
<1>5. \A j, k \in Kept(w) : j < k <=> f[j] < f[k]
  BY <1>1, <1>2
<1> HIDE DEF f
<1>6. InOrder(w, D, c) /\ UpdatesFollow(w, D, c)
  BY <1>1, <1>3, <1>4, <1>5, SameDevices
<1>7. QED
  BY <1>6 DEF w

(* The device just discovered goes last.                                   *)
LEMMA NewAnnounced ==
  ASSUME NEW p \in Seq(Carried), NEW x \in Carried, Bare(x),
         NEW D \in Seq(Device), NEW c \in Nat, NEW d \in Device, d \notin Range(D),
         InOrder(Append(p, x), D, c), UpdatesFollow(Append(p, x), D, c)
  PROVE  /\ InOrder(Append(p, NewEntry(d)), Append(D, d), c)
         /\ UpdatesFollow(Append(p, NewEntry(d)), Append(D, d), c)
<1> DEFINE v == Append(p, x)
           w == Append(p, NewEntry(d))
           E == Append(D, d)
           L == Len(p)
           N == Len(D)
           New(s) == {k \in DOMAIN s : s[k].type = "UI_NEW_ENTRY"}
<1>1. /\ L \in Nat /\ DOMAIN v = 1 .. (L + 1)
      /\ \A k \in 1 .. L : v[k] = p[k]
      /\ v[L + 1] = x
  BY AppendAt
<1>2. /\ DOMAIN w = 1 .. (L + 1)
      /\ \A k \in 1 .. L : w[k] = p[k]
      /\ w[L + 1].type = "UI_NEW_ENTRY" /\ w[L + 1].data = d
  <2>1. NewEntry(d) \in Carried /\ NewEntry(d).type = "UI_NEW_ENTRY" /\ NewEntry(d).data = d
    BY MessageFields DEF Carried
  <2>2. QED
    BY <2>1, AppendAt
<1>3. /\ N \in Nat /\ DOMAIN D = 1 .. N /\ DOMAIN E = 1 .. (N + 1) /\ Len(E) = N + 1
      /\ \A n \in 1 .. N : E[n] = D[n]
      /\ E[N + 1] = d
  BY AppendAt
<1>4. InOrder(v, D, c) /\ UpdatesFollow(v, D, c)
  OBVIOUS
<1> HIDE DEF v, w, E, L, N
<1>5. \A k \in New(v) : k \in 1 .. L /\ k \in New(w) /\ w[k] = v[k]
  BY <1>1, <1>2 DEF Bare
<1>6. \A k \in New(w) : (k \in 1 .. L /\ k \in New(v) /\ w[k] = v[k]) \/ k = L + 1
  BY <1>1, <1>2
<1>7. /\ c <= N
      /\ \A n \in c + 1 .. N : \E k \in New(v) : v[k].data = D[n]
      /\ \A k \in New(v) : \E n \in c + 1 .. N : v[k].data = D[n]
      /\ \A j, k \in New(v) : \A m, n \in 1 .. N :
           v[j].data = D[m] /\ v[k].data = D[n] => (j < k <=> m < n)
  BY <1>3, <1>4 DEF InOrder, N
<1>8. \A n \in 1 .. N : D[n] # d
  BY <1>3 DEF Range
<1>9. \A k \in New(v) : v[k].data # d
  BY <1>3, <1>7, <1>8
<1> HIDE DEF New
<1>10. \A n \in c + 1 .. Len(E) : \E k \in New(w) : w[k].data = E[n]
  <2> SUFFICES ASSUME NEW n \in c + 1 .. N + 1
               PROVE  \E k \in New(w) : w[k].data = E[n]
    BY <1>3
  <2>1. CASE n = N + 1
    <3>1. L + 1 \in New(w)
      BY <1>1, <1>2 DEF New
    <3>2. QED
      BY <1>2, <1>3, <2>1, <3>1
  <2>2. CASE n \in c + 1 .. N
    <3>1. PICK k \in New(v) : v[k].data = D[n]
      BY <1>7, <2>2
    <3>2. E[n] = D[n]
      BY <1>3, <2>2
    <3>3. QED
      BY <1>5, <3>1, <3>2
  <2>3. QED
    BY <1>3, <2>1, <2>2
<1>11. \A k \in New(w) : \E n \in c + 1 .. Len(E) : w[k].data = E[n]
  <2> SUFFICES ASSUME NEW k \in New(w)
               PROVE  \E n \in c + 1 .. N + 1 : w[k].data = E[n]
    BY <1>3
  <2>1. CASE k = L + 1
    BY <1>2, <1>3, <1>7, <2>1
  <2>2. CASE k \in New(v) /\ w[k] = v[k]
    <3>1. PICK n \in c + 1 .. N : v[k].data = D[n]
      BY <1>7, <2>2
    <3>2. n \in 1 .. N /\ n \in c + 1 .. N + 1
      BY <1>3, <1>7
    <3>3. QED
      BY <1>3, <2>2, <3>1, <3>2
  <2>3. QED
    BY <1>6, <2>1, <2>2
<1>12. ASSUME NEW j \in New(w), NEW k \in New(w),
              NEW m \in 1 .. N + 1, NEW n \in 1 .. N + 1,
              w[j].data = E[m], w[k].data = E[n]
       PROVE  j < k <=> m < n
  <2>1. /\ (m \in 1 .. N /\ E[m] = D[m] /\ E[m] # d) \/ (m = N + 1 /\ E[m] = d)
        /\ (n \in 1 .. N /\ E[n] = D[n] /\ E[n] # d) \/ (n = N + 1 /\ E[n] = d)
    BY <1>3, <1>8
  <2>2. /\ (j \in 1 .. L /\ j \in New(v) /\ w[j] = v[j] /\ w[j].data # d)
           \/ (j = L + 1 /\ w[j].data = d)
        /\ (k \in 1 .. L /\ k \in New(v) /\ w[k] = v[k] /\ w[k].data # d)
           \/ (k = L + 1 /\ w[k].data = d)
    BY <1>2, <1>6, <1>9
  <2>3. CASE j \in New(v) /\ k \in New(v)
    <3>1. m \in 1 .. N /\ n \in 1 .. N /\ v[j].data = D[m] /\ v[k].data = D[n]
      BY <1>5, <1>9, <1>12, <2>1, <2>3
    <3>2. QED
      BY <1>7, <2>3, <3>1
  <2>4. CASE j = L + 1 \/ k = L + 1
    <3>1. /\ (j \in 1 .. L /\ m \in 1 .. N) \/ (j = L + 1 /\ m = N + 1)
          /\ (k \in 1 .. L /\ n \in 1 .. N) \/ (k = L + 1 /\ n = N + 1)
      BY <1>12, <2>1, <2>2
    <3>2. L \in Nat /\ N \in Nat
      BY <1>1, <1>3
    <3>3. QED
      BY <2>4, <3>1, <3>2
  <2>5. QED
    BY <2>2, <2>3, <2>4
<1>13. InOrder(w, E, c)
  <2>1. c <= Len(E) /\ DOMAIN E = 1 .. N + 1
    BY <1>3, <1>7
  <2>2. QED
    BY <1>10, <1>11, <1>12, <2>1 DEF InOrder, New
<1>14. UpdatesFollow(w, E, c)
  <2> SUFFICES ASSUME NEW k \in DOMAIN w, w[k].type = "UI_UPDATE_TABLE"
               PROVE  \/ \E n \in 1 .. c : E[n] = w[k].data
                      \/ \E j \in 1 .. k-1 : w[j] = NewEntry(w[k].data)
    BY DEF UpdatesFollow
  <2>1. k \in 1 .. L /\ k \in DOMAIN v /\ w[k] = v[k]
    BY <1>1, <1>2
  <2>2. \/ \E n \in 1 .. c : D[n] = w[k].data
        \/ \E j \in 1 .. k-1 : v[j] = NewEntry(w[k].data)
    BY <1>4, <2>1 DEF UpdatesFollow
  <2>3. \A n \in 1 .. c : E[n] = D[n]
    BY <1>3, <1>7
  <2>4. \A j \in 1 .. k-1 : w[j] = v[j]
    BY <1>1, <1>2, <2>1
  <2>5. QED
    BY <2>2, <2>3, <2>4
<1>15. QED
  BY <1>13, <1>14 DEF w, E

(* The update of a device that was discovered follows its UI_NEW_ENTRY.    *)
LEMMA UpdateAnnounced ==
  ASSUME NEW p \in Seq(Carried), NEW x \in Carried, Bare(x),
         NEW D \in Seq(Device), NEW c \in Nat, NEW d \in Range(D),
         InOrder(Append(p, x), D, c), UpdatesFollow(Append(p, x), D, c)
  PROVE  InOrder(Append(p, Update(d)), D, c) /\ UpdatesFollow(Append(p, Update(d)), D, c)
<1> DEFINE v == Append(p, x)
           w == Append(p, Update(d))
           L == Len(p)
           New(s) == {k \in DOMAIN s : s[k].type = "UI_NEW_ENTRY"}
<1>0. /\ d \in Device /\ DOMAIN D = 1 .. Len(D) /\ Len(D) \in Nat
      /\ Update(d) \in Carried /\ Update(d).type = "UI_UPDATE_TABLE" /\ Update(d).data = d
  <2>1. DOMAIN D = 1 .. Len(D) /\ Len(D) \in Nat /\ D \in [1 .. Len(D) -> Device]
    BY LenProperties
  <2>2. d \in Device
    BY <2>1 DEF Range
  <2>3. QED
    BY <2>1, <2>2, MessageFields DEF Carried
<1>1. /\ v \in Seq(Carried) /\ L \in Nat /\ DOMAIN v = 1 .. (L + 1)
      /\ \A k \in 1 .. L : v[k] = p[k]
      /\ v[L + 1] = x
  BY AppendAt
<1>2. /\ DOMAIN w = 1 .. (L + 1)
      /\ \A k \in 1 .. L : w[k] = p[k]
      /\ w[L + 1] = Update(d)
  BY <1>0, AppendAt
<1>3. InOrder(v, D, c) /\ UpdatesFollow(v, D, c)
  OBVIOUS
<1> HIDE DEF v, w, L
<1>4. New(w) = New(v) /\ \A k \in New(v) : k \in 1 .. L /\ w[k] = v[k]
  BY <1>0, <1>1, <1>2 DEF Bare
<1>5. InOrder(w, D, c)
  <2>1. /\ c <= Len(D)
        /\ \A n \in c + 1 .. Len(D) : \E k \in New(v) : v[k].data = D[n]
        /\ \A k \in New(v) : \E n \in c + 1 .. Len(D) : v[k].data = D[n]
        /\ \A j, k \in New(v) : \A m, n \in DOMAIN D :
             v[j].data = D[m] /\ v[k].data = D[n] => (j < k <=> m < n)
    BY <1>3 DEF InOrder
  <2> HIDE DEF New
  <2>2. /\ c <= Len(D)
        /\ \A n \in c + 1 .. Len(D) : \E k \in New(w) : w[k].data = D[n]
        /\ \A k \in New(w) : \E n \in c + 1 .. Len(D) : w[k].data = D[n]
        /\ \A j, k \in New(w) : \A m, n \in DOMAIN D :
             w[j].data = D[m] /\ w[k].data = D[n] => (j < k <=> m < n)
    <3>1. \A k \in New(w) : k \in New(v) /\ w[k] = v[k]
      BY <1>4
    <3>2. \A k \in New(v) : k \in New(w) /\ w[k] = v[k]
      BY <1>4
    <3>3. \A n \in c + 1 .. Len(D) : \E k \in New(w) : w[k].data = D[n]
      BY <2>1, <3>2
    <3>4. \A k \in New(w) : \E n \in c + 1 .. Len(D) : w[k].data = D[n]
      BY <2>1, <3>1
    <3>5. \A j, k \in New(w) : \A m, n \in DOMAIN D :
            w[j].data = D[m] /\ w[k].data = D[n] => (j < k <=> m < n)
      BY <2>1, <3>1
    <3>6. QED
      BY <2>1, <3>3, <3>4, <3>5
  <2>3. QED
    BY <2>2 DEF InOrder, New
<1>6. UpdatesFollow(w, D, c)
  <2> SUFFICES ASSUME NEW k \in DOMAIN w, w[k].type = "UI_UPDATE_TABLE"
               PROVE  \/ \E n \in 1 .. c : D[n] = w[k].data
                      \/ \E j \in 1 .. k-1 : w[j] = NewEntry(w[k].data)
    BY DEF UpdatesFollow
  <2>1. CASE k \in 1 .. L
    <3>1. k \in DOMAIN v /\ w[k] = v[k]
      BY <1>1, <1>2, <2>1
    <3>2. \/ \E n \in 1 .. c : D[n] = v[k].data
          \/ \E j \in 1 .. k-1 : v[j] = NewEntry(v[k].data)
      <4>1. \A h \in DOMAIN v : v[h].type = "UI_UPDATE_TABLE" =>
               \/ \E n \in 1 .. c : D[n] = v[h].data
               \/ \E j \in 1 .. h-1 : v[j] = NewEntry(v[h].data)
        BY <1>3 DEF UpdatesFollow
      <4>2. QED
        BY <3>1, <4>1
    <3>3. ASSUME NEW j \in 1 .. k-1
          PROVE  w[j] = v[j]
      <4>1. L \in Nat
        BY <1>1
      <4>2. j \in 1 .. L
        BY <2>1, <4>1
      <4>3. QED
        BY <1>1, <1>2, <4>2
    <3>4. QED
      BY <3>1, <3>2, <3>3
  <2>2. CASE k = L + 1
    <3>1. PICK n \in 1 .. Len(D) : D[n] = d
      BY <1>0 DEF Range
    <3>2. w[k].data = d
      BY <1>0, <1>2, <2>2
    <3>3. CASE n \in c + 1 .. Len(D)
      <4>1. PICK j \in New(v) : v[j].data = d
        BY <1>3, <3>1, <3>3 DEF InOrder
      <4>2. j \in 1 .. L /\ w[j] = v[j]
        BY <1>4
      <4>3. v[j] \in Carried
        BY <1>1
      <4>4. v[j] = NewEntry(d)
        BY <4>1, <4>3, MessageFields
      <4>5. QED
        BY <1>1, <2>2, <3>2, <4>2, <4>4
    <3>4. QED
      BY <3>1, <3>2, <3>3
  <2>3. QED
    BY <1>1, <1>2, <2>1, <2>2
<1>7. QED
  BY <1>5, <1>6 DEF w

(* The next UI_NEW_ENTRY read is the first device main has not heard of.   *)
LEMMA NewRead ==
  ASSUME NEW v \in Seq(Carried), v # <<>>, Head(v).type = "UI_NEW_ENTRY",
         NEW D \in Seq(Device), NEW c \in Nat,
         InOrder(v, D, c), UpdatesFollow(v, D, c)
  PROVE  /\ c < Len(D) /\ Head(v).data = D[c + 1]
         /\ InOrder(Tail(v), D, c + 1) /\ UpdatesFollow(Tail(v), D, c + 1)
<1> DEFINE w == Tail(v)
           L == Len(v)
           N == Len(D)
           New(s) == {k \in DOMAIN s : s[k].type = "UI_NEW_ENTRY"}
<1>1. /\ L \in Nat \ {0} /\ DOMAIN v = 1 .. L /\ DOMAIN w = 1 .. (L - 1)
      /\ \A k \in 1 .. (L - 1) : w[k] = v[k + 1]
      /\ v[1].type = "UI_NEW_ENTRY" /\ Head(v) = v[1] /\ v[1] \in Carried
  BY TailAt
<1>2. N \in Nat /\ DOMAIN D = 1 .. N
  BY LenProperties
<1>3. /\ c <= N
      /\ \A n \in c + 1 .. N : \E k \in New(v) : v[k].data = D[n]
      /\ \A k \in New(v) : \E n \in c + 1 .. N : v[k].data = D[n]
      /\ \A j, k \in New(v) : \A m, n \in 1 .. N :
           v[j].data = D[m] /\ v[k].data = D[n] => (j < k <=> m < n)
  BY <1>2 DEF InOrder
<1>o. \A j, k \in New(v) : \A m, n \in 1 .. N :
         v[j].data = D[m] /\ v[k].data = D[n] => (j < k <=> m < n)
  BY <1>3
<1>4. UpdatesFollow(v, D, c)
  OBVIOUS
<1> HIDE DEF w, L, N
<1>5. 1 \in New(v) /\ \A k \in New(v) : k \in 1 .. L
  BY <1>1
<1>6. \A k \in New(w) : k \in 1 .. (L - 1) /\ k + 1 \in New(v) /\ w[k] = v[k + 1]
  BY <1>1
<1>7. \A k \in New(v) \ {1} : k - 1 \in New(w) /\ w[k - 1] = v[k]
  <2> SUFFICES ASSUME NEW k \in New(v) \ {1}
               PROVE  k - 1 \in New(w) /\ w[k - 1] = v[k]
    OBVIOUS
  <2>1. k - 1 \in 1 .. (L - 1) /\ (k - 1) + 1 = k
    BY <1>1, <1>5
  <2>2. w[k - 1] = v[k]
    BY <1>1, <2>1
  <2>3. QED
    BY <1>1, <2>1, <2>2
<1> HIDE DEF New
<1>8. PICK a \in c + 1 .. N : v[1].data = D[a]
  BY <1>3, <1>5
<1>9. a = c + 1
  <2> SUFFICES ASSUME a # c + 1
               PROVE  FALSE
    OBVIOUS
  <2>1. c + 1 \in c + 1 .. N /\ c + 1 \in 1 .. N /\ a \in 1 .. N /\ c + 1 < a
    BY <1>2, <1>8
  <2>2. PICK k \in New(v) : v[k].data = D[c + 1]
    BY <1>3, <2>1
  <2>3. k < 1
    BY <1>o, <1>5, <1>8, <2>1, <2>2
  <2>4. QED
    BY <1>1, <1>5, <2>3
<1>10. c + 1 \in 1 .. N /\ v[1].data = D[c + 1]
  BY <1>2, <1>8, <1>9
<1>11. \A n \in c + 2 .. N : \E k \in New(w) : w[k].data = D[n]
  <2> SUFFICES ASSUME NEW n \in c + 2 .. N
               PROVE  \E k \in New(w) : w[k].data = D[n]
    OBVIOUS
  <2>1. n \in c + 1 .. N /\ n \in 1 .. N /\ c + 1 < n
    BY <1>2
  <2>2. PICK k \in New(v) : v[k].data = D[n]
    BY <1>3, <2>1
  <2>3. 1 < k
    BY <1>o, <1>5, <1>10, <2>1, <2>2
  <2>4. k - 1 \in New(w) /\ w[k - 1] = v[k]
    BY <1>7, <2>3
  <2>5. QED
    BY <2>2, <2>4
<1>12. \A k \in New(w) : \E n \in c + 2 .. N : w[k].data = D[n]
  <2> SUFFICES ASSUME NEW k \in New(w)
               PROVE  \E n \in c + 2 .. N : w[k].data = D[n]
    OBVIOUS
  <2>1. k \in 1 .. (L - 1) /\ k + 1 \in New(v) /\ w[k] = v[k + 1]
    BY <1>6
  <2>2. PICK n \in c + 1 .. N : v[k + 1].data = D[n]
    <3>1. \A i \in New(v) : \E n \in c + 1 .. N : v[i].data = D[n]
      BY <1>3
    <3>2. QED
      BY <2>1, <3>1
  <2>3. n \in 1 .. N /\ 1 < k + 1
    BY <1>1, <1>2, <2>1
  <2>4. c + 1 < n
    BY <1>o, <1>5, <1>10, <2>1, <2>2, <2>3
  <2>5. QED
    BY <1>2, <2>1, <2>2, <2>4
<1>13. ASSUME NEW j \in New(w), NEW k \in New(w), NEW m \in 1 .. N, NEW n \in 1 .. N,
              w[j].data = D[m], w[k].data = D[n]
       PROVE  j < k <=> m < n
  <2>1. /\ j \in 1 .. (L - 1) /\ j + 1 \in New(v) /\ w[j] = v[j + 1]
        /\ k \in 1 .. (L - 1) /\ k + 1 \in New(v) /\ w[k] = v[k + 1]
    BY <1>6
  <2>2. j + 1 < k + 1 <=> m < n
    BY <1>o, <1>13, <2>1
  <2>3. QED
    BY <1>1, <2>1, <2>2
<1>14. InOrder(w, D, c + 1)
  <2>1. c + 1 <= N /\ (c + 1) + 1 = c + 2
    BY <1>2, <1>10
  <2>2. QED
    BY <1>2, <1>11, <1>12, <1>13, <2>1 DEF InOrder, New, N
<1>15. UpdatesFollow(w, D, c + 1)
  <2> SUFFICES ASSUME NEW k \in DOMAIN w, w[k].type = "UI_UPDATE_TABLE"
               PROVE  \/ \E n \in 1 .. c + 1 : D[n] = w[k].data
                      \/ \E j \in 1 .. k-1 : w[j] = NewEntry(w[k].data)
    BY DEF UpdatesFollow
  <2>1. k \in 1 .. (L - 1) /\ k + 1 \in DOMAIN v /\ w[k] = v[k + 1]
    BY <1>1
  <2>2. \/ \E n \in 1 .. c : D[n] = w[k].data
        \/ \E j \in 1 .. k : v[j] = NewEntry(w[k].data)
    <3>1. \A h \in DOMAIN v : v[h].type = "UI_UPDATE_TABLE" =>
             \/ \E n \in 1 .. c : D[n] = v[h].data
             \/ \E j \in 1 .. h-1 : v[j] = NewEntry(v[h].data)
      BY <1>4 DEF UpdatesFollow
    <3>2. (k + 1) - 1 = k
      BY <1>1, <2>1
    <3>3. QED
      BY <2>1, <3>1, <3>2
  <2>3. CASE \E n \in 1 .. c : D[n] = w[k].data
    BY <2>3
  <2>4. ASSUME NEW j \in 1 .. k, v[j] = NewEntry(w[k].data)
        PROVE  \/ \E n \in 1 .. c + 1 : D[n] = w[k].data
               \/ \E i \in 1 .. k-1 : w[i] = NewEntry(w[k].data)
    <3>1. CASE j = 1
      <4>1. D[c + 1] = w[k].data
        BY <1>10, <2>4, <3>1 DEF NewEntry
      <4>2. QED
        BY <4>1
    <3>2. CASE j # 1
      <4>1. j - 1 \in 1 .. k-1 /\ j - 1 \in 1 .. (L - 1) /\ (j - 1) + 1 = j
        BY <1>1, <2>1, <3>2
      <4>2. w[j - 1] = v[j]
        BY <1>1, <4>1
      <4>3. QED
        BY <2>4, <4>1, <4>2
    <3>3. QED
      BY <3>1, <3>2
  <2>5. QED
    BY <2>2, <2>3, <2>4
<1>16. QED
  BY <1>1, <1>2, <1>10, <1>14, <1>15 DEF w, N

LEMMA NewDataOne ==
  ASSUME NEW x
  PROVE  NewData(<<x>>) = IF x.type = "UI_NEW_ENTRY" THEN {x.data} ELSE {}
<1>1. DOMAIN <<x>> = {1} /\ <<x>>[1] = x
  OBVIOUS
<1>2. QED
  BY <1>1 DEF NewData

LEMMA NewDataAppend ==
  ASSUME NEW s \in Seq(Carried), NEW x \in Carried
  PROVE  NewData(Append(s, x)) = NewData(s) \cup NewData(<<x>>)
<1> DEFINE w == Append(s, x)
           New(t) == {k \in DOMAIN t : t[k].type = "UI_NEW_ENTRY"}
<1>1. /\ Len(s) \in Nat /\ DOMAIN s = 1 .. Len(s) /\ DOMAIN w = 1 .. (Len(s) + 1)
      /\ \A k \in DOMAIN s : w[k] = s[k]
      /\ w[Len(s) + 1] = x
  BY AppendAt
<1>2. /\ \A k \in DOMAIN w : k \in DOMAIN s \/ k = Len(s) + 1
      /\ \A k \in DOMAIN s : k \in DOMAIN w
      /\ Len(s) + 1 \in DOMAIN w
  BY <1>1
<1> HIDE DEF w
<1>3. NewData(w) = {w[k].data : k \in New(w)} /\ NewData(s) = {s[k].data : k \in New(s)}
  BY DEF NewData
<1>4. \A k \in New(w) : (k \in New(s) /\ w[k] = s[k]) \/ (w[k] = x /\ x.type = "UI_NEW_ENTRY")
  BY <1>1, <1>2
<1>5. /\ \A k \in New(s) : k \in New(w) /\ w[k] = s[k]
      /\ x.type = "UI_NEW_ENTRY" => Len(s) + 1 \in New(w) /\ w[Len(s) + 1] = x
  BY <1>1, <1>2
<1> HIDE DEF New
<1>6. NewData(w) = NewData(s) \cup NewData(<<x>>)
  <2> DEFINE one == NewData(<<x>>)
  <2>1. \A y : y \in one <=> x.type = "UI_NEW_ENTRY" /\ y = x.data
    BY NewDataOne
  <2> HIDE DEF one
  <2>2. ASSUME NEW y \in NewData(w)
        PROVE  y \in NewData(s) \cup one
    <3>1. PICK k \in New(w) : y = w[k].data
      BY <1>3
    <3>2. QED
      BY <1>3, <1>4, <2>1, <3>1
  <2>3. ASSUME NEW y \in NewData(s) \cup one
        PROVE  y \in NewData(w)
    BY <1>3, <1>5, <2>1
  <2>4. QED
    BY <2>2, <2>3 DEF one
<1>7. QED
  BY <1>6 DEF w

LEMMA CarriedSeq ==
  ASSUME TypeOK
  PROVE  /\ pipe \in Seq(Carried) /\ msg \in Carried
         /\ \A x \in Message : Append(pipe, x) \in Seq(Message) /\ Append(pipe, x) \in Seq(Carried)
         /\ Append(pipe, msg) \in Seq(Carried)
<1>1. Message \subseteq Carried
  BY DEF Carried
<1>2. pipe \in Seq(Message) /\ msg \in Carried
  BY DEF TypeOK, Carried
<1>3. pipe \in Seq(Carried)
  BY <1>1, <1>2, SeqMonotonic
<1>4. \A x \in Message : Append(pipe, x) \in Seq(Message)
  BY <1>2, AppendProperties
<1>5. \A x \in Carried : Append(pipe, x) \in Seq(Carried)
  BY <1>3, AppendProperties
<1>6. QED
  BY <1>1, <1>2, <1>3, <1>4, <1>5

LEMMA TypeNext == TypeOK /\ Phases /\ [Next]_vars => TypeOK' /\ Phases'
<1> SUFFICES ASSUME TypeOK, Phases, [Next]_vars
             PROVE  TypeOK' /\ Phases'
  OBVIOUS
<1> USE DEF TypeOK, Phases, netVars, mainVars, bus, table, records
<1>1. ASSUME NEW m \in Mac, NEW d \in Device, FrameOfNewDevice(m, d)
      PROVE  TypeOK' /\ Phases'
  <2>1. NewEntry(d) \in Message /\ NewEntry(d) # NoMsg
    BY MessageFields
  <2>2. Append(discovered, d) \in Seq(Device)
    BY AppendProperties
  <2>3. [mac |-> m, device |-> d] \in [mac : Mac, device : Device]
    OBVIOUS
  <2>4. QED
    BY <1>1, <2>1, <2>2, <2>3 DEF FrameOfNewDevice
<1>2. ASSUME NEW m \in Mac, NEW d \in Device, FrameOfKnownDevice(m, d)
      PROVE  TypeOK' /\ Phases'
  <2>1. PICK e \in registry : msg' = Update(e.device)
    BY <1>2 DEF FrameOfKnownDevice, Announced
  <2>2. msg' \in Message /\ msg' # NoMsg
    BY <2>1, MessageFields
  <2>3. QED
    BY <1>2, <2>2 DEF FrameOfKnownDevice, Afterwards
<1>3. CASE TimerTick
  BY <1>3, MessageFields DEF TimerTick
<1>4. CASE NetWait \/ NetBatchEnds \/ NetLeaves
  BY <1>4 DEF NetWait, NetBatchEnds, NetLeaves
<1>5. ASSUME NEW ds \in SUBSET Device, NetFail(ds)
      PROVE  TypeOK' /\ Phases'
  BY <1>5 DEF NetFail
<1>6. ASSUME NEW x \in Message, Write(x)
      PROVE  pipe' \in Seq(Message) /\ Len(pipe') <= PipeCap
  BY <1>6, AppendProperties, DeviceFlowAssumption DEF Write
<1>7. CASE NetPublish
  <2>1. msg \in Message
    BY <1>7 DEF NetPublish
  <2>2. QED
    BY <1>6, <1>7, <2>1 DEF NetPublish
<1>8. CASE Signal
  <2>1. CASE SigPublish
    BY <1>6, <2>1, MessageFields DEF SigPublish
  <2>2. CASE SigWinch \/ SigRequestMain \/ SigRequestNetwork
    BY <2>2 DEF SigWinch, SigRequestMain, SigRequestNetwork
  <2>3. QED
    BY <1>8, <2>1, <2>2 DEF Signal
<1>9. ASSUME NEW type, ReadMessage(type)
      PROVE  /\ pipe' \in Seq(Message) /\ Len(pipe') <= PipeCap
             /\ ready' \in SUBSET {"stdin", "bus"}
             /\ Head(pipe) \in Carried /\ Head(pipe).type = type
  <2>1. /\ pipe # <<>> /\ pipe' = Tail(pipe) /\ ready' = ready \ {"bus"}
        /\ Head(pipe).type = type
    BY <1>9 DEF ReadMessage
  <2>2. /\ pipe' \in Seq(Message) /\ Len(pipe') = Len(pipe) - 1 /\ Head(pipe) \in Message
    BY <2>1, HeadTailProperties
  <2>3. Len(pipe') <= PipeCap
    BY <2>2, DeviceFlowAssumption, LenProperties
  <2>4. QED
    BY <2>1, <2>2, <2>3 DEF Carried
<1>10. CASE MainRedraws
  BY <1>9, <1>10 DEF MainRedraws, AfterEvent
<1>11. CASE MainStores \/ MainGrows \/ MainGrowFails
  <2>1. ReadMessage("UI_NEW_ENTRY") /\ Head(pipe) \in Carried /\ Head(pipe).data \in Device
    BY <1>9, <1>11, MessageFields DEF MainStores, MainGrows, MainGrowFails
  <2>2. Append(items, Head(pipe).data) \in Seq(Device)
    BY <2>1, AppendProperties
  <2> DEFINE d == Head(pipe).data
  <2>3. /\ pipe' \in Seq(Message) /\ Len(pipe') <= PipeCap
        /\ ready' \in SUBSET {"stdin", "bus"}
    BY <1>9, <2>1
  <2>4. mainPc = "batch" /\ d \in Device
    BY <2>1 DEF ReadMessage
  <2> HIDE DEF d
  <2>5. CASE MainStores
    BY <2>2, <2>3, <2>4, <2>5 DEF MainStores, AfterEvent, d
  <2>6. CASE MainGrows
    BY <2>2, <2>3, <2>4, <2>6 DEF MainGrows, AfterEvent, d
  <2>7. CASE MainGrowFails
    BY <2>2, <2>3, <2>4, <2>7 DEF MainGrowFails, AfterEvent, d
  <2>8. QED
    BY <1>11, <2>5, <2>6, <2>7
<1>12. CASE MainKey
  <2>1. Stored \subseteq Device
    BY LenProperties DEF Stored, Range
  <2>2. QED
    BY <1>12, <2>1 DEF MainKey, AfterEvent
<1>13. CASE MainWake \/ MainLeaves
  BY <1>13 DEF MainWake, MainLeaves
<1>14. CASE MainCleansUp
  BY <1>14, EmptySeq DEF MainCleansUp, BothJoined
<1>15. CASE UNCHANGED vars
  BY <1>15 DEF vars
<1>16. QED
  BY <1>1, <1>2, <1>3, <1>4, <1>5, <1>7, <1>8, <1>10, <1>11, <1>12, <1>13, <1>14, <1>15
     DEF Next, Network, Main

LEMMA WayNext ==
  TypeOK /\ Phases /\ DiscoveredOnce /\ NothingOvertakes /\ [Next]_vars => NothingOvertakes'
<1> SUFFICES ASSUME TypeOK, Phases, DiscoveredOnce, NothingOvertakes, [Next]_vars
             PROVE  /\ InOrder(Append(pipe', msg'), discovered', viewCount')
                    /\ UpdatesFollow(Append(pipe', msg'), discovered', viewCount')
  BY DEF NothingOvertakes
<1> DEFINE way == Append(pipe, msg)
<1>0. /\ pipe \in Seq(Carried) /\ msg \in Carried /\ way \in Seq(Carried)
      /\ discovered \in Seq(Device) /\ viewCount \in Nat
      /\ InOrder(way, discovered, viewCount) /\ UpdatesFollow(way, discovered, viewCount)
  BY CarriedSeq DEF TypeOK, NothingOvertakes
<1>a. /\ NoMsg \in Carried /\ Tick \in Carried /\ Resize \in Carried
      /\ Bare(NoMsg) /\ Bare(Tick) /\ Bare(Resize)
  BY MessageFields DEF Carried, Bare
<1>b. netPc = "batch" => msg = NoMsg /\ mainPc # "done"
  BY DEF Phases
<1> USE DEF netVars, mainVars, bus, table, records
<1>1. ASSUME NEW m \in Mac, NEW d \in Device, FrameOfNewDevice(m, d)
      PROVE  /\ InOrder(Append(pipe', msg'), discovered', viewCount')
             /\ UpdatesFollow(Append(pipe', msg'), discovered', viewCount')
  <2>1. /\ netPc = "batch" /\ d \notin heap /\ discovered' = Append(discovered, d)
        /\ msg' = NewEntry(d) /\ pipe' = pipe /\ viewCount' = viewCount
    BY <1>1 DEF FrameOfNewDevice
  <2>2. d \notin Range(discovered)
    BY <1>b, <2>1 DEF DiscoveredOnce
  <2>3. QED
    BY <1>0, <1>a, <1>b, <2>1, <2>2, NewAnnounced
<1>2. ASSUME NEW m \in Mac, NEW d \in Device, FrameOfKnownDevice(m, d)
      PROVE  /\ InOrder(Append(pipe', msg'), discovered', viewCount')
             /\ UpdatesFollow(Append(pipe', msg'), discovered', viewCount')
  <2>1. PICK e \in registry : msg' = Update(e.device)
    BY <1>2 DEF FrameOfKnownDevice, Announced
  <2>2. e.device \in Range(discovered)
    BY DEF DiscoveredOnce
  <2>3. netPc = "batch" /\ pipe' = pipe /\ discovered' = discovered /\ viewCount' = viewCount
    BY <1>2 DEF FrameOfKnownDevice
  <2>4. QED
    BY <1>0, <1>a, <1>b, <2>1, <2>2, <2>3, UpdateAnnounced
<1>3. CASE TimerTick
  <2>1. /\ netPc = "batch" /\ msg' = Tick /\ pipe' = pipe
        /\ discovered' = discovered /\ viewCount' = viewCount
    BY <1>3 DEF TimerTick
  <2>2. QED
    BY <1>0, <1>a, <1>b, <2>1, BareReplaced
<1>4. CASE NetPublish
  <2>1. /\ pipe' = Append(pipe, msg) /\ msg' = NoMsg
        /\ discovered' = discovered /\ viewCount' = viewCount
    BY <1>4 DEF NetPublish, Write
  <2>2. QED
    BY <1>0, <1>a, <2>1, BareLast
<1>5. CASE SigPublish
  <2>1. /\ pipe' = Append(pipe, Resize) /\ msg' = msg
        /\ discovered' = discovered /\ viewCount' = viewCount
    BY <1>5 DEF SigPublish, Write
  <2>2. QED
    BY <1>0, <1>a, <2>1, BareAppended
<1>6. ASSUME NEW type, ReadMessage(type)
      PROVE  /\ way # <<>> /\ Head(way) = Head(pipe) /\ Head(pipe).type = type
             /\ Append(pipe', msg) = Tail(way)
  <2>1. pipe # <<>> /\ pipe' = Tail(pipe) /\ Head(pipe).type = type
    BY <1>6 DEF ReadMessage
  <2>2. QED
    BY <1>0, <2>1, TailOfWay
<1>7. CASE MainRedraws
  <2>1. PICK type \in {"UI_UPDATE_TABLE", "UI_RESIZE", "UI_TIMER_TICK"} : ReadMessage(type)
    BY <1>7 DEF MainRedraws
  <2>2. msg' = msg /\ discovered' = discovered /\ viewCount' = viewCount
    BY <1>7 DEF MainRedraws
  <2>3. way # <<>> /\ Head(way).type # "UI_NEW_ENTRY" /\ Append(pipe', msg) = Tail(way)
    BY <1>6, <2>1
  <2> HIDE DEF way
  <2>4. QED
    BY <1>0, <2>2, <2>3, OldRead
<1>8. CASE MainStores \/ MainGrows \/ MainGrowFails
  <2>1. /\ ReadMessage("UI_NEW_ENTRY")
        /\ msg' = msg /\ discovered' = discovered /\ viewCount' = viewCount + 1
    BY <1>8 DEF MainStores, MainGrows, MainGrowFails
  <2>2. way # <<>> /\ Head(way).type = "UI_NEW_ENTRY" /\ Append(pipe', msg) = Tail(way)
    BY <1>6, <2>1
  <2> HIDE DEF way
  <2>3. QED
    BY <1>0, <2>1, <2>2, NewRead
<1>9. CASE UNCHANGED <<pipe, msg, discovered, viewCount>>
  BY <1>0, <1>9
<1>10. CASE NetWait \/ NetBatchEnds \/ NetLeaves \/ SigWinch \/ SigRequestMain \/ SigRequestNetwork
  BY <1>9, <1>10 DEF NetWait, NetBatchEnds, NetLeaves, SigWinch, SigRequestMain, SigRequestNetwork
<1>11. CASE MainKey \/ MainWake \/ MainLeaves \/ MainCleansUp \/ UNCHANGED vars
  BY <1>9, <1>11 DEF MainKey, MainWake, MainLeaves, MainCleansUp, vars
<1>12. ASSUME NEW ds \in SUBSET Device, NetFail(ds)
       PROVE  UNCHANGED <<pipe, msg, discovered, viewCount>>
  BY <1>12 DEF NetFail
<1>13. QED
  BY <1>1, <1>2, <1>3, <1>4, <1>5, <1>7, <1>8, <1>9, <1>10, <1>11, <1>12
     DEF Next, Network, Signal, Main

(* The devices main has not heard of: those the messages announce.         *)
Unheard == {discovered[n] : n \in viewCount + 1 .. Len(discovered)}

LEMMA InFlightIsUnheard == TypeOK /\ NothingOvertakes => InFlight = Unheard
<1> SUFFICES ASSUME TypeOK, NothingOvertakes
             PROVE  InFlight = Unheard
  OBVIOUS
<1> DEFINE way == Append(pipe, msg)
           New == {k \in DOMAIN way : way[k].type = "UI_NEW_ENTRY"}
<1>1. InFlight = NewData(way)
  BY CarriedSeq, NewDataAppend DEF InFlight
<1>2. NewData(way) = {way[k].data : k \in New}
  BY DEF NewData
<1>3. /\ \A n \in viewCount + 1 .. Len(discovered) : \E k \in New : way[k].data = discovered[n]
      /\ \A k \in New : \E n \in viewCount + 1 .. Len(discovered) : way[k].data = discovered[n]
  BY DEF NothingOvertakes, InOrder
<1> HIDE DEF New, way
<1>4. QED
  BY <1>1, <1>2, <1>3 DEF Unheard

LEMMA InFlightIsUnheardNext == (TypeOK /\ NothingOvertakes)' => (InFlight = Unheard)'
BY InFlightIsUnheard, PTL

LEMMA FirstUnheardRead ==
  ASSUME TypeOK, NothingOvertakes, ReadMessage("UI_NEW_ENTRY")
  PROVE  /\ viewCount < Len(discovered)
         /\ Head(pipe).data = discovered[viewCount + 1]
         /\ Head(pipe).data \in Device
<1> DEFINE way == Append(pipe, msg)
<1>1. /\ pipe \in Seq(Carried) /\ msg \in Carried /\ way \in Seq(Carried)
      /\ discovered \in Seq(Device) /\ viewCount \in Nat
      /\ InOrder(way, discovered, viewCount) /\ UpdatesFollow(way, discovered, viewCount)
  BY CarriedSeq DEF TypeOK, NothingOvertakes
<1>2. pipe # <<>> /\ Head(pipe).type = "UI_NEW_ENTRY"
  BY DEF ReadMessage
<1>3. way # <<>> /\ Head(way) = Head(pipe)
  BY <1>1, <1>2, TailOfWay
<1> HIDE DEF way
<1>4. viewCount < Len(discovered) /\ Head(way).data = discovered[viewCount + 1]
  BY <1>1, <1>2, <1>3, NewRead
<1>5. DOMAIN discovered = 1 .. Len(discovered) /\ discovered \in [1 .. Len(discovered) -> Device]
  BY <1>1, LenProperties
<1>6. QED
  BY <1>1, <1>3, <1>4, <1>5

LEMMA OwnerNext ==
  IndInv /\ [Next]_vars => OneOwner' /\ DiscoveredOnce'
<1> SUFFICES ASSUME IndInv, [Next]_vars
             PROVE  OneOwner' /\ DiscoveredOnce'
  OBVIOUS
<1>0. /\ TypeOK /\ OneOwner /\ NothingOvertakes /\ DiscoveredOnce /\ Phases
      /\ TypeOK' /\ NothingOvertakes' /\ Phases'
  BY TypeNext, WayNext DEF IndInv
<1>a. InFlight = Unheard /\ InFlight' = Unheard'
  BY <1>0, InFlightIsUnheard, InFlightIsUnheardNext
<1> DEFINE Rest == Stored \cup lost
           N == Len(discovered)
<1>b. /\ heap = Stored \cup Unheard \cup lost
      /\ Stored \cap Unheard = {} /\ lost \cap (Stored \cup Unheard) = {}
      /\ IsInjective(items)
  BY <1>0, <1>a DEF OneOwner
<1>c. SUFFICES /\ heap' = Stored' \cup Unheard' \cup lost'
               /\ Stored' \cap Unheard' = {} /\ lost' \cap (Stored' \cup Unheard') = {}
               /\ IsInjective(items') /\ DiscoveredOnce'
  BY <1>a DEF OneOwner
<1>d. /\ N \in Nat /\ DOMAIN discovered = 1 .. N /\ viewCount \in Nat /\ viewCount <= N
      /\ discovered \in Seq(Device) /\ items \in Seq(Device)
      /\ \A m, n \in 1 .. N : discovered[m] = discovered[n] => m = n
      /\ mainPc # "done" => Range(discovered) \subseteq heap
      /\ \A e \in registry : e.device \in Range(discovered)
  BY <1>0, LenProperties DEF TypeOK, NothingOvertakes, InOrder, DiscoveredOnce, IsInjective
<1> USE DEF netVars, mainVars, bus, table, records
<1>1. ASSUME NEW m \in Mac, NEW d \in Device, FrameOfNewDevice(m, d)
      PROVE  /\ heap' = Stored' \cup Unheard' \cup lost'
             /\ Stored' \cap Unheard' = {} /\ lost' \cap (Stored' \cup Unheard') = {}
             /\ IsInjective(items') /\ DiscoveredOnce'
  <2>1. /\ netPc = "batch" /\ d \notin heap /\ heap' = heap \cup {d}
        /\ registry' = registry \cup {[mac |-> m, device |-> d]}
        /\ discovered' = Append(discovered, d)
        /\ UNCHANGED <<items, lost, viewCount, mainPc>>
    BY <1>1 DEF FrameOfNewDevice
  <2>2. mainPc # "done"
    BY <1>0, <2>1 DEF Phases
  <2>3. /\ Len(discovered') = N + 1 /\ DOMAIN discovered' = 1 .. (N + 1)
        /\ \A n \in 1 .. N : discovered'[n] = discovered[n]
        /\ discovered'[N + 1] = d
    BY <1>d, <2>1, AppendAt
  <2>4. Range(discovered') = Range(discovered) \cup {d}
    BY <1>d, <2>3 DEF Range
  <2>5. Unheard' = Unheard \cup {d}
    <3>1. Unheard' = {discovered'[n] : n \in viewCount + 1 .. N + 1}
      BY <2>1, <2>3 DEF Unheard
    <3>2. /\ \A n \in viewCount + 1 .. N + 1 :
               (n \in viewCount + 1 .. N /\ discovered'[n] = discovered[n])
               \/ (n = N + 1 /\ discovered'[n] = d)
          /\ \A n \in viewCount + 1 .. N :
               n \in viewCount + 1 .. N + 1 /\ discovered'[n] = discovered[n]
          /\ N + 1 \in viewCount + 1 .. N + 1 /\ discovered'[N + 1] = d
      BY <1>d, <2>3
    <3>3. QED
      BY <3>1, <3>2 DEF Unheard
  <2>6. IsInjective(discovered')
    <3>1. \A n \in 1 .. N : discovered[n] # d
      BY <1>d, <2>1, <2>2 DEF Range
    <3>2. QED
      BY <1>d, <2>3, <3>1 DEF IsInjective
  <2>7. Stored' = Stored
    BY <2>1 DEF Stored
  <2>8. DiscoveredOnce'
    BY <1>d, <2>1, <2>2, <2>4, <2>6 DEF DiscoveredOnce
  <2>9. QED
    BY <1>b, <2>1, <2>5, <2>7, <2>8
<1>2. ASSUME UNCHANGED <<heap, items, lost, discovered, viewCount>>, registry' \subseteq registry,
             mainPc' # "done" => mainPc # "done"
      PROVE  /\ heap' = Stored' \cup Unheard' \cup lost'
             /\ Stored' \cap Unheard' = {} /\ lost' \cap (Stored' \cup Unheard') = {}
             /\ IsInjective(items') /\ DiscoveredOnce'
  <2>1. DiscoveredOnce'
    BY <1>0, <1>2 DEF DiscoveredOnce
  <2>2. QED
    BY <1>b, <1>2, <2>1 DEF Stored, Unheard
<1>3. ASSUME NEW m \in Mac, NEW d \in Device, FrameOfKnownDevice(m, d)
      PROVE  /\ UNCHANGED <<heap, items, lost, discovered, viewCount, mainPc>>
             /\ registry' \subseteq registry
  BY <1>3 DEF FrameOfKnownDevice, Afterwards
<1>4. CASE TimerTick \/ NetWait \/ NetBatchEnds \/ NetPublish \/ NetLeaves \/ Signal
  <2>1. UNCHANGED <<heap, items, lost, discovered, viewCount, mainPc>> /\ registry' \subseteq registry
    BY <1>4 DEF TimerTick, NetWait, NetBatchEnds, NetPublish, NetLeaves, Signal,
                SigWinch, SigPublish, SigRequestMain, SigRequestNetwork
  <2>2. QED
    BY <1>2, <2>1
<1>5. CASE MainRedraws \/ MainKey \/ MainWake \/ MainLeaves \/ UNCHANGED vars
  <2>1. /\ UNCHANGED <<heap, items, lost, discovered, viewCount>> /\ registry' \subseteq registry
        /\ mainPc' # "done" => mainPc # "done"
    BY <1>5 DEF MainRedraws, ReadMessage, MainKey, MainWake, MainLeaves, AfterEvent, vars
  <2>2. QED
    BY <1>2, <2>1
<1>6. ASSUME NEW ds \in SUBSET Device, NetFail(ds)
      PROVE  /\ heap' = Stored' \cup Unheard' \cup lost'
             /\ Stored' \cap Unheard' = {} /\ lost' \cap (Stored' \cup Unheard') = {}
             /\ IsInjective(items') /\ DiscoveredOnce'
  <2>1. /\ ds \cap heap = {} /\ heap' = heap \cup ds /\ lost' = lost \cup ds
        /\ UNCHANGED <<items, discovered, viewCount, registry, mainPc>>
    BY <1>6 DEF NetFail
  <2>2. Stored' = Stored /\ Unheard' = Unheard
    BY <2>1 DEF Stored, Unheard
  <2>3. DiscoveredOnce'
    BY <1>0, <2>1 DEF DiscoveredOnce
  <2>4. QED
    BY <1>b, <2>1, <2>2, <2>3
<1>7. CASE MainStores \/ MainGrows \/ MainGrowFails
  <2> DEFINE d == Head(pipe).data
  <2>1. /\ UNCHANGED <<heap, discovered, registry>> /\ viewCount' = viewCount + 1
        /\ mainPc = "batch" /\ mainPc' # "done"
    BY <1>7 DEF MainStores, MainGrows, MainGrowFails, ReadMessage, AfterEvent
  <2>2. viewCount < N /\ d = discovered[viewCount + 1] /\ d \in Device
    BY <1>0, <1>7, FirstUnheardRead DEF MainStores, MainGrows, MainGrowFails
  <2> HIDE DEF d
  <2>3. Unheard = Unheard' \cup {d} /\ d \notin Unheard'
    <3>1. Unheard' = {discovered[n] : n \in viewCount + 2 .. N}
      <4>1. (viewCount + 1) + 1 = viewCount + 2
        BY <1>d
      <4>2. QED
        BY <2>1, <4>1 DEF Unheard
    <3>2. /\ \A n \in viewCount + 1 .. N : n = viewCount + 1 \/ n \in viewCount + 2 .. N
          /\ \A n \in viewCount + 2 .. N : n \in viewCount + 1 .. N /\ n \in 1 .. N /\ n # viewCount + 1
          /\ viewCount + 1 \in viewCount + 1 .. N /\ viewCount + 1 \in 1 .. N
      BY <1>d, <2>2
    <3>3. d \notin Unheard'
      BY <1>d, <2>2, <3>1, <3>2
    <3>4. QED
      BY <2>2, <3>1, <3>2, <3>3 DEF Unheard
  <2>4. DiscoveredOnce'
    BY <1>0, <2>1 DEF DiscoveredOnce
  <2>5. CASE MainStores \/ MainGrows
    <3>1. items' = Append(items, d) /\ lost' = lost
      BY <2>5 DEF MainStores, MainGrows, d
    <3>2. /\ Len(items) \in Nat /\ DOMAIN items = 1 .. Len(items)
          /\ DOMAIN items' = 1 .. (Len(items) + 1)
          /\ \A k \in DOMAIN items : items'[k] = items[k]
          /\ items'[Len(items) + 1] = d
      BY <1>d, <2>2, <3>1, AppendAt
    <3>3. /\ \A k \in DOMAIN items' : (k \in DOMAIN items /\ items'[k] = items[k])
                                      \/ (k = Len(items) + 1 /\ items'[k] = d)
          /\ \A k \in DOMAIN items : k \in DOMAIN items' /\ items'[k] = items[k]
          /\ Len(items) + 1 \in DOMAIN items'
      BY <3>2
    <3>4. Stored' = Stored \cup {d}
      BY <3>2, <3>3 DEF Stored, Range
    <3>5. \A k \in DOMAIN items : items[k] # d
      BY <1>b, <2>3 DEF Stored, Range
    <3>6. IsInjective(items')
      BY <1>b, <3>3, <3>5 DEF IsInjective
    <3>7. QED
      BY <1>b, <2>1, <2>3, <2>4, <3>1, <3>4, <3>6
  <2>6. CASE MainGrowFails
    <3>1. items' = items /\ lost' = lost \cup {d} /\ Stored' = Stored
      BY <2>6 DEF MainGrowFails, d, Stored
    <3>2. QED
      BY <1>b, <2>1, <2>3, <2>4, <3>1
  <2>7. QED
    BY <1>7, <2>5, <2>6
<1>8. CASE MainCleansUp
  <2>1. CASE mainPc' = "done" /\ heap' = heap \ Stored /\ items' = <<>>
    <3>1. UNCHANGED <<lost, discovered, viewCount, registry>>
      BY <1>8 DEF MainCleansUp
    <3>2. Stored' = {} /\ IsInjective(items')
      BY <2>1 DEF Stored, Range, IsInjective
    <3>3. DiscoveredOnce'
      BY <1>0, <2>1, <3>1 DEF DiscoveredOnce
    <3>4. Unheard' = Unheard
      BY <3>1 DEF Unheard
    <3>5. QED
      BY <1>b, <2>1, <3>1, <3>2, <3>3, <3>4
  <2>2. CASE mainPc' = "undefined" /\ UNCHANGED <<heap, items>>
    BY <1>2, <1>8, <2>2 DEF MainCleansUp
  <2>3. QED
    BY <1>8, <2>1, <2>2 DEF MainCleansUp
<1>9. QED
  BY <1>1, <1>2, <1>3, <1>4, <1>5, <1>6, <1>7, <1>8 DEF Next, Network, Main

LEMMA NoDanglingNext ==
  IndInv /\ [Next]_vars => NoDangling'
<1> SUFFICES ASSUME IndInv, [Next]_vars
             PROVE  NoDangling'
  OBVIOUS
<1>0. /\ TypeOK /\ NoDangling /\ DiscoveredOnce /\ Phases
      /\ OneOwner' /\ DiscoveredOnce' /\ Phases'
  BY TypeNext, OwnerNext DEF IndInv
<1>1. /\ netPc' # "exited" => {e.device : e \in registry'} \subseteq heap'
      /\ Stored' \subseteq heap'
  BY <1>0 DEF OneOwner, DiscoveredOnce, Phases
<1>2. SUFFICES /\ msg'.data \in heap' \cup {NULL}
               /\ InLoop' => /\ \A k \in DOMAIN pipe' : pipe'[k].data \in heap' \cup {NULL}
                             /\ inspected' \in heap' \cup {NULL}
  BY <1>1 DEF NoDangling
<1>3. pipe \in Seq(Message) /\ msg \in Carried /\ NoMsg \in Carried /\ Resize \in Message
  <2>1. pipe \in Seq(Message) /\ msg \in Carried
    BY <1>0 DEF TypeOK, Carried
  <2>2. NoMsg \in Carried /\ Resize \in Message
    BY MessageFields DEF Carried
  <2>3. QED
    BY <2>1, <2>2
<1> DEFINE Safe == heap' \cup {NULL}
<1> USE DEF netVars, mainVars, bus, table, records
<1>4. ASSUME heap \subseteq heap', UNCHANGED <<pipe, inspected>>, InLoop' => InLoop
      PROVE  InLoop' => /\ \A k \in DOMAIN pipe' : pipe'[k].data \in Safe
                        /\ inspected' \in Safe
  BY <1>0, <1>4 DEF NoDangling
<1>5. ASSUME NEW m \in Mac, NEW d \in Device, FrameOfNewDevice(m, d)
      PROVE  msg'.data \in Safe /\ heap \subseteq heap' /\ UNCHANGED <<pipe, inspected, mainPc>>
  BY <1>5, MessageFields DEF FrameOfNewDevice
<1>6. ASSUME NEW m \in Mac, NEW d \in Device, FrameOfKnownDevice(m, d)
      PROVE  msg'.data \in Safe /\ heap \subseteq heap' /\ UNCHANGED <<pipe, inspected, mainPc>>
  <2>1. PICK e \in registry : msg' = Update(e.device)
    BY <1>6 DEF FrameOfKnownDevice, Announced
  <2>2. heap' = heap /\ netPc = "batch" /\ UNCHANGED <<pipe, inspected, mainPc>>
    BY <1>6 DEF FrameOfKnownDevice, Afterwards
  <2>3. e.device \in heap /\ msg'.data = e.device
    BY <1>0, <2>1, <2>2 DEF NoDangling, Update
  <2>4. QED
    BY <2>2, <2>3
<1>7. CASE TimerTick
  <2>1. msg'.data \in Safe /\ heap \subseteq heap' /\ UNCHANGED <<pipe, inspected, mainPc>>
    BY <1>7, MessageFields DEF TimerTick
  <2>2. QED
    BY <1>4, <2>1 DEF InLoop
<1>8. ASSUME NEW x \in Carried, x.data \in Safe, pipe' = Append(pipe, x),
             UNCHANGED <<heap, inspected, mainPc>>
      PROVE  InLoop' => /\ \A k \in DOMAIN pipe' : pipe'[k].data \in Safe
                        /\ inspected' \in Safe
  <2>1. pipe \in Seq(Carried)
    BY <1>0, CarriedSeq
  <2>2. /\ Len(pipe) \in Nat /\ DOMAIN pipe' = 1 .. (Len(pipe) + 1) /\ DOMAIN pipe = 1 .. Len(pipe)
        /\ \A k \in DOMAIN pipe : pipe'[k] = pipe[k]
        /\ pipe'[Len(pipe) + 1] = x
    BY <1>8, <2>1, AppendAt
  <2>3. \A k \in DOMAIN pipe' : k \in DOMAIN pipe \/ k = Len(pipe) + 1
    BY <2>2
  <2>4. QED
    BY <1>0, <1>8, <2>2, <2>3 DEF NoDangling, InLoop
<1>9. CASE NetPublish
  <2>1. /\ pipe' = Append(pipe, msg) /\ msg' = NoMsg /\ UNCHANGED <<heap, inspected, mainPc>>
    BY <1>9 DEF NetPublish, Write
  <2>2. msg.data \in Safe /\ msg'.data \in Safe
    BY <1>0, <2>1, MessageFields DEF NoDangling
  <2>3. QED
    BY <1>3, <1>8, <2>1, <2>2
<1>10. CASE SigPublish
  <2>1. /\ pipe' = Append(pipe, Resize) /\ msg' = msg /\ UNCHANGED <<heap, inspected, mainPc>>
    BY <1>10 DEF SigPublish, Write
  <2>2. Resize.data \in Safe /\ msg'.data \in Safe /\ Resize \in Carried
    BY <1>0, <2>1, MessageFields DEF NoDangling, Carried
  <2>3. QED
    BY <1>8, <2>1, <2>2
<1>11. ASSUME UNCHANGED msg, heap \subseteq heap'
       PROVE  msg'.data \in Safe
  BY <1>0, <1>11 DEF NoDangling
<1>12. CASE NetWait \/ NetBatchEnds \/ NetLeaves \/ SigWinch \/ SigRequestMain \/ SigRequestNetwork
  <2>1. UNCHANGED <<msg, heap, pipe, inspected, mainPc>>
    BY <1>12 DEF NetWait, NetBatchEnds, NetLeaves, SigWinch, SigRequestMain, SigRequestNetwork
  <2>2. QED
    BY <1>4, <1>11, <2>1 DEF InLoop
<1>13. ASSUME NEW ds \in SUBSET Device, NetFail(ds)
       PROVE  heap \subseteq heap' /\ UNCHANGED <<msg, pipe, inspected, mainPc>>
  BY <1>13 DEF NetFail
<1>14. CASE MainRedraws \/ MainStores \/ MainGrows \/ MainGrowFails
  <2>1. /\ UNCHANGED <<msg, heap, inspected>> /\ mainPc = "batch"
        /\ pipe # <<>> /\ pipe' = Tail(pipe)
    BY <1>14 DEF MainRedraws, MainStores, MainGrows, MainGrowFails, ReadMessage
  <2>2. \A k \in DOMAIN pipe' : k + 1 \in DOMAIN pipe /\ pipe'[k] = pipe[k + 1]
    <3>1. /\ Len(pipe) \in Nat /\ DOMAIN pipe = 1 .. Len(pipe)
          /\ DOMAIN pipe' = 1 .. (Len(pipe) - 1)
          /\ \A k \in DOMAIN pipe' : pipe'[k] = pipe[k + 1]
      BY <1>3, <2>1, TailAt
    <3>2. QED
      BY <3>1
  <2>3. QED
    BY <1>0, <1>11, <2>1, <2>2 DEF NoDangling, InLoop
<1>15. CASE MainKey
  <2>1. UNCHANGED <<msg, heap, pipe>> /\ mainPc = "batch"
        /\ inspected' \in {inspected, NULL} \cup Stored
    BY <1>15 DEF MainKey
  <2>2. QED
    BY <1>0, <1>11, <2>1 DEF NoDangling, InLoop
<1>16. CASE MainWake \/ MainLeaves \/ UNCHANGED vars
  <2>1. UNCHANGED <<msg, heap, pipe, inspected>> /\ (InLoop' => InLoop)
    BY <1>16 DEF MainWake, MainLeaves, vars, InLoop
  <2>2. QED
    BY <1>4, <1>11, <2>1
<1>17. CASE MainCleansUp
  <2>1. msg = NoMsg /\ msg' = msg /\ ~InLoop'
    BY <1>0, <1>17 DEF MainCleansUp, BothJoined, Phases, InLoop
  <2>2. QED
    BY <2>1, MessageFields
<1>18. QED
  BY <1>4, <1>5, <1>6, <1>7, <1>9, <1>10, <1>11, <1>12, <1>13, <1>14, <1>15, <1>16, <1>17
     DEF Next, Network, Signal, Main, InLoop

LEMMA IndInvInit == Init => IndInv
<1> SUFFICES ASSUME Init
             PROVE  IndInv
  OBVIOUS
<1>1. TypeOK
  <2>1. pipe \in Seq(Message) /\ Len(pipe) <= PipeCap /\ items \in Seq(Device) /\ discovered \in Seq(Device)
    BY DeviceFlowAssumption DEF Init
  <2>2. size \in Nat \ {0} /\ allocated \in Nat \ {0} /\ viewCount \in Nat
    BY DeviceFlowAssumption DEF Init
  <2>3. QED
    BY <2>1, <2>2 DEF Init, TypeOK
<1>2. NoDangling /\ DiscoveredOnce /\ Phases
  BY MessageFields DEF Init, NoDangling, Stored, Range, DiscoveredOnce, IsInjective, Phases
<1>3. NothingOvertakes
  <2>1. Append(pipe, msg) = <<NoMsg>>
    BY DEF Init
  <2>2. \A k \in DOMAIN <<NoMsg>> : <<NoMsg>>[k].type \notin {"UI_NEW_ENTRY", "UI_UPDATE_TABLE"}
    BY DEF NoMsg
  <2>3. \A k \in DOMAIN Append(pipe, msg) :
           Append(pipe, msg)[k].type \notin {"UI_NEW_ENTRY", "UI_UPDATE_TABLE"}
    BY <2>1, <2>2
  <2>4. viewCount = 0 /\ discovered = <<>> /\ Len(discovered) = 0
    BY DEF Init
  <2>5. QED
    BY <2>3, <2>4 DEF NothingOvertakes, InOrder, UpdatesFollow
<1>4. OneOwner
  <2>1. InFlight = Unheard
    BY <1>1, <1>3, InFlightIsUnheard
  <2>2. Unheard = {}
    BY DEF Init, Unheard
  <2>3. QED
    BY <2>1, <2>2 DEF Init, OneOwner, Stored, Range, IsInjective
<1>5. QED
  BY <1>1, <1>2, <1>3, <1>4 DEF IndInv

LEMMA IndInvNext == IndInv /\ [Next]_vars => IndInv'
BY TypeNext, WayNext, OwnerNext, NoDanglingNext DEF IndInv

(* The values the variables have, for any number of devices, whenever      *)
(* memory runs out or the program is asked to end.                         *)
THEOREM TypeCorrect == Spec => []TypeOK
<1>1. IndInv => TypeOK
  BY DEF IndInv
<1>2. QED
  BY <1>1, IndInvInit, IndInvNext, PTL DEF Spec

(* No thread follows a pointer to a record that was freed.                 *)
THEOREM NoDanglingCorrect == Spec => []NoDangling
<1>1. IndInv => NoDangling
  BY DEF IndInv
<1>2. QED
  BY <1>1, IndInvInit, IndInvNext, PTL DEF Spec

(* Every record has one owner; none is freed twice, none leaks but those   *)
(* the code is known to forget.                                            *)
THEOREM OneOwnerCorrect == Spec => []OneOwner
<1>1. IndInv => OneOwner
  BY DEF IndInv
<1>2. QED
  BY <1>1, IndInvInit, IndInvNext, PTL DEF Spec

(* Main hears of the devices in the order of discovery, and of a device    *)
(* before any update of it, for any capacity of the pipe.                  *)
THEOREM NothingOvertakesCorrect == Spec => []NothingOvertakes
<1>1. IndInv => NothingOvertakes
  BY DEF IndInv
<1>2. QED
  BY <1>1, IndInvInit, IndInvNext, PTL DEF Spec

LEMMA TableInit == Init => T!Init
BY DEF Init, T!Init

LEMMA TableNext == IndInv /\ [Next]_vars => [T!Next]_(T!vars)
<1> SUFFICES ASSUME IndInv, [Next]_vars
             PROVE  T!Next \/ UNCHANGED T!vars
  OBVIOUS
<1>0. TypeOK /\ NothingOvertakes /\ DiscoveredOnce /\ Phases
  BY DEF IndInv
<1> USE DEF netVars, mainVars, bus, table, records
<1>1. ASSUME NEW m \in Mac, NEW d \in Device, FrameOfNewDevice(m, d)
      PROVE  T!Discover(d)
  <2>1. /\ netPc = "batch" /\ d \notin heap /\ discovered' = Append(discovered, d)
        /\ UNCHANGED <<viewCount, items, mainPc>>
    BY <1>1 DEF FrameOfNewDevice
  <2>2. mainPc # "done" /\ \A k \in DOMAIN discovered : discovered[k] # d
    BY <1>0, <2>1 DEF Phases, DiscoveredOnce, Range
  <2>3. QED
    BY <2>1, <2>2 DEF T!Discover
<1>2. CASE MainStores \/ MainGrows \/ MainGrowFails
  <2>1. /\ viewCount < Len(discovered) /\ Head(pipe).data = discovered[viewCount + 1]
        /\ mainPc = "batch" /\ mainPc' # "done" /\ UNCHANGED discovered
    BY <1>0, <1>2, FirstUnheardRead
       DEF MainStores, MainGrows, MainGrowFails, ReadMessage, AfterEvent
  <2>2. ASSUME MainStores \/ MainGrows
        PROVE  T!Take
    BY <2>1, <2>2 DEF MainStores, MainGrows, T!Take
  <2>3. ASSUME MainGrowFails
        PROVE  T!Drop
    BY <2>1, <2>3 DEF MainGrowFails, T!Drop
  <2>4. QED
    BY <1>2, <2>2, <2>3 DEF T!Next
<1>3. CASE MainCleansUp
  <2>1. CASE mainPc' = "done" /\ items' = <<>>
    BY <1>3, <2>1 DEF MainCleansUp, T!TearDown, T!Next
  <2>2. CASE mainPc' = "undefined" /\ UNCHANGED items
    BY <1>3, <2>2 DEF MainCleansUp, T!vars
  <2>3. QED
    BY <1>3, <2>1, <2>2 DEF MainCleansUp
<1>4. ASSUME NEW m \in Mac, NEW d \in Device, FrameOfKnownDevice(m, d)
      PROVE  UNCHANGED T!vars
  BY <1>4 DEF FrameOfKnownDevice, T!vars
<1>5. ASSUME NEW ds \in SUBSET Device, NetFail(ds)
      PROVE  UNCHANGED T!vars
  BY <1>5 DEF NetFail, T!vars
<1>6. CASE TimerTick \/ NetWait \/ NetBatchEnds \/ NetPublish \/ NetLeaves \/ Signal
  BY <1>6 DEF TimerTick, NetWait, NetBatchEnds, NetPublish, NetLeaves, Signal,
              SigWinch, SigPublish, SigRequestMain, SigRequestNetwork, T!vars
<1>7. CASE MainRedraws \/ MainKey \/ MainWake \/ MainLeaves \/ UNCHANGED vars
  BY <1>7 DEF MainRedraws, ReadMessage, MainKey, MainWake, MainLeaves, AfterEvent, vars, T!vars
<1>8. QED
  BY <1>1, <1>2, <1>3, <1>4, <1>5, <1>6, <1>7 DEF Next, Network, Main, T!Next

(* The way of a device from the registry through the pipe to the table     *)
(* implements the table the user is promised.                              *)
THEOREM ImplementsTableCorrect == Spec => ImplementsTable
<1>1. QED
  BY IndInvInit, IndInvNext, TableInit, TableNext, PTL DEF Spec, ImplementsTable, T!Spec
=============================================================================
