-------------------------- MODULE BindUpdateProofs --------------------------
(***************************************************************************)
(* Proofs about BindUpdate, for any interfaces, descriptors and queue.     *)
(***************************************************************************)
EXTENDS BindUpdate, SequenceTheorems, TLAPS

LEMMA IndInvInit == Init => IndInv
BY DEF Init, IndInv, DefinedInService, MutexHeld, InService, Pending, InitLoc

LEMMA IndInvNext == IndInv /\ [Next]_vars => IndInv'
<1> SUFFICES ASSUME IndInv, [Next]_vars
             PROVE  IndInv'
  OBVIOUS
<1> USE BindUpdateAssumption
    DEF IndInv, DefinedInService, MutexHeld, InService, Pending, InitLoc,
        Net, mainVars, shared, socket, flags
<1>1. CASE defined /\ SocketInit
  <2>1. CASE RawSocketCreate
    <3>1. CASE OpenSocket("socket", "eventfd")
      BY <1>1, <3>1 DEF OpenSocket
    <3>2. CASE Fail("socket")
      BY <1>1, <3>2 DEF Fail
    <3>3. QED
      BY <2>1, <3>1, <3>2 DEF RawSocketCreate
  <2>2. CASE CreateBindFd
    BY <1>1, <2>2 DEF CreateBindFd
  <2>3. CASE MutexInit
    BY <1>1, <2>3 DEF MutexInit
  <2>4. CASE StoreAll
    BY <1>1, <2>4 DEF StoreAll, StoreBound
  <2>5. CASE BindInitial
    <3>1. CASE Bind("bind_initial", "store_initial", Initial)
      BY <1>1, <3>1 DEF Bind
    <3>2. CASE Fail("bind_initial")
      BY <1>1, <3>2 DEF Fail
    <3>3. QED
      BY <2>5, <3>1, <3>2 DEF BindInitial
  <2>6. CASE StoreInitial
    BY <1>1, <2>6 DEF StoreInitial, StoreBound
  <2>7. CASE RegisterAll
    <3>1. CASE Register("register", "loop")
      BY <1>1, <3>1 DEF Register
    <3>2. CASE Fail("register")
      BY <1>1, <3>2 DEF Fail
    <3>3. QED
      BY <2>7, <3>1, <3>2 DEF RegisterAll
  <2>8. QED
    BY <1>1, <2>1, <2>2, <2>3, <2>4, <2>5, <2>6, <2>7 DEF SocketInit
<1>2. CASE defined /\ ChangeBind
  <2>1. CASE CloseOld
    BY <1>2, <2>1 DEF CloseOld
  <2>2. CASE OpenNew
    <3>1. CASE OpenSocket("open", "lock")
      BY <1>2, <3>1 DEF OpenSocket
    <3>2. CASE Fail("open")
      BY <1>2, <3>2 DEF Fail
    <3>3. QED
      BY <2>2, <3>1, <3>2 DEF OpenNew
  <2>3. CASE LockBound
    BY <1>2, <2>3 DEF LockBound
  <2>4. CASE BoundToAll
    BY <1>2, <2>4 DEF BoundToAll
  <2>5. CASE ReadBound
    BY <1>2, <2>5 DEF ReadBound
  <2>6. CASE BindNew
    <3>1. CASE Bind("bind", "register_new", target)
      BY <1>2, <3>1 DEF Bind
    <3>2. CASE Fail("bind")
      BY <1>2, <3>2 DEF Fail
    <3>3. QED
      BY <2>6, <3>1, <3>2 DEF BindNew
  <2>7. CASE RegisterNew
    BY <1>2, <2>7 DEF RegisterNew, Register
  <2>8. QED
    BY <1>2, <2>1, <2>2, <2>3, <2>4, <2>5, <2>6, <2>7 DEF ChangeBind
<1>3. CASE defined /\ (NetLoop \/ NetWait \/ HandleFrame \/ HandlerFails \/ SkipEvent \/ BatchEnds)
  <2>1. CASE NetLoop
    BY <1>3, <2>1 DEF NetLoop
  <2>2. CASE NetWait
    BY <1>3, <2>2 DEF NetWait
  <2>3. CASE HandleFrame
    BY <1>3, <2>3 DEF HandleFrame
  <2>4. CASE SkipEvent
    BY <1>3, <2>4 DEF SkipEvent
  <2>5. CASE BatchEnds
    BY <1>3, <2>5 DEF BatchEnds
  <2>6. CASE HandlerFails
    BY <1>3, <2>6 DEF HandlerFails, Fail
  <2>7. QED
    BY <1>3, <2>1, <2>2, <2>3, <2>4, <2>5, <2>6
<1>4. CASE defined /\ HandleBindUpdate
  BY <1>4 DEF HandleBindUpdate
<1>5. CASE defined /\ (FreeName \/ DestroyMutex)
  <2>1. CASE FreeName
    BY <1>5, <2>1 DEF FreeName
  <2>2. CASE DestroyMutex
    BY <1>5, <2>2 DEF DestroyMutex
  <2>3. QED
    BY <1>5, <2>1, <2>2
<1>6. CASE defined /\ MainStep
  <2> USE DEF Main
  <2>1. CASE MainLoop
    BY <1>6, <2>1 DEF MainLoop
  <2>6. CASE MainBatchEnds
    BY <1>6, <2>6 DEF MainBatchEnds
  <2>7. CASE MainJoins
    BY <1>6, <2>7 DEF MainJoins
  <2>2. CASE MainLocks
    BY <1>6, <2>2 DEF MainLocks, LocksBound
  <2>8. CASE MainLocksToLook
    BY <1>6, <2>8 DEF MainLocksToLook, LocksBound
  <2>9. CASE MainReads
    BY <1>6, <2>9 DEF MainReads
  <2>3. CASE MainStores
    BY <1>6, <2>3 DEF MainStores
  <2>4. CASE MainNotifies
    BY <1>6, <2>4 DEF MainNotifies
  <2>5. QED
    BY <1>6, <2>1, <2>2, <2>3, <2>4, <2>6, <2>7, <2>8, <2>9 DEF MainStep
<1>7. CASE defined /\ Outside
  <2>1. CASE RequestEnd
    BY <1>7, <2>1 DEF RequestEnd
  <2>2. ASSUME NEW interface \in Interface, FrameArrives(interface)
        PROVE  IndInv'
    BY <1>7, <2>2 DEF FrameArrives
  <2>3. ASSUME NEW interface \in Interface \cup {ALL}, Enter(interface)
        PROVE  IndInv'
    BY <1>7, <2>3 DEF Enter, Main
  <2>4. CASE DrawInterface
    BY <1>7, <2>4 DEF DrawInterface, Main
  <2>5. QED
    BY <1>7, <2>1, <2>2, <2>3, <2>4 DEF Outside
<1>8. CASE UNCHANGED vars
  BY <1>8 DEF vars
<1>9. QED
  BY <1>1, <1>2, <1>3, <1>4, <1>5, <1>6, <1>7, <1>8 DEF Next, NetStep, Over

(* Between two batches the socket is bound to the interface chosen last,   *)
(* or a notification of a newer choice is on its way.                      *)
THEOREM ChoiceAppliedCorrect == Spec => []ChoiceApplied
<1>1. IndInv => ChoiceApplied
  BY DEF IndInv, Pending, ChoiceApplied
<1>2. QED
  BY <1>1, IndInvInit, IndInvNext, PTL DEF Spec

(* The mutex and the name are valid whenever main uses them in service.    *)
THEOREM DefinedInServiceCorrect == Spec => []DefinedInService
<1>1. IndInv => DefinedInService
  BY DEF IndInv
<1>2. QED
  BY <1>1, IndInvInit, IndInvNext, PTL DEF Spec

LEMMA RangeOfTail ==
  ASSUME NEW S, NEW s \in Seq(S), s # <<>>
  PROVE  /\ Tail(s) \in Seq(S) /\ Head(s) \in Range(s)
         /\ Range(Tail(s)) \subseteq Range(s)
         /\ IsInjective(s) => IsInjective(Tail(s)) /\ Head(s) \notin Range(Tail(s))
<1>1. /\ Tail(s) \in Seq(S) /\ Len(Tail(s)) = Len(s) - 1 /\ Head(s) = s[1]
      /\ \A i \in 1 .. Len(Tail(s)) : Tail(s)[i] = s[i + 1]
  BY HeadTailProperties
<1>2. /\ DOMAIN s = 1 .. Len(s) /\ DOMAIN Tail(s) = 1 .. Len(s) - 1
      /\ Len(s) \in Nat \ {0}
  BY <1>1, LenProperties, EmptySeq
<1>3. \A i \in DOMAIN Tail(s) : i + 1 \in DOMAIN s /\ i + 1 # 1 /\ Tail(s)[i] = s[i + 1]
  BY <1>1, <1>2
<1>4. Head(s) \in Range(s) /\ Range(Tail(s)) \subseteq Range(s)
  BY <1>1, <1>2, <1>3 DEF Range
<1>5. ASSUME IsInjective(s)
      PROVE  IsInjective(Tail(s)) /\ Head(s) \notin Range(Tail(s))
  <2>1. ASSUME NEW i \in DOMAIN Tail(s), NEW j \in DOMAIN Tail(s), Tail(s)[i] = Tail(s)[j]
        PROVE  i = j
    <3>1. i + 1 = j + 1
      BY <1>3, <1>5, <2>1 DEF IsInjective
    <3>2. QED
      BY <1>2, <3>1
  <2>2. ASSUME NEW i \in DOMAIN Tail(s), Tail(s)[i] = s[1]
        PROVE  FALSE
    BY <1>2, <1>3, <1>5, <2>2 DEF IsInjective
  <2>3. QED
    BY <1>1, <2>1, <2>2 DEF IsInjective, Range
<1>6. QED
  BY <1>1, <1>4, <1>5

LEMMA RangeOfAppend ==
  ASSUME NEW S, NEW s \in Seq(S), NEW x \in S
  PROVE  /\ Append(s, x) \in Seq(S) /\ Append(s, x) # <<>>
         /\ Range(Append(s, x)) = Range(s) \cup {x}
<1>1. /\ Append(s, x) \in Seq(S) /\ Len(Append(s, x)) = Len(s) + 1
      /\ \A i \in 1 .. Len(s) : Append(s, x)[i] = s[i]
      /\ Append(s, x)[Len(s) + 1] = x
  BY AppendProperties
<1>2. /\ Len(s) \in Nat /\ DOMAIN s = 1 .. Len(s)
      /\ DOMAIN Append(s, x) = 1 .. (Len(s) + 1)
  BY <1>1, LenProperties
<1>3. /\ \A i \in DOMAIN s : i \in DOMAIN Append(s, x) /\ Append(s, x)[i] = s[i]
      /\ Len(s) + 1 \in DOMAIN Append(s, x)
      /\ \A i \in DOMAIN Append(s, x) : i \in DOMAIN s \/ i = Len(s) + 1
  BY <1>1, <1>2
<1>4. Range(Append(s, x)) = Range(s) \cup {x}
  BY <1>1, <1>3 DEF Range
<1>5. QED
  BY <1>1, <1>2, <1>4, EmptySeq

LEMMA NoFrames == Range(<<>>) = {}
BY DEF Range

(* What epoll_wait returns has no event twice.                             *)
LEMMA BatchOfReady ==
  ASSUME NEW S, NEW n \in 1 .. 3, NEW s \in kSubset(n, S), NEW b \in SetToSeqs(s)
  PROVE  b \in Seq(S) /\ IsInjective(b) /\ Range(b) \subseteq S
<1>1. s \subseteq S /\ Cardinality(s) = n
  BY DEF kSubset
<1>2. b \in [1 .. n -> s] /\ \A i, j \in 1 .. n : i # j => b[i] # b[j]
  BY <1>1 DEF SetToSeqs
<1>3. b \in [1 .. n -> S]
  BY <1>1, <1>2
<1>4. b \in Seq(S)
  BY <1>3
<1>5. QED
  BY <1>2, <1>3, <1>4 DEF IsInjective, Range

LEMMA FrameInvInit == Init => FrameInv
<1> SUFFICES ASSUME Init
             PROVE  FrameInv
  OBVIOUS
<1>1. NoOldFrames /\ FramesAnnounced
  BY NoFrames DEF Init, NoOldFrames, FramesAnnounced
<1>2. SocketFrames /\ EachEventOnce
  BY EmptySeq DEF Init, SocketFrames, EachEventOnce, ChangeLoc, IsInjective
<1>3. QED
  BY <1>1, <1>2 DEF FrameInv

LEMMA FrameInvNext == IndInv /\ FrameInv /\ [Next]_vars => FrameInv'
<1> SUFFICES ASSUME IndInv, FrameInv, [Next]_vars
             PROVE  FrameInv'
  OBVIOUS
<1>a. /\ ALL \notin Interface /\ NONE \notin Interface /\ ALL # NONE
      /\ Fd \cap {"bind", "shutdown", "timer"} = {}
  BY BindUpdateAssumption
<1>b. /\ netPc \in {"eventfd", "mutex_init", "store_all", "lock", "locked", "bind"} => sockIface = ALL
  BY DEF IndInv, Pending
<1> USE <1>a, <1>b
    DEF FrameInv, NoOldFrames, FramesAnnounced, SocketFrames, EachEventOnce, ChangeLoc,
        Net, mainVars, shared, socket, flags
<1>0. ASSUME NEW from, Fail(from)
      PROVE  FrameInv'
  BY <1>0, NoFrames, EmptySeq DEF Fail
<1>1. CASE SocketInit \/ NetLoop \/ BatchEnds \/ FreeName
  <2>1. CASE RawSocketCreate
    <3>1. CASE OpenSocket("socket", "eventfd")
      BY <3>1, NoFrames DEF OpenSocket
    <3>2. QED
      BY <1>0, <2>1, <3>1 DEF RawSocketCreate
  <2>2. CASE BindInitial
    <3>1. CASE Bind("bind_initial", "store_initial", Initial)
      BY <3>1 DEF Bind
    <3>2. QED
      BY <1>0, <2>2, <3>1 DEF BindInitial
  <2>3. CASE CreateBindFd \/ MutexInit \/ StoreAll \/ StoreInitial \/ NetLoop \/ BatchEnds \/ FreeName
    BY <2>3 DEF CreateBindFd, MutexInit, StoreAll, StoreInitial, StoreBound, NetLoop, BatchEnds, FreeName
  <2>4. CASE Register("register", "loop")
    BY <2>4 DEF Register, EpollRegister
  <2>5. QED
    BY <1>0, <1>1, <2>1, <2>2, <2>3, <2>4 DEF SocketInit, RegisterAll
<1>2. CASE NetWait
  <2>1. PICK ready \in {Readable, Readable \cup {"timer"}}, n \in 1 .. 3 :
           batch' \in UNION {SetToSeqs(s) : s \in kSubset(n, ready)}
    BY <1>2 DEF NetWait
  <2>2. batch' \in Seq(ready) /\ IsInjective(batch') /\ Range(batch') \subseteq ready
    BY <2>1, BatchOfReady
  <2>3. ready \subseteq Fd \cup {"bind", "shutdown", "timer"}
    BY DEF Readable
  <2>4. sockFd \in ready => queue # <<>>
    BY DEF Readable
  <2>5. UNCHANGED socket /\ netPc' = "batch"
    BY <1>2 DEF NetWait
  <2>6. QED
    BY <2>2, <2>3, <2>4, <2>5, SeqMonotonic
<1>3. CASE HandleFrame \/ SkipEvent \/ HandleBindUpdate
  <2>1. batch # <<>> /\ batch' = Tail(batch) /\ UNCHANGED <<sockFd, sockIface>>
    BY <1>3 DEF HandleFrame, SkipEvent, HandleBindUpdate
  <2>2. /\ Range(batch') \subseteq Range(batch) /\ Head(batch) \notin Range(batch')
        /\ EachEventOnce'
    BY <2>1, RangeOfTail
  <2>3. CASE HandleFrame
    <3>1. queue # <<>> /\ queue' = Tail(queue) /\ Head(batch) = sockFd /\ netPc' = "batch"
      BY <2>3 DEF HandleFrame
    <3>2. queue' \in Seq(Interface \cup {ALL}) /\ Range(queue') \subseteq Range(queue)
      BY <3>1, RangeOfTail
    <3>3. QED
      BY <2>1, <2>2, <3>1, <3>2
  <2>4. CASE SkipEvent \/ HandleBindUpdate
    BY <2>1, <2>2, <2>4 DEF SkipEvent, HandleBindUpdate
  <2>5. QED
    BY <1>3, <2>3, <2>4
<1>4. CASE HandlerFails \/ DestroyMutex
  <2>1. CASE DestroyMutex
    BY <2>1, NoFrames, EmptySeq DEF DestroyMutex
  <2>2. QED
    BY <1>0, <1>4, <2>1 DEF HandlerFails
<1>5. CASE ChangeBind
  <2>1. CASE CloseOld
    BY <2>1, NoFrames, EmptySeq DEF CloseOld
  <2>2. CASE OpenNew
    <3>1. CASE OpenSocket("open", "lock")
      BY <3>1, NoFrames DEF OpenSocket
    <3>2. QED
      BY <1>0, <2>2, <3>1 DEF OpenNew
  <2>3. CASE LockBound \/ ReadBound
    BY <2>3 DEF LockBound, ReadBound
  <2>4. CASE BindNew
    <3>1. CASE Bind("bind", "register_new", target)
      BY <3>1 DEF Bind
    <3>2. QED
      BY <1>0, <2>4, <3>1 DEF BindNew
  <2>5. CASE BoundToAll \/ RegisterNew
    BY <2>5 DEF BoundToAll, RegisterNew, Register, EpollRegister
  <2>6. QED
    BY <1>5, <2>1, <2>2, <2>3, <2>4, <2>5 DEF ChangeBind
<1>6. CASE MainStep
  BY <1>6 DEF MainStep, Main, MainLoop, MainBatchEnds, MainJoins, MainLocks, MainStores,
              MainNotifies, MainLocksToLook, LocksBound, MainReads
<1>7. CASE Outside
  <2>1. ASSUME NEW interface \in Interface, FrameArrives(interface)
        PROVE  FrameInv'
    <3>1. sockIface \in {interface, ALL} /\ queue' = Append(queue, sockIface)
      BY <2>1 DEF FrameArrives
    <3>2. /\ queue' \in Seq(Interface \cup {ALL}) /\ queue' # <<>>
          /\ Range(queue') = Range(queue) \cup {sockIface}
      BY <3>1, RangeOfAppend
    <3>3. QED
      BY <2>1, <3>1, <3>2 DEF FrameArrives
  <2>2. CASE RequestEnd \/ DrawInterface \/ \E interface \in Interface \cup {ALL} : Enter(interface)
    BY <2>2 DEF RequestEnd, DrawInterface, Enter, Main
  <2>3. QED
    BY <1>7, <2>1, <2>2 DEF Outside
<1>8. CASE UNCHANGED vars
  BY <1>8 DEF vars
<1>9. QED
  BY <1>1, <1>2, <1>3, <1>4, <1>5, <1>6, <1>7, <1>8 DEF Next, NetStep, Over

(* However long the user goes from interface to interface, no frame of the *)
(* one bound before is handled as if it came in on the one bound now.      *)
THEOREM NoOldFramesCorrect == Spec => []NoOldFrames
<1>1. FrameInv => NoOldFrames
  BY DEF FrameInv
<1>2. QED
  BY <1>1, IndInvInit, IndInvNext, FrameInvInit, FrameInvNext, PTL DEF Spec

(* Unless the socket was replaced in this batch, recvmsg() has a frame for *)
(* every announcement, for batches and queues of any length.               *)
THEOREM FramesAnnouncedCorrect == Spec => []FramesAnnounced
<1>1. FrameInv => FramesAnnounced
  BY DEF FrameInv
<1>2. QED
  BY <1>1, IndInvInit, IndInvNext, FrameInvInit, FrameInvNext, PTL DEF Spec
=============================================================================
