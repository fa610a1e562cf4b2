--------------------------- MODULE LifecycleProofs --------------------------
(***************************************************************************)
(* Proofs about Lifecycle, for any set of error codes and any capacity of  *)
(* the pipe.                                                               *)
(***************************************************************************)
EXTENDS Lifecycle, TLAPS

LEMMA IndInvInit == Init => IndInv
<1> SUFFICES ASSUME Init
             PROVE  IndInv
  OBVIOUS
<1>1. TypeOK
  <2>1. /\ pc \in [Thread -> MainLoc \cup SigLoc \cup NetLoc]
        /\ pc["main"] \in MainLoc /\ pc["sig"] \in SigLoc /\ pc["net"] \in NetLoc
    BY DEF Init, Thread, MainLoc, SigLoc, NetLoc
  <2>2. pipe \in Seq({"resize", "device"}) /\ Len(pipe) <= PipeCap
    BY LifecycleAssumption DEF Init
  <2>3. code \in [{"main", "net"} -> Error \cup {NONE}]
    BY DEF Init
  <2>4. QED
    BY <2>1, <2>2, <2>3 DEF Init, TypeOK, FdState
<1>2. Started /\ Ended /\ Requested /\ Slot
  BY DEF Init, Started, Ended, Requested, Slot, Reporting, Thread
<1>3. QED
  BY <1>1, <1>2 DEF IndInv

LEMMA IndInvNext == IndInv /\ [Next]_vars => IndInv'
<1> SUFFICES ASSUME IndInv, [Next]_vars
             PROVE  IndInv'
  OBVIOUS
<1> USE LifecycleAssumption
    DEF IndInv, TypeOK, Started, Ended, Requested, Slot, Reporting,
        Thread, MainLoc, SigLoc, NetLoc, FdState, Alive, Goto, Move, Fail,
        flags, fds, slot
<1>1. CASE CreateSignalThread
  BY <1>1 DEF CreateSignalThread
<1>2. CASE CreatePipe
  BY <1>2 DEF CreatePipe
<1>3. CASE CreateMainFd
  BY <1>3 DEF CreateMainFd
<1>4. CASE CreateNetworkThread
  BY <1>4 DEF CreateNetworkThread
<1>5. CASE MainInit
  <2>1. CASE MainFail("table")
    BY <1>5, <2>1 DEF MainInit, MainFail
  <2>2. CASE Goto("main", "loop") /\ UNCHANGED <<code, broken>>
    <3>1. UNCHANGED <<ready, pend, flags, fds, pipe, slot, stale>>
      BY <1>5, <2>2 DEF MainInit
    <3>2. QED
      BY <1>5, <2>2, <3>1 DEF MainInit
  <2>3. QED
    BY <1>5, <2>1, <2>2 DEF MainInit
<1>6. CASE MainLoop
  BY <1>6 DEF MainLoop
<1>7. ASSUME NEW keys \in {{}, {"stdin"}}, MainWake(keys)
      PROVE  IndInv'
  BY <1>7 DEF MainWake, Events, Readable
<1>8. CASE MainReadsBus
  <2>1. CASE MainFail("row")
    BY <1>8, <2>1 DEF MainReadsBus, MainFail
  <2>2. CASE Goto("main", NextEvent("bus")) /\ UNCHANGED <<code, broken>>
    <3>1. TypeOK'
      BY <1>8, <2>2 DEF MainReadsBus, NextEvent
    <3>2. (Started /\ Ended)'
      BY <1>8, <2>2 DEF MainReadsBus, NextEvent
    <3>3. (Requested /\ Slot)'
      BY <1>8, <2>2 DEF MainReadsBus, NextEvent
    <3>4. QED
      BY <3>1, <3>2, <3>3
  <2>3. CASE Goto("main", "crashed") /\ UNCHANGED <<code, broken>>
    BY <1>8, <2>3 DEF MainReadsBus
  <2>4. QED
    BY <1>8, <2>1, <2>2, <2>3 DEF MainReadsBus
<1>9. CASE MainReadsKey
  <2>1. CASE MainFail("list")
    BY <1>9, <2>1 DEF MainReadsKey, MainFail
  <2>2. CASE Goto("main", NextEvent("stdin")) /\ UNCHANGED <<code, broken>>
    <3>1. TypeOK'
      BY <1>9, <2>2 DEF MainReadsKey, NextEvent
    <3>2. (Started /\ Ended)'
      BY <1>9, <2>2 DEF MainReadsKey, NextEvent
    <3>3. (Requested /\ Slot)'
      BY <1>9, <2>2 DEF MainReadsKey, NextEvent
    <3>4. QED
      BY <3>1, <3>2, <3>3
  <2>3. CASE Goto("main", "crashed") /\ UNCHANGED <<code, broken>>
    BY <1>9, <2>3 DEF MainReadsKey
  <2>4. QED
    BY <1>9, <2>1, <2>2, <2>3 DEF MainReadsKey
<1>10. CASE MainSkipsShutdown
  BY <1>10 DEF MainSkipsShutdown, NextEvent
<1>11. CASE JoinNetwork
  BY <1>11 DEF JoinNetwork, Joined
<1>12. CASE JoinSignal
  BY <1>12 DEF JoinSignal, Joined
<1>13. CASE CloseDescriptors
  BY <1>13 DEF CloseDescriptors
<1>14. CASE GetError
  BY <1>14 DEF GetError
<1>14a. CASE CleanUpCrashes
  BY <1>14a DEF CleanUpCrashes
<1>15. CASE PublishResize
  <2>1. UNCHANGED <<ready, pend, flags, fds, slot, stale>>
    BY <1>15 DEF PublishResize, Publish, Write
  <2>2. /\ pipe' \in Seq({"resize", "device"}) /\ Len(pipe') <= PipeCap
        /\ "bus" \in ready => pipe' # <<>>
    <3>1. CASE bus = "open"
      BY <1>15, <3>1 DEF PublishResize, Publish, Write
    <3>2. CASE bus # "open"
      BY <1>15, <3>2 DEF PublishResize, Publish, Write
    <3>3. QED
      BY <3>1, <3>2
  <2>3. (Started /\ Ended)'
    BY <1>15, <2>1 DEF PublishResize, Publish, Write
  <2>4. (Requested /\ Slot)'
    BY <1>15, <2>1 DEF PublishResize, Publish, Write
  <2>5. TypeOK'
    BY <1>15, <2>1, <2>2 DEF PublishResize, Publish, Write
  <2>6. QED
    BY <2>3, <2>4, <2>5
<1>16. CASE SetEndMain
  BY <1>16 DEF SetEndMain
<1>17. CASE WakeMain
  BY <1>17 DEF WakeMain
<1>18. CASE SetEndListen
  BY <1>18 DEF SetEndListen
<1>19. CASE WakeNetwork
  BY <1>19 DEF WakeNetwork
<1>20. CASE NetSocket
  BY <1>20 DEF NetSocket
<1>21. CASE NetEventfd
  BY <1>21 DEF NetEventfd
<1>22. CASE NetSetup
  BY <1>22 DEF NetSetup, LoopEntry
<1>23. CASE NetLoop
  BY <1>23 DEF NetLoop
<1>24. CASE NetWakeForWork
  BY <1>24 DEF NetWakeForWork
<1>25. CASE NetHandles
  BY <1>25 DEF NetHandles
<1>26. CASE PublishDevice
  <2>1. UNCHANGED <<ready, pend, flags, fds, slot, stale>>
    BY <1>26 DEF PublishDevice, Publish, Write
  <2>2. /\ pipe' \in Seq({"resize", "device"}) /\ Len(pipe') <= PipeCap
        /\ "bus" \in ready => pipe' # <<>>
    <3>1. CASE bus = "open"
      BY <1>26, <3>1 DEF PublishDevice, Publish, Write
    <3>2. CASE bus # "open"
      BY <1>26, <3>2 DEF PublishDevice, Publish, Write
    <3>3. QED
      BY <3>1, <3>2
  <2>3. (Started /\ Ended)'
    BY <1>26, <2>1 DEF PublishDevice, Publish, Write
  <2>4. (Requested /\ Slot)'
    BY <1>26, <2>1 DEF PublishDevice, Publish, Write
  <2>5. TypeOK'
    BY <1>26, <2>1, <2>2 DEF PublishDevice, Publish, Write
  <2>6. QED
    BY <2>3, <2>4, <2>5
<1>27. CASE NetBatchEnds
  BY <1>27 DEF NetBatchEnds
<1>28. CASE NetCleanUp
  BY <1>28 DEF NetCleanUp
<1>29. CASE Interrupt
  BY <1>29 DEF Interrupt
<1>30. CASE TerminalResized
  BY <1>30 DEF TerminalResized
<1>31. ASSUME NEW t \in {"main", "net"}, SetError(t)
      PROVE  IndInv'
  <2>1. CASE errorSet
    BY <1>31, <2>1 DEF SetError, Taken
  <2>2. CASE ~errorSet
    BY <1>31, <2>2 DEF SetError, Taken
  <2>3. QED
    BY <2>1, <2>2
<1>32. ASSUME NEW t \in {"main", "net"}, WriteError(t)
      PROVE  IndInv'
  BY <1>32 DEF WriteError
<1>33. ASSUME NEW t \in {"main", "net"}, NotifyFatalError(t)
      PROVE  IndInv'
  <2>1. CASE Goto(t, AfterError(t))
    <3>1. CASE t = "main"
      BY <1>33, <2>1, <3>1 DEF NotifyFatalError, Signalled, AfterError
    <3>2. CASE t = "net"
      BY <1>33, <2>1, <3>2 DEF NotifyFatalError, Signalled, AfterError
    <3>3. QED
      BY <3>1, <3>2
  <2>2. CASE t = "main" /\ Goto("main", "crashed")
    BY <1>33, <2>2 DEF NotifyFatalError, Signalled
  <2>3. QED
    BY <1>33, <2>1, <2>2 DEF NotifyFatalError
<1>34. ASSUME NEW s \in {"INT", "USR1", "WINCH"}, SigWait(s)
      PROVE  IndInv'
  BY <1>34 DEF SigWait
<1>35. CASE UNCHANGED vars
  BY <1>35 DEF vars
<1>36. QED
  BY <1>1, <1>2, <1>3, <1>4, <1>5, <1>6, <1>7, <1>8, <1>9, <1>10, <1>11, <1>12, <1>13, <1>14, <1>15, <1>16, <1>17, <1>18, <1>19, <1>20, <1>21, <1>22, <1>23, <1>24, <1>25, <1>26, <1>27, <1>28, <1>29, <1>30, <1>31, <1>32, <1>33, <1>34, <1>35, <1>14a
     DEF Next, MainStep, SigStep, NetStep, Environment, Over, ReportError, NetWakeForShutdown

(* Whatever fails and whoever reports it first, every descriptor, flag and *)
(* message stays one of those the code knows.                              *)
THEOREM TypeCorrect == Spec => []TypeOK
<1>1. IndInv => TypeOK
  BY DEF IndInv
<1>2. QED
  BY <1>1, IndInvInit, IndInvNext, PTL DEF Spec

(* No behaviour loses the wake-up that goes with a request to end.         *)
THEOREM NoLostWakeupCorrect == Spec => []NoLostWakeup
<1>1. IndInv => NoLostWakeup
  BY DEF IndInv, TypeOK, Started, Ended, Requested, NoLostWakeup, FdState, SigLoc
<1>2. QED
  BY <1>1, IndInvInit, IndInvNext, PTL DEF Spec

(* main_clean_up tears nothing down that another thread still uses.        *)
THEOREM TornDownUnusedCorrect == Spec => []TornDownUnused
<1>1. IndInv => TornDownUnused
  BY DEF IndInv, Ended, TornDownUnused
<1>2. QED
  BY <1>1, IndInvInit, IndInvNext, PTL DEF Spec

(* What get_error prints is the first error any thread reported.           *)
THEOREM FirstErrorCorrect == Spec => []FirstErrorReported
<1>1. IndInv => FirstErrorReported
  BY DEF IndInv, Ended, Slot, FirstErrorReported
<1>2. QED
  BY <1>1, IndInvInit, IndInvNext, PTL DEF Spec

LEMMA ErrorKeptStep == IndInv /\ [Next]_vars => (errorApp # NONE => errorApp' = errorApp)
<1> SUFFICES ASSUME IndInv, [Next]_vars, errorApp # NONE
             PROVE  errorApp' = errorApp
  OBVIOUS
<1>1. ASSUME NEW t \in {"main", "net"}, ReportError(t)
      PROVE  errorApp' = errorApp
  BY <1>1 DEF ReportError, SetError, WriteError, NotifyFatalError,
              Move, IndInv, Slot, slot
<1>2. CASE Environment \/ Over \/ UNCHANGED vars
  BY <1>2 DEF Environment, Over, Interrupt, TerminalResized, MainWake, NetWakeForWork,
              NetHandles, vars, slot
<1>3. CASE SigStep
  BY <1>3 DEF SigStep, SigWait, PublishResize, Publish, SetEndMain, WakeMain,
              SetEndListen, WakeNetwork, slot
<1>4. CASE NetStep
  BY <1>4, <1>1 DEF NetStep, NetSocket, NetEventfd, NetSetup, NetLoop, NetWakeForShutdown,
                    NetWakeForWork, PublishDevice, Publish, NetBatchEnds, NetCleanUp, slot
<1>5. CASE MainStep
  BY <1>5, <1>1 DEF MainStep, CreateSignalThread, CreatePipe, CreateMainFd,
                    CreateNetworkThread, MainInit, MainLoop, MainWake, MainReadsBus,
                    MainReadsKey, MainSkipsShutdown, JoinNetwork, JoinSignal,
                    CloseDescriptors, GetError, CleanUpCrashes, slot
<1>6. QED
  BY <1>2, <1>3, <1>4, <1>5 DEF Next

(* No step, of the winner's two included, overwrites an error in the slot. *)
THEOREM ErrorKeptCorrect == Spec => ErrorKept
<1>1. IndInv /\ [Next]_vars => [errorApp # NONE => errorApp' = errorApp]_vars
  BY ErrorKeptStep
<1>2. QED
  BY <1>1, IndInvInit, IndInvNext, PTL DEF Spec, ErrorKept
=============================================================================
