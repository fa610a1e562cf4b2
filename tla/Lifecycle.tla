------------------------------ MODULE Lifecycle -----------------------------
(***************************************************************************)
(* Start, run and end of the three threads of the program: the main thread *)
(* (app/main.c, app/app_init.c, app/app_clean_up.c), the signal thread     *)
(* (platform/signal_handler.c) and the network thread                      *)
(* (net/network_thread.c), and what they share to end together: two flags, *)
(* two eventfds, the event bus pipe, the signals and the error slot        *)
(* (app/lifecycle.c, common/error.c).                                      *)
(*                                                                         *)
(* One action is one access to something shared: a flag stored before a    *)
(* descriptor is written and a descriptor created after the thread that    *)
(* writes to it are steps of their own.                                    *)
(*                                                                         *)
(* Abstracted: what the messages carry (module DeviceFlow), the number of  *)
(* the other descriptors, what the handlers do besides publishing and      *)
(* failing.  The masking of the signals comes before Init.                 *)
(***************************************************************************)
EXTENDS Integers, Sequences

CONSTANTS
  Error,     \* the error codes a thread may report
  NONE,      \* APP_ERR_NONE
  PipeCap,   \* messages the pipe holds before write() blocks
  Failing    \* the allocations of main that may fail

ASSUME LifecycleAssumption ==
  /\ NONE \notin Error
  /\ PipeCap \in Nat \ {0}
  /\ Failing \subseteq {"table", "row", "list"}

VARIABLES
  pc,          \* where each thread is
  ready,       \* the events of main's batch still to be handled
  pend,        \* the pending signals of the process and the signal thread
  endMain,     \* end_main_loop
  endListen,   \* end_listen_loop
  mainFd,      \* shutdown_main_fd
  netFd,       \* shutdown_network_fd
  bus,         \* pipe_fd
  pipe,        \* the messages in the pipe
  code,        \* the error a thread is reporting, per thread
  broken,      \* what an allocation that failed left main without
  errorSet,    \* error_set
  errorApp,    \* error_app
  reported,    \* what get_error printed at the end
  winner,      \* history: the first error to reach set_error
  stale        \* history: the terminal was resized since main last read its size

flags == <<endMain, endListen>>
fds == <<mainFd, netFd, bus>>
slot == <<code, broken, errorSet, errorApp, reported, winner>>
vars == <<pc, ready, pend, flags, fds, pipe, slot, stale>>

Thread == {"main", "sig", "net"}

(* A descriptor variable is static: "zero" until it is created, so that    *)
(* using it early is using descriptor 0.                                   *)
FdState == {"zero", "open", "readable", "closed"}

(* A crash of main is the end of every thread.                             *)
Alive == pc["main"] # "crashed"
Goto(t, l) == Alive /\ pc' = [pc EXCEPT ![t] = l]
Move(t, from, to) == pc[t] = from /\ Goto(t, to)

Init ==
  /\ pc = [t \in Thread |-> IF t = "main" THEN "start" ELSE "none"]
  /\ ready = {} /\ pend = {}
  /\ endMain = FALSE /\ endListen = FALSE
  /\ mainFd = "zero" /\ netFd = "zero" /\ bus = "zero"
  /\ pipe = <<>>
  /\ code = [t \in {"main", "net"} |-> NONE]
  /\ broken = {}
  /\ errorSet = FALSE /\ errorApp = NONE
  /\ reported = NONE /\ winner = NONE /\ stale = FALSE

(* SIGINT and SIGWINCH come from outside, and the user's resize with the   *)
(* latter.                                                                 *)
Interrupt ==
  /\ Alive /\ "INT" \notin pend
  /\ pend' = pend \cup {"INT"}
  /\ UNCHANGED <<pc, ready, flags, fds, pipe, slot, stale>>

TerminalResized ==
  /\ Alive
  /\ pend' = pend \cup {"WINCH"}
  /\ stale' = TRUE
  /\ pend' # pend \/ stale' # stale
  /\ UNCHANGED <<pc, ready, flags, fds, pipe, slot>>
-----------------------------------------------------------------------------
(* set_error, then lifecycle_notify_fatal_error: common to main_error and  *)
(* network_error.                                                          *)
Fail(t, e) ==
  /\ code' = [code EXCEPT ![t] = e]
  /\ Goto(t, "err_slot")

NeverTaken == FALSE
Taken == errorSet

(* The compare-and-exchange that lets only the first error in.             *)
SetError(t) ==
  /\ pc[t] = "err_slot"
  /\ IF Taken
     THEN Goto(t, "err_kill") /\ UNCHANGED <<errorSet, winner>>
     ELSE /\ errorSet' = TRUE
          /\ winner' = code[t]
          /\ Goto(t, "err_write")
  /\ UNCHANGED <<ready, pend, flags, fds, pipe,
                 code, broken, errorApp, reported, stale>>

WriteError(t) ==
  /\ Move(t, "err_write", "err_kill")
  /\ errorApp' = code[t]
  /\ UNCHANGED <<ready, pend, flags, fds, pipe,
                 code, broken, errorSet, reported, winner, stale>>

(* main goes on after an allocation that failed, without the table, with a *)
(* row of the table that is NULL, or with a popup that has no list:        *)
(* drawing the row or the list, and what looks into the missing table (a   *)
(* message about a device, the key 'i'), is then an access through a NULL  *)
(* pointer.                                                                *)
MainFail(what) ==
  /\ what \in Failing \ (broken \cap {"list"})
  /\ \E e \in Error : Fail("main", e)
  /\ broken' = broken \cup {what}
MayCrash(event) ==
  \/ broken \cap {"row", "list"} # {}
  \/ "table" \in broken /\ event \in {"device", "key"}

AfterError(t) ==
  IF t = "net" THEN "exited" ELSE IF ready = {} THEN "loop" ELSE "batch"

SignalledNobody == pend
Signalled == IF pc["sig"] = "exited" THEN pend ELSE pend \cup {"USR1"}

(* pthread_kill(signal_thread, SIGUSR1): nothing if the thread has ended.  *)
(* main_error returns to the loop it was called from, network_error ends   *)
(* its thread.                                                             *)
NotifyFatalError(t) ==
  /\ pc[t] = "err_kill"
  /\ pend' = Signalled
  /\ \/ Goto(t, AfterError(t))
     \/ t = "main" /\ MayCrash("draw") /\ Goto("main", "crashed")
  /\ code' = [code EXCEPT ![t] = NONE]
  /\ UNCHANGED <<ready, flags, fds, pipe,
                 broken, errorSet, errorApp, reported, winner, stale>>

ReportError(t) == SetError(t) \/ WriteError(t) \/ NotifyFatalError(t)

WriteNonBlocking(m) == pipe' = IF Len(pipe) < PipeCap THEN Append(pipe, m) ELSE pipe
Write(m) == Len(pipe) < PipeCap /\ pipe' = Append(pipe, m)

(* event_bus_publish by t, which goes on at l: a blocking write().  Before *)
(* pipe() it goes to descriptor 0 and is lost.                             *)
Publish(t, m, l) ==
  /\ pc[t] = "publish"
  /\ IF bus = "open" THEN Write(m) ELSE UNCHANGED pipe
  /\ Goto(t, l)
  /\ UNCHANGED <<ready, pend, flags, fds, slot, stale>>
-----------------------------------------------------------------------------
(* The main thread: lifecycle_init.                                        *)
CreateSignalThread ==
  /\ pc["main"] = "start" /\ pc["sig"] = "none"
  /\ pc' = [pc EXCEPT !["main"] = "pipe", !["sig"] = "sigwait"]
  /\ UNCHANGED <<ready, pend, flags, fds, pipe, slot, stale>>

CreatePipe ==
  /\ Move("main", "pipe", "eventfd")
  /\ bus' = "open"
  /\ UNCHANGED <<ready, pend, flags, mainFd, netFd, pipe, slot, stale>>

CreateMainFd ==
  /\ Move("main", "eventfd", "create_net")
  /\ mainFd' = "open"
  /\ UNCHANGED <<ready, pend, flags, netFd, bus, pipe, slot, stale>>

(* main_init creates the network thread ...                                *)
CreateNetworkThread ==
  /\ pc["main"] = "create_net" /\ pc["net"] = "none"
  /\ pc' = [pc EXCEPT !["main"] = "init", !["net"] = "socket"]
  /\ UNCHANGED <<ready, pend, flags, fds, pipe, slot, stale>>

(* ... and allocates the table, or reports that it could not.              *)
MainInit ==
  /\ pc["main"] = "init"
  /\ \/ Goto("main", "loop") /\ UNCHANGED <<code, broken>>
     \/ MainFail("table")
  /\ UNCHANGED <<ready, pend, flags, fds, pipe,
                 errorSet, errorApp, reported, winner, stale>>

(* while (!get_end_main_loop())                                            *)
MainLoop ==
  /\ pc["main"] = "loop"
  /\ Goto("main", IF endMain THEN "join_net" ELSE "epoll")
  /\ UNCHANGED <<ready, pend, flags, fds, pipe, slot, stale>>

Readable == (IF mainFd = "readable" THEN {"shutdown"} ELSE {})
            \cup (IF pipe # <<>> THEN {"bus"} ELSE {})

EventsWithBus(keys) == Readable \cup keys \cup {"bus"}
Events(keys) == Readable \cup keys

(* epoll_wait returns all the descriptors that are readable, one at least. *)
MainWake(keys) ==
  /\ Move("main", "epoll", "batch")
  /\ ready' = Events(keys)
  /\ ready' # {}
  /\ UNCHANGED <<pend, flags, fds, pipe, slot, stale>>

NextEvent(e) == IF ready = {e} THEN "loop" ELSE "batch"

(* A message is read and handled; storing a device may fail.  The handler  *)
(* of UI_RESIZE reads the size the terminal has now.  A message of the     *)
(* network thread may carry a device or be a tick.                         *)
MainReadsBus ==
  /\ pc["main"] = "batch" /\ "bus" \in ready
  /\ ready' = ready \ {"bus"}
  /\ pipe' = Tail(pipe)
  /\ stale' = (stale /\ Head(pipe) # "resize")
  /\ \/ Goto("main", NextEvent("bus")) /\ UNCHANGED <<code, broken>>
     \/ MayCrash(Head(pipe)) /\ Goto("main", "crashed") /\ UNCHANGED <<code, broken>>
     \/ Head(pipe) = "device" /\ MainFail("row")
  /\ UNCHANGED <<pend, flags, fds, errorSet, errorApp, reported, winner>>

(* A key is handled; opening the list of interfaces may fail.              *)
MainReadsKey ==
  /\ pc["main"] = "batch" /\ "stdin" \in ready
  /\ ready' = ready \ {"stdin"}
  /\ \/ Goto("main", NextEvent("stdin")) /\ UNCHANGED <<code, broken>>
     \/ MayCrash("key") /\ Goto("main", "crashed") /\ UNCHANGED <<code, broken>>
     \/ MainFail("list")
  /\ UNCHANGED <<pend, flags, fds, pipe,
                 errorSet, errorApp, reported, winner, stale>>

(* shutdown_main_fd is readable: continue; it is never read.               *)
MainSkipsShutdown ==
  /\ pc["main"] = "batch" /\ "shutdown" \in ready
  /\ ready' = ready \ {"shutdown"}
  /\ Goto("main", NextEvent("shutdown"))
  /\ UNCHANGED <<pend, flags, fds, pipe, slot, stale>>

JoinedIfNetwork(t) == t = "net" => pc[t] = "exited"
Joined(t) == pc[t] = "exited"

(* main_clean_up: the network thread is joined, ...                        *)
JoinNetwork ==
  /\ Joined("net")
  /\ Move("main", "join_net", "join_sig")
  /\ UNCHANGED <<ready, pend, flags, fds, pipe, slot, stale>>

(* ... then, in lifecycle_cleanup, the signal thread, ...                  *)
JoinSignal ==
  /\ Joined("sig")
  /\ Move("main", "join_sig", "close")
  /\ UNCHANGED <<ready, pend, flags, fds, pipe, slot, stale>>

(* ... the descriptors are closed, ...                                     *)
CloseDescriptors ==
  /\ Move("main", "close", "report")
  /\ bus' = "closed" /\ mainFd' = "closed"
  /\ UNCHANGED <<ready, pend, flags, netFd, pipe, slot, stale>>

(* ... and get_error prints what went wrong, unless the clean-up of a      *)
(* popup without its list goes through a NULL pointer before.              *)
GetError ==
  /\ "list" \notin broken
  /\ Move("main", "report", "exited")
  /\ reported' = errorApp
  /\ UNCHANGED <<ready, pend, flags, fds, pipe,
                 code, broken, errorSet, errorApp, winner, stale>>

CleanUpCrashes ==
  /\ "list" \in broken
  /\ Move("main", "report", "crashed")
  /\ UNCHANGED <<ready, pend, flags, fds, pipe, slot, stale>>
-----------------------------------------------------------------------------
(* The signal thread: signal_routine.                                      *)
SigWait(s) ==
  /\ pc["sig"] = "sigwait" /\ s \in pend
  /\ pend' = pend \ {s}
  /\ Goto("sig", IF s = "WINCH" THEN "publish" ELSE "set_main")
  /\ UNCHANGED <<ready, flags, fds, pipe, slot, stale>>

PublishResize == Publish("sig", "resize", "sigwait")

(* lifecycle_request_shutdown: the flag, then the eventfd.                 *)
SetEndMain ==
  /\ Move("sig", "set_main", "wake_main")
  /\ endMain' = TRUE
  /\ UNCHANGED <<ready, pend, endListen, fds, pipe, slot, stale>>

WakeMain ==
  /\ Move("sig", "wake_main", "set_net")
  /\ mainFd' = IF mainFd = "open" THEN "readable" ELSE mainFd
  /\ UNCHANGED <<ready, pend, flags, netFd, bus, pipe, slot, stale>>

(* network_request_shutdown: the same for the network thread.              *)
SetEndListen ==
  /\ Move("sig", "set_net", "wake_net")
  /\ endListen' = TRUE
  /\ UNCHANGED <<ready, pend, endMain, fds, pipe, slot, stale>>

WakeNetwork ==
  /\ Move("sig", "wake_net", "exited")
  /\ netFd' = IF netFd = "open" THEN "readable" ELSE netFd
  /\ UNCHANGED <<ready, pend, flags, mainFd, bus, pipe, slot, stale>>
-----------------------------------------------------------------------------
(* The network thread: network_init.  The socket comes first (this is      *)
(* where a program without the right to open one fails), then the eventfd, *)
(* then what else may fail.                                                *)
NetSocket ==
  /\ pc["net"] = "socket"
  /\ \/ Goto("net", "eventfd") /\ UNCHANGED code
     \/ \E e \in Error : Fail("net", e)
  /\ UNCHANGED <<ready, pend, flags, fds, pipe,
                 broken, errorSet, errorApp, reported, winner, stale>>

NetEventfd ==
  /\ Move("net", "eventfd", "setup")
  /\ netFd' = "open"
  /\ UNCHANGED <<ready, pend, flags, mainFd, bus, pipe, slot, stale>>

LoopEntryDoWhile == "epoll"
LoopEntry == "loop"

NetSetup ==
  /\ pc["net"] = "setup"
  /\ \/ Goto("net", LoopEntry) /\ UNCHANGED code
     \/ \E e \in Error : Fail("net", e)
  /\ UNCHANGED <<ready, pend, flags, fds, pipe,
                 broken, errorSet, errorApp, reported, winner, stale>>

(* while (!atomic_load(&end_listen_loop))                                  *)
NetLoop ==
  /\ pc["net"] = "loop"
  /\ Goto("net", IF endListen THEN "clean_up" ELSE "epoll")
  /\ UNCHANGED <<ready, pend, flags, fds, pipe, slot, stale>>

(* epoll_wait returns: a frame, the timer, a change of interface, or the   *)
(* eventfd, which is never read.                                           *)
NetWakeForWork ==
  /\ Move("net", "epoll", "batch")
  /\ UNCHANGED <<ready, pend, flags, fds, pipe, slot, stale>>

NetWakeForShutdown ==
  /\ netFd = "readable"
  /\ NetWakeForWork

(* A handler of the batch publishes or fails.                              *)
NetHandles ==
  /\ pc["net"] = "batch"
  /\ \/ Goto("net", "publish") /\ UNCHANGED code
     \/ \E e \in Error : Fail("net", e)
  /\ UNCHANGED <<ready, pend, flags, fds, pipe,
                 broken, errorSet, errorApp, reported, winner, stale>>

PublishDevice == Publish("net", "device", "batch")

NetBatchEnds ==
  /\ Move("net", "batch", "loop")
  /\ UNCHANGED <<ready, pend, flags, fds, pipe, slot, stale>>

(* network_clean_up, with the eventfd the signal thread may not yet have   *)
(* written to.                                                             *)
NetCleanUp ==
  /\ Move("net", "clean_up", "exited")
  /\ netFd' = "closed"
  /\ UNCHANGED <<ready, pend, flags, mainFd, bus, pipe, slot, stale>>
-----------------------------------------------------------------------------
MainStep ==
  \/ CreateSignalThread \/ CreatePipe \/ CreateMainFd \/ CreateNetworkThread
  \/ MainInit \/ MainLoop \/ MainWake({})
  \/ MainReadsBus \/ MainReadsKey \/ MainSkipsShutdown
  \/ JoinNetwork \/ JoinSignal \/ CloseDescriptors \/ GetError \/ CleanUpCrashes
  \/ ReportError("main")
SigStep ==
  \/ \E s \in {"INT", "USR1", "WINCH"} : SigWait(s)
  \/ PublishResize
  \/ SetEndMain \/ WakeMain \/ SetEndListen \/ WakeNetwork
NetStep ==
  \/ NetSocket \/ NetEventfd \/ NetSetup \/ NetLoop \/ NetWakeForShutdown
  \/ PublishDevice \/ NetBatchEnds \/ NetCleanUp
  \/ ReportError("net")

(* What comes from outside: signals, keys, frames and ticks.               *)
Environment ==
  \/ Interrupt \/ TerminalResized \/ MainWake({"stdin"})
  \/ NetWakeForWork \/ NetHandles

(* Main left its loop and waits for the network thread, which waits for    *)
(* room in the pipe only main could make.                                  *)
Jammed ==
  /\ pc["main"] = "join_net" /\ pc["net"] = "publish" /\ Len(pipe) = PipeCap

Over == (pc["main"] = "exited" \/ ~Alive \/ Jammed) /\ UNCHANGED vars

Next == MainStep \/ SigStep \/ NetStep \/ Environment \/ Over

(* A thread that can take a step takes one.  Strong fairness for the       *)
(* writes to the pipe, whose blocked writers the kernel queues, and for    *)
(* the signals that end the program, which sigwait takes before SIGWINCH.  *)
Fairness ==
  /\ WF_vars(MainStep)
  /\ WF_vars(SigStep)
  /\ SF_vars(SigWait("INT")) /\ SF_vars(SigWait("USR1")) /\ SF_vars(PublishResize)
  /\ WF_vars(NetStep) /\ SF_vars(PublishDevice)

Spec == Init /\ [][Next]_vars /\ Fairness
-----------------------------------------------------------------------------
MainLoc == {"start", "pipe", "eventfd", "create_net", "init", "loop", "epoll", "batch",
            "err_slot", "err_write", "err_kill",
            "join_net", "join_sig", "close", "report", "exited", "crashed"}
SigLoc == {"none", "sigwait", "publish", "set_main", "wake_main", "set_net", "wake_net", "exited"}
NetLoc == {"none", "socket", "eventfd", "setup", "loop", "epoll", "batch", "publish",
           "err_slot", "err_write", "err_kill", "clean_up", "exited"}

(* Types of the variables; a message is there when main goes to read it.   *)
TypeOK ==
  /\ pc \in [Thread -> MainLoc \cup SigLoc \cup NetLoc]
  /\ pc["main"] \in MainLoc /\ pc["sig"] \in SigLoc /\ pc["net"] \in NetLoc
  /\ ready \in SUBSET {"shutdown", "bus", "stdin"}
  /\ pend \in SUBSET {"INT", "WINCH", "USR1"}
  /\ endMain \in BOOLEAN /\ endListen \in BOOLEAN
  /\ mainFd \in FdState /\ netFd \in FdState
  /\ bus \in {"zero", "open", "closed"}
  /\ pipe \in Seq({"resize", "device"}) /\ Len(pipe) <= PipeCap
  /\ "bus" \in ready => pipe # <<>>
  /\ code \in [{"main", "net"} -> Error \cup {NONE}]
  /\ broken \subseteq Failing
  /\ errorSet \in BOOLEAN
  /\ {errorApp, reported, winner} \subseteq Error \cup {NONE}
  /\ stale \in BOOLEAN

(* A thread asleep in epoll_wait although it was asked to end is about to  *)
(* be woken: its eventfd is readable, or the signal thread is on its way   *)
(* to write to it, and to it and not to descriptor 0 or a closed one.      *)
NoLostWakeup ==
  /\ pc["main"] = "epoll" /\ endMain =>
       mainFd = "readable" \/ (mainFd = "open" /\ pc["sig"] = "wake_main")
  /\ pc["net"] = "epoll" /\ endListen =>
       netFd = "readable" \/ (netFd = "open" /\ pc["sig"] = "wake_net")

(* What main tears down is not in use any more: no thread publishes on the *)
(* closed pipe or writes to the closed eventfd of main, and no thread      *)
(* signals the signal thread after it was joined.                          *)
TornDownUnused ==
  /\ bus = "closed" => pc["sig"] # "publish" /\ pc["net"] # "publish"
  /\ mainFd = "closed" => pc["sig"] \notin {"set_main", "wake_main"}
  /\ pc["main"] \in {"close", "report", "exited"} => pc["net"] # "err_kill"

(* The error printed at the end is the first one any thread reported, and  *)
(* an error that was reported is printed.                                  *)
FirstErrorReported == pc["main"] = "exited" => reported = winner

(* A thread that finds the slot taken does not disturb the error in it,    *)
(* not even while the winner is still between its two writes.              *)
ErrorKept == [][errorApp # NONE => errorApp' = errorApp]_vars

(* The inductive invariant behind the four properties above: which thread  *)
(* has been created, which descriptor exists, and what has ended, by where *)
(* main is; ...                                                            *)
Started ==
  /\ pc["sig"] = "none" <=> pc["main"] = "start"
  /\ pc["net"] = "none" <=> pc["main"] \in {"start", "pipe", "eventfd", "create_net"}
  /\ bus = "zero" <=> pc["main"] \in {"start", "pipe"}
  /\ mainFd = "zero" <=> pc["main"] \in {"start", "pipe", "eventfd"}
  /\ pc["net"] \in {"setup", "loop", "epoll", "batch", "publish", "clean_up"} =>
       netFd \in {"open", "readable"}
Ended ==
  /\ pc["main"] \in {"report", "exited"} => bus = "closed" /\ mainFd = "closed"
  /\ bus = "closed" \/ mainFd = "closed" => pc["main"] \in {"report", "exited", "crashed"}
  /\ bus = "closed" \/ mainFd = "closed" => pc["sig"] = "exited" /\ pc["net"] = "exited"
  /\ pc["main"] \in {"join_sig", "close", "report", "exited"} => pc["net"] = "exited"
  /\ pc["main"] \in {"close", "report", "exited"} => pc["sig"] = "exited"

(* ... what the signal thread has done of its two requests; ...            *)
Requested ==
  /\ endMain <=> pc["sig"] \in {"wake_main", "set_net", "wake_net", "exited"}
  /\ endListen <=> pc["sig"] \in {"wake_net", "exited"}
  /\ pc["main"] = "epoll" /\ pc["sig"] \in {"set_net", "wake_net", "exited"} =>
       mainFd = "readable"
  /\ pc["net"] = "epoll" /\ pc["sig"] = "exited" => netFd = "readable"

(* ... and who owns the error slot between the winner's two writes.        *)
Reporting(t) == pc[t] \in {"err_slot", "err_write", "err_kill"}
Slot ==
  /\ errorSet <=> winner # NONE
  /\ ~errorSet => errorApp = NONE
  /\ errorSet => \/ errorApp = winner
                 \/ pc["main"] = "err_write"
                 \/ pc["net"] = "err_write"
  /\ \A t \in {"main", "net"} :
       /\ Reporting(t) => code[t] \in Error
       /\ pc[t] = "err_write" => errorSet /\ code[t] = winner /\ errorApp = NONE
  /\ ~(pc["main"] = "err_write" /\ pc["net"] = "err_write")
  /\ pc["main"] = "exited" => reported = errorApp

IndInv == TypeOK /\ Started /\ Ended /\ Requested /\ Slot

(* Once main is asked to end the program does end: it cleans up and exits, *)
(* or crashes where a failed allocation left a NULL pointer, or jams.      *)
ShutdownCompletes == endMain ~> pc["main"] \in {"exited", "crashed"} \/ Jammed

(* An error of any thread, at any time, makes the program end.             *)
ErrorEndsProgram == winner # NONE ~> endMain \/ ~Alive

(* A resize signalled once there is a pipe reaches main's resize handler.  *)
ResizeHandled == "WINCH" \in pend /\ bus = "open" ~> ~stale \/ endMain \/ ~Alive
=============================================================================
