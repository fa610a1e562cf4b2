----------------------------- MODULE BindUpdate -----------------------------
(***************************************************************************)
(* The change of interface (net/raw_socket.c, handle_bind_update and the   *)
(* loop of net/network_thread.c, Enter in ui/tui.c): main writes the       *)
(* interface chosen into binded_interface, under a mutex, and notifies the *)
(* network thread through an eventfd; the network thread replaces its      *)
(* socket by one bound to what it finds there.  The mutex and the eventfd  *)
(* are made and destroyed by the network thread while main is running.     *)
(*                                                                         *)
(* Where the program locks a mutex that is not valid or frees a name that  *)
(* was freed its behaviour is undefined: the model stops (~defined).       *)
(*                                                                         *)
(* Abstracted: what a frame carries beyond the interface it came in on;    *)
(* the ticks' work; an interface is its index and name; how an error ends  *)
(* the program (module Lifecycle), here it may be asked to end any time.   *)
(***************************************************************************)
EXTENDS Integers, SequencesExt, FiniteSetsExt

CONSTANTS
  Interface,
  ALL,         \* the entry "all"; of a socket: not bound
  NONE,        \* no interface; of a socket: closed
  Initial,     \* argv[1], or NONE
  Fd,          \* numbers the socket's descriptor may get
  QueueCap     \* bound: frames the kernel keeps for a socket

ASSUME BindUpdateAssumption ==
  /\ ALL \notin Interface /\ NONE \notin Interface /\ ALL # NONE
  /\ Initial \in Interface \cup {NONE}
  /\ QueueCap \in Nat
  /\ Fd \cap {"bind", "shutdown", "timer"} = {}

VARIABLES
  netPc,       \* where the network thread is
  batch,       \* the events of its epoll_wait still to be handled
  target,      \* sll.sll_ifindex in change_bind
  mainPc,      \* where the main thread is
  choice,      \* the interface under its cursor
  mutex,       \* binded_interface_mutex: "free", its holder, or "destroyed"
  bound,       \* binded_interface
  nameFreed,   \* binded_interface.if_name was freed and not replaced
  bindFd,      \* bind_update_fd: "zero" until it is created, "open", "closed"
  notified,    \* its counter is not 0
  sockFd,      \* socket_fd
  sockIface,   \* what the socket is bound to
  registered,  \* the socket is in the epoll set
  queue,       \* the frames waiting in it
  endMain, endListen,
  replaced,    \* history: the socket was replaced in this batch
  defined      \* history: nothing undefined was done yet

mainVars == <<mainPc, choice>>
shared == <<mutex, bound, nameFreed, bindFd, notified>>
socket == <<sockFd, sockIface, registered, queue>>
flags == <<endMain, endListen>>
vars == <<netPc, batch, target, mainVars, shared, socket, flags, replaced, defined>>

Init ==
  /\ netPc = "socket" /\ batch = <<>> /\ target = NONE
  /\ mainPc = "loop" /\ choice = NONE
  /\ mutex = "free" /\ bound = NONE /\ nameFreed = FALSE
  /\ bindFd = "zero" /\ notified = FALSE
  /\ sockFd \in Fd /\ sockIface = NONE /\ registered = FALSE /\ queue = <<>>
  /\ endMain = FALSE /\ endListen = FALSE
  /\ replaced = FALSE /\ defined = TRUE

(* epoll_register and epoll_unregister of the socket.                      *)
EpollRegister == registered' = TRUE
EpollUnregister == registered' = FALSE

(* A step of the network thread, which touches nothing that is main's.     *)
Net(from, to) == netPc = from /\ netPc' = to /\ UNCHANGED <<mainVars, flags>>

FailCleaningUp(from) ==
  /\ Net(from, "exited")
  /\ nameFreed' = TRUE /\ mutex' = "destroyed" /\ bindFd' = "closed"
  /\ sockIface' = NONE /\ registered' = FALSE /\ queue' = <<>>
  /\ UNCHANGED <<batch, target, bound, notified, sockFd, replaced, defined>>

(* network_error: the socket is closed and the thread gone, what it shares *)
(* with main stays.                                                        *)
Fail(from) ==
  /\ Net(from, "exited")
  /\ sockIface' = NONE /\ registered' = FALSE /\ queue' = <<>>
  /\ UNCHANGED <<batch, target, shared, sockFd, replaced, defined>>

(* socket(): the lowest number that is free; main opens and closes a       *)
(* descriptor of its own when it lists the interfaces, so it need not be   *)
(* the number just closed.                                                 *)
OpenSocket(from, to) ==
  /\ Net(from, to)
  /\ sockFd' \in Fd
  /\ sockIface' = ALL
  /\ UNCHANGED <<batch, target, shared, registered, queue, replaced, defined>>

Bind(from, to, interface) ==
  /\ Net(from, to)
  /\ sockIface' = interface
  /\ UNCHANGED <<batch, target, shared, sockFd, registered, queue, replaced, defined>>

Register(from, to) ==
  /\ Net(from, to)
  /\ EpollRegister
  /\ UNCHANGED <<batch, target, shared, sockFd, sockIface, queue, replaced, defined>>

StoreBound(from, to, interface) ==
  /\ Net(from, to)
  /\ mutex = "free"
  /\ bound' = interface
  /\ UNCHANGED <<batch, target, mutex, nameFreed, bindFd, notified, socket, replaced, defined>>
-----------------------------------------------------------------------------
(* network_init: raw_socket_create and socket_init.                        *)
RawSocketCreate == OpenSocket("socket", "eventfd") \/ Fail("socket")

CreateBindFd ==
  /\ Net("eventfd", "mutex_init")
  /\ bindFd' = "open"
  /\ UNCHANGED <<batch, target, mutex, bound, nameFreed, notified, socket, replaced, defined>>

(* Main may already be between lock and unlock: a zeroed mutex works.      *)
MutexInit ==
  /\ Net("mutex_init", "store_all")
  /\ defined' = (mutex = "free")
  /\ UNCHANGED <<batch, target, shared, socket, replaced>>

StoreAll == StoreBound("store_all", IF Initial = NONE THEN "register" ELSE "bind_initial", ALL)

BindInitial == Bind("bind_initial", "store_initial", Initial) \/ Fail("bind_initial")

StoreInitial == StoreBound("store_initial", "register", Initial)

(* The registry's table is allocated last and may not be.                  *)
RegisterAll == Register("register", "loop") \/ Fail("register")
-----------------------------------------------------------------------------
(* network_routine.                                                        *)
NetLoop ==
  /\ Net("loop", IF endListen THEN "free_name" ELSE "epoll")
  /\ UNCHANGED <<batch, target, shared, socket, replaced, defined>>

(* epoll_wait has room for three of the four descriptors.                  *)
Readable ==
  (IF registered /\ queue # <<>> THEN {sockFd} ELSE {})
    \cup (IF notified THEN {"bind"} ELSE {})
    \cup (IF endListen THEN {"shutdown"} ELSE {})

NetWait ==
  /\ Net("epoll", "batch")
  /\ \E ready \in {Readable, Readable \cup {"timer"}} :
       /\ ready # {}
       /\ \E n \in {k \in 1 .. 3 : k = 3 \/ k = Cardinality(ready)} :
            batch' \in UNION {SetToSeqs(s) : s \in kSubset(n, ready)}
  /\ replaced' = FALSE
  /\ UNCHANGED <<target, shared, socket, defined>>

HandleFrameDraining ==
  /\ Net("batch", "batch")
  /\ batch # <<>> /\ Head(batch) = sockFd /\ queue # <<>>
  /\ queue' = Tail(queue)
  /\ UNCHANGED <<batch, target, shared, sockFd, sockIface, registered, replaced, defined>>

(* handle_incoming_frame, as long as recvmsg() has a frame to return.      *)
HandleFrame ==
  /\ Net("batch", "batch")
  /\ batch # <<>> /\ Head(batch) = sockFd /\ queue # <<>>
  /\ queue' = Tail(queue)
  /\ batch' = Tail(batch)
  /\ UNCHANGED <<target, shared, sockFd, sockIface, registered, replaced, defined>>

(* device_registry_upsert without memory, read() of the timer failing.     *)
HandlerFails ==
  /\ batch # <<>> /\ Head(batch) \in {sockFd, "timer"}
  /\ Head(batch) = sockFd => queue # <<>>
  /\ Fail("batch")

(* The timer, the shutdown, and the number of a socket that is no more.    *)
SkipEvent ==
  /\ Net("batch", "batch")
  /\ batch # <<>> /\ Head(batch) \notin {sockFd, "bind"}
  /\ batch' = Tail(batch)
  /\ UNCHANGED <<target, shared, socket, replaced, defined>>

BatchEnds ==
  /\ batch = <<>>
  /\ Net("batch", "loop")
  /\ UNCHANGED <<batch, target, shared, socket, replaced, defined>>

(* handle_bind_update: the counter is reset before the choice is read.     *)
HandleBindUpdate ==
  /\ batch # <<>> /\ Head(batch) = "bind"
  /\ Net("batch", "close")
  /\ batch' = Tail(batch)
  /\ notified' = FALSE
  /\ replaced' = TRUE
  /\ UNCHANGED <<target, mutex, bound, nameFreed, bindFd, socket, defined>>

CloseOldKeepingFrames ==
  /\ Net("close", "open")
  /\ sockIface' = NONE /\ EpollUnregister
  /\ UNCHANGED <<batch, target, shared, sockFd, queue, replaced, defined>>

(* change_bind: the old socket goes with the frames in it, ...             *)
CloseOld ==
  /\ Net("close", "open")
  /\ sockIface' = NONE /\ EpollUnregister /\ queue' = <<>>
  /\ UNCHANGED <<batch, target, shared, sockFd, replaced, defined>>

OpenNew == OpenSocket("open", "lock") \/ Fail("open")

LockBound ==
  /\ Net("lock", "locked")
  /\ mutex = "free" /\ mutex' = "net"
  /\ UNCHANGED <<batch, target, bound, nameFreed, bindFd, notified, socket, replaced, defined>>

BoundToAllLocked ==
  /\ bound = ALL
  /\ Net("locked", "batch")
  /\ EpollRegister
  /\ UNCHANGED <<batch, target, shared, sockFd, sockIface, queue, replaced, defined>>

(* ... the new one stays unbound for "all", with the early return ...      *)
BoundToAll ==
  /\ bound = ALL
  /\ Net("locked", "batch")
  /\ EpollRegister
  /\ mutex' = "free"
  /\ UNCHANGED <<batch, target, bound, nameFreed, bindFd, notified, sockFd, sockIface, queue,
                 replaced, defined>>

ReadBound ==
  /\ bound # ALL
  /\ Net("locked", "bind")
  /\ target' = bound
  /\ mutex' = "free"
  /\ UNCHANGED <<batch, bound, nameFreed, bindFd, notified, socket, replaced, defined>>

BindNewDraining ==
  /\ Net("bind", "register_new")
  /\ sockIface' = target
  /\ notified' = FALSE
  /\ UNCHANGED <<batch, target, mutex, bound, nameFreed, bindFd, sockFd, registered, queue,
                 replaced, defined>>

(* ... or is bound; the interface may be gone by now.                      *)
BindNew == Bind("bind", "register_new", target) \/ Fail("bind")

RegisterNew == Register("register_new", "batch")

(* network_clean_up and socket_cleanup.                                    *)
FreeName ==
  /\ Net("free_name", "destroy")
  /\ mutex = "free"
  /\ nameFreed' = TRUE
  /\ UNCHANGED <<batch, target, mutex, bound, bindFd, notified, socket, replaced, defined>>

DestroyMutex ==
  /\ Net("destroy", "exited")
  /\ defined' = (mutex = "free")
  /\ mutex' = "destroyed"
  /\ bindFd' = "closed"
  /\ sockIface' = NONE /\ registered' = FALSE /\ queue' = <<>>
  /\ UNCHANGED <<batch, target, bound, nameFreed, notified, sockFd, replaced>>
-----------------------------------------------------------------------------
(* The main thread, whose batch goes on after end_main_loop is set.        *)
Main(from, to) ==
  /\ mainPc = from /\ mainPc' = to
  /\ UNCHANGED <<netPc, batch, target, socket, flags, replaced>>

MainLoop ==
  /\ Main("loop", IF endMain THEN "join" ELSE "batch")
  /\ UNCHANGED <<choice, shared, defined>>

MainBatchEnds == Main("batch", "loop") /\ UNCHANGED <<choice, shared, defined>>

(* Enter on an entry of the list: set_bound_interface ...                  *)
Enter(interface) ==
  /\ Main("batch", "lock")
  /\ choice' = interface
  /\ UNCHANGED <<shared, defined>>

LocksBound(from, to) ==
  /\ Main(from, to)
  /\ mutex \in {"free", "destroyed"}
  /\ mutex' = "main"
  /\ defined' = (mutex = "free")
  /\ UNCHANGED <<choice, bound, nameFreed, bindFd, notified>>

MainLocks == LocksBound("lock", "store")

MainStores ==
  /\ Main("store", "notify")
  /\ bound' = choice
  /\ nameFreed' = FALSE
  /\ defined' = ~nameFreed
  /\ mutex' = "free"
  /\ UNCHANGED <<choice, bindFd, notified>>

(* ... and bind_update_notify, to descriptor 0 if the eventfd is not there *)
(* yet.                                                                    *)
MainNotifies ==
  /\ Main("notify", "batch")
  /\ notified' = (notified \/ bindFd = "open")
  /\ UNCHANGED <<choice, mutex, bound, nameFreed, bindFd, defined>>

(* Every row of the list of interfaces that is drawn asks for the bound    *)
(* one: get_bound_interface.                                               *)
DrawInterface ==
  /\ Main("batch", "look")
  /\ UNCHANGED <<choice, shared, defined>>

MainLocksToLook == LocksBound("look", "read")

MainReads ==
  /\ Main("read", "batch")
  /\ mutex' = "free"
  /\ UNCHANGED <<choice, bound, nameFreed, bindFd, notified, defined>>

MainJoins ==
  /\ netPc = "exited"
  /\ Main("join", "done")
  /\ UNCHANGED <<choice, shared, defined>>
-----------------------------------------------------------------------------
(* The signal thread asks main to end, then the network thread.            *)
RequestEnd ==
  /\ IF endMain THEN ~endListen /\ endListen' = TRUE ELSE UNCHANGED endListen
  /\ endMain' = TRUE
  /\ UNCHANGED <<netPc, batch, target, mainVars, shared, socket, replaced, defined>>

(* The kernel queues a frame on a socket bound to its interface, or to     *)
(* none.                                                                   *)
FrameArrives(interface) ==
  /\ sockIface \in {interface, ALL}
  /\ Len(queue) < QueueCap
  /\ queue' = Append(queue, sockIface)
  /\ UNCHANGED <<netPc, batch, target, mainVars, shared, sockFd, sockIface, registered,
                 flags, replaced, defined>>

SocketInit ==
  \/ RawSocketCreate \/ CreateBindFd \/ MutexInit \/ StoreAll
  \/ BindInitial \/ StoreInitial \/ RegisterAll
ChangeBind ==
  \/ CloseOld \/ OpenNew \/ LockBound \/ BoundToAll \/ ReadBound \/ BindNew \/ RegisterNew
NetStep ==
  \/ SocketInit \/ NetLoop \/ HandleFrame \/ HandlerFails \/ SkipEvent \/ BatchEnds
  \/ HandleBindUpdate \/ ChangeBind \/ FreeName \/ DestroyMutex
MainStep ==
  \/ MainLoop \/ MainBatchEnds \/ MainJoins
  \/ MainLocks \/ MainStores \/ MainNotifies \/ MainLocksToLook \/ MainReads
Outside ==
  \/ RequestEnd \/ DrawInterface
  \/ \E interface \in Interface : FrameArrives(interface)
  \/ \E interface \in Interface \cup {ALL} : Enter(interface)

(* The thread waits in recvmsg() for a frame that epoll did not announce.  *)
Stuck == netPc = "batch" /\ batch # <<>> /\ Head(batch) = sockFd /\ queue = <<>>

Over == (~defined \/ mainPc = "done") /\ UNCHANGED vars

Next == (defined /\ (NetStep \/ NetWait \/ MainStep \/ Outside)) \/ Over

(* A thread that can take a step takes one; epoll_wait need not return     *)
(* unless something is readable; a thread that waits for the mutex gets    *)
(* it if it is free again and again.                                       *)
Fairness ==
  /\ WF_vars(defined /\ (NetStep \/ (NetWait /\ Readable # {})))
  /\ SF_vars(defined /\ (StoreAll \/ StoreInitial \/ LockBound \/ FreeName))
  /\ WF_vars(defined /\ MainStep) /\ SF_vars(defined /\ (MainLocks \/ MainLocksToLook))

Spec == Init /\ [][Next]_vars /\ Fairness
-----------------------------------------------------------------------------
InitLoc == {"socket", "eventfd", "mutex_init", "store_all", "bind_initial", "store_initial",
            "register"}
ChangeLoc == {"close", "open", "lock", "locked", "bind", "register_new"}

(* No choice is forgotten: whenever the network thread is between two      *)
(* batches with no notification to come, its socket is bound to the        *)
(* interface the list marks with '*', however choices, notifications and   *)
(* changes overlapped.                                                     *)
ChoiceApplied ==
  netPc \in {"loop", "epoll"} /\ ~notified /\ mainPc # "notify" => sockIface = bound

(* A frame that came in on the interface bound before is never handled     *)
(* after the change.  (One that came in before the new socket was bound    *)
(* may be, from whatever interface.)                                       *)
NoOldFrames == Range(queue) \subseteq {sockIface, ALL}

(* Every announcement of a frame in a batch is good for one recvmsg(),     *)
(* unless the socket was replaced after epoll_wait made it: only then can  *)
(* the thread be stuck.                                                    *)
FramesAnnounced == netPc = "batch" /\ sockFd \in Range(batch) => queue # <<>> \/ replaced

(* What main does with the shared interface is well defined except while   *)
(* the network thread starts or the program ends.                          *)
DefinedInService == ~defined => netPc \in InitLoc \/ endListen

(* The inductive invariant behind ChoiceApplied and DefinedInService: who  *)
(* holds the mutex, what is there while the thread is in service, and how  *)
(* far a change of interface has got when a new choice is made.            *)
MutexHeld ==
  /\ mutex = "net" <=> netPc = "locked"
  /\ defined => (mutex = "main" <=> mainPc \in {"store", "read"})
  /\ netPc \notin {"destroy", "exited"} => mutex # "destroyed" /\ ~nameFreed
  /\ netPc \in {"free_name", "destroy"} => endListen
  /\ netPc = "exited" /\ ~endListen => mutex # "destroyed" /\ ~nameFreed
InService ==
  netPc \notin {"socket", "eventfd", "exited"} => bindFd = "open"
Pending ==
  LET current == notified \/ mainPc = "notify" IN
  /\ netPc \in {"loop", "epoll", "batch", "register"} => current \/ sockIface = bound
  /\ netPc \in {"eventfd", "mutex_init", "store_all"} => sockIface = ALL
  /\ netPc = "store_initial" => sockIface = Initial
  /\ netPc \in {"lock", "locked", "bind"} => sockIface = ALL
  /\ netPc = "bind" => current \/ target = bound
  /\ netPc = "register_new" => current \/ sockIface = bound

IndInv == DefinedInService /\ MutexHeld /\ InService /\ Pending

(* What the two properties of frames need besides: a closed socket has no  *)
(* frames, one is bound only when it was not bound before, and no event is *)
(* twice in a batch.                                                       *)
SocketFrames ==
  /\ queue \in Seq(Interface \cup {ALL})
  /\ netPc \in {"socket", "open"} => sockIface = NONE /\ queue = <<>>
  /\ netPc = "bind_initial" => sockIface = ALL
  /\ netPc \in ChangeLoc => replaced
EachEventOnce ==
  /\ sockFd \in Fd
  /\ batch \in Seq(Fd \cup {"bind", "shutdown", "timer"})
  /\ IsInjective(batch)
FrameInv == NoOldFrames /\ FramesAnnounced /\ SocketFrames /\ EachEventOnce

(* Enter always comes back from set_bound_interface, and drawing the list  *)
(* from get_bound_interface: no way through change_bind, and no error,     *)
(* leaves the mutex locked.                                                *)
MainWaits == mainPc \in {"lock", "look"}
EnterReturns == MainWaits ~> ~MainWaits \/ ~defined

(* Asked to end, the network thread does, unless it is stuck on a socket   *)
(* that was replaced under its feet.                                       *)
NetworkEnds == endListen ~> netPc = "exited" \/ Stuck \/ ~defined

(* The interface the list marks comes into force, unless another choice is *)
(* made or the network thread ends first.                                  *)
ChoiceTakesEffect ==
  bound # sockIface ~> \/ bound = sockIface \/ mainPc = "store"
                       \/ endListen \/ netPc = "exited" \/ Stuck \/ ~defined

(* Neither thread stays blocked by what the other does with the mutex and  *)
(* the socket.                                                             *)
BothGoOn == EnterReturns /\ NetworkEnds
=============================================================================
