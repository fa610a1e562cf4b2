----------------------------- MODULE DeviceFlow -----------------------------
(***************************************************************************)
(* The life of a device record: malloc'ed and registered by the network    *)
(* thread (net/network_thread.c), handed to the main thread as a pointer   *)
(* in a ui_message through a pipe (app/lifecycle.c), stored in the table   *)
(* the screen shows (core/device.c, app/main.c), refreshed in place by the *)
(* network thread, freed by the main thread at shutdown                    *)
(* (app/app_clean_up.c).  The signal thread writes to the same pipe.       *)
(*                                                                         *)
(* One action is what a thread does between two points where another       *)
(* thread's action can make a difference: the reads of the two loop flags, *)
(* epoll_wait, the writes to and reads from the pipe, the joins.           *)
(*                                                                         *)
(* Abstracted: the registry is the one of module Registry (module HashMap  *)
(* implements it); a record is its address; how an error becomes a         *)
(* shutdown is module Lifecycle, here the signal thread may request one at *)
(* any time.                                                               *)
(***************************************************************************)
EXTENDS Integers, Sequences, FiniteSets, SequencesExt

CONSTANTS
  Mac,          \* hardware addresses
  Device,       \* addresses malloc() may return for a device
  NULL,
  PipeCap,      \* messages the pipe holds before write() blocks
  InitialSize   \* BUFFER_INITIAL_SIZE

ASSUME DeviceFlowAssumption ==
  /\ NULL \notin Device
  /\ PipeCap \in Nat \ {0}
  /\ InitialSize \in Nat \ {0}

VARIABLES
  netPc,        \* "loop", "batch", "publish" or "exited"
  registry,     \* the network thread's map: a set of [mac, device]
  msg,          \* the message its handler is about to publish
  sigPc,        \* "sigwait", "resize", "requested" or "done"
  pipe,         \* the event bus
  endMain,      \* end_main_loop
  endListen,    \* end_listen_loop
  mainPc,       \* "loop", "batch", "join", "done" or "undefined"
  ready,        \* the events of main's batch still to be handled
  items,        \* data->items[0 .. data->count - 1]
  size,         \* data->size
  allocated,    \* how many pointers the block data->items points to can hold
  viewCount,    \* view.count
  inspected,    \* the device the inspect popup shows, or NULL
  heap,         \* the device records malloc'ed and not freed
  lost,         \* history: records whose last pointer was dropped unfreed
  discovered    \* history: devices registered, in order

netVars == <<netPc, registry, msg>>
mainVars == <<mainPc, ready, items, size, allocated, viewCount, inspected>>
bus == <<sigPc, pipe, endMain, endListen>>
table == <<items, size, allocated, viewCount, inspected>>
records == <<heap, lost, discovered>>
vars == <<netVars, bus, mainVars, records>>

NoMsg == [type |-> "none", data |-> NULL]
NewEntryAsUpdate(d) == [type |-> "UI_UPDATE_TABLE", data |-> d]
NewEntry(d) == [type |-> "UI_NEW_ENTRY", data |-> d]
Update(d) == [type |-> "UI_UPDATE_TABLE", data |-> d]
Resize == [type |-> "UI_RESIZE", data |-> NULL]
Tick == [type |-> "UI_TIMER_TICK", data |-> NULL]

Stored == Range(items)
Known(m) == \E e \in registry : e.mac = m
NewData(s) == {s[k].data : k \in {j \in DOMAIN s : s[j].type = "UI_NEW_ENTRY"}}
InFlight == NewData(pipe) \cup NewData(<<msg>>)

Init ==
  /\ netPc = "loop" /\ registry = {} /\ msg = NoMsg
  /\ sigPc = "sigwait"
  /\ pipe = <<>>
  /\ endMain = FALSE /\ endListen = FALSE
  /\ mainPc = "loop" /\ ready = {}
  /\ items = <<>> /\ size = InitialSize /\ allocated = InitialSize
  /\ viewCount = 0 /\ inspected = NULL
  /\ heap = {} /\ lost = {} /\ discovered = <<>>
-----------------------------------------------------------------------------
(* The network thread: network_routine and its handlers.                   *)

(* The loop's condition is read between two batches of events only: a      *)
(* batch under way is handled to its end after end_listen_loop is set.     *)
NetWait ==
  /\ netPc = "loop" /\ ~endListen
  /\ netPc' = "batch"
  /\ UNCHANGED <<registry, msg, bus, mainVars, records>>

NetBatchEnds ==
  /\ netPc = "batch"
  /\ netPc' = "loop"
  /\ UNCHANGED <<registry, msg, bus, mainVars, records>>

(* handle_incoming_frame of an ARP frame from an address not seen before:  *)
(* the record just malloc'ed enters the registry.                          *)
FrameOfNewDevice(m, d) ==
  /\ netPc = "batch" /\ ~Known(m) /\ d \notin heap
  /\ registry' = registry \cup {[mac |-> m, device |-> d]}
  /\ heap' = heap \cup {d}
  /\ discovered' = Append(discovered, d)
  /\ msg' = NewEntry(d)
  /\ netPc' = "publish"
  /\ UNCHANGED <<bus, mainVars, lost>>

AnnouncedNotFound(e, d) == NULL
AnnouncedFreed(e, d) == d
Announced(e, d) == e.device
AfterwardsKept(d) == heap \cup {d}
Afterwards(d) == heap

(* ... from a known address: the registered record is refreshed and        *)
(* announced, the record d malloc'ed for the frame is freed.               *)
FrameOfKnownDevice(m, d) ==
  /\ netPc = "batch" /\ d \notin heap
  /\ \E e \in registry : e.mac = m /\ msg' = Update(Announced(e, d))
  /\ heap' = Afterwards(d)
  /\ netPc' = "publish"
  /\ UNCHANGED <<registry, bus, mainVars, lost, discovered>>

(* handle_timer_tick.                                                      *)
TimerTick ==
  /\ netPc = "batch"
  /\ msg' = Tick
  /\ netPc' = "publish"
  /\ UNCHANGED <<registry, bus, mainVars, records>>

(* network_error in a handler: the thread ends.  The record of the frame   *)
(* being handled, if there is one, is neither freed nor registered.        *)
NetFail(ds) ==
  /\ netPc = "batch" /\ ds \cap heap = {}
  /\ heap' = heap \cup ds
  /\ lost' = lost \cup ds
  /\ netPc' = "exited"
  /\ UNCHANGED <<registry, msg, bus, mainVars, discovered>>

WriteNonBlocking(m) == pipe' = IF Len(pipe) < PipeCap THEN Append(pipe, m) ELSE pipe

(* event_bus_publish: write() blocks as long as the pipe is full.          *)
Write(m) == Len(pipe) < PipeCap /\ pipe' = Append(pipe, m)

NetPublish ==
  /\ netPc = "publish"
  /\ Write(msg)
  /\ msg' = NoMsg
  /\ netPc' = "batch"
  /\ UNCHANGED <<registry, sigPc, endMain, endListen, mainVars, records>>

(* end_listen_loop read as true: network_clean_up frees the map (not the   *)
(* records in it) and the thread returns.                                  *)
NetLeaves ==
  /\ netPc = "loop" /\ endListen
  /\ registry' = {}
  /\ netPc' = "exited"
  /\ UNCHANGED <<msg, bus, mainVars, records>>
-----------------------------------------------------------------------------
(* The signal thread: signal_routine.                                      *)
SigWinch ==
  /\ sigPc = "sigwait"
  /\ sigPc' = "resize"
  /\ UNCHANGED <<netVars, pipe, endMain, endListen, mainVars, records>>

SigPublish ==
  /\ sigPc = "resize"
  /\ Write(Resize)
  /\ sigPc' = "sigwait"
  /\ UNCHANGED <<netVars, endMain, endListen, mainVars, records>>

(* SIGINT or SIGUSR1: lifecycle_request_shutdown ...                       *)
SigRequestMain ==
  /\ sigPc = "sigwait"
  /\ endMain' = TRUE
  /\ sigPc' = "requested"
  /\ UNCHANGED <<netVars, pipe, endListen, mainVars, records>>

(* ... and then network_request_shutdown.                                  *)
SigRequestNetwork ==
  /\ sigPc = "requested"
  /\ endListen' = TRUE
  /\ sigPc' = "done"
  /\ UNCHANGED <<netVars, pipe, endMain, mainVars, records>>
-----------------------------------------------------------------------------
(* The main thread.                                                        *)

(* epoll_wait has room for all three descriptors: every one that is        *)
(* readable is in the batch.                                               *)
MainWake ==
  /\ mainPc = "loop" /\ ~endMain
  /\ \E keys \in SUBSET {"stdin"} :
       ready' = keys \cup (IF pipe # <<>> THEN {"bus"} ELSE {})
  /\ ready' # {}
  /\ mainPc' = "batch"
  /\ UNCHANGED <<netVars, bus, table, records>>

AfterEvent(e) == IF ready = {e} THEN "loop" ELSE "batch"

(* The next message is read; UI_UPDATE_TABLE, UI_RESIZE and UI_TIMER_TICK  *)
(* redraw and change nothing modelled here.                                *)
ReadMessage(type) ==
  /\ mainPc = "batch" /\ "bus" \in ready
  /\ pipe # <<>> /\ Head(pipe).type = type
  /\ pipe' = Tail(pipe)
  /\ ready' = ready \ {"bus"}

MainRedraws ==
  /\ \E type \in {"UI_UPDATE_TABLE", "UI_RESIZE", "UI_TIMER_TICK"} : ReadMessage(type)
  /\ mainPc' = AfterEvent("bus")
  /\ UNCHANGED <<netVars, sigPc, endMain, endListen, table, records>>

(* (count + 1) > size * 0.8 in device_buffer_store_entry                   *)
NeedsGrow == 10 * (Len(items) + 1) > 8 * size

(* UI_NEW_ENTRY that fits.                                                 *)
MainStores ==
  /\ ReadMessage("UI_NEW_ENTRY")
  /\ ~NeedsGrow
  /\ items' = Append(items, Head(pipe).data)
  /\ viewCount' = viewCount + 1
  /\ mainPc' = AfterEvent("bus")
  /\ UNCHANGED <<netVars, sigPc, endMain, endListen, size, allocated, inspected, records>>

(* UI_NEW_ENTRY that does not: device_buffer_realloc asks for a block of   *)
(* size pointers, records 2 * size and stores to the pointers from size    *)
(* on, past the end of the block.  What the program does from then on is   *)
(* not defined.                                                            *)
MainGrows ==
  /\ ReadMessage("UI_NEW_ENTRY")
  /\ NeedsGrow
  /\ allocated' = size
  /\ size' = 2 * size
  /\ items' = Append(items, Head(pipe).data)
  /\ viewCount' = viewCount + 1
  /\ mainPc' = IF size' > allocated' THEN "undefined" ELSE AfterEvent("bus")
  /\ UNCHANGED <<netVars, sigPc, endMain, endListen, inspected, records>>

(* realloc() returned NULL: main_error, but view.count counts the device   *)
(* all the same, and draw() goes through a NULL pointer if the new last    *)
(* row is on the screen.                                                   *)
MainGrowFails ==
  /\ ReadMessage("UI_NEW_ENTRY")
  /\ NeedsGrow
  /\ lost' = lost \cup {Head(pipe).data}
  /\ viewCount' = viewCount + 1
  /\ mainPc' \in {AfterEvent("bus"), "undefined"}
  /\ UNCHANGED <<netVars, sigPc, endMain, endListen, items, size, allocated, inspected, heap, discovered>>

(* A key: 'i' opens the inspect popup on a stored device or closes it, the *)
(* others do not matter here.                                              *)
MainKey ==
  /\ mainPc = "batch" /\ "stdin" \in ready
  /\ \/ UNCHANGED inspected
     \/ inspected = NULL /\ inspected' \in Stored
     \/ inspected # NULL /\ inspected' = NULL
  /\ ready' = ready \ {"stdin"}
  /\ mainPc' = AfterEvent("stdin")
  /\ UNCHANGED <<netVars, bus, items, size, allocated, viewCount, records>>

MainLeaves ==
  /\ mainPc = "loop" /\ endMain
  /\ mainPc' = "join"
  /\ UNCHANGED <<netVars, bus, ready, table, records>>

SignalJoined == sigPc = "done"
BothJoined == netPc = "exited" /\ sigPc = "done"

(* main_clean_up: both threads are joined, then the first view.count       *)
(* pointers are freed (those past data->count are NULL, and those past the *)
(* block are nothing at all), then the table.                              *)
MainCleansUp ==
  /\ mainPc = "join" /\ BothJoined
  /\ IF viewCount <= allocated
     THEN mainPc' = "done" /\ heap' = heap \ Stored /\ items' = <<>>
     ELSE mainPc' = "undefined" /\ UNCHANGED <<heap, items>>
  /\ UNCHANGED <<netVars, bus, ready, size, allocated, viewCount, inspected, lost, discovered>>
-----------------------------------------------------------------------------
Network ==
  \/ NetWait \/ NetBatchEnds \/ TimerTick \/ NetPublish \/ NetLeaves
  \/ \E m \in Mac, d \in Device : FrameOfNewDevice(m, d) \/ FrameOfKnownDevice(m, d)
  \/ NetFail({}) \/ \E d \in Device : NetFail({d})
Signal == SigWinch \/ SigPublish \/ SigRequestMain \/ SigRequestNetwork
Main ==
  \/ MainWake \/ MainRedraws \/ MainStores \/ MainGrows \/ MainGrowFails \/ MainKey
  \/ MainLeaves \/ MainCleansUp

Next == Network \/ Signal \/ Main

(* Threads that can run do run; frames, ticks, keys and signals need not   *)
(* come.  A thread blocked in write() gets its turn if the pipe has room   *)
(* again and again: the kernel queues the writers of a pipe.               *)
Fairness ==
  /\ WF_vars(NetBatchEnds) /\ SF_vars(NetPublish) /\ WF_vars(NetLeaves)
  /\ SF_vars(SigPublish) /\ WF_vars(SigRequestNetwork)
  /\ WF_vars(MainWake /\ pipe # <<>>)
  /\ WF_vars(MainRedraws \/ MainStores \/ MainGrows \/ MainGrowFails \/ MainKey)
  /\ WF_vars(MainLeaves) /\ WF_vars(MainCleansUp)

Spec == Init /\ [][Next]_vars /\ Fairness
-----------------------------------------------------------------------------
Message == [type : {"UI_NEW_ENTRY", "UI_UPDATE_TABLE"}, data : Device] \cup {Resize, Tick}

(* Types of the variables.                                                 *)
TypeOK ==
  /\ netPc \in {"loop", "batch", "publish", "exited"}
  /\ registry \in SUBSET [mac : Mac, device : Device]
  /\ msg \in Message \cup {NoMsg}
  /\ sigPc \in {"sigwait", "resize", "requested", "done"}
  /\ pipe \in Seq(Message) /\ Len(pipe) <= PipeCap
  /\ endMain \in BOOLEAN /\ endListen \in BOOLEAN
  /\ mainPc \in {"loop", "batch", "join", "done", "undefined"}
  /\ ready \in SUBSET {"stdin", "bus"}
  /\ items \in Seq(Device)
  /\ size \in Nat \ {0} /\ allocated \in Nat \ {0}
  /\ viewCount \in Nat
  /\ inspected \in Device \cup {NULL}
  /\ heap \in SUBSET Device /\ lost \in SUBSET Device
  /\ discovered \in Seq(Device)

InLoop == mainPc \in {"loop", "batch"}

(* No thread can follow a pointer to a freed record: not through the       *)
(* registry while the network thread runs, not through a message main may  *)
(* still read, not through the table or the inspect popup, and what main   *)
(* frees at the end was not freed before.                                  *)
NoDangling ==
  /\ netPc # "exited" => {e.device : e \in registry} \subseteq heap
  /\ msg.data \in heap \cup {NULL}
  /\ InLoop => /\ \A k \in DOMAIN pipe : pipe[k].data \in heap \cup {NULL}
               /\ inspected \in heap \cup {NULL}
  /\ Stored \subseteq heap

(* Every record has exactly one owner, hence is freed once at most, and a  *)
(* record no frame needs any more was freed: the allocated records are     *)
(* those of the table, those on their way to it and those the code is      *)
(* known to forget, and no record is two of these, or in two rows.         *)
OneOwner ==
  /\ heap = Stored \cup InFlight \cup lost
  /\ Stored \cap InFlight = {} /\ lost \cap (Stored \cup InFlight) = {}
  /\ IsInjective(items)

(* view.count counts the devices main has heard of; the ones still on      *)
(* their way are those discovered since, each once, and travel in the      *)
(* order of discovery.  And UI_UPDATE_TABLE for a device is never handled  *)
(* before its UI_NEW_ENTRY, so update_row looks for a device main knows.   *)
InOrder(way, devices, heardOf) ==
  LET new == {k \in DOMAIN way : way[k].type = "UI_NEW_ENTRY"}
      unheard == heardOf + 1 .. Len(devices)
  IN
  /\ heardOf <= Len(devices)
  /\ \A n \in unheard : \E k \in new : way[k].data = devices[n]
  /\ \A k \in new : \E n \in unheard : way[k].data = devices[n]
  /\ \A j, k \in new : \A m, n \in DOMAIN devices :
       way[j].data = devices[m] /\ way[k].data = devices[n] => (j < k <=> m < n)
UpdatesFollow(way, devices, heardOf) ==
  \A k \in DOMAIN way : way[k].type = "UI_UPDATE_TABLE" =>
    \/ \E n \in 1 .. heardOf : devices[n] = way[k].data
    \/ \E j \in 1 .. k-1 : way[j] = NewEntry(way[k].data)
NothingOvertakes ==
  /\ InOrder(Append(pipe, msg), discovered, viewCount)
  /\ UpdatesFollow(Append(pipe, msg), discovered, viewCount)

(* The inductive invariant behind the four above: a record that was        *)
(* discovered is neither freed nor discovered again before the end, which  *)
(* comes when both threads were joined, and the network thread has a       *)
(* message only between making and publishing it.                          *)
DiscoveredOnce ==
  /\ IsInjective(discovered)
  /\ mainPc # "done" => Range(discovered) \subseteq heap
  /\ \A e \in registry : e.device \in Range(discovered)
Phases ==
  /\ msg = NoMsg <=> netPc # "publish"
  /\ mainPc = "done" => netPc = "exited" /\ sigPc = "done"
IndInv == TypeOK /\ NoDangling /\ OneOwner /\ NothingOvertakes /\ DiscoveredOnce /\ Phases

(* The table main shows implements the abstract one: nothing is lost,      *)
(* duplicated or reordered between the registry and the table, and nothing *)
(* is registered or shown once main has torn the table down.               *)
T == INSTANCE DeviceTable WITH taken <- viewCount, table <- items, open <- mainPc # "done"
ImplementsTable == T!Spec

(* The devices that were discovered get into the table unless the program  *)
(* is asked to end, runs out of memory or writes out of bounds first.      *)
NotShown == Range(discovered) \ (Stored \cup lost)
DiscoveredIsShown ==
  NotShown # {} ~> NotShown = {} \/ endMain \/ mainPc = "undefined"

(* device.h:36 calls data->size the "size of whole buffer".                *)
SizeIsAllocated == size = allocated
=============================================================================
