# NetDet in TLA+

NetDet listens to a local network for ARP frames and shows the devices it hears
in a terminal table. It is one C program of three threads. This directory models
the program's state and control, checks the models on small instances with TLC,
and proves part of what the checks find for every size with TLAPS.

Paths below are relative to the repository (`src/` there is `src/src/` in
`PROJECT.json`, where `src/` stands for the repository itself).

## The system

| Part | Files | State | Operations |
|---|---|---|---|
| Device registry | `src/core/hash_map.c` | open-addressing table, `size`, `count` | search, upsert, growth with rehash |
| Device buffer and records | `src/core/device.c`, `include/core/device.h` | `items`, `size`, `count`; per device: counters, `last_seen`, ring of 60 rates | store and grow, count a frame |
| Event bus, shutdown | `src/app/lifecycle.c` | `end_main_loop`, `shutdown_main_fd`, `pipe_fd`, `signal_thread` | publish, request shutdown, notify a fatal error, clean up |
| Error slot | `src/common/error.c` | `error_set`, `error_app`, `errno_val_app` | `set_error`, `get_error`, `network_error`, `main_error` |
| Signal thread | `src/platform/signal_handler.c` | pending signals | SIGWINCH: publish a resize; SIGINT, SIGUSR1: request both shutdowns and end |
| Main thread | `src/app/main.c`, `app_init.c`, `app_clean_up.c` | `app_context`: windows, table view, buffer, epoll set | start, event loop, clean-up |
| Network thread | `src/net/network_thread.c` | registry, socket, timer, `end_listen_loop`, `shutdown_network_fd` | frame, tick, change of interface, shutdown |
| Raw socket | `src/net/raw_socket.c` | `binded_interface` and its mutex, `bind_update_fd` | create, bind, replace |
| Frame parser | `src/net/frame_parser.c` | none (two buffers on the stack) | normalise the header, put the offloaded tag back, fill a record |
| Screen | `src/ui/tui.c`, `tui_app.c` | windows, `viewport_capacity` | keys, resize, draw, redraw one row |
| Scroll view | `src/ui/scroll_view.c` | `count`, `head`, `visible`, `cursor` | move, configure |
| Popups | `src/ui/tui_popup.c`, `popup_templates.c`, `popup_interfaces.c`, `popup_inspect.c` | `is_visible`, popup window, descriptors, `popup_list`, pointers into a device | open, close, list the interfaces, show statistics |

The network thread owns the registry and creates the device records. It sends
pointers to them through a pipe to the main thread (`UI_NEW_ENTRY`,
`UI_UPDATE_TABLE`, `UI_TIMER_TICK`); the signal thread writes `UI_RESIZE` to the
same pipe. The main thread stores the pointers in the table it draws, reads the
records while the network thread goes on updating them, and frees them after
both threads were joined. The program ends on SIGINT, or on an error: the thread
that meets one puts it into the error slot and sends SIGUSR1 to the signal
thread, which sets both loop flags and writes to both eventfds. In the other
direction main tells the network thread about a new interface through a shared
structure and an eventfd.

What is hard here is what three threads, one blocking pipe and no tests make
hard: wake-ups and descriptors created after the thread that uses them, the
ownership of a record across the pipe, the order in which things are torn down,
errors of two threads at once, allocations that fail half-way, a table and a
registry that grow, a screen whose windows shrink below what its unsigned
arithmetic expects. `PROJECT.json` lists these hazards at their lines, each with
the properties that would show it going wrong, or why no property does.

## Modules

Faulty variants of definitions (named after the definition and the fault, and
placed just before it) are in the modules so that each property can be shown to
catch something; they are not part of any specification.

### HashMap, Registry, MCHashMap, HashMapProofs

`HashMap` is `core/hash_map.c`, one action per turn of a loop, so that the end of
the probing loops is checked and not assumed. `pc` says which function the
network thread is in: `check` is `hashmap_check_entry`, `store` the head of
`hashmap_store_entry`, `rehash` and `move` the loop of `hashmap_realloc` and the
`store_entry` in it, `place` the final `store_entry`. `HashMac` stands for
`hash_mac`: any function, so collisions and wrap-arounds are chosen by the model.
`Registry` is what the network thread needs of it: a set of devices with one per
address, and a search that tells the truth.

### DeviceFlow, DeviceTable, DeviceFlowProofs

`DeviceFlow` follows a record from `malloc` in `handle_incoming_frame` to `free`
in `main_clean_up`. Its actions are the accesses to what threads share: the loop
flags, the pipe, the joins. `heap`, `lost` and `discovered` are history; the rest
are variables of the code. `allocated` is the length of the block `realloc`
returned, which the code does not record. After the out-of-bounds stores of the
first growth the model stops (`mainPc = "undefined"`): what the program does then
is not defined. `DeviceTable` is the promise to the user: devices enter the table
once, in the order of discovery, and are left out only when memory runs out.

### Lifecycle, LifecycleProofs

Start, shutdown and errors. `pc` gives the place of every thread; a flag and the
eventfd that goes with it are two steps, as are the creation of a thread and of
the descriptors it uses (`"zero"`: the static variable still holds 0). `broken`
records which allocation of main failed: the table, a row, or the list of
interfaces; what draws or searches them may then crash. `CleanUpCrashes` is
`interfaces_list_clean_up` through a NULL list in `main_clean_up`.

### ScrollView, Layout, Tui, MCTui, TuiProofs

`ScrollView` has `scroll_move` and `scroll_view_configure` as operators, `Layout`
the columns and the ends of the texts, `Tui` the main thread's events and keys. An
action is one event with the `draw()` that follows, because `draw()` adapts the
number of visible rows. Unsigned results of negative numbers are written out where
they occur (`Capacity`, `ScrollViewConfigure`).

Of what `draw()` prints, `Layout` keeps where it ends, each text at the longest it
can be: the five columns of a row as `table_layout_compute` divides the width
(`RowEnd`), the lines of the popups (`LineEnds`), and the frame (`LastRow`,
`LastColumn`). `LineEnds` takes an interface's name at its 15 characters, a rate at
10 digits and the total, printed with `%d`, at the 11 characters of an `int`.
`TextInFrame` relates these to the views and to the window the popup got.

`Lost(v)` is a view whose `head` is the count of its items. KEY_DOWN makes one of a
view without a visible row: the next item, behind the last, becomes the first to
show (`scroll_view.c:23-29`). It stays so when rows become visible, and
`EveryItemReachable` and `ArrowLandsInWindow` say what the keys do from there.

### BindUpdate, BindUpdateProofs

`BindUpdate` is `net/raw_socket.c` with the loop of `network_thread.c` that calls
it and the two calls of the main thread: `set_bound_interface` when Enter chooses
an interface, `get_bound_interface` when the list of interfaces is drawn. One
action is one lock, unlock or system call. `sockFd` is a descriptor number, which
the kernel may give again to the socket that replaces the one closed; `batch` is
what `epoll_wait` returned, so a stale event is an event of the batch whose number
belongs to another socket by now. A new packet socket hears every interface
(`sockIface = ALL`) until `bind()`, and what it heard stays in `queue`. `defined`
becomes false where the code locks, sets up or destroys the mutex in a state in
which it must not, or frees the name a second time: nothing is claimed of what
follows. A notification written to descriptor 0, before the eventfd exists, is
lost. `Stuck` is a `recvmsg` on an empty socket after a stale event. `EpollRegister` and
`EpollUnregister` are the two functions of `platform/epoll_utils.c`, applied to
the socket; the other descriptors are registered once, where they are created.

### DeviceStats, DeviceStatsProofs

The counters of one record, one action per access: the network thread counts
frames and, in `handle_timer_tick`, stores the rate, the previous count and the
head of the ring in three steps and then publishes `UI_TIMER_TICK`. Main opens and
closes the inspect popup on the device, draws it again on a tick or for another
event, and while it draws reads the total, the rate (`get_rate`) and the graph
(`get_graph`) of `popup_inspect.c`. `ticks` counts the messages in the pipe, whose
room is the business of `DeviceFlow`. `totals` is history, the frames counted when
each second was over: the rates the ring should show are its differences (`Rate`).
`OUTSIDE` is what lies before the ring's array.

### FrameParser, MCFrameParser, FrameParserProofs

`net/frame_parser.c` and its calls in `handle_incoming_frame`, on buffers of
two-byte words: a buffer is a function from offsets to words, a `memcpy` the
operator `Copy`. What the kernel makes of a frame on the wire (`Word`,
`Ancillary`) is external: it leaves the tags in the frame or takes the outermost
one away and reports it, with or without its TPID. A frame may have any length:
`recvmsg` cuts it to the buffer (`ReceivedLength`), or fails (`ReceiveFails`), and a
copy that ends beyond `processed_frame` ends the behaviour (`pc = "undefined"`). The
reference is the frame itself: `OutermostTag` and the fields of the ARP packet,
against the record.

### LastSeen, MCLastSeen, LastSeenProofs

The time of a device's last frame from `set_device_data` and
`device_registry_upsert`, which stores its three fields one by one, through
`UI_UPDATE_TABLE` to `update_row`, which reads them one by one into one row of the
screen. `Address` gives each record the address `malloc` chose.

## What the runs check

| Run | Instance | Shows |
|---|---|---|
| `hash_map` | 4 addresses, all in the last slot of a table of 2 and of 4, three still of 8; initial size 2 | `TypeOK`: no index leaves its table. `ProbeInvariant`: no hole in a probe chain, no address twice, also during a growth. `LoadFactor`: a probe has an empty slot to stop at. `Returns`: every call ends. `RefinesRegistry` |
| `device_flow` | 3 addresses, 3 records, 2 messages in the pipe, initial size 3 | `NoDangling`, `OneOwner`: no use after free, no double free, no leak beyond the known ones. `NothingOvertakes`: main hears of devices in the order of discovery, and of none by an update first. `ImplementsTable`. `DiscoveredIsShown`: a discovered device reaches the table |
| `lifecycle` | 2 errors, 2 messages, any allocation failing | `NoLostWakeup`: no thread sleeps through its end. `TornDownUnused`: what main closed or joined is not used. `FirstErrorReported`: which error is printed |
| `lifecycle_live` | 1 error, 1 message, the table or the list of interfaces failing | `ShutdownCompletes`, `ErrorEndsProgram`, `ResizeHandled` |
| `tui` | heights -1, 2, 3, 5, 14; widths 75, 77; up to 3 devices; lists of 1 and 3 interfaces | `TextInFrame`: no row or column is printed into a frame. `SelectionInRange`: the selection exists. `EveryItemReachable`, `ArrowLandsInWindow`: what the arrow keys reach and show, from every view, a lost one included. `OneWindow`, `InspectedIsSelected`: popups |
| `bind_update` | 2 interfaces, 2 descriptors, 1 frame in the socket | `ChoiceApplied`: with nothing pending, the socket is bound to the last choice. `NoOldFrames`: the socket in use hands over frames of its own interface only, apart from those it heard before `bind()`. `FramesAnnounced`: an event of the socket finds a frame to receive unless the socket was replaced meanwhile. `DefinedInService`: no use of the mutex or the eventfd outside their lives while the thread is in service. `BothGoOn`: no thread is blocked for good by the other. `ChoiceTakesEffect`: a choice comes into force although more may follow |
| `device_stats` | a ring of 3, 4 frames, 5 ticks | `RingIsHistory`: every frame is in one second's rate, and the ring has the last of them. `RateFresh`: a rate shown is a recent one. `PopupCurrent`: with every tick handled, the open popup shows the last second, whatever was half-way when it was drawn |
| `frame_parser` | lists of up to 3 of 6 tags; bodies of 0, 13, 14, 16, 21, 22 and 26 words; buffers of 32 | `CopiesFit`: which frames make the parser write beyond its buffer, and that no other does. `DeviceRecorded`: the record agrees with the frame on the wire. `StandardAccepted`: no standard frame is ignored |
| `last_seen` | 3 records in 2 rows, 2 times that differ in every field, 2 messages | `RowsCurrent`: once nothing is pending a row shows its device's time |
| `buffer_size`, `graph_block`, `last_seen_row` | as above | disagreements of code and comments, below |

Why these bounds. The fourth entry makes a hash map of initial size 2 grow for the
second time, and every chain runs over the end of its table. The device buffer's
first growth comes with the third device at size 3, and until then there is a
record to spare for frames of known devices. Two messages fill the pipe with one
of each writer, or let a message wait behind one of its own writer. Two interfaces
and the value "all" make every change of interface possible, and two descriptors
allow the new socket to have the old one's number or not. Five ticks on a ring of
three wrap the head and overwrite entries. Three tags are one more than the
program's room for tags holds, so that a tag can be taken away from a frame that
still has two. The bodies are empty, one word short of an ARP packet, one packet,
padded, as long as fits with both tags, one word more (what overruns depends on the
tags left in the frame), and more than the buffer holds without any tag. A second
record below the first in memory is what `update_row`'s
test is about. The heights are one of each kind the code
distinguishes: `newwin` fails, the capacity underflows, too small to draw, a popup
as large as the window, a popup inset. The widths are one that is too small and one
that leaves a remainder to the last column; `TuiProofs` has all of them.

Two things these bounds do not reach: a table grown twice, since the model ends at
the first growth that succeeds, and a clean-up that frees past the block, since it
takes two failed growths to count a fourth device and there are three records.

Deadlock is checked wherever the program cannot stop by itself. `DeviceFlow` stops
at the end of the program, at a jam or where behaviour is undefined, `DeviceStats`
when its bounds on frames and ticks are used up, `FrameParser` when an error ends
the thread or a copy overruns its buffer: their runs do not check it. `Lifecycle` and `BindUpdate` name their
ends (`Over`) and check that there is no other.

### Fairness

A thread that can take a step does (weak fairness of each thread's own steps).
Nothing makes frames, ticks, keys or signals come. Strong fairness is assumed of a
blocked `write()` to the pipe, whose writers the kernel queues, and of `sigwait`
for SIGINT and SIGUSR1, which Linux delivers before SIGWINCH because their numbers
are lower, and of `pthread_mutex_lock` on `binded_interface_mutex`: each thread
holds it for a few assignments and blocks elsewhere before it locks it again, so
that the other is not overtaken for ever. `DeviceStats`, `FrameParser` and
`LastSeen` state no liveness and need no fairness.

## What the code does against its comments

- `buffer_size`: `device_buffer_realloc` reallocates the old size
  (`src/core/device.c:11`) and records twice that as "size of whole buffer"
  (`include/core/device.h:36`). The 103rd device makes it write past the block.
- `graph_block`: `get_graph` scales the rates by a maximum of an earlier pass
  (`src/ui/popup_inspect.c:55` and `:69`); a tick in between stores a higher rate,
  whose index is beyond the eight blocks of lines 44-53.
- `last_seen_row`: `update_row` gives up when the first visible record lies at a
  higher address than the one to update (`src/ui/tui_app.c:214`), so a visible row
  under "Last seen" (`src/ui/tui_app.c:185`) keeps an old time.

More of the code's behaviour that a reader may not expect is part of the models,
where the properties state it as it is:

- `get_rate` reads before its array whenever the head is 0 (`RateFresh` says
  exactly when, as `OUTSIDE`), at `src/ui/popup_inspect.c:36`.
- The popup's "Total frames" is `previous_frames`, the count at the last tick
  (`src/ui/popup_inspect.c:94`): 0 for a device just discovered.
- A device that could not be stored is still counted (`src/app/main.c:44`);
  `DeviceTable` calls it taken, and `lost`.
- KEY_DOWN in a window without a visible row makes the view lost
  (`src/ui/scroll_view.c:23-29`): after the window is enlarged no device is shown
  and KEY_DOWN does nothing, until KEY_UP or a new device. The cursor is -1 then,
  and not the "cursor position within the visible window" of
  `include/ui/scroll_view.h:12` (`EveryItemReachable`, `ArrowLandsInWindow`).
- No length is checked between `recvmsg` (`src/net/network_thread.c:34`, `:46`) and
  the copies (`src/net/frame_parser.c:65`, `:79`, `:94`): an ARP frame of one of the
  last sizes up to `FRAME_BUFFER_SIZE`, or a longer one cut to it, is written up to
  eight bytes beyond `processed_frame` (`CopiesFit`).
- A window made smaller leaves the cursor below its last row until the next arrow
  key, and a window of height 2 has a `viewport_capacity`
  of 4294967295 (`Capacity`, `src/ui/tui.c:172`).
- `Jammed`: main joins a network thread blocked on the pipe main no longer reads.
- After a failed allocation the program may crash before it prints the error
  (`FirstErrorReported` speaks of programs that get to print).
- A window that is too small keeps `visible` of the last one that was not, and
  `update_row` (`src/ui/tui_app.c:213`) goes on printing rows in it.
- `handle_timer_tick` does not use the number of expirations it reads
  (`src/net/network_thread.c:94`): seconds the thread missed count as one.
- An interface chosen before `socket_init`, or after `socket_cleanup`, is outside
  the life of the mutex (`DefinedInService`).

## What is proved

`tlapm` proves each of these for all values of the constants that satisfy the
module's ASSUME.

- `HashMapProofs`: `TypeCorrect`, `ProbeInvariantCorrect`, `LoadFactorCorrect`,
  `RegistryRefined`, `NoEndlessCall`. The probe invariant alone is not inductive: while a search is
  under way the code relies on what it has already passed. `IndInv` adds what each
  loop has established: the slots from the start are full of other addresses
  (`Searched`), the address to store is nowhere (`NotStoredYet`), the new table
  holds exactly the entries of the old one below `i` (`Copied`), and the slots
  from home to `index` are full (`Probed`). `LoadFactor` needs the cardinality of
  both tables during a growth (`LoadInv`). The refinement follows step by step
  from `IndInv`; it is of the safety part of the specification. `NoEndlessCall` is
  the part of `Returns` that needs no fairness: every step of a call decreases
  `Work` (the loop the call is in, the entries a growth has still to copy, the slots
  a probe has still ahead) in a lexicographic order that is proved well-founded
  (`LessWellFounded`). The two probes of `store_entry` test nothing but the slot, so
  that their end rests on the hole `LoadInv` leaves in each table (`HoleAhead`).
- `DeviceFlowProofs`: `TypeCorrect`, `NoDanglingCorrect`, `OneOwnerCorrect`,
  `NothingOvertakesCorrect`, `ImplementsTableCorrect`, for any number of addresses,
  records and messages in the pipe. The invariant (`IndInv` of `DeviceFlow`) adds
  that a discovered record is neither freed nor discovered again before main frees
  the table (`DiscoveredOnce`), and at which places a message or a record is in a
  thread's hands (`Phases`). `NothingOvertakes` takes the pipe and the message a
  thread is about to publish as one sequence, so that publishing does not change
  it and only a discovery or main's read does. The refinement of `DeviceTable`
  needs `OneOwner` and `NothingOvertakes`: main appends the device that was
  discovered next.
- `LifecycleProofs`: `TypeCorrect`, `NoLostWakeupCorrect`, `TornDownUnusedCorrect`,
  `FirstErrorCorrect`, `ErrorKeptCorrect`. The inductive invariant ties each
  thread's place to what exists (`Started`), what has ended (`Ended`), what the
  signal thread has done of its requests (`Requested`) and who owns the error slot
  between the winner's two writes (`Slot`).
- `BindUpdateProofs`: `ChoiceAppliedCorrect`, `DefinedInServiceCorrect`,
  `NoOldFramesCorrect`, `FramesAnnouncedCorrect`. The
  invariant (`IndInv` of `BindUpdate`) says who holds the mutex at which place
  (`MutexHeld`), that between its set-up and its end the thread has a mutex and an
  eventfd (`InService`), and that a choice not yet in force is still announced, by
  the eventfd, the batch or the place of one of the threads (`Pending`). The last
  two theorems have an invariant of their own (`FrameInv`): what the socket
  holds at each place (`SocketFrames`), and that a batch has one event of a
  descriptor (`EachEventOnce`), without which a second `recvmsg` could find nothing.
- `DeviceStatsProofs`: `TypeCorrect`, `RingIsHistoryCorrect`, `RateFreshCorrect`,
  `PopupCurrentCorrect`, for a ring of any size. `Counted` keeps the three fields of
  a tick together between its steps, `Ring` gives each second its slot until the
  ring comes round to it, `DrawnSoFar` says that a drawing no tick is to repeat
  agrees with the record in all it has read. That two seconds less than a ring
  apart have different slots is arithmetic of remainders, that a graph keeps the
  order of the rates arithmetic of the rounded division (`Blocks`).
- `FrameParserProofs`: `TypeCorrect`, `CopiesFitCorrect`, `StandardLengthFits`,
  `DeviceRecordedCorrect`, `StandardAcceptedCorrect`, `UniformLengthCorrect`, for
  every list of tags, every body of any length and every buffer that holds a packet
  with both tags. If every frame leaves room for two tags, no copy overruns
  (`StandardLengthFits`); the fields of the record are shown to lie before what a
  cut takes away (`BodyArrived`). `Received` and `Placed` say what the buffers
  hold between the calls, `TagsPlaced` which tags are in the room for tags before
  and after the reported one is put back. `Forms` ties the words at the three
  type offsets to the tags left in the frame, `Arranged` says once what each of
  the four copies leaves where, and `OutermostOfTail` why a tag taken away and put
  back is the outermost of its kind.
- `LastSeenProofs`: `RowsCurrentCorrect`, for any table, window and pipe. The
  invariant follows one field of one row (`FieldKept`): it shows what the device
  has, or main is still to be told of the device (`ToTell`), or the field is still
  to be read (`ToRead`).
- `TuiProofs`: `TypeCorrect`, `SelectionInRangeCorrect`, `OneWindowCorrect`,
  `InspectedIsSelectedCorrect`, `TextInFrameCorrect`, `ArrowLandsCorrect`,
  `EveryItemReachableCorrect`. The inductive step needs that
  an open popup scrolls over as many items as its descriptor counts
  (`PopupCounted`); for the texts it needs that the visible rows of the table and of
  an open popup were counted for the window's height (`Fitted`), and the columns
  follow by arithmetic from `MIN_WIDTH`. A lost view stays as it is under KEY_DOWN
  (`LostStays`, `LostForEver`) and is over with the first KEY_UP.
  `EveryItemReachable` speaks of `Scrolled`, a
  recursive function over the presses of a key. Its proof is an induction over the
  presses (`NatInduct`, for a set of naturals, from the library's `WFMin`), once to
  show that the function exists (`ScrolledIs`) and once for each direction.

Every invariant and every action property a passing run checks is proved, and both
refinements. Only model-checked is all liveness (`Returns`, `DiscoveredIsShown`,
`ShutdownCompletes`, `ErrorEndsProgram`, `ResizeHandled`, `BothGoOn`,
`ChoiceTakesEffect`), which needs fairness and ENABLED and is outside the prover's
reach; for `Returns` the decreasing measure is proved (`NoEndlessCall`).

## What is not modelled

The colours of the table, which follow from bits of an address and a tag and change
nothing else; the characters of a text, of which `Layout` has the length; in
`DeviceFlow` the contents of a frame beyond its source address (`FrameParser` has
them); the wording of errors; failures of calls the code does not check (`pipe`,
`eventfd`, `pthread_create`, `malloc` of a record); the masking of signals before
the threads exist; the time that passes between two ticks.

## Plan

1. Done: `HashMap`, `DeviceFlow`, `Lifecycle`, `Tui`, `BindUpdate`,
   `DeviceStats`, `FrameParser` and `LastSeen`, `Layout`; every component is
   modelled.
2. Done: proofs of every invariant and action property of the runs, and of the
   refinements of `Registry` and `DeviceTable`.
3. The safety half of the liveness properties: done for `Returns`
   (`NoEndlessCall`); next, a measure that the shutdown decreases.
4. `BindUpdate` composed with `Tui`: the interface chosen is the one under the
   cursor of the list.
5. `HashMap` in `DeviceFlow`: the registry of the flow replaced by the map.
