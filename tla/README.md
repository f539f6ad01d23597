# A verification of the Jinux2022 kernel

TLA+ models of the parts of Jinux2022 in which several things happen at once,
checked with TLC on small instances and, where it is possible, proved with TLAPS
for every value of their constants. The source is under `src/`; file names below
are relative to `src/kernel/` unless they begin with `src/`.

## 1. The system

Jinux2022 is a kernel for one x86-64 processor. A UEFI loader passes it a frame
buffer, a memory map and the ACPI tables; `main.cpp` sets everything up in a fixed
order and then becomes the *main task*, which handles messages. There are no
tests; what the program promises is said in comments, in Japanese, which this
document translates.

What runs concurrently:

* tasks, switched by the timer interrupt every 20 ticks or when one sleeps;
* interrupt handlers: the LAPIC timer and the xHCI controller;
* the host controller, which shares rings, registers and events with the driver;
* the network card, which shares a receive ring and send buffers with its driver.

### Inventory

| Component | State | Operations | Interacts with | What makes it correct |
|---|---|---|---|---|
| Task manager (`task.cpp`, `asmfunc.asm`) | tasks, levels, `running_` flags, one run queue per level, `current_level_`, message queues, contexts | NewTask, InitContext, SwitchTask, Sleep, Wakeup, ChangeLevelRunning, SendMessage, ReceiveMessage | everything | queues agree with flags and levels; the processor executes the front of the current queue; contexts resume their own task; no message is slept over; the highest level runs and nobody there starves |
| Timers (`timer.cpp`, `acpi.cpp`) | `tick_`, counts per tick, a priority queue of timers | calibration against the PM timer (TotalCount, WaitMilliseconds), Tick, AddTimer | timer interrupt, task manager | a wait lasts as long as it should; timers fire at their time; the task timer always comes again |
| Command and transfer rings (`usb/xhci/ring.cpp`) | slots with cycle bits, enqueue pointer, cycle state | Push | memory shared with the controller | a FIFO queue: nothing lost, doubled, reordered or seen half written |
| Event ring (`usb/xhci/ring.cpp`, `registers.hpp`) | dequeue pointer and EHB in ERDP, cycle state | HasFront, Front, Pop | controller, interrupt handler, main task | every event handled, once, in order; EHB cleared when nobody is busy |
| USB initialization (`usb/xhci/xhci.cpp`, `port.cpp`, `devmgr.cpp`) | `initializing_ports`, tables of slots, ports and devices, phases | InitUSBDevTask and WaitEvent; AllPortsInit; OnEvent | task manager messages, both rings, ports | a port is initialized once at a time; each wait gets its own answer; no wait is forgotten |
| Frame allocator (`memory_manager.cpp`) | a bitmap of frames | InitializeMemoryManager, Allocate, Free | memory map of the loader, heap, page tables | no frame has two owners; reserved memory is never given; first fit |
| Paging (`paging.cpp`) | page tables | SetupIdentityPageTable, Translate; SetIDMapEntry for the registers of the xHC | allocator, drivers | a mapped address translates to what was mapped |
| Applications (`run_application.cpp`, `elf.cpp`, `interrupt.cpp`) | a page map for each application, OS stack pointer | RunApplication (its calls are commented out, main.cpp:99-104), SetupPML4, SetupPageMapForApp, HandlePageFault, Exit | frame allocator, tasks | the frames of two applications are separate; a page that was used stays; the kernel keeps its map; the machine stops only for a reason |
| USB devices and classes (`usb/device.cpp`, `usb/xhci/device.cpp`, `hid.cpp`) | phase, SetupStageMap, transfer rings, keys pressed | control and interrupt transfers, phases 1 to 3, key events | rings, events, init and main task | each completion finds its request; the phases end; a keyboard is always listened to |
| USB memory (`usb/memory.cpp`) | a bump pointer | AllocMem; FreeMem does nothing | rings, contexts, device manager | aligned, inside a boundary, inside the pool, disjoint, the lowest place |
| Terminal and screen (`terminal.cpp`, `screen.cpp`) | line buffer, cursor, scrolled window | OnKeyStroke, PutChar, Scroll | keyboard | what is shown is what was typed |
| Console, graphics, logging | pixels | PutString | everybody | output only |
| ACPI, IO-APIC, PCI, segments, IDT | tables | initialization | boot only | straight-line code |
| RTL8139 and network (`rtl8139/`, `network/`) | receive ring, four send buffers, addresses | Initialize, ReceivePacket, SendPacket, ARP; the call of network::Initialize is commented out (main.cpp:90) | the card | packets come out as they came in; every request for this machine is answered once, in order |
| UEFI loader, application | | | | sequential programs of their own |

### What is hard here

The driver's init task and the main task share `initializing_ports` and the tables
without a lock and wake each other by messages; both run with interrupts enabled
at the same level. The rings are shared with hardware that looks at any moment.
The task manager is called from interrupt handlers and from tasks. Devices come
and go while they are initialized. Counters wrap. `PROJECT.json` lists each
hazard at its line, with the properties that watch it or a note on why none does.

## 2. The modules

| Module | Models | Proofs |
|---|---|---|
| `Deque` | `Erase` of task.cpp | `TaskManagerProofs` |
| `TaskManager` | task manager, context switches, message loop | `TaskManagerProofs` |
| `PreemptiveSwitch` | Sleep and Wakeup step by step, with interrupts between the steps | `InterruptProofs` |
| `TRBQueue` | abstract specification: a FIFO queue of TRBs | |
| `Ring` | command and transfer rings; implements `TRBQueue` | `RingProofs` |
| `EventRing` | event ring, ERDP, interrupt, ProcessEvents; implements `TRBQueue` | `RingProofs` |
| `XhciInit` | initialization of USB devices: ports, commands, messages | `XhciInitProofs` |
| `DeviceManager` | slots, devices and contexts, and the memory they take | `DeviceManagerProofs` |
| `UsbMemory` | the memory pool, extended by `DeviceManager` | `DeviceManagerProofs` |
| `UsbDevice` | one device: control transfers, phases, keyboard | `UsbDeviceProofs` |
| `Timer` | calibration, Tick and the logical timers | `InterruptProofs` |
| `BitmapMemory` | frame allocator | `MemoryProofs` |
| `AddressSpace` | page maps of applications, page faults | `MemoryProofs` |
| `Rtl8139` | network card and driver | `InputOutputProofs` |
| `Network` | network manager and ARP, over `Rtl8139` | `InputOutputProofs` |
| `LineEditor` | abstract specification: a line and a position in it | |
| `Screen` | screen of the terminal, as functions on a record | `InputOutputProofs` |
| `Terminal` | line editing over `Screen`; implements `LineEditor` | `InputOutputProofs` |
| `MC...` | bounds and constants for TLC | |

`Ring`, `EventRing`, `XhciInit`, `DeviceManager` and `UsbDevice` are views of one
driver. `XhciInit` and `DeviceManager` use the command ring and the event ring as the
queues that the first two are shown to be, and the task manager's Sleep, Wakeup and
SendMessage as `TaskManager` has them. `XhciInit` has all ports and commands, and of a
device only its phase; `DeviceManager` has the tables and the memory behind the
commands for slots; `UsbDevice` has the transfers of one device between AddressDevice
and the keys. `AddressSpace` uses the frame allocator as `BitmapMemory` shows it to
be, first fit, but in two steps, since its callers can be preempted inside.

**TaskManager.** A task is its identifier; main is 1, the idle task 2. `running_`
maps each level to a sequence, its front being `front()`. A TaskContext is reduced
to the task that it resumes, `cpu` is the task whose instructions are executed:
`SwitchTask` stores `cpu` where the code stores the interrupted frame, and takes
the next one from the saved context, so that a mistake in the bookkeeping shows as
a context that resumes the wrong task. Every operation is one step, as it is in an
interrupt handler and in the main loop between cli and sti.

**PreemptiveSwitch.** Where a caller leaves interrupts enabled, `Sleep` and `Wakeup`
are not one step: `WaitEvent` sleeps so, and `ProcessEvents` wakes so. The module
splits `Sleep` at the flag, at `pop_front`, at the search for the level and at
`SwitchContext`, and `Wakeup` at the test, the flag and `push_back`; an execution is
a task together with the point it has come to, and a context is the execution it
resumes. `front()` of an empty queue, which the timer can meet after `pop_front`, is
any task. After a torn switch two contexts share one stack, and the model ends.
`TimesIn` counts the places of a task in a queue.

**Ring.** `Push_` is four steps: three words of the TRB, the word with the cycle
bit, the cycle bit as it should be, and the pointer with the link TRB. A slot that
is half written holds `Torn`. The controller fetches a TRB whenever the cycle bit
of its slot equals its own state. `sent` and `received` are history variables, and
the variables of `TRBQueue`.

**EventRing.** The controller posts events and interrupts while EHB is clear. `Pop`
is split where `SetPointer` reads and writes ERDP. The driver sets a moderation interval
of 4000 (xhci.cpp:294), so an interrupt that is due comes any time later, wherever the
main task is by then. The history variable `overtaken` says that the last one came between
the two accesses of `SetPointer`, and that no write has cleared EHB since.

**XhciInit.** The init task is a program of nine waits; `stage` counts them and
`at` says whether it runs, is about to sleep, sleeps, or is about to receive its
message. The main task first runs AllPortsInit, for any set of ports that are connected by then and announce
themselves in ascending order, and then takes events. Messages are
reduced to their `success` flag, which is all that WaitEvent looks at: that a
message carries nothing to match it with the wait is where most of the trouble that
section 5 lists comes from.
Hardware may fail any command or transfer and plug or unplug at any time. Two history
variables record what the code does not defend itself against: `early`, that a message
came before the task was asleep, and `idle`, that it was woken without a message. The
properties say what holds as long as neither has happened. OnEvent queues
an attached port in one step and looks at the size of the queue in the next. `Answers` is the set of
places where an answer to the init task can be: its inbox, the command ring, a transfer
under way, the event ring, the reset of its port; `OneAnswer` says that there is one.

**DeviceManager, UsbMemory.** Blocks are addresses; `blocks` is the set of all that
were given out and `last` the last request. The init task goes through EnableSlot,
AllocDevice, Initialize, LoadDCBAA, FindBySlot and the rings one call at a time; the
main task clears `devices_` and `DCBAA_` in two steps. A Device object is its index in
`objects`, since objects are never freed. `raced` says that a slot was disabled while
the init task worked on it.

**UsbDevice.** A transfer of endpoint 0 is pushed as its two or three TRBs, entered
into SetupStageMap in two writes, the issuer and then its setup stage, and then rung for;
the controller may complete it as
soon as the endpoint runs. A TRB is its type and its request, and a pointer to one is
its place in the ring. `raced` records which of two meetings of the tasks has occurred:
an event before both halves of its entry were written, and an entry put while it was being
deleted. An interface is its class and the numbers of its IN and OUT endpoints: the map of
the class drivers is indexed by the number alone, and its last interface has it.

**Timer.** The unit of time is one count of the APIC timer, so that a tick may fall
between any two reads of the calibration. The PM timer starts anywhere and wraps.
`MaxGap` bounds the time between two reads and polls. When the calibration is done, only ticks count.
The priority queue is a set, from which the earliest is taken, ties in any order.

**AddressSpace.** Tables of all levels are alike: functions from indices to entries.
A task takes one level of SetupPageMapForApp in two steps, before and after the search
of Allocate, and the page fault handler, which runs with interrupts off, takes them
without another task in between. A free frame may hold the entries of a table that
was there before the kernel. History: `twice`, a frame was marked that was marked
already; `dirty`, a frame became a table with anything left in it, be it an
entry that is not present; `illegal`, an access
that no handler allows.

**Rtl8139, Network.** The receive buffer is below 4 GiB: the failure for one above is
ignored by its caller (network.cpp:23), and what follows is not modelled. A byte of the receive ring is the pair of its packet and its
place in the packet, so that a copy is compared byte by byte without contents. The
card never fills the ring, gives `own` back before or together with `transmit_ok`, and
loses packets for which there is no room. `Network` is the loop of network::Initialize
on top of it.

**BitmapMemory.** The bitmap is the set of marked frames. The loop over the
descriptors and the search of Allocate take one descriptor and one frame per step.

**Terminal, Screen.** `Screen` has one function for each operation of ScreenManager,
from a screen to a screen, so that an operation of the terminal that calls several
is their composition, as in the code. The long frame and the display are arrays of
characters, and the cursor's block is a cell of the display: what is copied too
little or in the wrong order stays visible. The display is its full rows: when the
height is no multiple of 16, CopyChar and CopyLine write to the partial row below them
too (screen.cpp:326, 349), which is left out. The input buffer is an array with NULs,
of which the part under the prompt holds what malloc found. `undisturbed` is a
history variable for `LineShown`.

Operators such as `RotatedInPlace` or `AdvanceKeepingLink`, which nothing refers to,
stand in front of the definition they are a faulty variant of. They are there to
show that each property can fail: with the variant in place of the definition,
TLC finds the property violated.

Many of the invariants that a run checks are conjunctions of named parts, each with a
comment that says what it is about: `PortsInTurn` is the type invariant, `NoPortTwice` and
`FrontIsInitialized`. The type invariants of `TaskManager`, `Ring` and `BitmapMemory` are
theorems of their own and are left to the proofs, as is `LinkIntact` of `Ring`.

## 3. What the runs check

All runs pass but `BusyFlag`, which finds what a comment of the code says to be violated.

| Run | Instance | Checks |
|---|---|---|
| `TaskManager` | 4 tasks, 3 levels, queues of 1 message, every level for Wakeup | `RunQueuesMatchTasks`, `ProcessorFollowsQueues` (`ExecutesCurrentTask`, `ContextsResumeTheirTask`), `NoLostWakeup`, `TimerPicksHighestLevel`, `TopLevelRuns` |
| `PreemptiveSwitch` | main, idle and 2 tasks that sleep, 2 messages for main | `QueuesKept` (types, `QueuedForItsFlag`), `CurrentTaskNamed`, `AwakeRuns` |
| `Rings` | 4 slots, 2 in flight, 8 pushes; 3 slots, 6 events, interrupts however late | `NothingStuck`, `ImplementsQueue`, `EverythingFetched`; `InterrupterKept` (types, `HandlerReallyBusy`), `ImplementsEventQueue`, `EveryEventHandled` |
| `BusyFlag` | as `Rings` | `WriteClearsEHB`, what the comment at registers.hpp:371-373 says: violated |
| `XhciInit` | 2 ports, 2 slots, 1 plug, 1 report (4.4 million states) | `PortsInTurn` (types, `NoPortTwice`, `FrontIsInitialized`), `InStep`, `OneAnswer` |
| `DeviceManager` | a pool of 1100 bytes at 4 places, pages of 512, 2 slots, 3 enables, 2 detaches | `MemoryKept` (types, `BlocksSeparate`, `LowestPlace`), `DevicesKept` (`DisabledSlotsEmpty`, `AddressedWithContext`, `LostOnlyToADetach`) |
| `UsbDevice` | 8 devices, a ring of 7 TRBs, a map of 2 entries, 2 keys, 3 reports | `TransfersMatched` (types, `SetupStageFound`, `PutWhileDeletedOnlyWithTwo`, `ConfiguredInOrder`), `KeyboardKept` (`KeyboardListens`, `ReportsTyped`, `UndefinedOnlyWithoutEndpoint1`), `InitTaskFinishes`, `ReportsGetTyped` |
| `Timer` | ticks up to 14, task timer of 3, boot period of 4 counts, PM timer of 14, waits of 10, 2 timers | `CalibrationBounded` (types, `TotalCountOffByAPeriod`, `CalibratedWithinTwoPeriods`), `WaitBounded` (`WaitsLongEnough`, `LateOnlyAtTheWrap`), `SentWhenDue`, `TasksSwitched` (`SwitchesEveryPeriod`, `HangsOnlyAtTheWrap`) |
| `Terminal` | 2 rows of 4 columns, long frame of 4 rows, prompt of 1, one letter | `DisplayKept` (types, `ScreenShowsWindow`, `CursorsAgree`), `LineShown`, `ImplementsLineEditor` |
| `BitmapMemory` | 6 frames, every map of up to 2 descriptors, requests of 1 to 3 | `BlocksAreDisjoint`, `MapReflected`, `UnavailableOnlyBehindMap`, `AllocateIsFirstFit` |
| `AddressSpace` | 2 applications, 2 levels of tables of 4 entries, 6 frames, 4 pages, 4 contents | `MapsKept` (types, `FramesSeparate`, `TouchedStaysMapped`, `KernelMapKept`), `FaultsHandledAlone` (`FaultTakesFreeFrame`, `HaltsForAReason`), `HandledMeansMapped` |
| `Network` | a ring of 36 bytes, 5 arrivals of 5 kinds | `PacketsTaken` (types, `UnreadKept`, `HeaderFound`, `PacketsIntact`), `WireInOrder`, `RequestsAnswered` |

### Bounds, and why they are enough

* Tasks: main, idle and two more let one task sleep, wake or move another while a
  third executes; three levels have one between the extremes. `MaxMsgs` = 1
  distinguishes an empty queue from one that is not, which is all the code asks.
* PreemptiveSwitch: the kernel has one task that sleeps with interrupts enabled; with
  two, one can be woken while the other is half asleep. The kernel gives Wakeup no
  level but the first time, so one level for these tasks and one for idle are all.
* Rings: 4 slots are three for TRBs and the link, 8 pushes are more than two laps,
  so that both cycle states and both flips occur; 3 slots and 6 events are two laps
  of the event ring. `MaxInFlight` leaves one data slot free: Push_ does not ask
  whether the ring is full (ring.cpp:47), and its callers wait for each completion.
  The numbers of pushes and events are bounded in the next-state relation, so the run stops
  and is checked without deadlock detection. The two rings share nothing, so a behaviour of
  `MCRings` uses one of them only.
* USB: two ports are the least for which one waits while the other is initialized;
  a port may be attached from the beginning or not, and one more change may come at
  any moment of the initialization. The system stops when every event is handled
  and everybody sleeps, hence no deadlock detection.
* Terminal: three columns behind the prompt hold a line of two characters, so that a
  key can act before, between and behind them; the long frame has rows for scrolling
  up from its second half and for running over its end. One letter is enough for the
  screen; what it leaves out, the order of different letters in a line, is in the
  theorem `TerminalEditsLine`, which holds for all of them.
* Frames: two descriptors over six frames give gaps before, between and behind
  them in both orders of the kinds. The kernel allocates for as long as it runs, but
  halts when it finds nothing at boot, hence no deadlock detection.
* Memory pool: the four places give blocks that fit before a boundary exactly, that
  cross one and that are aligned already, and 1100 bytes are used up by the second
  or third device. The sizes keep the order of the real ones. Three enables use a slot
  again after it was disabled; then the system stops.
* Devices: the transfers of a device go round a ring of 7 TRBs, and with a map of two
  entries Put meets entries in use and takes freed ones again. The eight devices have the keyboard
  alone, first, second, twice and not at all, on endpoint 1 and on another one, with OUT
  endpoints of the same number as another interface's, before and behind it. A
  report may never come, so the system may stop.
* Timer: a boot period of 4 counts makes the calibration take several ticks, with the
  reads at every phase of the tick; a PM timer of 14 wraps in most waits, and ends in
  the last counts before the wrap occur. 14 ticks are 4 periods of the task timer,
  the last of which goes over the end of `tick_`, where Tick hangs and nothing follows.
  `CountMod` is never reached, as 2^64 counts are not. The calibration, the only part
  that counts time, ends by `MaxTime`, before `tick_` could wrap in it.
* Address spaces: two levels are the least with a table below the page map, and two
  applications the least with an interleaving; the pages have one that shares its table
  with the base, one that does not, and one that is not the application's. Six frames
  are one application's, and too few for both. Old entries lie in the first place, which is
  cleared, or in a later one. Tasks sleep for good after Exit and the machine may
  halt, so the system stops.
* Network: 36 bytes and packets of 10, 13 and 18 bytes put the end of the ring into the
  data, into the CRC and between two packets. Five arrivals are two laps of the ring
  and one more reply than there are send buffers. The driver halts on
  a bad packet, and waits for packets that do not come.

### Fairness

* `TaskManager`: the LAPIC timer is periodic and never stopped (timer.cpp:66), so
  `SwitchTask` is weakly fair; main is in its endless loop. Nothing is assumed of
  other tasks.
* `PreemptiveSwitch`: the timer as above, and strong fairness of the steps of the main
  task: between two switches it has 20 ticks of a millisecond (timer.hpp:235), long
  enough for the step it was interrupted before.
* `Ring`: `Push_` has no loop that waits, and a controller whose doorbell was rung
  fetches what it owns.
* `EventRing`: the main task is scheduled, by `TopLevelRuns`, and the controller
  raises, in the end, an interrupt that stays due.
* `UsbDevice`: the init task and the main task are on one level and take turns, by
  `TopLevelRuns`; the controller completes or fails the control transfers it is rung
  for. Nothing is assumed of the reports of a device.
* `Network`: the loop of network::Initialize does not end, and the card sends what it is
  given. Packets need not arrive.
* `XhciInit`, `DeviceManager`, `Timer`, `AddressSpace`, `Terminal` and `BitmapMemory`
  have safety properties only. That no wait of `XhciInit` is forgotten is said by
  `OneAnswer`.

## 4. What is proved

All theorems hold for every value of the constants that satisfies the module's
ASSUME. Proof modules extend the modules they are about. Every invariant and action
property that a passing run checks is proved, and so are the three refinements; section
*Only model-checked* below has what is left.

* `TaskManagerProofs`. The inductive invariant says that the queues are a
  permutation of the tasks that are awake, each at its own level, that the
  executing task is the front of the queue of `current_level_`, and that a task
  that is not executing has, if anything, its own context. The middle part is
  needed since `Sleep` decides by a comparison with the front which of two ways to
  go, and only the front has its context in the processor. Theorems:
  `TypeCorrectness`, `QueuesMatch`, `CurrentTaskExecutes` (`ProcessorFollowsQueues`), `MainLosesNoWakeup`,
  `TimerSchedulesByLevel`. The lemmas on sequences and `Erase` it rests on come
  first, with an induction over sets of numbers in place of the library's.
* `InterruptProofs`, on `PreemptiveSwitch`. `PreemptionInv`: as long as no switch was
  torn, a context resumes its own
  task and never inside the last steps of Sleep (`ContextInv`), the executing task is
  the front of its level until Sleep takes it out (`FrontInv`), the idle task is alone
  at level 0 (`LevelInv`), and the task Wakeup is about to queue is asleep
  (`WakeInv`). `QueuesKept` counts the entries of a task in the queues, since a task
  woken while it goes to sleep is in there twice; lemmas say what `push_back`,
  `pop_front` and the rotation do to these counts. Theorems: `FlagsAndQueuesKept`,
  `CurrentTaskIsNamed`.
* `InterruptProofs`, on `Timer`. `CalibrationInv` ties the locals of InitializeLocalAPICTimer to the
  time: `tick_` periods, one more for a pending interrupt, and what the count has
  gone down make the time, each count that was read is that of some period, and what
  the last poll of the PM timer saw bounds how late the next can be. `TimersInv`: there is
  one task timer, a period after the last switch, and each message is in the queue or was
  sent at the tick it was due. Theorems: `CalibrationIsBounded`, `WaitIsBounded`,
  `MessagesSentWhenDue`, `TasksAreSwitched`.
* `RingProofs`, on `Ring`. The invariant distinguishes whether the controller is on the
  producer's lap (`ccs = cycle_bit_`) or still on the one before, and says for both
  which slots hold which of the TRBs sent, and what their cycle bits are. Theorems:
  `TypeCorrectness`, `LinkIsIntact`, `NothingIsStuck`, and `RingIsQueue`: the
  ring implements `TRBQueue`.
* `RingProofs`, on `EventRing`. The same with the roles changed: the controller writes and
  the kernel reads. Between HandleEvent and the write of ERDP the kernel is one slot ahead of what
  ERDP names (`Consumer`); `FlightInv` counts the events from there, and needs `BusyInv`,
  that the controller never reaches the slot ERDP still names. While EHB is set and
  not `overtaken`, an event that the interrupt announced is still in the ring or in
  hand, a message is on its way or the main task is at work, and a write of ERDP under way
  will clear the bit (`ClearedInv`). Theorems:
  `InterruptsAreNotLost`, and `EventRingIsQueue`: the ring implements `TRBQueue`.
* `XhciInitProofs`. `TurnInv` (the front of `initializing_ports` is the port being
  initialized, and no port is queued twice) holds in every behaviour, `InboxInv` in
  those without an early message or an idle wakeup. The rest is about the calm behaviours,
  in which moreover nothing is plugged after the start: AllPortsInit goes down from
  the last port and queues each one once (`ScanInv`), a command or its
  event belongs to the stage the init task waits in (`CommandInv`), a port that was
  not yet taken has neither a device nor a transfer (`DeviceInv`), slots are
  enabled before their transfers start (`SlotInv`), and so the answer is in one place
  of inbox, commands, transfers, events and the reset port, and there once (`AnswerInv`). Theorems:
  `PortsTakenInTurn`, `TasksStayInStep`, `OneAnswerUnderWay`.
* `DeviceManagerProofs`. `PoolInv`: every block AllocMem gave out ends at
  `alloc_ptr` or below, and no two overlap; this is what makes the next block separate from
  all of them. `QueuesInv`: what the init task waits for is on its way once, as
  a command or as an event. `SlotsInv`: a slot that the tables still show is in use, or
  an event that disabled it is queued or being handled, where the event that
  enabled a slot can itself be followed by one that disables it. `WorkInv`: unless the
  slot was disabled meanwhile, the init task finds in `devices_` and `DCBAA_` what it
  wrote there. Theorems: `MemoryIsKept`, `DevicesAreKept`.
* `UsbDeviceProofs`. The ring forgets a setup stage after `RingSize` more TRBs, the map an
  entry when it is used again, and the question is whether both are still there when the
  event of their transfer is handled. `Back` measures how far behind the enqueue pointer
  a place is, and `Reach` bounds what may still be looked at: the three TRBs of one
  request in the phases, and two TRBs for each driver up to the present one afterwards
  (`PendingInv`, `EventInv`). This needs that phases follow each other (`PhaseInv`) and
  that in them one transfer, one event or one message is under way and the map is
  empty in between (`LoneInv`, `EarlyInv`), which in turn is what lets an event find its
  entry (`EntryInv`). Where the drivers begin, `FirstInv` hands over from the one to
  the other. With a single keyboard the one request stays alone, so it is always somewhere
  (`ListenInv`), and at most one report is between the device and the driver
  (`ReportInv`). Theorems: `TransfersAreMatched`, `KeyboardIsKept`.
* `MemoryProofs`, on `BitmapMemory`. The invariant has a part for the search (nothing below
  `start_frame_id` fits, what was looked at from there is free) and one for the
  loop over the map (what lies in front of the last descriptor is reflected, the
  rest is untouched). Theorems: `TypeCorrectness`, `NoFrameTwice`, `MapIsReflected`,
  `OnlyBehindMap`, `FirstFit`.
* `MemoryProofs`, on `AddressSpace`. A *way* is the sequence of frames from a page map
  down to the page of an address. `SpaceInv` says, for all addresses of the upper half and
  not only for those an application touches: two ways meet in a frame only if they
  belong to one application and to addresses that agree above it (`WaysSeparate`), the
  entries on them are the application's (`EntriesOfUser`), the entries of the kernel are
  as they were (`KernelTablesKept`), and a task inside SetupPageMapForApp or the fault handler stands on
  the way of its address, before an absent entry if it is about to link a frame
  (`WalkOnWay`). All of this is on condition that no frame was marked twice or became a
  table with entries in it, the two things the code does not exclude. What linking a
  frame does to a way is shown by induction on the level. Theorems: `MapsAreKept`,
  `FaultsAreHandledAlone`, `HandledIsMapped`.
* `InputOutputProofs`, on `Network` with `Rtl8139`. `Room` counts the bytes that all packets
  so far take in the ring; the card's place, the driver's offset and CAPR are remainders
  of two such counts, less than the size of the ring apart (`RingInv`), so that what the
  card writes is not what is unread (`UnreadInv`), and the copy of a packet, whether it
  wraps or not, is the packet (`CopyInv`). `WireInv` says what is missing on the wire by
  the place of the driver: nothing, or the last frame, which is then in its
  buffer. Theorems: `PacketsAreTaken`, `WireIsInOrder`.
* `InputOutputProofs`, on `Terminal` with `Screen`. The screen: the display is the window of
  the long frame with the block at the cursor, nothing is below the cursor's row
  but blanks, and the display does not start below that row. The second is needed
  for a scroll, which shows a row nobody wrote. The terminal: the line in the
  buffer is made of characters, so the NUL that ends it is where the line does
  (`EditInv`), and the cursor's row repeats prompt and buffer (`RowInv`). A loop over
  the cells of a screen is a function defined step by step, and what it leaves is
  shown by induction on the steps. Theorems: `DisplayIsKept`, `LineIsShown`, and
  `TerminalEditsLine`: buffer and positions implement `LineEditor`.

TLC finds each of these invariants true on the instance of its run, with the quantifiers
over all numbers that a few of them have, and the set of frames that `WireInv` draws
from, cut down to what it can evaluate.

Some assumptions were found by the proofs, which fail without them:

* `Timer`: the wait and one gap between two polls are together no longer than a lap of
  the PM timer, or a poll could step over all the values that end the wait; and the
  calibration is over (`MaxTime`) before `tick_` or a count can wrap.
* `DeviceManager`: the event ring segment table is not longer than 64 KiB, the boundary it
  may not cross (ring.cpp:99; the code asks for one entry).
* `UsbDevice`: the ring of endpoint 0 holds more TRBs than two requests of a phase need,
  6, and two for each interface of the device. The kernel allocates rings of 32
  (xhci.cpp:736), one of which is the link. It reads the configuration into 256 bytes
  (device.hpp:69), and an interface with its endpoint takes 16 of them, so it sees no more
  than 15.
* `Network`: a packet is longer than its CRC, which ReceivePacket subtracts from the length.

The constants of the code satisfy all of them.

Only model-checked:

* liveness (`TopLevelRuns`, `AwakeRuns`, `EverythingFetched`, `EveryEventHandled`,
  `InitTaskFinishes`, `ReportsGetTyped`, `RequestsAnswered`), which is out of the
  prover's reach, as is ENABLED;
* that the bounds of a run let the interesting cases occur: TLC's coverage shows it,
  no theorem does.

Induction needs a set of numbers in the place of a predicate here (`NatSetInduction`),
since the provers cannot instantiate the library's theorems on operators.

## 5. What the models show to go wrong

The properties state what the code keeps, and name in their provisos where it does not:
each proviso was needed for TLC to find the property true. A proviso such as *not torn*, *not
twice* or *undisturbed* leaves out the states in which the hazard it names has gone wrong,
so those properties say that nothing else goes wrong, and not that this does not. In
the order of the parts:

* *Torn switch* (`CurrentTaskNamed`). A timer interrupt between `pop_front` and
  `SwitchContext` in a Sleep with interrupts enabled (task.cpp:172) saves the sleeper
  into the context of the next task. `PreemptiveSwitch` also shows that this is the only
  place in Sleep and Wakeup where an interrupt does harm: a task woken while it goes to
  sleep is queued twice for a moment, and both entries are accounted for.
* *EHB left set* (`WriteClearsEHB`, violated in the run `BusyFlag`; `HandlerReallyBusy`,
  `EveryEventHandled`). The comment in SetPointer says that writing ERDP back as it is
  clears EHB. When the interrupt comes between the read and the write (registers.hpp:375),
  it does not; if the event handled then was the last in the ring, no later write clears
  EHB, the controller never interrupts again, and what it reports is never handled. The
  moderation interval is what makes this possible: the main task can handle an event before
  the interrupt of it has come. `InterrupterKept` and `EveryEventHandled` show that there
  is no other way to lose an event.
* *Waits of the init task* (`InStep`, `OneAnswer`). A message that comes before WaitEvent
  sleeps (xhci.cpp:60) is slept over; a Wakeup without a message (xhci.cpp:332, or the
  second one of xhci.cpp:521) makes WaitEvent panic; a device plugged or unplugged
  meanwhile can have the answer to one wait taken for another (also by the message of OnEvent for a
  port that the init task has begun with meanwhile, xhci.cpp:592-595), up to the panic of OnEvent,
  or leave a wait without an answer, as Port::Reset of a vanished device does.
* *Slots* (`DevicesKept`). A slot that is disabled while the init task works on it leaves
  the task with a null pointer or an address of a context that is gone (devmgr.cpp:24);
  and no caller of AllocMem tests for nullptr.
* *Transfers* (`TransfersMatched`, `KeyboardKept`, `InitTaskFinishes`). Put comes after the
  TRBs are pushed (device.cpp:117) and writes its entry in two halves (device.hpp:44-45).
  The endpoint may still be running from the transfer before, so the event can be handled
  before the entry is there, or when it has no setup stage yet, and is then dropped: after
  StartInitialize the init task waits for ever, after SetProtocol the keyboard is never
  asked for a report. With two keyboards an entry can be put while it is being deleted
  (device.hpp:53). A keyboard is silent for good after one transfer error; one that is
  not on endpoint 1 has its request on another ring or on none (hid.cpp:222), and nothing
  is said of what follows the null pointer; one whose endpoint shares its number with an
  endpoint of a later interface loses its reports to that interface's driver, or to
  nobody (usb/device.cpp:145).
* *Timer* (`CalibrationBounded`, `WaitBounded`, `TasksSwitched`). TotalCount is off by a
  period when a tick falls between its reads (timer.cpp:125); WaitMilliseconds can miss
  an end just below the wrap of the PM timer and go on for another lap; Tick hangs when
  `tick_` plus the period of the task timer passes 2^32 (timer.cpp:107).
* *Frames* (`UnavailableOnlyBehindMap`). Frames behind the last descriptor of the memory
  map are given out (memory_manager.cpp:98).
* *Address spaces* (`MapsKept`, `FaultsHandledAlone`). RunApplication calls Allocate with
  interrupts enabled, directly and through SetupPML4 (run_application.cpp:21, 928), and
  can be given a frame that another task takes meanwhile; a new table is cleared in its
  first entry only (run_application.cpp:931), and what is left looks like a page or a
  table, or keeps bits such as page_size when it is filled in later; a fault that cannot be handled stops
  everything (interrupt.cpp:160).
* *Network* (`RequestsAnswered`). The driver halts when the card gives a buffer back before
  it reports the packet as sent (rtl8139.cpp:182); without a card the first packet goes
  through a null pointer (network.cpp:75). The ring is taken to wrap at 8192 + 16 bytes,
  as registers.hpp:55 and rtl8139.cpp:67 have it: what a card does that wraps at 8192 is
  not modelled.
* *Terminal* (`LineShown`). Enter on a full line (no line feed, and no key works
  afterwards), Enter in the middle of a line (its end is drawn on the next row), Enter
  with the cursor scrolled out of the frame (the prompt is blanked), and the end of the
  long frame.

## 6. Not modelled, and why

`PROJECT.json` lists every component. Left out for good:

* output (console, graphics, fonts, logging), which nothing reads back;
* table set-up at boot: segments, the entries of the IDT, IO-APIC, the scan of PCI, the
  lookup of ACPI tables. It is straight-line code with constant results, before
  anything runs concurrently;
* the UEFI loader, which runs before the kernel on firmware services, the test
  application, and the newlib stubs;
* the ELF loader, of which `AddressSpace` has the accesses to the pages it fills, and
  SyscallLogString; most of run_application.cpp is the bytes of an embedded program;
* SetIDMapEntry, which enters the registers of the xHC at boot (xhci.cpp:776, 779);
* GetKeyInControlPipe, InterruptOut and the vertical moves of the cursor,
  which have no caller that is reached; IP and TCP, which print their headers.
  RunApplication and network::Initialize are modelled, though their calls are commented
  out (main.cpp:99-104, 90);
* the failure of the network card's initialization for a buffer above 4 GiB, and the
  partial row of characters at the bottom of a screen whose height is no multiple of 16;
* the steps inside `std::deque`, which is not part of this repository and taken as
  atomic.

Most of the source tree, everything under `src/devenv`, is headers of the C and
C++ libraries and of FreeType, which the kernel is compiled against.

## 7. Plan

Done: all modules of section 2, and the proofs of every invariant, action property and
refinement that a passing run checks.

What a next version would add, in this order:

1. A second producer in `Ring`: the main task pushes DisableSlot while the init task may
   be preempted inside Push_ (xhci.cpp:703), the one hazard in `PROJECT.json`
   without a property.
2. The interrupt flag as a variable of `PreemptiveSwitch`, for the unconditional sti of
   PutString.
3. An abstract scheduler that TaskManager implements.
