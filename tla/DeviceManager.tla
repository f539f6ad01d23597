--------------------------- MODULE DeviceManager ---------------------------
(***************************************************************************)
(* What the xHCI driver keeps in memory for the controller: the rings and  *)
(* tables of Controller::Initializer and the devices of the device manager *)
(* (usb/xhci/devmgr.cpp, Device::Initialize), all taken from the memory    *)
(* pool of UsbMemory.                                                      *)
(*                                                                         *)
(* Two tasks work on the tables: the init task enables a slot, allocates   *)
(* its device and addresses it, and the main task disables the slot of a   *)
(* device that is detached.  Both can be preempted between any two writes. *)
(* Commands and events are queues (modules Ring and EventRing); what else  *)
(* happens on a port is the subject of XhciInit.                           *)
(***************************************************************************)
EXTENDS UsbMemory, Sequences, FiniteSets

CONSTANTS
  MaxSlots,      \* max_slots_
  Bases,         \* where the pool may lie
  EntrySize,     \* the size of an entry of DCBAA_ and devices_
  RingSize,      \* of a ring of 32 TRBs
  ErstSize,      \* of the event ring segment table
  DevCtxSize, InputCtxSize,   \* sizeof(DeviceContext), sizeof(InputContext)
  Alignment,     \* 64 bytes
  Page,          \* 4096 bytes
  Segment,       \* 64 KiB
  Endpoints,     \* bound on the endpoints of a device
  MaxEnables,    \* bound on the slots the init task asks for
  MaxDetaches    \* bound on the devices detached

ASSUME DeviceManagerAssumption ==
  /\ {MaxSlots, EntrySize, RingSize, ErstSize, DevCtxSize, InputCtxSize, Alignment, Page,
      Segment, PoolSize} \subseteq Nat \ {0}
  /\ Bases \subseteq Nat \ {0}
  /\ {Endpoints, MaxEnables, MaxDetaches} \subseteq Nat
  /\ Page % Alignment = 0 /\ Segment % Page = 0
  /\ {DevCtxSize, InputCtxSize} \subseteq 1 .. Page /\ {RingSize, ErstSize} \subseteq 1 .. Segment
  /\ EntrySize * (MaxSlots + 1) <= Page

Slots == 1 .. MaxSlots

VARIABLES
  devices_,    \* the device of each slot, an index of objects, or NULL
  DCBAA_,      \* the address of its context
  objects,     \* the Device objects, in the order of their creation
  slot_to_port_,   \* the slots that have a port in this table
  enabled,     \* the controller's slots in use
  cmds, events,    \* the command ring and the event ring
  boot,        \* the requests that Initializer has made
  at,          \* where the init task is, which Initializer comes before
  slot, dev,   \* the locals of the init task: its slot and the device it found
  rings,       \* how many transfer rings it has allocated for it
  main,        \* the slot the main task is about to clear in DCBAA_, or NULL
  raced,       \* history: a slot was disabled while the init task worked on it
  null_written,    \* history: memory that AllocMem did not give was written to
  enables, detaches   \* counters for the bounds

tables == <<devices_, DCBAA_, objects, slot_to_port_>>
xhc == <<enabled, cmds, events>>
locals == <<slot, dev, rings>>
bounds == <<enables, detaches>>
memory == <<pool, boot, null_written>>
vars == <<memory, tables, xhc, at, locals, main, raced, bounds>>

\* The requests of Controller::Initializer, in their order.
BootRequests ==
  << Request(EntrySize * (MaxSlots + 1), Alignment, Page),   \* DCBAA_
     Request(EntrySize * (MaxSlots + 1), 0, 0),              \* devices_
     Request(RingSize, Alignment, Segment),                  \* cr_
     Request(RingSize, Alignment, Segment),                  \* er_
     Request(ErstSize, Alignment, Segment) >>                \* erst_

Init ==
  /\ memory_pool \in Bases /\ alloc_ptr = memory_pool /\ blocks = {}
  /\ last = [from |-> memory_pool, request |-> Request(0, 0, 0), addr |-> memory_pool]
  /\ devices_ = [s \in Slots |-> NULL] /\ DCBAA_ = [s \in Slots |-> NULL]
  /\ objects = <<>> /\ slot_to_port_ = {}
  /\ enabled = {} /\ cmds = <<>> /\ events = <<>>
  /\ boot = 0 /\ at = "boot" /\ slot = NULL /\ dev = NULL /\ rings = 0
  /\ main = NULL
  /\ raced = FALSE /\ null_written = FALSE
  /\ enables = 0 /\ detaches = 0

\* AllocMem and the memset after it, which does not test the pointer.
AllocCleared(r) ==
  /\ AllocMem(r)
  /\ null_written' = (null_written \/ last'.addr = NULL)

Initializer ==
  /\ at = "boot" /\ boot' = boot + 1
  /\ AllocCleared(BootRequests[boot'])
  /\ at' = IF boot' = Len(BootRequests) THEN "run" ELSE at
  /\ UNCHANGED <<tables, xhc, locals, main, raced, bounds>>

-----------------------------------------------------------------------------
(* The init task.                                                          *)

Push(c) == cmds' = Append(cmds, c)

EnableSlot ==
  /\ at = "run" /\ enables < MaxEnables /\ enables' = enables + 1
  /\ Push([cmd |-> "enable", slot |-> NULL])
  /\ at' = "enable"
  /\ UNCHANGED <<memory, tables, enabled, events, locals, main, raced, detaches>>

SetPort ==
  /\ at = "enabled" /\ at' = "alloc"
  /\ slot_to_port_' = slot_to_port_ \cup {slot}
  /\ UNCHANGED <<memory, devices_, DCBAA_, objects, xhc, locals, main, raced, bounds>>

\* AllocDevice: the slot must be free.
AllocDevice ==
  /\ at = "alloc"
  /\ \/ /\ devices_[slot] # NULL
        /\ at' = "run"
        /\ UNCHANGED <<devices_, objects>>
     \/ /\ devices_[slot] = NULL
        /\ objects' = Append(objects, [dev_ctx |-> NULL, input_ctx |-> NULL])
        /\ devices_' = [devices_ EXCEPT ![slot] = Len(objects')]
        /\ at' = "device"
  /\ UNCHANGED <<memory, DCBAA_, slot_to_port_, xhc, locals, main, raced, bounds>>

\* Device::Initialize, called through devices_[slot].
InitializeContext(here, size, field, next) ==
  /\ at = here
  /\ IF devices_[slot] = NULL
     THEN at' = "undefined" /\ UNCHANGED <<pool, objects, null_written>>
     ELSE /\ AllocCleared(Request(size, Alignment, Page))
          /\ objects' = [objects EXCEPT ![devices_[slot]][field] = last'.addr]
          /\ at' = next
  /\ UNCHANGED <<boot, devices_, DCBAA_, slot_to_port_, xhc, locals, main, raced, bounds>>

Initialize ==
  \/ InitializeContext("device", DevCtxSize, "dev_ctx", "input")
  \/ InitializeContext("input", InputCtxSize, "input_ctx", "load")

\* The end of AllocDevice, which LoadDCBAA repeats with tests nobody relies on.
LoadDCBAA ==
  /\ at = "load"
  /\ IF devices_[slot] = NULL
     THEN at' = "undefined" /\ UNCHANGED DCBAA_
     ELSE /\ DCBAA_' = [DCBAA_ EXCEPT ![slot] = objects[devices_[slot]].dev_ctx]
          /\ at' = "find"
  /\ UNCHANGED <<memory, devices_, objects, slot_to_port_, xhc, locals, main, raced,
                 bounds>>

\* AddressDevice goes on with what FindBySlot returns.
FindBySlot ==
  /\ at = "find"
  /\ dev' = devices_[slot] /\ rings' = 0
  /\ at' = IF devices_[slot] = NULL THEN "undefined" ELSE "rings"
  /\ UNCHANGED <<memory, tables, xhc, slot, main, raced, bounds>>

\* The ring of endpoint 0 in AddressDevice, and those of ConfigureEndpoints.
AllocTransferRing ==
  /\ \/ at = "rings" /\ rings = 0
     \/ at = "configure" /\ rings <= Endpoints
  /\ AllocCleared(Request(RingSize, Alignment, Segment))
  /\ rings' = rings + 1
  /\ UNCHANGED <<boot, tables, xhc, at, slot, dev, main, raced, bounds>>

AddressDevice ==
  /\ at = "rings" /\ rings = 1
  /\ Push([cmd |-> "address", slot |-> slot])
  /\ at' = "address"
  /\ UNCHANGED <<memory, tables, enabled, events, locals, main, raced, bounds>>

PostProcessing ==
  /\ at = "configure"
  /\ at' = "run" /\ slot' = NULL /\ dev' = NULL /\ rings' = 0
  /\ UNCHANGED <<memory, tables, xhc, main, raced, bounds>>

InitTask ==
  \/ EnableSlot \/ SetPort \/ AllocDevice \/ Initialize \/ LoadDCBAA \/ FindBySlot
  \/ AllocTransferRing \/ AddressDevice \/ PostProcessing

-----------------------------------------------------------------------------
(* The main task.                                                          *)

\* A device was detached; its slot is the first with its port, and may be being
\* disabled already.
Detach ==
  /\ main = NULL /\ detaches < MaxDetaches /\ detaches' = detaches + 1
  /\ \E s \in slot_to_port_ : Push([cmd |-> "disable", slot |-> s])
  /\ UNCHANGED <<memory, tables, enabled, events, at, locals, main, raced, enables>>

Event(kind) ==
  /\ main = NULL
  /\ events # <<>> /\ Head(events).cmd = kind
  /\ events' = Tail(events)

\* The completions that the init task waits for.
OnEnabled ==
  /\ Event("enable")
  /\ slot' = Head(events).slot
  /\ at' = IF Head(events).ok THEN "enabled" ELSE "run"
  /\ UNCHANGED <<memory, tables, enabled, cmds, dev, rings, main, raced, bounds>>

OnAddressed ==
  /\ Event("address")
  /\ at' = IF Head(events).ok THEN "configure" ELSE "run"
  /\ UNCHANGED <<memory, tables, enabled, cmds, locals, main, raced, bounds>>

\* Fault: the slot is cleared, but not the table.
DisableSlotForgetful ==
  /\ Event("disable")
  /\ LET s == Head(events).slot IN
       IF Head(events).ok
       THEN /\ slot_to_port_' = slot_to_port_ \ {s}
            /\ main' = s
            /\ raced' = (raced \/ (s = slot /\ at \notin {"run", "enable"}))
       ELSE UNCHANGED <<slot_to_port_, main, raced>>
  /\ UNCHANGED <<memory, devices_, DCBAA_, objects, enabled, cmds, at, locals, bounds>>

\* DisableSlot of the device manager clears two tables, the contexts second.
DisableSlot ==
  /\ Event("disable")
  /\ LET s == Head(events).slot IN
       IF Head(events).ok
       THEN /\ slot_to_port_' = slot_to_port_ \ {s}
            /\ devices_' = [devices_ EXCEPT ![s] = NULL]
            /\ main' = s
            /\ raced' = (raced \/ (s = slot /\ at \notin {"run", "enable"}))
       ELSE UNCHANGED <<slot_to_port_, devices_, main, raced>>
  /\ UNCHANGED <<memory, DCBAA_, objects, enabled, cmds, at, locals, bounds>>

ClearDCBAA ==
  /\ main # NULL
  /\ DCBAA_' = [DCBAA_ EXCEPT ![main] = NULL]
  /\ main' = NULL
  /\ UNCHANGED <<memory, devices_, objects, slot_to_port_, xhc, at, locals, raced,
                 bounds>>

MainTask == Detach \/ OnEnabled \/ OnAddressed \/ DisableSlot \/ ClearDCBAA

-----------------------------------------------------------------------------
(* The controller.  A slot that is not enabled cannot be addressed or      *)
(* disabled; a device that is gone cannot be addressed.                    *)

CompleteCommand ==
  /\ cmds # <<>> /\ cmds' = Tail(cmds)
  /\ LET c == Head(cmds) IN
       \E s \in Slots \cup {NULL}, ok \in BOOLEAN :
         /\ IF c.cmd = "enable"
            THEN IF ok THEN s \in Slots \ enabled ELSE s = NULL
            ELSE s = c.slot /\ (ok => s \in enabled)
         /\ c.cmd = "disable" /\ s \in enabled => ok
         /\ enabled' = IF ~ ok THEN enabled
                       ELSE IF c.cmd = "disable" THEN enabled \ {s} ELSE enabled \cup {s}
         /\ events' = Append(events, [cmd |-> c.cmd, slot |-> s, ok |-> ok])
  /\ UNCHANGED <<memory, tables, at, locals, main, raced, bounds>>

Next == Initializer \/ InitTask \/ MainTask \/ CompleteCommand

Spec == Init /\ [][Next]_vars

-----------------------------------------------------------------------------
TypeOK ==
  /\ memory_pool \in Bases /\ alloc_ptr \in Nat
  /\ blocks \subseteq [addr : Nat, request : [size : Nat, alignment : Nat, boundary : Nat]]
  /\ boot \in 0 .. Len(BootRequests)
  /\ devices_ \in [Slots -> 0 .. Len(objects)] /\ DCBAA_ \in [Slots -> Nat]
  /\ objects \in Seq([dev_ctx : Nat, input_ctx : Nat])
  /\ slot_to_port_ \subseteq Slots /\ enabled \subseteq Slots
  /\ slot \in Slots \cup {NULL} /\ dev \in 0 .. Len(objects) /\ rings \in 0 .. Endpoints + 1
  /\ main \in Slots \cup {NULL}

End(b) == b.addr + b.request.size

\* What the controller is given lies in the pool, as it must for the hardware: aligned,
\* within its boundary, and nothing of it in another block.
BlocksSeparate ==
  \A b \in blocks :
    /\ memory_pool <= b.addr /\ End(b) <= memory_pool + PoolSize
    /\ b.request.alignment > 0 => b.addr % b.request.alignment = 0
    /\ b.request.boundary > 0 =>
         b.addr \div b.request.boundary = (End(b) - 1) \div b.request.boundary
    /\ \A c \in blocks \ {b} : End(b) <= c.addr \/ End(c) <= b.addr

Suits(p, r) ==
  /\ r.alignment > 0 => p % r.alignment = 0
  /\ r.boundary > 0 => p \div r.boundary = (p + r.size - 1) \div r.boundary
  /\ p + r.size <= memory_pool + PoolSize

\* AllocMem against what it promises: the lowest place that suits the request, and NULL
\* only when the rest of the pool has none.
LowestPlace ==
  last.request.size > 0 =>
    LET places == {p \in last.from .. memory_pool + PoolSize : Suits(p, last.request)}
    IN IF last.addr = NULL THEN places = {}
       ELSE last.addr \in places /\ \A p \in places : last.addr <= p

Completed(s) ==
  \E i \in DOMAIN events : events[i] = [cmd |-> "disable", slot |-> s, ok |-> TRUE]

\* A slot the controller has given back is empty in the driver's tables before it can be
\* given out again, as AllocDevice refuses one that is not; unless it was disabled while
\* the init task worked on it.
DisabledSlotsEmpty ==
  \A s \in Slots \ enabled :
    ~ raced /\ ~ Completed(s) /\ main # s => devices_[s] = NULL /\ DCBAA_[s] = NULL

\* The controller finds the context of the device it is to address, of that device and no
\* other, whoever had the slot before; the same exception holds, and the pool may have
\* been used up.
AddressedWithContext ==
  ~ raced =>
    \A i \in DOMAIN cmds : cmds[i].cmd = "address" =>
      LET s == cmds[i].slot IN
        /\ devices_[s] = dev /\ dev = Len(objects)
        /\ DCBAA_[s] = objects[dev].dev_ctx
        /\ DCBAA_[s] = NULL => null_written

\* A device is lost between AllocDevice and the uses of it only to a detach.
LostOnlyToADetach == at = "undefined" => raced

\* The pool, from the rings of Initializer to the contexts of the last device.
MemoryKept == TypeOK /\ BlocksSeparate /\ LowestPlace

\* The tables that the two tasks and the controller share, over enabling, addressing and
\* disabling a slot again and again.
DevicesKept == DisabledSlotsEmpty /\ AddressedWithContext /\ LostOnlyToADetach
=============================================================================
