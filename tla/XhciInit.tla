------------------------------ MODULE XhciInit ------------------------------
(***************************************************************************)
(* The initialization of USB devices (usb/xhci/xhci.cpp): the task         *)
(* InitUSBDevTask, which takes one attached port after the other through   *)
(* reset, slot, address, descriptors and endpoints, and the main task,     *)
(* which first queues the ports found attached (AllPortsInit) and then     *)
(* handles the events of the controller (OnEvent) and tells the init task  *)
(* by a message when what it waits for has happened.                       *)
(*                                                                         *)
(* Both tasks run at level 3 with interrupts enabled, so the timer may     *)
(* switch between them anywhere: a step of the model is a piece of code    *)
(* that touches what the other task or the hardware can see.  The          *)
(* operations of the task manager are atomic (module TaskManager; what     *)
(* happens inside them is the subject of PreemptiveSwitch), and the event  *)
(* ring is the queue EventRing shows it to be.                             *)
(***************************************************************************)
EXTENDS Naturals, Sequences, FiniteSets

CONSTANTS
  MaxPorts,     \* the root hub ports are 1 .. MaxPorts
  MaxSlots,     \* device_size_, the device slots are 1 .. MaxSlots
  MaxPlugs,     \* bound on the number of times a device is plugged or unplugged
  MaxReports    \* bound on the number of reports of configured devices

ASSUME XhciInitAssumption ==
  MaxPorts \in Nat \ {0} /\ MaxSlots \in Nat \ {0} /\ MaxPlugs \in Nat /\ MaxReports \in Nat

Ports == 1 .. MaxPorts
Slots == 0 .. MaxSlots   \* slot 0 is never enabled, but the tables have its entry
None == 0                \* no port, and no device in a slot
Unset == MaxSlots + 1    \* a slot_num_ that no constructor initialized

\* The command TRBs, and the events: port status changes, completed commands
\* (of the kind of their command) and completed transfers.
CommandKinds == {"noop", "enable", "address", "evaluate", "configure", "disable"}
Commands == [cmd : CommandKinds, slot : Slots]
PortEvents == [kind : {"port"}, port : Ports]
Completions == [kind : CommandKinds \cup {"transfer"}, slot : Slots, ok : BOOLEAN]

VARIABLES
  connected, enabled, csc, prc,   \* PORTSC of each port: CCS, PED, CSC, PRC
  enabled_slots,                  \* the controller's device slots in use
  cmds,                           \* the command ring
  xfers,                          \* slots with a control transfer under way
  events,                         \* the event ring
  initializing_ports,             \* the deque of the same name
  slot_num_,                      \* Port::slot_num_
  slot_to_port_,
  devices_,                       \* the port of the device in each slot, or None
  phase,                          \* initialize_phase_; 4 means is_initialized_
  stage,                          \* how far the init task is with port_num
  at,                             \* what the init task does
  port_num, slot_num,             \* its locals
  inbox,                          \* its messages, reduced to xhc_port_init.success
  main,                           \* where the main task is
  port,                           \* the port it works on
  plugs, reports,                 \* counters for the bounds
  early, idle                     \* history: a message was sent to a task that was not
                                  \* asleep; a task that slept was woken without one

portsc == <<connected, enabled, csc, prc>>
xhc == <<enabled_slots, cmds, xfers, events>>
tables == <<initializing_ports, slot_num_, slot_to_port_, devices_, phase>>
initTask == <<stage, at, port_num, slot_num, inbox>>
mainTask == <<main, port>>
bounds == <<plugs, reports>>
wakeups == <<early, idle>>
vars == <<portsc, xhc, tables, initTask, mainTask, bounds, wakeups>>

\* Initialize has woken the init task, started the controller and sent NoOp.  A
\* controller that is started may or may not announce a device it finds.
Init ==
  /\ connected \in [Ports -> BOOLEAN]
  /\ enabled = [p \in Ports |-> FALSE]
  /\ csc = connected /\ prc = [p \in Ports |-> FALSE]
  /\ enabled_slots = {} /\ xfers = {}
  /\ \E n \in 0 .. MaxPorts :
       /\ events \in [1 .. n -> PortEvents]
       /\ \A i \in 1 .. n : connected[events[i].port]
       /\ \A i, j \in 1 .. n : i < j => events[i].port < events[j].port
  /\ cmds = <<[cmd |-> "noop", slot |-> 0]>>
  /\ initializing_ports = <<>>
  /\ slot_num_ = [p \in Ports |-> Unset]
  /\ slot_to_port_ = [s \in Slots |-> None]
  /\ devices_ = [s \in Slots |-> None]
  /\ phase = [s \in Slots |-> 0]
  /\ stage = 0 /\ at = "run" /\ port_num = None /\ slot_num = 0 /\ inbox = <<>>
  /\ main = "scan" /\ port = MaxPorts
  /\ plugs = 0 /\ reports = 0
  /\ early = FALSE /\ idle = FALSE

PushCommand(c, s) == cmds' = Append(cmds, [cmd |-> c, slot |-> s])

-----------------------------------------------------------------------------
(* The hardware.                                                           *)

\* A change bit that rises while the other one is clear posts an event.
PortEvent(p) ==
  events' = IF csc[p] \/ prc[p] THEN events
            ELSE Append(events, [kind |-> "port", port |-> p])

Plug(p) ==
  /\ plugs < MaxPlugs /\ plugs' = plugs + 1
  /\ connected' = [connected EXCEPT ![p] = ~ @]
  /\ enabled' = [enabled EXCEPT ![p] = FALSE]
  /\ csc' = [csc EXCEPT ![p] = TRUE]
  /\ PortEvent(p)
  /\ UNCHANGED <<prc, enabled_slots, cmds, xfers, tables, initTask, mainTask, reports>>

\* The slot a command is completed for, if the command succeeds.
CanSucceed(c, s) ==
  CASE c.cmd = "enable" -> s \in 1 .. MaxSlots /\ s \notin enabled_slots
    [] c.cmd = "noop"   -> s = c.slot
    [] OTHER            -> s = c.slot /\ s \in enabled_slots

CompleteCommand ==
  /\ cmds # <<>>
  /\ cmds' = Tail(cmds)
  /\ LET c == Head(cmds) IN
       \E s \in Slots, ok \in BOOLEAN :
         /\ IF ok THEN CanSucceed(c, s) ELSE s = c.slot
         /\ events' = Append(events, [kind |-> c.cmd, slot |-> s, ok |-> ok])
         /\ enabled_slots' = CASE ok /\ c.cmd = "enable"  -> enabled_slots \cup {s}
                               [] ok /\ c.cmd = "disable" -> enabled_slots \ {s}
                               [] OTHER                   -> enabled_slots
         /\ xfers' = IF ok /\ c.cmd = "disable" THEN xfers \ {s} ELSE xfers
  /\ UNCHANGED <<portsc, tables, initTask, mainTask, bounds>>

CompleteTransfer(s) ==
  /\ s \in xfers
  /\ xfers' = xfers \ {s}
  /\ \E ok \in BOOLEAN :
       events' = Append(events, [kind |-> "transfer", slot |-> s, ok |-> ok])
  /\ UNCHANGED <<portsc, enabled_slots, cmds, tables, initTask, mainTask, bounds>>

\* A keyboard answers the interrupt transfer that is always queued, from the time
\* when its endpoints are configured and it is set to the boot protocol.
Report(s) ==
  /\ reports < MaxReports /\ reports' = reports + 1
  /\ s \in enabled_slots \ xfers /\ phase[s] = 4
  /\ stage \in 1 .. 8 => port_num # devices_[s]
  /\ devices_[s] # None /\ connected[devices_[s]]
  /\ events' = Append(events, [kind |-> "transfer", slot |-> s, ok |-> TRUE])
  /\ UNCHANGED <<portsc, enabled_slots, cmds, xfers, tables, initTask, mainTask, plugs>>

Hardware ==
  \/ \E p \in Ports : Plug(p)
  \/ CompleteCommand
  \/ \E s \in Slots : CompleteTransfer(s) \/ Report(s)

-----------------------------------------------------------------------------
(* The init task.  It is at "run", at "reset" between the two tests of     *)
(* IsConnected, at "sleep" about to call Sleep, "asleep", or "woken" about *)
(* to receive its message.                                                 *)

Awaits(k) == stage' = k /\ at' = "sleep"

\* PostProcessing, up to the call of WaitEvent.
PostProcessing ==
  /\ initializing_ports' = Tail(initializing_ports)
  /\ stage' = 0
  /\ at' = IF initializing_ports' = <<>> THEN "sleep" ELSE "run"

StartTransfer(s) == xfers' = IF s \in enabled_slots THEN xfers \cup {s} ELSE xfers

TakePort ==
  /\ stage = 0 /\ at = "run"
  /\ \/ initializing_ports = <<>> /\ Awaits(0) /\ UNCHANGED port_num
     \/ /\ initializing_ports # <<>>
        /\ port_num' = Head(initializing_ports)
        /\ stage' = 1 /\ UNCHANGED at
  /\ UNCHANGED <<portsc, xhc, tables, slot_num, inbox, mainTask, bounds>>

ResetPort ==
  /\ stage = 1 /\ at = "run"
  /\ \/ ~ connected[port_num] /\ PostProcessing
     \/ connected[port_num] /\ at' = "reset" /\ UNCHANGED <<stage, initializing_ports>>
  /\ UNCHANGED <<portsc, xhc, slot_num_, slot_to_port_, devices_, phase,
                 port_num, slot_num, inbox, mainTask, bounds>>

\* Port::Reset; ResetPort ignores its result.  The write that starts the reset
\* also clears CSC.
Reset ==
  /\ at = "reset" /\ Awaits(1)
  /\ \/ ~ connected[port_num] /\ UNCHANGED <<portsc, events>>
     \/ /\ connected[port_num]
        /\ enabled' = [enabled EXCEPT ![port_num] = TRUE]
        /\ csc' = [csc EXCEPT ![port_num] = FALSE]
        /\ prc' = [prc EXCEPT ![port_num] = TRUE]
        /\ events' = IF prc[port_num] THEN events
                     ELSE Append(events, [kind |-> "port", port |-> port_num])
        /\ UNCHANGED connected
  /\ UNCHANGED <<enabled_slots, cmds, xfers, tables, port_num, slot_num, inbox,
                 mainTask, bounds>>

EnableSlot ==
  /\ stage = 2 /\ at = "run"
  /\ \/ /\ ~ enabled[port_num] \/ Head(initializing_ports) # port_num
        /\ PostProcessing
        /\ UNCHANGED cmds
     \/ /\ enabled[port_num] /\ Head(initializing_ports) = port_num
        /\ PushCommand("enable", 0)
        /\ Awaits(2)
        /\ UNCHANGED initializing_ports
  /\ UNCHANGED <<portsc, enabled_slots, xfers, events, slot_num_, slot_to_port_,
                 devices_, phase, port_num, slot_num, inbox, mainTask, bounds>>

AddressDevice ==
  /\ stage = 3 /\ at = "run"
  /\ slot_num' \in IF slot_num_[port_num] = Unset THEN Slots ELSE {slot_num_[port_num]}
  /\ slot_to_port_' = [slot_to_port_ EXCEPT ![slot_num'] = port_num]
  /\ \/ /\ devices_[slot_num'] # None
        /\ PostProcessing
        /\ UNCHANGED <<devices_, phase, cmds>>
     \/ /\ devices_[slot_num'] = None
        /\ devices_' = [devices_ EXCEPT ![slot_num'] = Head(initializing_ports)]
        /\ phase' = [phase EXCEPT ![slot_num'] = 0]
        /\ PushCommand("address", slot_num')
        /\ Awaits(3)
        /\ UNCHANGED initializing_ports
  /\ UNCHANGED <<portsc, enabled_slots, xfers, events, slot_num_, port_num, inbox,
                 mainTask, bounds>>

\* BeforeInitialize, on a device that may have been removed meanwhile: the null
\* pointer is not tested.
BeforeInitialize ==
  /\ stage = 4 /\ at = "run"
  /\ \/ devices_[slot_num] = None /\ at' = "undefined" /\ UNCHANGED <<stage, phase, xfers>>
     \/ /\ devices_[slot_num] # None
        /\ phase' = [phase EXCEPT ![slot_num] = 0]
        /\ StartTransfer(slot_num)
        /\ Awaits(4)
  /\ UNCHANGED <<portsc, enabled_slots, cmds, events, initializing_ports, slot_num_,
                 slot_to_port_, devices_, port_num, slot_num, inbox, mainTask, bounds>>

ReConfigureDefaultControlPipe ==
  /\ stage = 5 /\ at = "run"
  /\ PushCommand("evaluate", slot_num)
  /\ Awaits(5)
  /\ UNCHANGED <<portsc, enabled_slots, xfers, events, tables, port_num, slot_num,
                 inbox, mainTask, bounds>>

StartInitialize ==
  /\ stage = 6 /\ at = "run"
  /\ phase' = [phase EXCEPT ![slot_num] = 1]
  /\ StartTransfer(slot_num)
  /\ Awaits(6)
  /\ UNCHANGED <<portsc, enabled_slots, cmds, events, initializing_ports, slot_num_,
                 slot_to_port_, devices_, port_num, slot_num, inbox, mainTask, bounds>>

\* It fails for a speed or an endpoint type that is not supported.
ConfigureEndpoints ==
  /\ stage = 7 /\ at = "run"
  /\ \/ PostProcessing /\ UNCHANGED cmds
     \/ /\ PushCommand("configure", slot_num)
        /\ Awaits(7)
        /\ UNCHANGED initializing_ports
  /\ UNCHANGED <<portsc, enabled_slots, xfers, events, slot_num_, slot_to_port_,
                 devices_, phase, port_num, slot_num, inbox, mainTask, bounds>>

\* A keyboard is set to the boot protocol, other devices have no driver.
OnEndpointsConfigured ==
  /\ stage = 8 /\ at = "run"
  /\ StartTransfer(slot_num) \/ UNCHANGED xfers
  /\ stage' = 9
  /\ UNCHANGED <<portsc, enabled_slots, cmds, events, tables, at, port_num, slot_num,
                 inbox, mainTask, bounds>>

Finish ==
  /\ stage = 9 /\ at = "run"
  /\ PostProcessing
  /\ UNCHANGED <<portsc, xhc, slot_num_, slot_to_port_, devices_, phase, port_num,
                 slot_num, inbox, mainTask, bounds>>

\* WaitEvent.
Sleep ==
  /\ at = "sleep" /\ at' = "asleep"
  /\ UNCHANGED <<portsc, xhc, tables, stage, port_num, slot_num, inbox, mainTask, bounds>>

ReceiveMessage ==
  /\ at = "woken"
  /\ \/ /\ inbox = <<>>
        /\ at' = "panic"
        /\ UNCHANGED <<stage, inbox, initializing_ports>>
     \/ /\ inbox # <<>>
        /\ inbox' = Tail(inbox)
        /\ \/ stage = 0 /\ at' = "run" /\ UNCHANGED <<stage, initializing_ports>>
           \/ /\ stage # 0 /\ Head(inbox)
              /\ stage' = stage + 1 /\ at' = "run"
              /\ UNCHANGED initializing_ports
           \/ stage # 0 /\ ~ Head(inbox) /\ PostProcessing
  /\ UNCHANGED <<portsc, xhc, slot_num_, slot_to_port_, devices_, phase, port_num,
                 slot_num, mainTask, bounds>>

InitUSBDevTask ==
  \/ TakePort \/ ResetPort \/ Reset \/ EnableSlot \/ AddressDevice
  \/ BeforeInitialize \/ ReConfigureDefaultControlPipe \/ StartInitialize
  \/ ConfigureEndpoints \/ OnEndpointsConfigured \/ Finish
  \/ Sleep \/ ReceiveMessage

-----------------------------------------------------------------------------
(* The main task, in AllPortsInit.  It is at "scan" or "push" in the loop  *)
(* over the ports, then at "wake".                                         *)

Wakeup == at' = IF at = "asleep" THEN "woken" ELSE at

\* Fault: a port is queued at the front.
PushPortInFront(p) ==
  initializing_ports' = IF \E i \in DOMAIN initializing_ports : initializing_ports[i] = p
                        THEN initializing_ports
                        ELSE <<p>> \o initializing_ports

PushPort(p) ==
  initializing_ports' = IF \E i \in DOMAIN initializing_ports : initializing_ports[i] = p
                        THEN initializing_ports
                        ELSE Append(initializing_ports, p)

ClearChanges ==
  /\ main = "scan" /\ main' = "push"
  /\ csc' = [csc EXCEPT ![port] = FALSE]
  /\ prc' = [prc EXCEPT ![port] = FALSE]
  /\ UNCHANGED <<connected, enabled, xhc, tables, initTask, port, bounds>>

PushConnected ==
  /\ main = "push"
  /\ IF connected[port] THEN PushPort(port) ELSE UNCHANGED initializing_ports
  /\ \/ port > 1 /\ port' = port - 1 /\ main' = "scan"
     \/ port = 1 /\ port' = None /\ main' = "wake"
  /\ UNCHANGED <<portsc, xhc, slot_num_, slot_to_port_, devices_, phase, initTask, bounds>>

-----------------------------------------------------------------------------
(* The main task, in ProcessEvents.  It is at "idle", at "attached" before *)
(* it tells the init task of a port it has queued, at "wake" between       *)
(* SendMessage and the call of Wakeup that follows it everywhere, or at    *)
(* "clear" before ClearConnectStatusChanged.                               *)

SendMessage(success) ==
  /\ inbox' = Append(inbox, success)
  /\ Wakeup
  /\ main' = "wake"
  /\ UNCHANGED <<stage, port_num, slot_num>>

WakeupAgain ==
  /\ main = "wake"
  /\ Wakeup
  /\ main' = IF port = None THEN "idle" ELSE "clear"
  /\ UNCHANGED <<portsc, xhc, tables, stage, port_num, slot_num, inbox, port, bounds>>

ClearConnectStatusChanged ==
  /\ main = "clear" /\ main' = "idle"
  /\ csc' = [csc EXCEPT ![port] = FALSE]
  /\ port' = None
  /\ UNCHANGED <<connected, enabled, prc, xhc, tables, initTask, bounds>>

Event(kind) ==
  /\ main = "idle"
  /\ events # <<>> /\ Head(events).kind = kind
  /\ events' = Tail(events)

\* A device was attached to p: its port is queued ...
OnAttached(p) ==
  /\ PushPort(p)
  /\ main' = "attached"
  /\ UNCHANGED <<cmds, initTask>>

\* ... and if there is one port in the queue then, the init task is told, though it may
\* have taken a port from the front meanwhile and be at work on this one.
TellOfAttached ==
  /\ main = "attached"
  /\ \/ Len(initializing_ports) = 1 /\ SendMessage(TRUE)
     \/ Len(initializing_ports) # 1 /\ main' = "clear" /\ UNCHANGED initTask
  /\ UNCHANGED <<portsc, xhc, tables, port, bounds>>

\* A device was detached from p: its first slot is disabled.
OnDetached(p) ==
  /\ LET mine == {s \in 1 .. MaxSlots : slot_to_port_[s] = p}
     IN \/ mine = {} /\ UNCHANGED cmds
        \/ \E s \in mine : /\ \A r \in mine : s <= r
                           /\ PushCommand("disable", s)
  /\ main' = "clear"
  /\ UNCHANGED <<initializing_ports, initTask>>

OnPortStatusChange ==
  /\ Event("port")
  /\ LET p == Head(events).port IN
       \/ /\ csc[p]
          /\ port' = p
          /\ \/ connected[p] /\ OnAttached(p)
             \/ ~ connected[p] /\ OnDetached(p)
          /\ UNCHANGED prc
       \/ /\ ~ csc[p] /\ prc[p]
          /\ prc' = [prc EXCEPT ![p] = FALSE]
          /\ SendMessage(TRUE)
          /\ UNCHANGED <<port, initializing_ports, cmds>>
       \/ /\ ~ csc[p] /\ ~ prc[p]
          /\ UNCHANGED <<prc, main, port, initializing_ports, cmds, initTask>>
  /\ UNCHANGED <<connected, enabled, csc, enabled_slots, xfers, slot_num_,
                 slot_to_port_, devices_, phase, bounds>>

\* Fault: only a success is told.
TellSuccess(success) ==
  \/ initializing_ports = <<>> /\ main' = "panic" /\ UNCHANGED initTask
  \/ initializing_ports # <<>> /\ success /\ SendMessage(success)
  \/ initializing_ports # <<>> /\ ~ success /\ UNCHANGED <<main, initTask>>

\* Completions the init task waits for panic when no port is being initialized.
TellInitTask(success) ==
  \/ initializing_ports = <<>> /\ main' = "panic" /\ UNCHANGED initTask
  \/ initializing_ports # <<>> /\ SendMessage(success)

OnCommandCompletion ==
  /\ \/ /\ Event("enable")
        /\ TellInitTask(Head(events).ok)
        /\ slot_num_' = IF initializing_ports = <<>> THEN slot_num_
                        ELSE [slot_num_ EXCEPT ![Head(initializing_ports)] = Head(events).slot]
     \/ /\ Event("address") \/ Event("evaluate")
        /\ TellInitTask(Head(events).ok)
        /\ UNCHANGED slot_num_
     \/ /\ Event("configure")
        /\ \/ devices_[Head(events).slot] = None /\ main' = "panic" /\ UNCHANGED initTask
           \/ devices_[Head(events).slot] # None /\ TellInitTask(Head(events).ok)
        /\ UNCHANGED slot_num_
     \/ /\ Event("noop")
        /\ UNCHANGED <<main, initTask, slot_num_>>
  /\ UNCHANGED <<portsc, enabled_slots, cmds, xfers, initializing_ports, slot_to_port_,
                 devices_, phase, port, bounds>>

OnSlotDisabled ==
  /\ Event("disable")
  /\ LET s == Head(events).slot IN
       \/ /\ Head(events).ok
          /\ slot_to_port_' = [slot_to_port_ EXCEPT ![s] = None]
          /\ devices_' = [devices_ EXCEPT ![s] = None]
       \/ ~ Head(events).ok /\ UNCHANGED <<slot_to_port_, devices_>>
  /\ UNCHANGED <<portsc, enabled_slots, cmds, xfers, initializing_ports, slot_num_,
                 phase, initTask, mainTask, bounds>>

\* Fault: every device is told of.
FrontIgnored(p, answer) == answer

\* Is p the front of initializing_ports?  The front of an empty deque is
\* whatever its memory holds.
FrontIs(p, answer) ==
  initializing_ports # <<>> => answer = (Head(initializing_ports) = p)

\* OnControlCompleted goes on to the next phase until the device is initialized.
Advances(s, ok) == devices_[s] # None /\ ok /\ phase[s] \in 1 .. 3

\* OnTransferEventReceived starts the next transfer of the phases 1 and 2; a
\* failed transfer leaves the phase alone.
OnTransfer ==
  /\ Event("transfer")
  /\ LET s == Head(events).slot
         ok == Head(events).ok
     IN /\ phase' = IF Advances(s, ok) THEN [phase EXCEPT ![s] = @ + 1] ELSE phase
        /\ IF Advances(s, ok) /\ phase[s] < 3 THEN StartTransfer(s) ELSE UNCHANGED xfers
        /\ \E front \in BOOLEAN :
             /\ FrontIs(devices_[s], front)
             /\ \/ /\ devices_[s] # None /\ front /\ (~ ok \/ phase'[s] \in {0, 4})
                   /\ SendMessage(ok)
                \/ /\ ~ (devices_[s] # None /\ front /\ (~ ok \/ phase'[s] \in {0, 4}))
                   /\ UNCHANGED <<main, initTask>>
  /\ UNCHANGED <<portsc, enabled_slots, cmds, initializing_ports, slot_num_,
                 slot_to_port_, devices_, port, bounds>>

MainTask ==
  \/ ClearChanges \/ PushConnected \/ WakeupAgain \/ ClearConnectStatusChanged
  \/ OnPortStatusChange \/ TellOfAttached \/ OnCommandCompletion \/ OnSlotDisabled
  \/ OnTransfer

Next ==
  /\ Hardware \/ InitUSBDevTask \/ MainTask
  /\ early' = (early \/ (Len(inbox') > Len(inbox) /\ at # "asleep"))
  /\ idle' = (idle \/ (at = "asleep" /\ at' = "woken" /\ inbox' = <<>>))

Spec == Init /\ [][Next]_vars

-----------------------------------------------------------------------------
(* Properties.                                                             *)

TypeOK ==
  /\ {connected, enabled, csc, prc} \subseteq [Ports -> BOOLEAN]
  /\ enabled_slots \subseteq 1 .. MaxSlots /\ xfers \subseteq enabled_slots
  /\ cmds \in Seq(Commands) /\ events \in Seq(PortEvents \cup Completions)
  /\ initializing_ports \in Seq(Ports) /\ inbox \in Seq(BOOLEAN)
  /\ slot_num_ \in [Ports -> Slots \cup {Unset}]
  /\ slot_to_port_ \in [Slots -> Ports \cup {None}]
  /\ devices_ \in [Slots -> Ports \cup {None}]
  /\ phase \in [Slots -> 0 .. 4]
  /\ stage \in 0 .. 9
  /\ at \in {"run", "reset", "sleep", "asleep", "woken", "panic", "undefined"}
  /\ port_num \in Ports \cup {None} /\ slot_num \in Slots
  /\ main \in {"scan", "push", "attached", "wake", "clear", "idle", "panic"}
  /\ port \in Ports \cup {None}

\* No port is queued twice, whatever comes and goes while it waits or is being
\* initialized: otherwise it would be reset under its working device.
NoPortTwice ==
  \A i, j \in DOMAIN initializing_ports :
    initializing_ports[i] = initializing_ports[j] => i = j

\* While the init task works on a port, that port stays at the front of the
\* queue: OnEvent and AddressDevice find it there and not in the task's locals.
FrontIsInitialized ==
  stage # 0 => initializing_ports # <<>> /\ Head(initializing_ports) = port_num

\* AllPortsInit, OnEvent and the init task take the ports of initializing_ports in turn.
PortsInTurn == TypeOK /\ NoPortTwice /\ FrontIsInitialized

\* The comment on WaitEvent (xhci.cpp:54, 61-63) says that the event wakes the task up
\* and that it finds a message then.  So it is, and OnEvent neither panics nor leaves
\* a device without an object, unless a message overtook Sleep, a Wakeup came without
\* one (xhci.cpp:332, 521), or a device was plugged or unplugged meanwhile.
InStep ==
  ~early /\ ~idle =>
    /\ at = "asleep" => inbox = <<>>
    /\ at = "woken" => inbox # <<>>
    /\ at # "panic"
    /\ plugs = 0 => main # "panic" /\ at # "undefined"

\* The device of slot is the one at the port under initialization.
Mine(slot) == stage \in 4 .. 7 /\ devices_[slot] = port_num

IsAnswered(c) == c.cmd \notin {"noop", "disable"}

IsAnswer(e) ==
  \/ e.kind \in {"enable", "address", "evaluate", "configure"}
  \/ e.kind = "transfer" /\ Mine(e.slot)

\* The answers on their way to the init task, each where it is.
Answers ==
  {<<"message", i>> : i \in DOMAIN inbox}
  \cup {<<"command", i>> : i \in {j \in DOMAIN cmds : IsAnswered(cmds[j])}}
  \cup {<<"transfer", slot>> : slot \in {s \in xfers : Mine(s)}}
  \cup {<<"event", i>> : i \in {j \in DOMAIN events : IsAnswer(events[j])}}
  \cup {<<"reset", p>> : p \in {q \in {port_num} : stage = 1 /\ prc[q]}}

\* While the init task waits, exactly one answer is on its way to it, whatever fails:
\* as a command, a reset or a transfer that the controller works on, as an event that
\* OnEvent has not handled, or as a message.  So it neither waits for ever nor takes
\* the answer to one step for the answer to another, under the provisos of InStep.
OneAnswer ==
  ~early /\ ~idle /\ plugs = 0 /\ stage # 0 /\ at \in {"sleep", "asleep", "woken"}
    => Cardinality(Answers) = 1
=============================================================================
