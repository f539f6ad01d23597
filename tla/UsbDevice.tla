----------------------------- MODULE UsbDevice -----------------------------
(***************************************************************************)
(* One USB device from its address to its keys: the phases of              *)
(* usb::Device, the control and interrupt transfers of xhci::Device and    *)
(* the keyboard driver of classdriver/hid.cpp.                             *)
(*                                                                         *)
(* The init task starts the transfers that begin a phase, the main task    *)
(* handles the transfer events and starts those that follow, and both use  *)
(* the ring of endpoint 0 and the map from the TRB that raises an event to *)
(* the setup stage of its transfer.  The tasks preempt each other, and the *)
(* controller fetches TRBs for as long as the endpoint runs, whether the   *)
(* doorbell was rung for them or not.  Rings are wide enough (module Ring  *)
(* has what happens otherwise), and the commands between the phases and    *)
(* the messages of other ports are those of XhciInit.                      *)
(***************************************************************************)
EXTENDS Naturals, Sequences, FiniteSets

CONSTANTS
  RingSize,     \* the TRBs of endpoint 0's ring without the link
  MapSize,      \* kSetupStageMapSize
  Kinds,        \* the devices: sequences of interfaces, each with a driver or without,
                \* and with the numbers of its endpoints in either direction
  Keys,         \* the keys of a keyboard
  MaxReports    \* bound on the reports of a device

\* A configuration is read into 256 bytes, in which an interface and an endpoint of it take
\* 16: there are 15 interfaces with an endpoint at most.  The ring has 31 TRBs and the link.
ASSUME UsbDeviceAssumption ==
  /\ RingSize \in Nat /\ RingSize > 6 /\ MapSize \in Nat \ {0} /\ MaxReports \in Nat
  /\ \A k \in Kinds : /\ k \in Seq([keyboard : BOOLEAN, in : SUBSET (1 .. 15),
                                    out : SUBSET (1 .. 15)])
                       /\ RingSize > 2 * Len(k)

Positions == 1 .. RingSize
NULL == 0

VARIABLES
  device,                    \* what was plugged in
  ring, enqueue, dequeue,    \* endpoint 0: the TRBs, where the driver and the controller are
  running, halted,           \* and its state; halted is a set of endpoint numbers
  dict_,                     \* SetupStageMap
  initialize_phase_, is_initialized_,
  class_drivers_, ep_to_class_driver_map,
  transfer_rings_,           \* the IN endpoints that have a ring
  requests,                  \* the drivers whose buffers are queued on the ring of DCI 3
  buf_, prev_keys_,          \* of the driver of each interface
  events,                    \* the event ring
  inbox,                     \* messages of the init task, reduced to their success
  at, todo, place,           \* the init task: where it is, what it sends, the slot in dict_
  handling,                  \* the entry the main task is deleting
  reported, typed,           \* history: the reports of the device, what went to the terminal
  raced                      \* history: how the two tasks have met in dict_

Interfaces == 1 .. Len(device)
Endpoints == UNION {device[i].in : i \in Interfaces}

ep0 == <<ring, enqueue, dequeue, running, halted>>
phases == <<initialize_phase_, is_initialized_, class_drivers_, ep_to_class_driver_map>>
keyboard == <<requests, buf_, prev_keys_>>
initTask == <<at, todo, place>>
history == <<reported, typed>>
vars == <<device, ep0, dict_, phases, transfer_rings_, keyboard, events, inbox, initTask,
          handling, history, raced>>

Nothing == [request |-> "none", index |-> 0]
Idle == [entry |-> NULL, setup |-> NULL]

Init ==
  /\ device \in Kinds
  /\ ring = [p \in Positions |-> [type |-> "none", setup |-> Nothing]]
  /\ enqueue = 1 /\ dequeue = 1 /\ running = FALSE /\ halted = {}
  /\ dict_ = [i \in 1 .. MapSize |-> [issuer |-> NULL, setup |-> NULL]]
  /\ initialize_phase_ = 0 /\ is_initialized_ = FALSE
  /\ class_drivers_ = {} /\ ep_to_class_driver_map = [e \in 1 .. 15 |-> NULL]
  /\ transfer_rings_ = {} /\ requests = <<>>
  /\ buf_ = [i \in Interfaces |-> {}] /\ prev_keys_ = [i \in Interfaces |-> {}]
  /\ events = <<>> /\ inbox = <<>>
  /\ at = "before" /\ todo = Nothing /\ place = NULL
  /\ handling = Idle
  /\ reported = <<>> /\ typed = <<>> /\ raced = {}

-----------------------------------------------------------------------------
(* Control transfers.  The second TRB of a transfer, its data stage or     *)
(* else its status stage, is the one that raises the event.                *)

Stages(request) ==
  IF request \in {"GetDescriptor(device)", "GetDescriptor(configuration)"}
  THEN <<"setup", "data", "status">> ELSE <<"setup", "status">>

Plus(p, n) == ((p + n - 1) % RingSize) + 1

\* Ring::Push of every stage.
PushStages(setup) ==
  LET stages == Stages(setup.request)
      at_(p) == ((p + RingSize - enqueue) % RingSize) + 1
  IN /\ ring' = [p \in Positions |-> IF at_(p) \in DOMAIN stages
                                     THEN [type |-> stages[at_(p)], setup |-> setup]
                                     ELSE ring[p]]
     /\ enqueue' = Plus(enqueue, Len(stages))

Free == {i \in 1 .. MapSize : dict_[i].issuer = NULL}
Least(S) == CHOOSE i \in S : \A j \in S : i <= j

\* SetupStageMap::Get, the index of the entry.
Get(p) ==
  LET found == {i \in 1 .. MapSize : dict_[i].issuer = p}
  IN IF found = {} THEN NULL ELSE Least(found)

\* ControlIn and ControlOut, when they are called from the main task: the init task is
\* waiting for its message then, and the main task itself handles the event, later.
ControlTransfer(setup, map) ==
  LET free == {i \in 1 .. MapSize : map[i].issuer = NULL} IN
  /\ PushStages(setup)
  /\ IF free = {} THEN dict_' = map /\ UNCHANGED running
     ELSE /\ dict_' = [map EXCEPT ![Least(free)] =
                         [issuer |-> Plus(enqueue, 1), setup |-> enqueue]]
          /\ running' = TRUE

-----------------------------------------------------------------------------
(* The init task, from BeforeInitialize to OnEndpointsConfigured.          *)

Send(setup) == todo' = setup /\ at' = "push"

BeforeInitialize ==
  /\ at = "before"
  /\ initialize_phase_' = 0
  /\ Send([request |-> "GetDescriptor(device)", index |-> 0])
  /\ UNCHANGED <<device, ep0, dict_, is_initialized_, class_drivers_, ep_to_class_driver_map,
                 transfer_rings_, keyboard, events, inbox, place, handling, history, raced>>

StartInitialize ==
  /\ at = "start"
  /\ is_initialized_' = FALSE /\ initialize_phase_' = 1
  /\ Send([request |-> "GetDescriptor(device)", index |-> 1])
  /\ UNCHANGED <<device, ep0, dict_, class_drivers_, ep_to_class_driver_map,
                 transfer_rings_, keyboard, events, inbox, place, handling, history, raced>>

\* ConfigureEndpoints gives every endpoint of the device a ring; drivers use the IN ones.
ConfigureEndpoints ==
  /\ at = "configure" /\ at' = "endpoints"
  /\ transfer_rings_' = Endpoints
  /\ todo' = Nothing
  /\ UNCHANGED <<device, ep0, dict_, phases, keyboard, events, inbox, place, handling,
                 history, raced>>

\* OnEndpointsConfigured runs the drivers in the order of their interfaces; todo.index is
\* the last one that was.  Afterwards PostProcessing takes the port from the front.
OnEndpointsConfigured ==
  /\ at = "endpoints"
  /\ LET rest == {i \in class_drivers_ : i > todo.index} IN
       IF rest = {} THEN at' = "done" /\ UNCHANGED todo
       ELSE Send([request |-> "SetProtocol", index |-> Least(rest)])
  /\ UNCHANGED <<device, ep0, dict_, phases, transfer_rings_, keyboard, events, inbox, place,
                 handling, history, raced>>

Push ==
  /\ at = "push" /\ at' = "put"
  /\ PushStages(todo)
  /\ UNCHANGED <<device, dequeue, running, halted, dict_, phases, transfer_rings_, keyboard,
                 events, inbox, todo, place, handling, history, raced>>

\* Put finds a free entry ...
FindEntry ==
  /\ at = "put"
  /\ IF Free = {} THEN at' = "failed" /\ UNCHANGED place
     ELSE at' = "put entry" /\ place' = Least(Free)
  /\ UNCHANGED <<device, ep0, dict_, phases, transfer_rings_, keyboard, events, inbox, todo,
                 handling, history, raced>>

\* The TRB that raises the event of what the init task sends.
Issuer == Plus(enqueue, RingSize - Len(Stages(todo.request)) + 1)

\* ... writes the TRB to it ...
PutEntry ==
  /\ at = "put entry" /\ at' = "put setup"
  /\ dict_' = [dict_ EXCEPT ![place].issuer = Issuer]
  /\ UNCHANGED <<device, ep0, phases, transfer_rings_, keyboard, events, inbox, todo, place,
                 handling, history, raced>>

\* Fault: the setup stage is taken to be where the last TRB was pushed.
PutSetupOfLast ==
  /\ at = "put setup" /\ at' = "ring"
  /\ dict_' = [dict_ EXCEPT ![place].setup = Issuer]
  /\ UNCHANGED <<device, ep0, phases, transfer_rings_, keyboard, events, inbox, todo, place,
                 handling, history, raced>>

\* ... and then its setup stage.
PutSetup ==
  /\ at = "put setup" /\ at' = "ring"
  /\ dict_' = [dict_ EXCEPT ![place].setup = Plus(Issuer, RingSize - 1)]
  /\ UNCHANGED <<device, ep0, phases, transfer_rings_, keyboard, events, inbox, todo, place,
                 handling, history, raced>>

RingDoorbell ==
  /\ at = "ring"
  /\ running' = (0 \notin halted)
  /\ at' = IF todo.request = "SetProtocol" THEN "endpoints" ELSE "wait"
  /\ place' = NULL
  /\ UNCHANGED <<device, ring, enqueue, dequeue, halted, dict_, phases, transfer_rings_,
                 keyboard, events, inbox, todo, handling, history, raced>>

\* WaitEvent; between the two waits is the command of ReConfigureDefaultControlPipe.
WaitEvent ==
  /\ at = "wait" /\ inbox # <<>>
  /\ inbox' = Tail(inbox)
  /\ at' = IF ~ Head(inbox) THEN "failed" ELSE IF todo.index = 0 THEN "start" ELSE "configure"
  /\ UNCHANGED <<device, ep0, dict_, phases, transfer_rings_, keyboard, events, todo, place,
                 handling, history, raced>>

InitUSBDevTask ==
  \/ BeforeInitialize \/ StartInitialize \/ ConfigureEndpoints \/ OnEndpointsConfigured
  \/ Push \/ FindEntry \/ PutEntry \/ PutSetup \/ RingDoorbell \/ WaitEvent

-----------------------------------------------------------------------------
(* The controller and the device.                                          *)

Waiting == dequeue # enqueue

\* The init task has pushed the transfer of this TRB, and Put is not done with it.
BeforePut(issuer) == at \in {"put", "put entry", "put setup"} /\ issuer = Issuer

\* A transfer is done or fails; a failure halts the endpoint, and nothing resets it.
CompleteControl ==
  /\ running /\ Waiting
  /\ LET setup == ring[dequeue].setup
         issuer == Plus(dequeue, 1)
     IN \E ok \in BOOLEAN :
          /\ events' = Append(events, [endpoint |-> 0, issuer |-> issuer, ok |-> ok,
                                       setup |-> setup])
          /\ dequeue' = Plus(dequeue, Len(Stages(setup.request)))
          /\ running' = ok
          /\ halted' = IF ok THEN halted ELSE halted \cup {0}
          /\ raced' = IF ok /\ (BeforePut(issuer) \/ Get(issuer) = NULL)
                      THEN raced \cup {"event before Put"} ELSE raced
  /\ UNCHANGED <<device, ring, enqueue, dict_, phases, transfer_rings_, keyboard, inbox,
                 initTask, handling, history>>

StopRunning ==
  /\ running /\ ~ Waiting
  /\ running' = FALSE
  /\ UNCHANGED <<device, ring, enqueue, dequeue, halted, dict_, phases, transfer_rings_,
                 keyboard, events, inbox, initTask, handling, history, raced>>

\* A report of the interface with endpoint 1 is written to the first buffer queued.
CompleteInterrupt ==
  /\ requests # <<>> /\ 1 \notin halted
  /\ requests' = Tail(requests)
  /\ \/ /\ Len(reported) < MaxReports
        /\ \E keys \in SUBSET Keys :
             /\ reported' = Append(reported, keys)
             /\ buf_' = [buf_ EXCEPT ![Head(requests)] = keys]
        /\ events' = Append(events, [endpoint |-> 1, issuer |-> Head(requests), ok |-> TRUE,
                                     setup |-> Nothing])
        /\ UNCHANGED halted
     \/ /\ events' = Append(events, [endpoint |-> 1, issuer |-> Head(requests), ok |-> FALSE,
                                     setup |-> Nothing])
        /\ halted' = halted \cup {1}
        /\ UNCHANGED <<reported, buf_>>
  /\ UNCHANGED <<device, ring, enqueue, dequeue, running, dict_, phases, transfer_rings_,
                 prev_keys_, inbox, initTask, handling, typed, raced>>

-----------------------------------------------------------------------------
(* The main task: OnEvent(TransferEventTRB) and what it calls.             *)

\* The init task is told of failures, and of successes before and after the phases.
Tell(ok, phase, initialized) ==
  inbox' = IF at \notin {"done", "failed"} /\ (~ ok \/ initialized \/ phase = 0)
           THEN Append(inbox, ok) ELSE inbox

Event(endpoint) ==
  /\ handling = Idle /\ at # "undefined"
  /\ events # <<>> /\ Head(events).endpoint = endpoint
  /\ events' = Tail(events)

\* Fault: the init task is not told.
OnErrorSilent ==
  /\ \E e \in {0, 1} : Event(e)
  /\ ~ Head(events).ok
  /\ UNCHANGED <<device, ep0, dict_, phases, transfer_rings_, keyboard, inbox, initTask,
                 handling, history, raced>>

OnError ==
  /\ \E e \in {0, 1} : Event(e)
  /\ ~ Head(events).ok
  /\ Tell(FALSE, initialize_phase_, is_initialized_)
  /\ UNCHANGED <<device, ep0, dict_, phases, transfer_rings_, keyboard, initTask, handling,
                 history, raced>>

\* OnTransferEventReceived: Get, and the first half of Delete.
OnControlTransfer ==
  /\ Event(0) /\ Head(events).ok
  /\ LET i == Get(Head(events).issuer) IN
       IF i = NULL \/ dict_[i].setup = NULL
       THEN Tell(TRUE, initialize_phase_, is_initialized_) /\ UNCHANGED <<dict_, handling>>
       ELSE /\ handling' = [entry |-> i, setup |-> dict_[i].setup]
            /\ dict_' = [dict_ EXCEPT ![i].issuer = NULL]
            /\ UNCHANGED inbox
  /\ UNCHANGED <<device, ep0, phases, transfer_rings_, keyboard, initTask, history, raced>>

\* RequestKeyCodeViaIntEP of the driver of interface i: InterruptIn on DCI 3, which is
\* endpoint 1, whatever the endpoint of the interface; its ring may not exist.
RequestKeyCodeViaIntEP(i) ==
  IF 1 \in transfer_rings_
  THEN requests' = Append(requests, i) /\ UNCHANGED at
  ELSE at' = "undefined" /\ UNCHANGED requests

Drivers == {i \in Interfaces : device[i].keyboard}

Numbers(i) == device[i].in \cup device[i].out

\* Fault: the map of the drivers is indexed by the device context index.
DriversOfDCI(e) ==
  {i \in Drivers : \/ \E n \in device[i].in : e = 2 * n + 1
                   \/ \E n \in device[i].out : e = 2 * n}

\* The driver of the last interface with an endpoint of this number, in either direction:
\* every endpoint descriptor overwrites what the map has for its number.
DriversOf(e) ==
  {i \in Drivers : e \in Numbers(i) /\ \A j \in Interfaces : j > i => e \notin Numbers(j)}

\* OnControlCompleted goes through the phases, then hands over to the class driver.
OnControlCompleted(setup, map) ==
  \/ /\ is_initialized_
     /\ IF setup.request = "SetProtocol" /\ setup.index \in class_drivers_
        THEN RequestKeyCodeViaIntEP(setup.index)
        ELSE UNCHANGED <<requests, at>>
     /\ dict_' = map
     /\ UNCHANGED <<ring, enqueue, running, phases>>
  \/ /\ ~ is_initialized_ /\ initialize_phase_ = 0
     /\ dict_' = map
     /\ UNCHANGED <<ring, enqueue, running, phases, requests, at>>
  \/ /\ ~ is_initialized_ /\ initialize_phase_ = 1
     /\ initialize_phase_' = 2
     /\ ControlTransfer([request |-> "GetDescriptor(configuration)", index |-> 0], map)
     /\ UNCHANGED <<is_initialized_, class_drivers_, ep_to_class_driver_map, requests, at>>
  \/ /\ ~ is_initialized_ /\ initialize_phase_ = 2
     /\ initialize_phase_' = 3
     /\ class_drivers_' = Drivers
     /\ ep_to_class_driver_map' =
          [e \in 1 .. 15 |-> IF DriversOf(e) = {} THEN NULL ELSE Least(DriversOf(e))]
     /\ ControlTransfer([request |-> "SetConfiguration", index |-> 0], map)
     /\ UNCHANGED <<is_initialized_, requests, at>>
  \/ /\ ~ is_initialized_ /\ initialize_phase_ = 3
     /\ initialize_phase_' = 4 /\ is_initialized_' = TRUE
     /\ dict_' = map
     /\ UNCHANGED <<ring, enqueue, running, class_drivers_, ep_to_class_driver_map,
                    requests, at>>

\* The second half of Delete, and the rest.
OnControlDone ==
  /\ handling # Idle
  /\ handling' = Idle
  /\ raced' = IF dict_[handling.entry].issuer # NULL THEN raced \cup {"entry put while deleted"}
              ELSE raced
  /\ OnControlCompleted(ring[handling.setup].setup,
                        [dict_ EXCEPT ![handling.entry].setup = NULL])
  /\ Tell(TRUE, initialize_phase_', is_initialized_')
  /\ UNCHANGED <<device, dequeue, halted, transfer_rings_, buf_, prev_keys_, events, todo,
                 place, history>>

\* Fault: nothing is requested when the keys have not changed.
OnInterruptTransferOnce ==
  /\ Event(1) /\ Head(events).ok
  /\ LET i    == ep_to_class_driver_map[1]
         keys == buf_[Head(events).issuer]
         prev == prev_keys_[i]
     IN IF i = NULL THEN UNCHANGED <<typed, prev_keys_, requests, at>>
        ELSE /\ typed' = Append(typed, IF keys = prev THEN keys ELSE keys \ prev)
             /\ prev_keys_' = [prev_keys_ EXCEPT ![i] = keys]
             /\ IF keys = prev THEN UNCHANGED <<requests, at>> ELSE RequestKeyCodeViaIntEP(i)
  /\ Tell(TRUE, initialize_phase_, is_initialized_)
  /\ UNCHANGED <<device, ep0, dict_, phases, transfer_rings_, buf_, todo, place, handling,
                 reported, raced>>

\* HIDKeyboardDriver::OnInterruptCompleted of the driver that has the endpoint, with the
\* buffer of the driver that made the request.
OnInterruptTransfer ==
  /\ Event(1) /\ Head(events).ok
  /\ LET i    == ep_to_class_driver_map[1]
         keys == buf_[Head(events).issuer]
         prev == prev_keys_[i]
     IN IF i = NULL THEN UNCHANGED <<typed, prev_keys_, requests, at>>
        ELSE /\ typed' = Append(typed, IF keys = prev THEN keys ELSE keys \ prev)
             /\ prev_keys_' = [prev_keys_ EXCEPT ![i] = keys]
             /\ RequestKeyCodeViaIntEP(i)
  /\ Tell(TRUE, initialize_phase_, is_initialized_)
  /\ UNCHANGED <<device, ep0, dict_, phases, transfer_rings_, buf_, todo, place, handling,
                 reported, raced>>

MainTask == OnError \/ OnControlTransfer \/ OnControlDone \/ OnInterruptTransfer

Next ==
  \/ InitUSBDevTask \/ MainTask
  \/ CompleteControl \/ StopRunning \/ CompleteInterrupt

Spec == Init /\ [][Next]_vars

\* The two tasks take turns on the same level, and the controller completes what it is
\* given, though a device may never report.
FairSpec ==
  /\ Spec
  /\ WF_vars(InitUSBDevTask) /\ WF_vars(MainTask) /\ WF_vars(CompleteControl)

-----------------------------------------------------------------------------
Setups == [request : {"none", "GetDescriptor(device)", "GetDescriptor(configuration)",
                      "SetConfiguration", "SetProtocol"}, index : Nat]

TypeOK ==
  /\ device \in Kinds
  /\ ring \in [Positions -> [type : {"none", "setup", "data", "status"}, setup : Setups]]
  /\ {enqueue, dequeue} \subseteq Positions
  /\ running \in BOOLEAN /\ halted \subseteq {0, 1}
  /\ dict_ \in [1 .. MapSize -> [issuer : Positions \cup {NULL}, setup : Positions \cup {NULL}]]
  /\ initialize_phase_ \in 0 .. 4 /\ is_initialized_ \in BOOLEAN
  /\ class_drivers_ \subseteq Interfaces /\ transfer_rings_ \subseteq Endpoints
  /\ requests \in Seq(class_drivers_) /\ inbox \in Seq(BOOLEAN)
  /\ todo \in Setups /\ place \in 0 .. MapSize
  /\ at \in {"before", "start", "push", "put", "put entry", "put setup", "ring", "wait",
             "configure", "endpoints", "done", "failed", "undefined"}

\* A transfer that is done is found in the map, with the setup stage that was sent,
\* although entries and TRBs are used again and again; except after one of two meetings
\* of the tasks: the event came before Put had written both halves of its entry, or Put
\* took an entry that was being deleted.  Nothing is said of what comes after the driver
\* went through a null pointer.
SetupStageFound ==
  raced = {} /\ at # "undefined" =>
    \A j \in DOMAIN events : events[j].endpoint = 0 /\ events[j].ok =>
      LET i == Get(events[j].issuer) IN
        /\ i # NULL /\ dict_[i].setup # NULL
        /\ ring[dict_[i].setup] = [type |-> "setup", setup |-> events[j].setup]

\* The second of these needs a device with two keyboards; the first does not, as the
\* endpoint may still run when StartInitialize pushes the next transfer.
PutWhileDeletedOnlyWithTwo ==
  "entry put while deleted" \in raced => Cardinality(Drivers) > 1

\* The message that ends the wait for a phase is about that phase and no earlier one: the
\* endpoints are configured when the device is, and its drivers are known.
ConfiguredInOrder ==
  /\ at = "start" => dequeue = enqueue /\ events = <<>> /\ handling = Idle
  /\ at \in {"configure", "endpoints", "done"} =>
       is_initialized_ /\ initialize_phase_ = 4 /\ class_drivers_ = Drivers

\* The init task gets through all phases of a device or notices an error, and does not
\* wait for a message that nothing sends, unless an event came before Put was done.
InitTaskFinishes ==
  <>(at \in {"done", "failed", "undefined"} \/ raced # {})

\* A keyboard on endpoint 1, and no later interface that takes the number of its endpoint.
OneKeyboard ==
  /\ Cardinality(Drivers) = 1
  /\ \A i \in Drivers :
       1 \in device[i].in /\ \A j \in Interfaces : j > i => 1 \notin Numbers(j)

InFlight(e) == Cardinality({j \in DOMAIN events : events[j].endpoint = e})

SentProtocol ==
  {j \in DOMAIN events : events[j].endpoint = 0 /\ events[j].setup.request = "SetProtocol"}

\* From SetProtocol on, a keyboard is always listened to, by one request and no more: a
\* second one could overwrite a report before it is read.  Only an error ends it, or the
\* loss of the event of SetProtocol.
KeyboardListens ==
  OneKeyboard =>
    /\ Len(requests) + InFlight(1) <= 1
    /\ at = "done" /\ halted = {} /\ raced = {} =>
         \/ Len(requests) + InFlight(1) = 1
         \/ SentProtocol # {} \/ handling # Idle \/ Waiting

Typed(k) ==
  LET prev == IF k = 1 THEN {} ELSE reported[k - 1]
  IN IF reported[k] = prev THEN reported[k] ELSE reported[k] \ prev

\* Every report of a keyboard gets to the terminal once and in order, as its newly pressed
\* keys, or as all of its keys when nothing changed.
ReportsTyped ==
  OneKeyboard =>
    /\ Len(reported) - Len(typed) = Cardinality({j \in DOMAIN events :
                                                   events[j].endpoint = 1 /\ events[j].ok})
    /\ \A k \in DOMAIN typed : typed[k] = Typed(k)

\* And it does get there.
ReportsGetTyped ==
  \A n \in 1 .. MaxReports :
    OneKeyboard /\ Len(reported) = n ~> Len(typed) >= n

\* The driver goes through a null pointer only with a keyboard on a device without an
\* IN endpoint 1.
UndefinedOnlyWithoutEndpoint1 == at = "undefined" => 1 \notin Endpoints

\* The transfers on endpoint 0, over the phases of one device.
TransfersMatched ==
  TypeOK /\ SetupStageFound /\ PutWhileDeletedOnlyWithTwo /\ ConfiguredInOrder

\* The transfers of a keyboard, over its reports.
KeyboardKept == KeyboardListens /\ ReportsTyped /\ UndefinedOnlyWithoutEndpoint1
=============================================================================
