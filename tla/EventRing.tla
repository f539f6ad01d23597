------------------------------ MODULE EventRing ------------------------------
(***************************************************************************)
(* The event ring (usb/xhci/ring.cpp, class EventRing), the interrupter    *)
(* registers it works on, and the path an event takes to its handler: the  *)
(* host controller writes an event, raises an interrupt, IntHandlerXHCI    *)
(* sends the main task a message, and ProcessEvents handles every event it *)
(* finds.                                                                  *)
(*                                                                         *)
(* The controller interrupts only while the event handler busy bit (EHB)   *)
(* of ERDP is clear, and sets it when it does.  The kernel clears it by    *)
(* writing a one back, which it does by writing back the bit as it read    *)
(* it: SetPointer reads ERDP and writes it in two accesses, and the        *)
(* controller runs between them.  The constructor of Controller sets the   *)
(* moderation interval to 4000, so that an interrupt comes some time after *)
(* its cause: by then the main task may have found the event itself.       *)
(***************************************************************************)
EXTENDS Naturals, Sequences

CONSTANTS
  SegmentSize,  \* ring_size_, the slots of the only segment
  Events,       \* the events the controller reports
  NoEvent       \* a slot that was only cleared

ASSUME EventRingAssumption ==
  /\ SegmentSize \in Nat /\ SegmentSize >= 2
  /\ NoEvent \notin Events

SegmentSlots == 0 .. SegmentSize - 1

VARIABLES
  segment,      \* the contents of each slot
  event_cycle,  \* the cycle bit of each slot
  head,         \* the controller's enqueue pointer
  pcs,          \* the controller's cycle state
  erdp,         \* ERDP: the dequeue pointer
  ehb,          \* ERDP: event_handler_busy
  erdp_cycle,   \* the kernel's cycle state
  main,         \* where the main task is: "wait", "process" or, in SetPointer, "write"
  ehb_read,     \* event_handler_busy as SetPointer read it
  msgs,         \* messages kInterruptXHCI in the main task's queue
  overtaken,    \* history: an interrupt came between the two accesses of SetPointer,
                \* and EHB was not cleared since
  reported,     \* history: the events the controller reported
  handled       \* history: the events the kernel handled

controller == <<head, pcs>>
eventHistory == <<reported, handled>>
interrupterVars ==
  <<segment, event_cycle, controller, erdp, ehb, erdp_cycle, main, ehb_read, msgs, overtaken,
    eventHistory>>

InterrupterInit ==
  /\ segment = [i \in SegmentSlots |-> NoEvent]
  /\ event_cycle = [i \in SegmentSlots |-> FALSE]
  /\ head = 0 /\ pcs = TRUE
  /\ erdp = 0 /\ ehb = FALSE /\ erdp_cycle = TRUE
  /\ main = "wait" /\ ehb_read = FALSE /\ msgs = 0 /\ overtaken = FALSE
  /\ reported = <<>> /\ handled = <<>>

After(i) == (i + 1) % SegmentSize

\* Pop flips the cycle state when it comes to the end of the segment.
Flipped(bit, i) == IF After(i) = 0 THEN ~ bit ELSE bit

-----------------------------------------------------------------------------
(* The controller.                                                         *)

InterruptDue == erdp # head /\ ~ ehb

\* An event is written to the ring, unless the ring is full.
PostEvent(x) ==
  /\ After(head) # erdp
  /\ segment' = [segment EXCEPT ![head] = x]
  /\ event_cycle' = [event_cycle EXCEPT ![head] = pcs]
  /\ head' = After(head)
  /\ pcs' = Flipped(pcs, head)
  /\ reported' = Append(reported, x)
  /\ UNCHANGED <<erdp, ehb, erdp_cycle, main, ehb_read, msgs, overtaken, handled>>

\* The controller interrupts, however late, and IntHandlerXHCI sends the message.
Interrupt ==
  /\ InterruptDue
  /\ ehb' = TRUE
  /\ msgs' = msgs + 1
  /\ overtaken' = (overtaken \/ main = "write")
  /\ UNCHANGED <<segment, event_cycle, controller, erdp, erdp_cycle, main, ehb_read,
                 eventHistory>>

-----------------------------------------------------------------------------
(* The kernel.                                                             *)

HasFront == event_cycle[erdp] = erdp_cycle
Front == segment[erdp]

\* The main loop takes a message and calls ProcessEvents.
TakeMessage ==
  /\ main = "wait" /\ msgs > 0
  /\ msgs' = msgs - 1
  /\ main' = "process"
  /\ UNCHANGED <<segment, event_cycle, controller, erdp, ehb, erdp_cycle, ehb_read, overtaken,
                 eventHistory>>

\* Faults: Pop keeps its cycle state at the end of the segment; SetPointer masks
\* EHB out of the value it writes.
HandleEventOnSameCycle ==
  /\ main = "process" /\ HasFront
  /\ handled' = Append(handled, Front)
  /\ ehb_read' = ehb
  /\ main' = "write"
  /\ UNCHANGED <<segment, event_cycle, controller, erdp, ehb, erdp_cycle, msgs, overtaken,
                 reported>>

HandleEventMaskingEHB ==
  /\ main = "process" /\ HasFront
  /\ handled' = Append(handled, Front)
  /\ erdp_cycle' = Flipped(erdp_cycle, erdp)
  /\ ehb_read' = FALSE
  /\ main' = "write"
  /\ UNCHANGED <<segment, event_cycle, controller, erdp, ehb, msgs, overtaken, reported>>

\* ProcessEvent handles the front event and starts to Pop it, up to the read of
\* ERDP in SetPointer.
HandleEvent ==
  /\ main = "process" /\ HasFront
  /\ handled' = Append(handled, Front)
  /\ erdp_cycle' = Flipped(erdp_cycle, erdp)
  /\ ehb_read' = ehb
  /\ main' = "write"
  /\ UNCHANGED <<segment, event_cycle, controller, erdp, ehb, msgs, overtaken, reported>>

\* Fault: EHB stays set.
WriteERDPKeepingEHB ==
  /\ main = "write"
  /\ erdp' = After(erdp)
  /\ ehb_read' = FALSE
  /\ main' = "process"
  /\ UNCHANGED <<segment, event_cycle, controller, ehb, erdp_cycle, msgs, overtaken,
                 eventHistory>>

\* The write of ERDP in SetPointer: writing a one to EHB clears it, writing back
\* a zero leaves it as it is.
WriteERDP ==
  /\ main = "write"
  /\ erdp' = After(erdp)
  /\ ehb' = (ehb /\ ~ ehb_read)
  /\ overtaken' = (overtaken /\ ~ ehb_read)
  /\ ehb_read' = FALSE
  /\ main' = "process"
  /\ UNCHANGED <<segment, event_cycle, controller, erdp_cycle, msgs, eventHistory>>

\* ProcessEvents returns when the ring is empty.
Return ==
  /\ main = "process" /\ ~ HasFront
  /\ main' = "wait"
  /\ UNCHANGED <<segment, event_cycle, controller, erdp, ehb, erdp_cycle, ehb_read, msgs,
                 overtaken, eventHistory>>

MainTask == TakeMessage \/ HandleEvent \/ WriteERDP \/ Return

InterrupterNext ==
  \/ \E x \in Events : PostEvent(x)
  \/ Interrupt
  \/ MainTask

InterrupterSpec == InterrupterInit /\ [][InterrupterNext]_interrupterVars

\* The main task is scheduled (TaskManager), and the controller interrupts.
FairInterrupterSpec ==
  InterrupterSpec /\ WF_interrupterVars(MainTask) /\ WF_interrupterVars(Interrupt)

-----------------------------------------------------------------------------
(* Properties.                                                             *)

InterrupterTypeOK ==
  /\ segment \in [SegmentSlots -> Events \cup {NoEvent}]
  /\ event_cycle \in [SegmentSlots -> BOOLEAN]
  /\ head \in SegmentSlots /\ erdp \in SegmentSlots
  /\ pcs \in BOOLEAN /\ ehb \in BOOLEAN /\ erdp_cycle \in BOOLEAN
  /\ main \in {"wait", "process", "write"} /\ ehb_read \in BOOLEAN
  /\ msgs \in Nat /\ overtaken \in BOOLEAN
  /\ reported \in Seq(Events) /\ handled \in Seq(Events)

\* Events are handled once each and in the order of their reports, on every lap.
EventQueue == INSTANCE TRBQueue WITH TRBs <- Events, sent <- reported, received <- handled
ImplementsEventQueue == EventQueue!Spec

\* EHB set while the main task waits and has no message: nobody will clear it any
\* more, and the controller never interrupts again.
LeftSet == ehb /\ main = "wait" /\ msgs = 0

\* EHB tells the controller that an interrupt is being handled: a message is on its
\* way or the main task is at work.  It is left set by one meeting only, an interrupt
\* between the read and the write of ERDP, and only until a later write clears it.
HandlerReallyBusy == LeftSet => overtaken

\* The registers of the interrupter and the message that the main task waits for agree.
InterrupterKept == InterrupterTypeOK /\ HandlerReallyBusy

\* The nth event reported is handled in the end, however late the interrupts come,
\* unless that meeting has left EHB set: no interrupt is lost in any other way.
NthEventHandled(n) ==
  Len(reported) >= n ~> Len(handled) >= n \/ (LeftSet /\ overtaken)

\* What the comment in SetPointer says (registers.hpp:371-373): EHB must be cleared
\* when ERDP is written, and writing its present value back does that.
WriteClearsEHB == [][main = "write" /\ main' # "write" => ~ ehb']_interrupterVars
=============================================================================
