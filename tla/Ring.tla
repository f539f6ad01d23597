-------------------------------- MODULE Ring --------------------------------
(***************************************************************************)
(* The command ring and the transfer rings (usb/xhci/ring.cpp, class       *)
(* Ring): the kernel pushes TRBs, the host controller fetches them.  The   *)
(* two sides share the memory of the ring and nothing else: a TRB belongs  *)
(* to the controller when its cycle bit equals the controller's cycle      *)
(* state.  The last slot holds a link TRB that leads back to the first.    *)
(*                                                                         *)
(* Push_ stores to that memory step by step, and the controller may look   *)
(* at the ring between any two steps.  The cycle bit is in the last of the *)
(* four words of a TRB, and it is clear in the TRB the caller passes: on   *)
(* the laps where the producer's cycle state is 0, copying the last word   *)
(* already hands the TRB over.                                             *)
(*                                                                         *)
(* Push_ never asks whether the ring is full (ring.cpp:47): the number of  *)
(* TRBs in flight is limited only by the callers, who wait for the         *)
(* completion of what they pushed.  MaxInFlight is that limit.  It must    *)
(* leave one data slot free: with all of them in flight, a controller that *)
(* rests on the link TRB would see its cycle bit rewritten a lap too early.*)
(***************************************************************************)
EXTENDS Naturals, Sequences

CONSTANTS
  Size,         \* ring_size_, the slots of the ring, link TRB included
  TRBs,         \* the TRBs the callers push
  Link, Zero,   \* the link TRB, and a slot that was only cleared
  Torn,         \* a slot of which only the first three words are new
  MaxInFlight   \* TRBs pushed and not yet fetched

ASSUME RingAssumption ==
  /\ Size \in Nat /\ Size >= 2
  /\ {Link, Zero, Torn} \cap TRBs = {} /\ Link # Zero /\ Link # Torn
  /\ MaxInFlight \in Nat /\ MaxInFlight < Size - 1

LinkSlot == Size - 1
Slots == 0 .. LinkSlot

VARIABLES
  trb,          \* the contents of each slot
  cycle,        \* the cycle bit of each slot
  enq,          \* enqueue_pointer_
  cycle_bit_,   \* the producer's cycle state
  pc,           \* how far Push_ has come
  deq,          \* the controller's dequeue pointer
  ccs,          \* the controller's cycle state
  sent,         \* history: the TRBs pushed
  received      \* history: the TRBs the controller fetched

memory == <<trb, cycle>>
vars == <<trb, cycle, enq, cycle_bit_, pc, deq, ccs, sent, received>>

\* Initialize, and the controller's state as Initializer and AddressDevice set it.
Init ==
  /\ trb = [i \in Slots |-> IF i = LinkSlot THEN Link ELSE Zero]
  /\ cycle = [i \in Slots |-> FALSE]
  /\ enq = 0 /\ cycle_bit_ = TRUE /\ pc = "idle"
  /\ deq = 0 /\ ccs = TRUE
  /\ sent = <<>> /\ received = <<>>

InFlight == Len(sent) - Len(received)

-----------------------------------------------------------------------------
(* Push_.                                                                  *)

\* Fault: the TRB is copied with its cycle bit already set.
StartCopyHandedOver(x) ==
  /\ pc = "idle"
  /\ InFlight < MaxInFlight
  /\ trb' = [trb EXCEPT ![enq] = Torn]
  /\ cycle' = [cycle EXCEPT ![enq] = cycle_bit_]
  /\ sent' = Append(sent, x)
  /\ pc' = "copying"
  /\ UNCHANGED <<enq, cycle_bit_, deq, ccs, received>>

\* Lines 50-52, the words that do not hold the cycle bit.
StartCopy(x) ==
  /\ pc = "idle"
  /\ InFlight < MaxInFlight
  /\ trb' = [trb EXCEPT ![enq] = Torn]
  /\ sent' = Append(sent, x)
  /\ pc' = "copying"
  /\ UNCHANGED <<cycle, enq, cycle_bit_, deq, ccs, received>>

\* Lines 50-52, the last word, with the cycle bit of the caller's TRB, which is 0.
CopyLastWord ==
  /\ pc = "copying"
  /\ trb' = [trb EXCEPT ![enq] = sent[Len(sent)]]
  /\ cycle' = [cycle EXCEPT ![enq] = FALSE]
  /\ pc' = "copied"
  /\ UNCHANGED <<enq, cycle_bit_, deq, ccs, sent, received>>

\* Line 53.
SetCycleBit ==
  /\ pc = "copied"
  /\ cycle' = [cycle EXCEPT ![enq] = cycle_bit_]
  /\ pc' = "published"
  /\ UNCHANGED <<trb, enq, cycle_bit_, deq, ccs, sent, received>>

\* Faults: the link TRB is not handed over; the cycle state is kept for the next lap.
AdvanceKeepingLink ==
  /\ pc = "published"
  /\ pc' = "idle"
  /\ \/ trb[enq + 1] # Link /\ enq' = enq + 1 /\ UNCHANGED cycle_bit_
     \/ trb[enq + 1] = Link /\ enq' = 0 /\ cycle_bit_' = ~ cycle_bit_
  /\ UNCHANGED <<trb, cycle, deq, ccs, sent, received>>

AdvanceOnSameCycle ==
  /\ pc = "published"
  /\ pc' = "idle"
  /\ \/ trb[enq + 1] # Link /\ enq' = enq + 1 /\ UNCHANGED cycle
     \/ /\ trb[enq + 1] = Link /\ enq' = 0
        /\ cycle' = [cycle EXCEPT ![enq + 1] = cycle_bit_]
  /\ UNCHANGED <<trb, cycle_bit_, deq, ccs, sent, received>>

\* Lines 60-71: the link TRB is handed over, and the next lap begins.
Advance ==
  /\ pc = "published"
  /\ pc' = "idle"
  /\ \/ /\ trb[enq + 1] # Link
        /\ enq' = enq + 1
        /\ UNCHANGED <<cycle, cycle_bit_>>
     \/ /\ trb[enq + 1] = Link
        /\ cycle' = [cycle EXCEPT ![enq + 1] = cycle_bit_]
        /\ enq' = 0
        /\ cycle_bit_' = ~ cycle_bit_
  /\ UNCHANGED <<trb, deq, ccs, sent, received>>

FinishPush == CopyLastWord \/ SetCycleBit \/ Advance

-----------------------------------------------------------------------------
(* The controller.                                                         *)

Owned == cycle[deq] = ccs

FetchTRB ==
  /\ Owned /\ trb[deq] # Link
  /\ received' = Append(received, trb[deq])
  /\ deq' = deq + 1
  /\ UNCHANGED <<trb, cycle, enq, cycle_bit_, pc, ccs, sent>>

FollowLink ==
  /\ Owned /\ trb[deq] = Link
  /\ deq' = 0
  /\ ccs' = ~ ccs
  /\ UNCHANGED <<trb, cycle, enq, cycle_bit_, pc, sent, received>>

Fetch == FetchTRB \/ FollowLink

Next ==
  \/ \E x \in TRBs : StartCopy(x)
  \/ FinishPush
  \/ Fetch

Spec == Init /\ [][Next]_vars

\* Push_ runs to its end, and a controller whose doorbell was rung fetches.
FairSpec == Spec /\ WF_vars(FinishPush) /\ WF_vars(Fetch)

-----------------------------------------------------------------------------
(* Properties.                                                             *)

TypeOK ==
  /\ trb \in [Slots -> TRBs \cup {Link, Zero, Torn}]
  /\ cycle \in [Slots -> BOOLEAN]
  /\ enq \in 0 .. Size - 2
  /\ cycle_bit_ \in BOOLEAN
  /\ pc \in {"idle", "copying", "copied", "published"}
  /\ deq \in Slots
  /\ ccs \in BOOLEAN
  /\ sent \in Seq(TRBs) /\ received \in Seq(TRBs)

\* The comment in Push_ (ring.cpp:46): "the place enqueue_pointer_ points to is
\* guaranteed not to be a link TRB", so that a push never destroys the link.
LinkIntact == trb[enq] # Link /\ trb[LinkSlot] = Link

\* Outside Push_, a controller that owns nothing has fetched everything: no TRB
\* stays behind for want of a cycle bit, neither its own nor the link's.
NothingStuck == pc = "idle" /\ ~ Owned => Len(received) = Len(sent)

\* The ring is a queue: no TRB is lost, duplicated, reordered, or fetched before
\* it is complete, on any lap.
Queue == INSTANCE TRBQueue
ImplementsQueue == Queue!Spec

\* Every TRB pushed is fetched.
EverythingFetched == Len(sent) > Len(received) ~> Len(received) = Len(sent)
=============================================================================
