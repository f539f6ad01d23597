----------------------------- MODULE RingProofs -----------------------------
(***************************************************************************)
(* Ring and EventRing implement TRBQueue, for rings of any size.           *)
(*                                                                         *)
(* First Ring.                                                             *)
(*                                                                         *)
(* The inductive invariant says what a slot holds by its place relative to *)
(* enq, whatever the lap: behind enq it carries the producer's cycle state *)
(* and the items of this lap, ahead of enq the other cycle state and,      *)
(* while the controller is still on the previous lap, the items of that    *)
(* lap.  The number in flight ties deq to enq.                             *)
(***************************************************************************)
EXTENDS Ring, EventRing, Integers, TLAPS

\* The pushes that have been completed, and the slot behind the last one begun.
Done == IF pc = "idle" THEN Len(sent) ELSE Len(sent) - 1
LastSlot == IF pc = "idle" THEN enq ELSE enq + 1

\* The controller is on the producer's lap.
SameLap == ccs = cycle_bit_

CycleInv ==
  /\ \A i \in Slots : i < enq => cycle[i] = cycle_bit_
  /\ \A i \in Slots : i > enq => cycle[i] = ~ cycle_bit_
  /\ pc \in {"idle", "copying"} => cycle[enq] = ~ cycle_bit_
  /\ pc = "copied" => cycle[enq] = FALSE
  /\ pc = "published" => cycle[enq] = cycle_bit_

ThisLapInv ==
  /\ enq <= Done
  /\ \A i \in Slots : i < enq => trb[i] = sent[Done - enq + i + 1]
  /\ pc # "idle" => Len(sent) >= 1
  /\ pc \in {"copied", "published"} => trb[enq] = sent[Len(sent)]

LastLapInv ==
  ~ SameLap =>
    /\ enq + LinkSlot <= Done
    /\ \A i \in Slots :
         /\ LastSlot <= i
         /\ i < LinkSlot
         => trb[i] = sent[Done - enq - LinkSlot + i + 1]

InFlightInv ==
  /\ InFlight <= MaxInFlight
  /\ SameLap => deq <= LastSlot /\ InFlight = LastSlot - deq
  /\ ~ SameLap => InFlight = LinkSlot - deq + LastSlot

LinkInv == trb[LinkSlot] = Link /\ \A i \in Slots : i # LinkSlot => trb[i] # Link

IInv ==
  TypeOK /\ CycleInv /\ ThisLapInv /\ LastLapInv /\ InFlightInv /\ LinkInv

-----------------------------------------------------------------------------
(* The counters of the two sides, without the data types behind them.      *)
LEMMA Counters ==
  ASSUME TypeOK
  PROVE  /\ LinkSlot \in Nat /\ LinkSlot >= 1 /\ MaxInFlight < LinkSlot
         /\ MaxInFlight \in Nat
         /\ enq \in Nat /\ enq < LinkSlot
         /\ deq \in Nat /\ deq <= LinkSlot
         /\ Len(sent) \in Nat /\ Len(received) \in Nat
         /\ \/ pc = "idle" /\ LastSlot = enq /\ Done = Len(sent)
            \/ pc # "idle" /\ LastSlot = enq + 1 /\ Done = Len(sent) - 1
         /\ InFlight = Len(sent) - Len(received)
         /\ InFlight \in Int /\ LastSlot \in Nat /\ Done \in Int
<1>1. Len(sent) \in Nat /\ Len(received) \in Nat
  BY DEF TypeOK
<1>2. enq \in 0 .. Size - 2 /\ deq \in 0 .. Size - 1
  BY DEF TypeOK, Slots, LinkSlot
<1> QED  BY <1>1, <1>2, RingAssumption DEF LinkSlot, LastSlot, Done, InFlight

LEMMA InitIInv == Init => IInv
  BY RingAssumption DEF Init, IInv, TypeOK, CycleInv, ThisLapInv, LastLapInv,
     InFlightInv, LinkInv, SameLap, Done, LastSlot, InFlight, Slots, LinkSlot

LEMMA StartCopyStep ==
  ASSUME IInv, NEW x \in TRBs, StartCopy(x)
  PROVE  IInv'
<1>1. TypeOK'
  BY RingAssumption DEF IInv, TypeOK, StartCopy, Slots, LinkSlot
<1>2. CycleInv'
  BY RingAssumption DEF IInv, TypeOK, CycleInv, StartCopy, Slots, LinkSlot
<1>3. /\ Len(sent') = Len(sent) + 1 /\ Done' = Done /\ LastSlot' = LastSlot + 1
      /\ (SameLap' <=> SameLap) /\ InFlight' = InFlight + 1
      /\ \A k \in 1 .. Len(sent) : sent'[k] = sent[k]
  BY DEF IInv, TypeOK, StartCopy, Done, LastSlot, SameLap, InFlight
<1>4. ThisLapInv'
  BY <1>3, RingAssumption
     DEF IInv, TypeOK, ThisLapInv, StartCopy, Done, Slots, LinkSlot
<1>5. LastLapInv'
  BY <1>3, RingAssumption
     DEF IInv, TypeOK, ThisLapInv, LastLapInv, StartCopy, Done, LastSlot, Slots, LinkSlot
<1>6. InFlightInv'
  <2>1. deq' = deq /\ InFlight < MaxInFlight
    BY DEF StartCopy
  <2>2. /\ InFlight \in Int /\ LastSlot \in Int /\ deq \in Int /\ LinkSlot \in Int
        /\ MaxInFlight \in Int
    BY Counters DEF IInv
  <2>3. /\ SameLap => deq <= LastSlot /\ InFlight = LastSlot - deq
        /\ ~ SameLap => InFlight = LinkSlot - deq + LastSlot
    BY DEF IInv, InFlightInv
  <2> QED  BY <1>3, <2>1, <2>2, <2>3 DEF InFlightInv, LinkSlot
<1>7. LinkInv'
  BY RingAssumption DEF IInv, TypeOK, LinkInv, StartCopy, Slots, LinkSlot
<1> QED  BY <1>1, <1>2, <1>4, <1>5, <1>6, <1>7 DEF IInv

LEMMA CopyLastWordStep ==
  ASSUME IInv, CopyLastWord
  PROVE  IInv'
<1>0. sent[Len(sent)] \in TRBs
  BY DEF IInv, TypeOK, ThisLapInv, CopyLastWord
<1>1. TypeOK'
  BY <1>0, RingAssumption DEF IInv, TypeOK, CopyLastWord, Slots, LinkSlot
<1>2. CycleInv'
  <2>1. /\ enq' = enq /\ cycle_bit_' = cycle_bit_ /\ pc' = "copied"
        /\ cycle'[enq] = FALSE
        /\ \A i \in Slots : i # enq => cycle'[i] = cycle[i]
    BY RingAssumption DEF IInv, TypeOK, CopyLastWord, Slots, LinkSlot
  <2> QED  BY <2>1, Counters DEF IInv, CycleInv, Slots
<1>3. /\ Done' = Done /\ LastSlot' = LastSlot /\ (SameLap' <=> SameLap) /\ InFlight' = InFlight
  BY DEF CopyLastWord, Done, LastSlot, SameLap, InFlight
<1>4. ThisLapInv'
  BY <1>3, RingAssumption
     DEF IInv, TypeOK, ThisLapInv, CopyLastWord, Slots, LinkSlot
<1>5. LastLapInv'
  BY <1>3, RingAssumption
     DEF IInv, TypeOK, LastLapInv, CopyLastWord, LastSlot, Slots, LinkSlot
<1>6. InFlightInv'
  BY <1>3 DEF IInv, InFlightInv, CopyLastWord
<1>7. LinkInv'
  BY <1>0, RingAssumption DEF IInv, TypeOK, LinkInv, CopyLastWord, Slots, LinkSlot
<1> QED  BY <1>1, <1>2, <1>4, <1>5, <1>6, <1>7 DEF IInv

LEMMA SetCycleBitStep ==
  ASSUME IInv, SetCycleBit
  PROVE  IInv'
<1>1. TypeOK'
  BY RingAssumption DEF IInv, TypeOK, SetCycleBit, Slots, LinkSlot
<1>2. CycleInv'
  BY RingAssumption DEF IInv, TypeOK, CycleInv, SetCycleBit, Slots, LinkSlot
<1>3. /\ Done' = Done /\ LastSlot' = LastSlot /\ (SameLap' <=> SameLap) /\ InFlight' = InFlight
  BY DEF SetCycleBit, Done, LastSlot, SameLap, InFlight
<1>4. ThisLapInv' /\ LastLapInv' /\ InFlightInv' /\ LinkInv'
  BY <1>3 DEF IInv, ThisLapInv, LastLapInv, InFlightInv, LinkInv, SetCycleBit
<1> QED  BY <1>1, <1>2, <1>4 DEF IInv

\* The controller cannot be on the previous lap when the producer begins a new
\* one: a data slot would have to be in flight twice.
LEMMA OneLapAhead ==
  ASSUME IInv, pc = "published", enq + 1 = LinkSlot
  PROVE  SameLap
  BY RingAssumption DEF IInv, TypeOK, InFlightInv, LastSlot, InFlight, Slots, LinkSlot

LEMMA AdvanceStep ==
  ASSUME IInv, Advance
  PROVE  IInv'
<1>1. CASE enq + 1 # LinkSlot
  <2>1. /\ enq' = enq + 1 /\ enq' < LinkSlot
        /\ UNCHANGED <<trb, cycle, cycle_bit_, deq, ccs, sent, received>>
        /\ pc = "published" /\ pc' = "idle"
    BY <1>1, RingAssumption DEF IInv, TypeOK, LinkInv, Advance, Slots, LinkSlot
  <2>2. TypeOK'
    BY <2>1, RingAssumption DEF IInv, TypeOK, Slots, LinkSlot
  <2>3. CycleInv'
    BY <2>1, RingAssumption DEF IInv, TypeOK, CycleInv, Slots, LinkSlot
  <2>4. /\ Done' = Done + 1 /\ LastSlot' = LastSlot /\ (SameLap' <=> SameLap)
        /\ InFlight' = InFlight
    BY <2>1 DEF IInv, TypeOK, Done, LastSlot, SameLap, InFlight
  <2>5. ThisLapInv'
    BY <2>1, <2>4, RingAssumption
       DEF IInv, TypeOK, ThisLapInv, Done, Slots, LinkSlot
  <2>6. LastLapInv'
    BY <2>1, <2>4, RingAssumption
       DEF IInv, TypeOK, ThisLapInv, LastLapInv, Done, LastSlot, Slots, LinkSlot
  <2>7. InFlightInv' /\ LinkInv'
    BY <2>1, <2>4 DEF IInv, InFlightInv, LinkInv
  <2> QED  BY <2>2, <2>3, <2>5, <2>6, <2>7 DEF IInv
<1>2. CASE enq + 1 = LinkSlot
  <2>1. /\ enq' = 0 /\ cycle_bit_' = ~ cycle_bit_
        /\ cycle' = [cycle EXCEPT ![LinkSlot] = cycle_bit_]
        /\ UNCHANGED <<trb, deq, ccs, sent, received>>
        /\ pc = "published" /\ pc' = "idle"
    BY <1>2, RingAssumption DEF IInv, TypeOK, LinkInv, Advance, Slots, LinkSlot
  <2>2. SameLap /\ ~ SameLap'
    BY <1>2, <2>1, OneLapAhead DEF IInv, TypeOK, SameLap
  <2>3. TypeOK'
    BY <2>1, RingAssumption DEF IInv, TypeOK, Slots, LinkSlot
  <2>4. CycleInv'
    BY <1>2, <2>1, RingAssumption DEF IInv, TypeOK, CycleInv, Slots, LinkSlot
  <2>5. /\ Done' = Done + 1 /\ LastSlot' = 0 /\ LastSlot = LinkSlot
        /\ Done = Len(sent) - 1 /\ InFlight' = InFlight
    BY <1>2, <2>1 DEF IInv, TypeOK, Done, LastSlot, InFlight
  <2>6. ThisLapInv'
    BY <1>2, <2>1, <2>5, RingAssumption
       DEF IInv, TypeOK, ThisLapInv, Slots, LinkSlot
  <2>7. LastLapInv'
    <3>1. \A i \in Slots : i < LinkSlot => i < enq \/ i = enq
      BY <1>2, Counters DEF IInv, Slots
    <3>2. \A i \in Slots : i < enq => trb[i] = sent[Done - enq + i + 1]
      BY DEF IInv, ThisLapInv
    <3>3. trb[enq] = sent[Done - enq + enq + 1]
      BY <2>1, <2>5, Counters DEF IInv, ThisLapInv
    <3>4. enq <= Done
      BY DEF IInv, ThisLapInv
    <3>5. /\ enq \in Int /\ LinkSlot \in Int /\ Done \in Int /\ Done' = Done + 1
          /\ enq = LinkSlot - 1 /\ Slots \subseteq Int
      BY <1>2, <2>5, Counters DEF IInv, Slots, LinkSlot
    <3>6. \A i \in Slots : i < LinkSlot => trb[i] = sent[Done' - 0 - LinkSlot + i + 1]
      BY <3>1, <3>2, <3>3, <3>5
    <3>7. 0 + LinkSlot <= Done'
      BY <3>4, <3>5
    <3> QED  BY <2>1, <3>6, <3>7 DEF LastLapInv, Slots, LinkSlot
  <2>8. InFlightInv'
    BY <2>1, <2>2, <2>5, RingAssumption
       DEF IInv, TypeOK, InFlightInv, Slots, LinkSlot
  <2>9. LinkInv'
    BY <2>1 DEF IInv, LinkInv
  <2> QED  BY <2>3, <2>4, <2>6, <2>7, <2>8, <2>9 DEF IInv
<1> QED  BY <1>1, <1>2

\* A TRB the controller owns is the oldest one it has not yet received.
LEMMA FetchesTheOldest ==
  ASSUME IInv, Owned, trb[deq] # Link
  PROVE  /\ deq < LinkSlot
         /\ Len(received) < Len(sent)
         /\ trb[deq] = sent[Len(received) + 1]
         /\ SameLap => deq < LastSlot
<1> USE RingAssumption
<1>1. deq \in Slots /\ deq < LinkSlot
  BY DEF IInv, TypeOK, LinkInv, Slots, LinkSlot
<1>2. CASE SameLap /\ deq < enq
  <2>1. trb[deq] = sent[Done - enq + deq + 1]
    BY <1>1, <1>2 DEF IInv, ThisLapInv
  <2>2. Done - enq + deq = Len(received) /\ deq < LastSlot /\ Len(received) < Len(sent)
    <3>1. TypeOK /\ InFlight = LastSlot - deq
      BY <1>2 DEF IInv, InFlightInv
    <3>2. /\ Len(sent) \in Nat /\ Len(received) \in Nat
          /\ InFlight = Len(sent) - Len(received)
          /\ enq \in Nat /\ LastSlot \in Nat /\ Done \in Int /\ deq \in Nat /\ enq <= LastSlot
      BY <3>1, Counters
    <3>3. Done - enq = Len(sent) - LastSlot
      BY <3>2 DEF Done, LastSlot
    <3> QED  BY <1>2, <3>1, <3>2, <3>3
  <2>3. trb[deq] = sent[Len(received) + 1]
    BY <2>1, <2>2
  <2> QED  BY <1>1, <2>2, <2>3
<1>3. CASE SameLap /\ ~ (deq < enq)
  <2>1. deq = enq /\ pc \in {"copied", "published"}
    BY <1>1, <1>3
       DEF IInv, TypeOK, CycleInv, SameLap, Owned, Slots, LinkSlot
  <2>2. Len(received) + 1 = Len(sent) /\ deq < LastSlot
    BY <1>1, <1>3, <2>1 DEF IInv, TypeOK, InFlightInv, InFlight, LastSlot, Slots, LinkSlot
  <2> QED  BY <1>1, <2>1, <2>2 DEF IInv, TypeOK, ThisLapInv
<1>4. CASE ~ SameLap
  <2>1. LastSlot < deq
    BY <1>1, <1>4 DEF IInv, TypeOK, InFlightInv, InFlight, LastSlot, Slots, LinkSlot
  <2>2. trb[deq] = sent[Done - enq - LinkSlot + deq + 1]
    BY <1>1, <1>4, <2>1 DEF IInv, TypeOK, LastLapInv, LastSlot, Slots, LinkSlot
  <2>3. Done - enq - LinkSlot + deq = Len(received) /\ Len(received) < Len(sent)
    <3>1. InFlight = LinkSlot - deq + LastSlot
      BY <1>4 DEF IInv, InFlightInv
    <3>2. /\ Done - enq = Len(sent) - LastSlot /\ Done \in Int /\ enq \in Int
          /\ InFlight = Len(sent) - Len(received)
          /\ Len(sent) \in Int /\ Len(received) \in Int /\ LastSlot \in Nat
          /\ LinkSlot \in Int /\ deq \in Int
      BY Counters, SMTT(30) DEF IInv
    <3> QED  BY <1>1, <3>1, <3>2
  <2> QED  BY <1>1, <1>4, <2>2, <2>3
<1> QED  BY <1>2, <1>3, <1>4

LEMMA FetchTRBStep ==
  ASSUME IInv, FetchTRB
  PROVE  IInv'
<1>1. /\ deq < LinkSlot /\ Len(received) < Len(sent)
      /\ trb[deq] = sent[Len(received) + 1] /\ (SameLap => deq < LastSlot)
  BY FetchesTheOldest DEF FetchTRB
<1>2. received' = Append(received, trb[deq]) /\ trb[deq] \in TRBs
  BY <1>1 DEF IInv, TypeOK, FetchTRB
<1>3. TypeOK'
  BY <1>1, <1>2, RingAssumption DEF IInv, TypeOK, FetchTRB, Slots, LinkSlot
<1>4. /\ Done' = Done /\ LastSlot' = LastSlot /\ (SameLap' <=> SameLap)
      /\ InFlight' = InFlight - 1 /\ deq' = deq + 1
  BY <1>2 DEF IInv, TypeOK, FetchTRB, Done, LastSlot, SameLap, InFlight
<1>5. CycleInv' /\ ThisLapInv' /\ LastLapInv' /\ LinkInv'
  BY <1>4 DEF IInv, CycleInv, ThisLapInv, LastLapInv, LinkInv, FetchTRB
<1>6. InFlightInv'
  <2>1. /\ InFlight \in Int /\ LastSlot \in Int /\ deq \in Int /\ LinkSlot \in Int
        /\ MaxInFlight \in Int
    BY Counters DEF IInv
  <2>2. /\ InFlight <= MaxInFlight
        /\ SameLap => deq <= LastSlot /\ InFlight = LastSlot - deq
        /\ ~ SameLap => InFlight = LinkSlot - deq + LastSlot
    BY DEF IInv, InFlightInv
  <2> QED  BY <1>1, <1>4, <2>1, <2>2, SMTT(30) DEF InFlightInv, LinkSlot
<1> QED  BY <1>3, <1>5, <1>6 DEF IInv

LEMMA FollowLinkStep ==
  ASSUME IInv, FollowLink
  PROVE  IInv'
<1>1. deq = LinkSlot
  BY DEF IInv, TypeOK, LinkInv, FollowLink
<1>2. ~ SameLap
  BY <1>1, RingAssumption
     DEF IInv, TypeOK, CycleInv, SameLap, FollowLink, Owned, Slots, LinkSlot
<1>3. SameLap'
  BY <1>2 DEF IInv, TypeOK, FollowLink, SameLap
<1>4. Done' = Done /\ LastSlot' = LastSlot /\ InFlight' = InFlight /\ deq' = 0
  BY DEF FollowLink, Done, LastSlot, InFlight
<1>5. TypeOK'
  BY RingAssumption DEF IInv, TypeOK, FollowLink, Slots, LinkSlot
<1>6. CycleInv' /\ ThisLapInv' /\ LastLapInv' /\ LinkInv'
  BY <1>3, <1>4 DEF IInv, CycleInv, ThisLapInv, LastLapInv, LinkInv, FollowLink
<1>7. InFlightInv'
  BY <1>1, <1>2, <1>3, <1>4, RingAssumption
     DEF IInv, TypeOK, InFlightInv, FollowLink, InFlight, LastSlot, Slots, LinkSlot
<1> QED  BY <1>5, <1>6, <1>7 DEF IInv

LEMMA NextStep == IInv /\ [Next]_vars => IInv'
<1> SUFFICES ASSUME IInv, [Next]_vars PROVE IInv'
  OBVIOUS
<1>1. CASE \E x \in TRBs : StartCopy(x)
  BY <1>1, StartCopyStep
<1>2. CASE FinishPush
  BY <1>2, CopyLastWordStep, SetCycleBitStep, AdvanceStep DEF FinishPush
<1>3. CASE Fetch
  BY <1>3, FetchTRBStep, FollowLinkStep DEF Fetch
<1>4. CASE UNCHANGED vars
  BY <1>4 DEF vars, IInv, TypeOK, CycleInv, ThisLapInv, LastLapInv, InFlightInv,
     LinkInv, SameLap, Done, LastSlot, InFlight
<1> QED  BY <1>1, <1>2, <1>3, <1>4 DEF Next

LEMMA Invariance == Spec => []IInv
  BY InitIInv, NextStep, PTL DEF Spec

-----------------------------------------------------------------------------
\* The variables of a ring of any size keep their types; in particular the
\* enqueue pointer never leaves the data slots.
THEOREM TypeCorrectness == Spec => []TypeOK
<1>1. IInv => TypeOK
  BY DEF IInv
<1> QED  BY <1>1, Invariance, PTL

\* Push_ never overwrites the link TRB, as its comment claims (ring.cpp:46).
THEOREM LinkIsIntact == Spec => []LinkIntact
<1>1. IInv => LinkIntact
  BY RingAssumption DEF IInv, TypeOK, LinkInv, LinkIntact, Slots, LinkSlot
<1> QED  BY <1>1, Invariance, PTL

\* No TRB stays behind for want of a cycle bit, on any lap.
THEOREM NothingIsStuck == Spec => []NothingStuck
<1>1. ASSUME IInv, pc = "idle", ~ Owned PROVE Len(received) = Len(sent)
  <2>1. SameLap /\ deq = enq
    <3>1. /\ enq \in Nat /\ deq \in Slots /\ deq \in Nat /\ deq <= LinkSlot
          /\ LastSlot = enq /\ enq < LinkSlot
      BY <1>1, Counters DEF IInv, TypeOK, LastSlot
    <3>2. cycle[deq] # ccs
      BY <1>1 DEF Owned
    <3>3. cycle_bit_ \in BOOLEAN /\ ccs \in BOOLEAN /\ TypeOK /\ CycleInv /\ InFlightInv
      BY <1>1 DEF IInv, TypeOK
    <3>4. CASE SameLap
      <4>1. ~ (deq < enq)
        BY <3>1, <3>2, <3>3, <3>4 DEF CycleInv, SameLap
      <4>2. deq <= enq
        BY <3>1, <3>3, <3>4 DEF InFlightInv
      <4> QED  BY <3>1, <3>4, <4>1, <4>2
    <3>5. CASE ~ SameLap
      <4>1. cycle[deq] = cycle_bit_
        <5>1. cycle[deq] \in BOOLEAN
          BY <1>1, <3>1 DEF IInv, TypeOK
        <5> QED  BY <3>2, <3>3, <3>5, <5>1 DEF SameLap
      <4>2. deq < enq
        BY <1>1, <3>1, <3>3, <4>1 DEF CycleInv
      <4>3. InFlight = LinkSlot - deq + enq /\ InFlight < LinkSlot
        BY <3>1, <3>3, <3>5, Counters DEF InFlightInv
      <4>4. LinkSlot \in Nat
        BY <3>3, Counters
      <4> QED  BY <3>1, <4>2, <4>3, <4>4
    <3> QED  BY <3>4, <3>5
  <2> QED  BY <1>1, <2>1 DEF IInv, TypeOK, InFlightInv, InFlight, LastSlot
<1>2. IInv => NothingStuck
  BY <1>1 DEF NothingStuck
<1> QED  BY <1>2, Invariance, PTL

\* A ring of any size is a first-in first-out queue as long as the callers leave
\* one data slot free.
THEOREM RingIsQueue == Spec => ImplementsQueue
<1>1. Init => Queue!Init
  BY DEF Init, Queue!Init
<1>2. IInv /\ [Next]_vars => [Queue!Next]_<<sent, received>>
  <2> SUFFICES ASSUME IInv, [Next]_vars PROVE [Queue!Next]_<<sent, received>>
    OBVIOUS
  <2>1. ASSUME NEW x \in TRBs, StartCopy(x) PROVE Queue!Send
    BY <2>1 DEF StartCopy, Queue!Send
  <2>2. CASE FinishPush
    BY <2>2 DEF FinishPush, CopyLastWord, SetCycleBit, Advance
  <2>3. ASSUME FetchTRB PROVE Queue!Receive
    BY <2>3, FetchesTheOldest DEF FetchTRB, Queue!Receive
  <2>4. CASE FollowLink
    BY <2>4 DEF FollowLink
  <2>5. CASE UNCHANGED vars
    BY <2>5 DEF vars
  <2> QED  BY <2>1, <2>2, <2>3, <2>4, <2>5 DEF Next, Fetch, Queue!Next
<1> QED  BY <1>1, <1>2, Invariance, PTL DEF Spec, ImplementsQueue, Queue!Spec

-----------------------------------------------------------------------------
(***************************************************************************)
(* Now EventRing: it implements TRBQueue, and EHB stays set without its    *)
(* handler at work only after an interrupt between the read and the write  *)
(* of ERDP, for a segment of any size.                                     *)
(*                                                                         *)
(* The kernel handles an event and flips its cycle state before it moves   *)
(* ERDP; between the two it is already past the slot (Consumer).  Seen     *)
(* from there the ring is an ordinary one: behind enq the slots carry the  *)
(* controller's cycle state and the events of its lap, from enq on the     *)
(* other cycle state and, while the kernel is on the previous lap, the     *)
(* events of that lap.  FlightInv ties the kernel's slot to enq; it needs  *)
(* BusyInv, that the controller never comes round to the slot ERDP still   *)
(* names.                                                                  *)
(***************************************************************************)

\* The slot of the next event the kernel handles, and whether it is on the
\* controller's lap.
Consumer == IF main = "write" THEN After(erdp) ELSE erdp
OneLap == erdp_cycle = pcs
Unhandled == Len(reported) - Len(handled)

\* The events reported before the controller began this lap.
LapStart == Len(reported) - head

EventCycleInv ==
  \A i \in SegmentSlots : IF i < head THEN event_cycle[i] = pcs ELSE event_cycle[i] = ~ pcs

ThisEventLapInv ==
  /\ LapStart >= 0
  /\ \A i \in SegmentSlots : i < head => segment[i] = reported[LapStart + i + 1]

LastEventLapInv ==
  ~ OneLap =>
    /\ LapStart >= SegmentSize
    /\ \A i \in SegmentSlots : head <= i
       => segment[i] = reported[LapStart - SegmentSize + i + 1]

FlightInv ==
  IF OneLap THEN Consumer <= head /\ Unhandled = head - Consumer
             ELSE head < Consumer /\ Unhandled = SegmentSize - Consumer + head

BusyInv == main = "write" => erdp # head

\* While EHB is set and was not overtaken, an event the interrupt announced is still
\* unhandled, the message is on its way or the main task is at work, and a write of
\* ERDP under way will clear EHB.
ClearedInv ==
  ehb /\ ~ overtaken =>
    /\ erdp # head
    /\ main = "wait" => msgs > 0
    /\ main = "write" => ehb_read

InterrupterInv ==
  /\ InterrupterTypeOK /\ EventCycleInv /\ ThisEventLapInv /\ LastEventLapInv
  /\ FlightInv /\ BusyInv /\ ClearedInv

-----------------------------------------------------------------------------
\* Slots are counted round the segment without the remainder.
LEMMA AfterSlot ==
  ASSUME NEW i \in SegmentSlots
  PROVE  /\ After(i) \in SegmentSlots
         /\ After(i) = IF i = SegmentSize - 1 THEN 0 ELSE i + 1
  BY EventRingAssumption DEF After, SegmentSlots

\* The counters of the two sides, without the data types behind them.
LEMMA EventCounters ==
  ASSUME InterrupterTypeOK
  PROVE  /\ SegmentSize \in Nat /\ SegmentSize >= 2
         /\ head \in Nat /\ head < SegmentSize /\ head \in SegmentSlots
         /\ erdp \in Nat /\ erdp < SegmentSize /\ erdp \in SegmentSlots
         /\ Consumer \in Nat /\ Consumer < SegmentSize
         /\ Len(reported) \in Nat /\ Len(handled) \in Nat
         /\ Unhandled \in Int /\ Unhandled = Len(reported) - Len(handled)
         /\ LapStart \in Int /\ LapStart = Len(reported) - head
<1>1. Len(reported) \in Nat /\ Len(handled) \in Nat
  BY DEF InterrupterTypeOK
<1>2. head \in SegmentSlots /\ erdp \in SegmentSlots
  BY EventRingAssumption DEF InterrupterTypeOK
<1> QED  BY <1>1, <1>2, AfterSlot, EventRingAssumption DEF Consumer, Unhandled, LapStart,
    SegmentSlots

\* The cycle states of both sides stay Booleans.
LEMMA FlippedType ==
  ASSUME NEW bit \in BOOLEAN, NEW i \in SegmentSlots
  PROVE  Flipped(bit, i) \in BOOLEAN
  BY DEF Flipped

LEMMA InitInterrupterInv == InterrupterInit => InterrupterInv
<1> SUFFICES ASSUME InterrupterInit PROVE InterrupterInv
  OBVIOUS
<1>1. InterrupterTypeOK
  <2>1. 0 \in SegmentSlots
    BY EventRingAssumption DEF SegmentSlots
  <2>2. segment \in [SegmentSlots -> Events \cup {NoEvent}]
        /\ event_cycle \in [SegmentSlots -> BOOLEAN]
    BY DEF InterrupterInit
  <2>3. reported \in Seq(Events) /\ handled \in Seq(Events)
    BY DEF InterrupterInit
  <2> QED  BY <2>1, <2>2, <2>3 DEF InterrupterInit, InterrupterTypeOK
<1>2. OneLap /\ Consumer = 0 /\ Unhandled = 0 /\ LapStart = 0
  BY DEF InterrupterInit, OneLap, Consumer, Unhandled, LapStart
<1>3. EventCycleInv
  <2>1. \A i \in SegmentSlots : event_cycle[i] = FALSE /\ ~ (i < head)
    BY EventRingAssumption DEF InterrupterInit, SegmentSlots
  <2>2. (~ pcs) = FALSE
    BY DEF InterrupterInit
  <2> QED  BY <2>1, <2>2 DEF EventCycleInv
<1>4. ThisEventLapInv /\ LastEventLapInv /\ FlightInv
  BY <1>2, EventRingAssumption DEF InterrupterInit, ThisEventLapInv, LastEventLapInv, FlightInv,
    SegmentSlots
<1>5. BusyInv /\ ClearedInv
  BY DEF InterrupterInit, BusyInv, ClearedInv
<1> QED  BY <1>1, <1>3, <1>4, <1>5 DEF InterrupterInv

\* A slot the controller may write is free: no event in flight is overwritten.
LEMMA SlotIsFree ==
  ASSUME InterrupterInv, After(head) # erdp
  PROVE  Unhandled < SegmentSize - 1 /\ After(head) # Consumer
<1>1. CASE main = "write"
  <2>1. /\ Consumer = IF erdp = SegmentSize - 1 THEN 0 ELSE erdp + 1
        /\ After(head) = IF head = SegmentSize - 1 THEN 0 ELSE head + 1
        /\ erdp # head
    BY <1>1, EventCounters, AfterSlot DEF InterrupterInv, BusyInv, Consumer
  <2>2. IF OneLap THEN Consumer <= head /\ Unhandled = head - Consumer
                   ELSE head < Consumer /\ Unhandled = SegmentSize - Consumer + head
    BY DEF InterrupterInv, FlightInv
  <2>3. /\ head \in Nat /\ head < SegmentSize /\ erdp \in Nat /\ erdp < SegmentSize
        /\ SegmentSize \in Nat /\ Unhandled \in Int
    BY EventCounters DEF InterrupterInv
  <2>4. CASE erdp = SegmentSize - 1
    BY <2>1, <2>2, <2>3, <2>4
  <2>5. CASE erdp # SegmentSize - 1
    BY <2>1, <2>2, <2>3, <2>5
  <2> QED  BY <2>4, <2>5
<1>2. CASE main # "write"
  <2>1. Consumer = erdp /\ InterrupterTypeOK
    BY <1>2 DEF InterrupterInv, Consumer
  <2>2. CASE OneLap
    BY <2>1, <2>2, EventCounters, AfterSlot DEF InterrupterInv, FlightInv
  <2>3. CASE ~ OneLap
    BY <2>1, <2>3, EventCounters, AfterSlot DEF InterrupterInv, FlightInv
  <2> QED  BY <2>2, <2>3
<1> QED  BY <1>1, <1>2

LEMMA PostEventStep ==
  ASSUME InterrupterInv, NEW x \in Events, PostEvent(x)
  PROVE  InterrupterInv'
<1>1. /\ UNCHANGED <<erdp, ehb, erdp_cycle, main, ehb_read, msgs, overtaken, handled>>
      /\ segment' = [segment EXCEPT ![head] = x]
         /\ event_cycle' = [event_cycle EXCEPT ![head] = pcs]
      /\ head' = After(head) /\ pcs' = Flipped(pcs, head) /\ reported' = Append(reported, x)
      /\ After(head) # erdp
  BY DEF PostEvent
<1>2. InterrupterTypeOK /\ InterrupterTypeOK'
  <2>1. head \in SegmentSlots /\ pcs \in BOOLEAN
    BY DEF InterrupterInv, InterrupterTypeOK
  <2>2. head' \in SegmentSlots /\ pcs' \in BOOLEAN
    BY <1>1, <2>1, AfterSlot, FlippedType
  <2> QED  BY <1>1, <2>2 DEF InterrupterInv, InterrupterTypeOK
<1>3. /\ Len(reported') = Len(reported) + 1 /\ reported'[Len(reported) + 1] = x
      /\ \A k \in 1 .. Len(reported) : reported'[k] = reported[k]
  BY <1>1, <1>2 DEF InterrupterTypeOK
<1>4. Consumer' = Consumer /\ Unhandled' = Unhandled + 1
  BY <1>1, <1>2, <1>3, EventCounters DEF Consumer, Unhandled, After
<1>5. /\ segment'[head] = x /\ event_cycle'[head] = pcs
      /\ \A i \in SegmentSlots : i # head => segment'[i] = segment[i]
         /\ event_cycle'[i] = event_cycle[i]
  BY <1>1, <1>2 DEF InterrupterTypeOK
<1>6. Unhandled < SegmentSize - 1 /\ After(head) # Consumer
  BY <1>1, SlotIsFree
\* What the slots hold once x is behind the pointer, before it wraps.
<1>7. /\ LapStart >= 0
      /\ \A i \in SegmentSlots : i <= head => segment'[i] = reported'[LapStart + i + 1]
  <2>1. /\ LapStart >= 0
        /\ \A i \in SegmentSlots : i < head => segment[i] = reported[LapStart + i + 1]
    BY DEF InterrupterInv, ThisEventLapInv
  <2>2. SUFFICES ASSUME NEW i \in SegmentSlots, i <= head
                 PROVE  segment'[i] = reported'[LapStart + i + 1]
    BY <2>1
  <2>3. i \in Nat /\ SegmentSize \in Nat
    BY <1>2, EventCounters DEF SegmentSlots
  <2>4. CASE i < head
    <3>1. LapStart + i + 1 \in 1 .. Len(reported)
      BY <1>2, <2>1, <2>3, <2>4, EventCounters
    <3>2. segment'[i] = segment[i]
      BY <1>2, <1>5, <2>3, <2>4, EventCounters
    <3> QED  BY <1>3, <2>1, <2>4, <3>1, <3>2
  <2>5. CASE i = head
    <3>1. LapStart + i + 1 = Len(reported) + 1
      BY <1>2, <2>5, EventCounters
    <3> QED  BY <1>3, <1>5, <2>5, <3>1
  <2> QED  BY <1>2, <2>2, <2>3, <2>4, <2>5, EventCounters
<1>8. EventCycleInv' /\ ThisEventLapInv' /\ LastEventLapInv' /\ FlightInv'
  <2>1. CASE head # SegmentSize - 1
    <3>1. head' = head + 1 /\ pcs' = pcs /\ (OneLap' <=> OneLap) /\ LapStart' = LapStart
      BY <1>1, <1>2, <1>3, <2>1, EventCounters, AfterSlot DEF Flipped, OneLap, LapStart
    <3>2. EventCycleInv'
      <4>1. \A i \in SegmentSlots : i \in Int /\ (i < head' <=> i < head \/ i = head)
        BY <1>2, <3>1, EventCounters DEF SegmentSlots
      <4>2. SUFFICES ASSUME NEW i \in SegmentSlots
                     PROVE  IF i < head' THEN event_cycle'[i] = pcs ELSE event_cycle'[i] = ~ pcs
        BY <3>1 DEF EventCycleInv
      <4>3. CASE i = head
        BY <1>5, <4>1, <4>3
      <4>4. CASE i # head
        BY <1>5, <4>1, <4>4 DEF InterrupterInv, EventCycleInv
      <4> QED  BY <4>3, <4>4
    <3>3. ThisEventLapInv'
      <4>1. \A i \in SegmentSlots : i < head' => i <= head
        BY <1>2, <3>1, EventCounters DEF SegmentSlots
      <4> QED  BY <1>7, <3>1, <4>1 DEF ThisEventLapInv
    <3>4. LastEventLapInv'
      <4>1. SUFFICES ASSUME ~ OneLap, NEW i \in SegmentSlots, head + 1 <= i
                     PROVE  LapStart >= SegmentSize
                       /\ segment'[i] = reported'[LapStart - SegmentSize + i + 1]
        <5>1. ~ OneLap => LapStart >= SegmentSize
          BY DEF InterrupterInv, LastEventLapInv
        <5> QED  BY <3>1, <5>1 DEF LastEventLapInv
      <4>2. LapStart >= SegmentSize /\ \A j \in SegmentSlots : head <= j
            => segment[j] = reported[LapStart - SegmentSize + j + 1]
        BY <4>1 DEF InterrupterInv, LastEventLapInv
      <4>3. i \in Nat /\ i < SegmentSize /\ head <= i /\ i # head
        BY <1>2, <4>1, EventCounters DEF SegmentSlots
      <4>4. segment'[i] = reported[LapStart - SegmentSize + i + 1]
        BY <1>5, <4>1, <4>2, <4>3
      <4>5. LapStart - SegmentSize + i + 1 \in 1 .. Len(reported)
        <5>1. /\ LapStart = Len(reported) - head /\ Len(reported) \in Nat
              /\ head \in Nat /\ SegmentSize \in Nat
          BY <1>2, EventCounters
        <5> QED  BY <4>2, <4>3, <5>1
      <4> QED  BY <1>3, <4>2, <4>4, <4>5
    <3>5. FlightInv'
      <4>1. head + 1 # Consumer
        BY <1>1, <1>6, <3>1
      <4>2. FlightInv
        BY DEF InterrupterInv
      <4>3. /\ head \in Nat /\ SegmentSize \in Nat /\ Consumer \in Nat /\ Unhandled \in Int
        BY <1>2, EventCounters
      <4>4. CASE OneLap
        BY <1>4, <3>1, <4>1, <4>2, <4>3, <4>4 DEF FlightInv
      <4>5. CASE ~ OneLap
        BY <1>4, <3>1, <4>1, <4>2, <4>3, <4>5 DEF FlightInv
      <4> QED  BY <4>4, <4>5
    <3> QED  BY <3>2, <3>3, <3>4, <3>5
  <2>2. CASE head = SegmentSize - 1
    <3>1. OneLap
      BY <1>2, <2>2, EventCounters DEF InterrupterInv, FlightInv
    <3>2. head' = 0 /\ After(head) = 0 /\ pcs' = ~ pcs
      BY <1>1, <1>2, <2>2, EventCounters, AfterSlot DEF Flipped
    <3>3. ~ OneLap'
      BY <1>1, <1>2, <3>1, <3>2 DEF OneLap, InterrupterTypeOK
    <3>4. LapStart' = LapStart + SegmentSize
      BY <1>2, <1>3, <2>2, <3>2, EventCounters, SMTT(30) DEF LapStart
    <3>5. \A i \in SegmentSlots : ~ (i < 0) /\ 0 <= i /\ i <= head
      BY <1>2, <2>2, EventCounters DEF SegmentSlots
    <3>6. EventCycleInv'
      <4>1. \A i \in SegmentSlots : i # head => event_cycle[i] = pcs
        BY <1>2, <2>2, <3>5, EventCounters DEF InterrupterInv, EventCycleInv, SegmentSlots
      <4>2. \A i \in SegmentSlots : event_cycle'[i] = pcs
        BY <1>5, <4>1
      <4>3. pcs = ~ pcs'
        BY <1>2, <3>2 DEF InterrupterTypeOK
      <4> QED  BY <3>2, <3>5, <4>2, <4>3 DEF EventCycleInv
    <3>7. ThisEventLapInv'
      <4>1. LapStart' >= 0
        BY <1>2, <1>7, <3>4, EventCounters
      <4>2. \A i \in SegmentSlots : ~ (i < head')
        BY <3>2, <3>5
      <4> QED  BY <4>1, <4>2 DEF ThisEventLapInv
    <3>8. LastEventLapInv'
      <4>1. LapStart' >= SegmentSize /\ LapStart' - SegmentSize = LapStart
        BY <1>2, <1>7, <3>4, EventCounters
      <4> QED  BY <1>7, <3>2, <3>5, <4>1 DEF LastEventLapInv
    <3>9. FlightInv'
      <4>1. Consumer # 0
        BY <1>6, <3>2
      <4>2. /\ Consumer <= head /\ Unhandled = head - Consumer
            /\ head \in Nat /\ Consumer \in Nat /\ SegmentSize \in Nat
        BY <1>2, <3>1, EventCounters DEF InterrupterInv, FlightInv
      <4>3. head' < Consumer' /\ Unhandled' = SegmentSize - Consumer' + head'
        BY <1>4, <2>2, <3>2, <4>1, <4>2
      <4> QED  BY <3>3, <4>3 DEF FlightInv
    <3> QED  BY <3>6, <3>7, <3>8, <3>9
  <2> QED  BY <2>1, <2>2
<1>9. BusyInv' /\ ClearedInv'
  BY <1>1 DEF InterrupterInv, BusyInv, ClearedInv
<1> QED  BY <1>2, <1>8, <1>9 DEF InterrupterInv

LEMMA InterruptStep ==
  ASSUME InterrupterInv, Interrupt
  PROVE  InterrupterInv'
<1>1. InterrupterTypeOK'
  BY DEF InterrupterInv, InterrupterTypeOK, Interrupt, controller, eventHistory
<1>2. /\ UNCHANGED <<Consumer, OneLap, Unhandled, LapStart>>
  BY DEF Interrupt, Consumer, OneLap, Unhandled, LapStart, After, controller, eventHistory
<1>3. EventCycleInv' /\ ThisEventLapInv' /\ LastEventLapInv' /\ FlightInv' /\ BusyInv'
  BY <1>2 DEF InterrupterInv, EventCycleInv, ThisEventLapInv, LastEventLapInv, FlightInv,
    BusyInv, Interrupt, controller, eventHistory
<1>4. ClearedInv'
  <2>1. /\ erdp # head /\ erdp' = erdp /\ head' = head /\ main' = main
        /\ msgs' = msgs + 1 /\ msgs \in Nat
        /\ overtaken' = (overtaken \/ main = "write")
    BY DEF InterrupterInv, InterrupterTypeOK, Interrupt, InterruptDue, controller
  <2>2. main = "write" => overtaken'
    BY <2>1
  <2> QED  BY <2>1, <2>2 DEF ClearedInv
<1> QED  BY <1>1, <1>3, <1>4 DEF InterrupterInv

LEMMA TakeMessageStep ==
  ASSUME InterrupterInv, TakeMessage
  PROVE  InterrupterInv'
<1>1. InterrupterTypeOK'
  BY DEF InterrupterInv, InterrupterTypeOK, TakeMessage, controller, eventHistory
<1>2. /\ UNCHANGED <<Consumer, OneLap, Unhandled, LapStart>>
  BY DEF TakeMessage, Consumer, OneLap, Unhandled, LapStart, After, controller, eventHistory
<1>3. EventCycleInv' /\ ThisEventLapInv' /\ LastEventLapInv' /\ FlightInv' /\ BusyInv'
  BY <1>2 DEF InterrupterInv, EventCycleInv, ThisEventLapInv, LastEventLapInv, FlightInv,
    BusyInv, TakeMessage, controller, eventHistory
<1>4. ClearedInv'
  BY DEF InterrupterInv, ClearedInv, TakeMessage, controller, eventHistory
<1> QED  BY <1>1, <1>3, <1>4 DEF InterrupterInv

\* An event that carries the kernel's cycle state is the oldest one not handled.
LEMMA HandlesTheOldest ==
  ASSUME InterrupterInv, main = "process", HasFront
  PROVE  /\ Len(handled) < Len(reported)
         /\ Front = reported[Len(handled) + 1]
         /\ OneLap => erdp < head
         /\ erdp # head
<1>1. Consumer = erdp /\ event_cycle[erdp] = erdp_cycle /\ pcs \in BOOLEAN
  BY DEF InterrupterInv, InterrupterTypeOK, Consumer, HasFront
<1>2. CASE OneLap
  <2>1. erdp < head
    BY <1>1, <1>2, EventCounters DEF InterrupterInv, EventCycleInv, OneLap
  <2>2. Front = reported[LapStart + erdp + 1]
    BY <2>1, EventCounters DEF InterrupterInv, ThisEventLapInv, Front
  <2>3. LapStart + erdp = Len(handled) /\ Len(handled) < Len(reported)
    BY <1>1, <1>2, <2>1, EventCounters DEF InterrupterInv, FlightInv, Unhandled
  <2> QED  BY <2>1, <2>2, <2>3, EventCounters DEF InterrupterInv
<1>3. CASE ~ OneLap
  <2>1. head < erdp /\ Unhandled = SegmentSize - erdp + head
    BY <1>1, <1>3 DEF InterrupterInv, FlightInv
  <2>2. Front = reported[LapStart - SegmentSize + erdp + 1]
    BY <1>3, <2>1, EventCounters DEF InterrupterInv, LastEventLapInv, Front
  <2>3. LapStart - SegmentSize + erdp = Len(handled) /\ Len(handled) < Len(reported)
    BY <2>1, EventCounters DEF InterrupterInv, Unhandled
  <2>4. LapStart - SegmentSize + erdp + 1 = Len(handled) + 1
    BY <2>3, EventCounters DEF InterrupterInv
  <2>5. erdp # head
    BY <2>1, EventCounters DEF InterrupterInv
  <2>6. Front = reported[Len(handled) + 1]
    BY <2>2, <2>4
  <2> QED  BY <1>3, <2>3, <2>5, <2>6
<1> QED  BY <1>2, <1>3

LEMMA HandleEventStep ==
  ASSUME InterrupterInv, HandleEvent
  PROVE  InterrupterInv'
<1>1. /\ UNCHANGED <<segment, event_cycle, head, pcs, erdp, ehb, msgs, overtaken, reported>>
      /\ main = "process" /\ HasFront
      /\ handled' = Append(handled, Front) /\ ehb_read' = ehb /\ main' = "write"
      /\ erdp_cycle' = Flipped(erdp_cycle, erdp)
  BY DEF HandleEvent, controller
<1>2. /\ Len(handled) < Len(reported) /\ Front = reported[Len(handled) + 1]
      /\ OneLap => erdp < head
      /\ erdp # head
  BY <1>1, HandlesTheOldest
<1>3. Front \in Events
  BY <1>2, EventCounters DEF InterrupterInv, InterrupterTypeOK
<1>4. InterrupterTypeOK /\ InterrupterTypeOK'
  <2>1. erdp_cycle' \in BOOLEAN
    BY <1>1, FlippedType DEF InterrupterInv, InterrupterTypeOK
  <2> QED  BY <1>1, <1>3, <2>1 DEF InterrupterInv, InterrupterTypeOK
<1>5. LapStart' = LapStart /\ EventCycleInv' /\ ThisEventLapInv' /\ BusyInv'
  BY <1>1, <1>2 DEF InterrupterInv, EventCycleInv, ThisEventLapInv, BusyInv, LapStart
<1>6. /\ Consumer = erdp /\ Consumer' = After(erdp) /\ Unhandled' = Unhandled - 1
  BY <1>1, <1>4, EventCounters DEF InterrupterTypeOK, Consumer, Unhandled, After
<1>7. LastEventLapInv' /\ FlightInv'
  <2>1. CASE erdp # SegmentSize - 1
    <3>1. Consumer' = Consumer + 1 /\ (OneLap' <=> OneLap)
      BY <1>1, <1>4, <1>6, <2>1, EventCounters, AfterSlot DEF Flipped, OneLap
    <3>2. LastEventLapInv'
      BY <1>1, <1>5, <3>1 DEF InterrupterInv, LastEventLapInv
    <3>3. FlightInv'
      <4>1. FlightInv /\ head' = head /\ head \in Nat /\ Consumer \in Nat /\ Unhandled \in Int
            /\ SegmentSize \in Nat
        BY <1>1, <1>4, EventCounters DEF InterrupterInv
      <4>2. CASE OneLap
        BY <1>2, <1>6, <3>1, <4>1, <4>2 DEF FlightInv
      <4>3. CASE ~ OneLap
        BY <1>6, <3>1, <4>1, <4>3 DEF FlightInv
      <4> QED  BY <4>2, <4>3
    <3> QED  BY <3>2, <3>3
  <2>2. CASE erdp = SegmentSize - 1
    <3>1. ~ OneLap
      BY <1>2, <1>4, <2>2, EventCounters
    <3>2. Consumer' = 0 /\ erdp_cycle' = ~ erdp_cycle
      BY <1>1, <1>4, <1>6, <2>2, EventCounters, AfterSlot DEF Flipped
    <3>3. OneLap'
      BY <1>1, <1>4, <3>1, <3>2 DEF OneLap, InterrupterTypeOK
    <3>4. FlightInv'
      <4>1. /\ head' = head /\ head \in Nat /\ SegmentSize \in Nat /\ erdp \in Nat
            /\ Len(handled) \in Nat /\ Unhandled \in Int
        BY <1>1, <1>4, EventCounters DEF InterrupterInv
      <4>2. Unhandled = SegmentSize - erdp + head
        BY <1>6, <3>1 DEF InterrupterInv, FlightInv
      <4> QED  BY <1>6, <2>2, <3>2, <3>3, <4>1, <4>2 DEF FlightInv
    <3> QED  BY <3>3, <3>4 DEF LastEventLapInv
  <2> QED  BY <2>1, <2>2
<1>8. ClearedInv'
  BY <1>1, <1>2 DEF InterrupterInv, ClearedInv
<1> QED  BY <1>4, <1>5, <1>7, <1>8 DEF InterrupterInv

LEMMA WriteERDPStep ==
  ASSUME InterrupterInv, WriteERDP
  PROVE  InterrupterInv'
<1>1. /\ UNCHANGED <<segment, event_cycle, head, pcs, erdp_cycle, msgs, reported, handled>>
      /\ main = "write" /\ main' = "process" /\ erdp' = After(erdp)
      /\ ehb' = (ehb /\ ~ ehb_read) /\ ehb_read' = FALSE
      /\ overtaken' = (overtaken /\ ~ ehb_read)
  BY DEF WriteERDP, controller, eventHistory
<1>2. InterrupterTypeOK'
  BY <1>1, EventCounters, AfterSlot DEF InterrupterInv, InterrupterTypeOK
<1>3. /\ Consumer' = Consumer /\ (OneLap' <=> OneLap)
      /\ Unhandled' = Unhandled /\ LapStart' = LapStart
  BY <1>1 DEF Consumer, OneLap, Unhandled, LapStart
<1>4. EventCycleInv' /\ ThisEventLapInv' /\ LastEventLapInv' /\ FlightInv'
  BY <1>1, <1>3 DEF InterrupterInv, EventCycleInv, ThisEventLapInv, LastEventLapInv, FlightInv
<1>5. BusyInv' /\ ClearedInv'
  BY <1>1 DEF InterrupterInv, BusyInv, ClearedInv
<1> QED  BY <1>2, <1>4, <1>5 DEF InterrupterInv

\* The main task goes back to waiting only when it has handled everything.
LEMMA ReturnsWhenEmpty ==
  ASSUME InterrupterInv, main = "process", ~ HasFront
  PROVE  erdp = head /\ Unhandled = 0
<1>1. Consumer = erdp /\ event_cycle[erdp] # erdp_cycle
  BY DEF Consumer, HasFront
<1>2. event_cycle[erdp] \in BOOLEAN /\ erdp_cycle \in BOOLEAN /\ pcs \in BOOLEAN
  BY EventCounters DEF InterrupterInv, InterrupterTypeOK
<1>3. OneLap
  BY <1>1, <1>2, EventCounters DEF InterrupterInv, EventCycleInv, FlightInv, OneLap
<1> QED  BY <1>1, <1>2, <1>3, EventCounters DEF InterrupterInv, EventCycleInv, FlightInv, OneLap

LEMMA ReturnStep ==
  ASSUME InterrupterInv, Return
  PROVE  InterrupterInv'
<1>1. InterrupterTypeOK'
  BY DEF InterrupterInv, InterrupterTypeOK, Return, controller, eventHistory
<1>2. UNCHANGED <<Consumer, OneLap, Unhandled, LapStart>>
  BY DEF Return, Consumer, OneLap, Unhandled, LapStart, After, controller, eventHistory
<1>3. EventCycleInv' /\ ThisEventLapInv' /\ LastEventLapInv' /\ FlightInv' /\ BusyInv'
  BY <1>2 DEF InterrupterInv, EventCycleInv, ThisEventLapInv, LastEventLapInv, FlightInv,
    BusyInv, Return, controller, eventHistory
<1>4. ClearedInv'
  BY ReturnsWhenEmpty DEF InterrupterInv, ClearedInv, Return, controller, eventHistory
<1> QED  BY <1>1, <1>3, <1>4 DEF InterrupterInv

LEMMA InterrupterStep == InterrupterInv /\ [InterrupterNext]_interrupterVars => InterrupterInv'
<1> SUFFICES ASSUME InterrupterInv, [InterrupterNext]_interrupterVars PROVE InterrupterInv'
  OBVIOUS
<1>1. CASE \E x \in Events : PostEvent(x)
  BY <1>1, PostEventStep
<1>2. CASE Interrupt
  BY <1>2, InterruptStep
<1>3. CASE MainTask
  BY <1>3, TakeMessageStep, HandleEventStep, WriteERDPStep, ReturnStep DEF MainTask
<1>4. CASE UNCHANGED interrupterVars
  BY <1>4 DEF interrupterVars, controller, eventHistory, InterrupterInv, InterrupterTypeOK,
    EventCycleInv, ThisEventLapInv, LastEventLapInv, FlightInv, BusyInv, ClearedInv, OneLap, Consumer, Unhandled, LapStart, After
<1> QED  BY <1>1, <1>2, <1>3, <1>4 DEF InterrupterNext

LEMMA InterrupterInvariance == InterrupterSpec => []InterrupterInv
  BY InitInterrupterInv, InterrupterStep, PTL DEF InterrupterSpec

-----------------------------------------------------------------------------
\* However late the interrupts come: the interrupter's registers keep their types,
\* and EHB is left set, with the main task waiting and no message sent, only by an
\* interrupt between the read and the write of ERDP in SetPointer.
THEOREM InterruptsAreNotLost == InterrupterSpec => []InterrupterKept
<1>1. InterrupterInv => InterrupterTypeOK /\ HandlerReallyBusy
  BY EventCounters DEF InterrupterInv, InterrupterTypeOK, ClearedInv, HandlerReallyBusy, LeftSet
<1>2. InterrupterInv => InterrupterKept
  BY <1>1 DEF InterrupterKept
<1> QED  BY <1>2, InterrupterInvariance, PTL

\* Whatever the size of the segment and however late the interrupts come, the kernel
\* handles every event once, in the order of their reports.
THEOREM EventRingIsQueue == InterrupterSpec => ImplementsEventQueue
<1>1. InterrupterInit => EventQueue!Init
  BY DEF InterrupterInit, EventQueue!Init
<1>2. InterrupterInv /\ [InterrupterNext]_interrupterVars => [EventQueue!Next]_<<reported,
      handled>>
  <2> SUFFICES ASSUME InterrupterInv, [InterrupterNext]_interrupterVars
               PROVE [EventQueue!Next]_<<reported, handled>>
    OBVIOUS
  <2>1. ASSUME NEW x \in Events, PostEvent(x) PROVE EventQueue!Send
    BY <2>1 DEF PostEvent, EventQueue!Send
  <2>2. CASE Interrupt \/ TakeMessage \/ WriteERDP \/ Return
    BY <2>2 DEF Interrupt, TakeMessage, WriteERDP, Return, eventHistory
  <2>3. ASSUME HandleEvent PROVE EventQueue!Receive
    BY <2>3, HandlesTheOldest DEF HandleEvent, EventQueue!Receive
  <2>4. CASE UNCHANGED interrupterVars
    BY <2>4 DEF interrupterVars, eventHistory
  <2> QED  BY <2>1, <2>2, <2>3, <2>4 DEF InterrupterNext, MainTask, EventQueue!Next
<1> QED  BY <1>1, <1>2, InterrupterInvariance, PTL DEF InterrupterSpec, ImplementsEventQueue,
    EventQueue!Spec
=============================================================================
