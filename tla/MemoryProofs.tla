---------------------------- MODULE MemoryProofs ----------------------------
(***************************************************************************)
(* Proofs about the frame allocator, BitmapMemory, for every memory map    *)
(* and every number of frames, and about AddressSpace, for every number of *)
(* applications, levels, frames and pages.                                 *)
(*                                                                         *)
(* The invariant of the frame allocator has a part for each loop.          *)
(* SearchInv: the frames from start_frame_id on that were looked at are    *)
(* free, and no block that begins below fits.  MapInv: what                *)
(* InitializeMemoryManager has read so far is reflected, the rest of the   *)
(* bitmap is untouched, and nothing between available_end and the last     *)
(* frame read is available, so that marking the next gap from there on     *)
(* does no harm.                                                           *)
(*                                                                         *)
(* The invariant of the address spaces, SpaceInv, says of the ways down    *)
(* the page maps that two of them meet nowhere, for all addresses of the   *)
(* upper half and not only for those an application touches; that what     *)
(* they find is the application's; and that SetupPageMapForApp stands on   *)
(* the way of its address, in front of an absent entry when it has found a *)
(* frame.  A way is a function defined step by step; what a step of the    *)
(* system does to all ways is shown by induction on the level.             *)
(***************************************************************************)
EXTENDS BitmapMemory, AddressSpace, NaturalsInduction, WellFoundedInduction, TLAPS

-----------------------------------------------------------------------------
(* Naturals, and functions defined step by step.                          *)

\* Induction on the naturals, for a set in the place of a predicate.
LEMMA NatSetInduction ==
  ASSUME NEW S, S \subseteq Nat, 0 \in S, \A n \in S : n + 1 \in S
  PROVE  S = Nat
<1> DEFINE T == Nat \ S
<1> SUFFICES ASSUME T # {} PROVE FALSE
  OBVIOUS
<1>1. PICK x \in T : \A y \in T : ~ (<<y, x>> \in OpToRel(<, Nat))
  <2> T \subseteq Nat
    OBVIOUS
  <2> QED BY NatLessThanWellFounded, WFMin
<1>2. x \in Nat /\ x # 0
  OBVIOUS
<1>3. x - 1 \in T
  OBVIOUS
<1>4. <<x - 1, x>> \in OpToRel(<, Nat)
  BY <1>2 DEF OpToRel
<1> QED BY <1>1, <1>3, <1>4

LEMMA LeastElement ==
  ASSUME NEW T, T \subseteq Nat, T # {}
  PROVE  \E x \in T : \A y \in T : x <= y
<1>1. PICK x \in T : \A y \in T : ~ (<<y, x>> \in OpToRel(<, Nat))
  BY NatLessThanWellFounded, WFMin
<1>2. \A y \in T : ~ (y < x)
  BY <1>1 DEF OpToRel
<1>3. \A y \in T : x <= y
  BY <1>2
<1> QED BY <1>3

\* Induction on 1 .. N.
LEMMA UpTo ==
  ASSUME NEW N \in Nat, NEW S, 1 \in S, \A n \in 1 .. N : n \in S => n + 1 \in S
  PROVE  1 .. N + 1 \subseteq S
<1> DEFINE T == {k \in Nat : k <= N => k + 1 \in S}
<1>1. 0 \in T
  OBVIOUS
<1>2. ASSUME NEW k \in T PROVE k + 1 \in T
  <2>1. CASE k + 1 <= N
    <3>1. k + 1 \in S /\ k + 1 \in 1 .. N
      BY <1>2, <2>1
    <3> QED BY <3>1, <1>2
  <2>2. CASE ~ (k + 1 <= N)
    BY <2>2, <1>2
  <2> QED BY <2>1, <2>2
<1>3. T = Nat
  <2> T \subseteq Nat
    OBVIOUS
  <2> HIDE DEF T
  <2> QED BY <1>1, <1>2, NatSetInduction
<1>4. ASSUME NEW n \in 1 .. N + 1 PROVE n \in S
  <2>1. n - 1 \in Nat /\ n - 1 <= N /\ (n - 1) + 1 = n
    OBVIOUS
  <2>2. n - 1 \in T
    <3> HIDE DEF T
    <3> QED BY <1>3, <2>1
  <2> QED BY <2>1, <2>2
<1> QED BY <1>4

\* f starts with first and goes on step by step.
IsStepwise(f, N, D, first, step) ==
  /\ f \in [1 .. N + 1 -> D]
  /\ f[1] = first
  /\ \A n \in 1 .. N : f[n + 1] = step[n][f[n]]

\* A function may be defined on 1 .. N + 1 by its first value and by steps.
LEMMA StepByStep ==
  ASSUME NEW N \in Nat, NEW D, NEW first \in D, NEW step \in [1 .. N -> [D -> D]]
  PROVE  \E f : IsStepwise(f, N, D, first, step)
<1> DEFINE Upto(k) == \E f \in [1 .. k -> D] :
                        f[1] = first /\ \A n \in 1 .. N : n + 1 <= k => f[n + 1] = step[n][f[n]]
           S == {k \in 1 .. N + 1 : Upto(k)}
<1>1. 1 \in S
  <2> DEFINE f == [n \in 1 .. 1 |-> first]
  <2>1. f \in [1 .. 1 -> D] /\ f[1] = first
    OBVIOUS
  <2>2. \A n \in 1 .. N : ~ (n + 1 <= 1)
    OBVIOUS
  <2> HIDE DEF f
  <2>3. Upto(1)
    BY <2>1, <2>2
  <2> QED BY <2>3
<1>2. ASSUME NEW k \in 1 .. N, k \in S PROVE k + 1 \in S
  <2>1. PICK f \in [1 .. k -> D] :
          f[1] = first /\ \A n \in 1 .. N : n + 1 <= k => f[n + 1] = step[n][f[n]]
    BY <1>2
  <2> DEFINE g == [n \in 1 .. k + 1 |-> IF n <= k THEN f[n] ELSE step[k][f[k]]]
  <2>2. step[k][f[k]] \in D
    OBVIOUS
  <2>3. g \in [1 .. k + 1 -> D]
    BY <2>2
  <2>4. g[1] = first
    BY <2>1
  <2>5. ASSUME NEW n \in 1 .. N, n + 1 <= k + 1 PROVE g[n + 1] = step[n][g[n]]
    <3>1. CASE n + 1 <= k
      BY <2>1, <3>1
    <3>2. CASE n = k
      BY <3>2
    <3> QED BY <2>5, <3>1, <3>2
  <2> HIDE DEF g
  <2>6. Upto(k + 1)
    BY <2>3, <2>4, <2>5
  <2> QED BY <2>6
<1>3. 1 .. N + 1 \subseteq S
  <2> HIDE DEF S
  <2> QED BY <1>1, <1>2, UpTo
<1>4. Upto(N + 1)
  <2>1. N + 1 \in S
    <3> HIDE DEF S
    <3> QED BY <1>3
  <2> QED BY <2>1
<1>5. PICK f \in [1 .. N + 1 -> D] :
         f[1] = first /\ \A n \in 1 .. N : n + 1 <= N + 1 => f[n + 1] = step[n][f[n]]
  BY <1>4
<1>6. IsStepwise(f, N, D, first, step)
  BY <1>5 DEF IsStepwise
<1> QED BY <1>6

-----------------------------------------------------------------------------
(* The frame allocator: its inductive invariant.                           *)

\* The frame behind the last descriptor read.
Seen == IF iter = 1 THEN 0
        ELSE memory_map[iter - 1].start + memory_map[iter - 1].frames

SearchInv ==
  pc = "search" =>
    /\ num_frames >= 1 /\ offset <= num_frames
    /\ \A f \in Block(start_frame_id, offset) : f < FrameCount /\ f \notin alloc_map_
    /\ \A s \in Nat : s < start_frame_id => ~ Fits(s)

ReflectedInv ==
  /\ pc # "map" => iter = Len(memory_map) + 1
  /\ \A f \in Frames : f < Seen =>
       (f \in alloc_map_ <=> f \notin Available(memory_map) \/ f \in Given)
  /\ \A f \in Given : f < Seen => f \in Available(memory_map)

MapInv ==
  pc = "map" =>
    /\ blocks = {}
    /\ available_end <= Seen
    /\ \A f \in alloc_map_ : f < Seen
    /\ \A f \in Nat : available_end <= f /\ f < Seen => f \notin Available(memory_map)

IInv == TypeOK /\ BlocksAreDisjoint /\ SearchInv /\ ReflectedInv /\ MapInv

-----------------------------------------------------------------------------
(* Memory maps.                                                            *)

LEMMA AvailableFrame ==
  ASSUME NEW map, IsMemoryMap(map), NEW f
  PROVE  f \in Available(map) <=>
           \E k \in DOMAIN map : map[k].available /\ f \in Block(map[k].start, map[k].frames)
  BY DEF Available

LEMMA Descriptor ==
  ASSUME NEW map, IsMemoryMap(map), NEW k \in 1 .. Len(map)
  PROVE  /\ map[k].start \in Nat /\ map[k].frames \in Nat /\ map[k].frames >= 1
         /\ map[k].available \in BOOLEAN
         /\ map[k].start + map[k].frames <= FrameCount
         /\ \A j \in 1 .. Len(map) : k < j => map[k].start + map[k].frames <= map[j].start
<1>1. /\ map \in Seq([start : Nat, frames : Nat \ {0}, available : BOOLEAN])
      /\ DOMAIN map = 1 .. Len(map)
  BY DEF IsMemoryMap
<1>2. map[k] \in [start : Nat, frames : Nat \ {0}, available : BOOLEAN]
  <2> DEFINE Rec == [start : Nat, frames : Nat \ {0}, available : BOOLEAN]
  <2>1. map \in Seq(Rec)
    BY <1>1
  <2> HIDE DEF Rec
  <2>2. map[k] \in Rec
    BY <2>1
  <2> QED  BY <2>2 DEF Rec
<1>3. /\ map[k].start \in Nat /\ map[k].frames \in Nat \ {0}
      /\ map[k].available \in BOOLEAN
  BY <1>2
<1>4. map[k].start + map[k].frames <= FrameCount
  BY <1>1 DEF IsMemoryMap
<1>5. \A j \in 1 .. Len(map) : k < j => map[k].start + map[k].frames <= map[j].start
  BY <1>1 DEF IsMemoryMap
<1> QED  BY <1>3, <1>4, <1>5

\* What is read next lies behind everything read before.
LEMMA NextDescriptor ==
  ASSUME TypeOK, iter <= Len(memory_map)
  PROVE  /\ Seen \in Nat /\ Seen <= memory_map[iter].start
         /\ \A k \in DOMAIN memory_map :
              \/ k < iter /\ memory_map[k].start + memory_map[k].frames <= Seen
              \/ k = iter
              \/ /\ k > iter
                 /\ memory_map[iter].start + memory_map[iter].frames <= memory_map[k].start
<1>1. /\ IsMemoryMap(memory_map) /\ iter \in 1 .. Len(memory_map)
      /\ Len(memory_map) \in Nat /\ DOMAIN memory_map = 1 .. Len(memory_map)
  BY DEF TypeOK, IsMemoryMap
<1>2. memory_map[iter].start \in Nat
  BY <1>1, Descriptor
<1>3. CASE iter = 1
  BY <1>1, <1>2, <1>3, Descriptor DEF Seen
<1>4. CASE iter # 1
  <2>1. iter - 1 \in 1 .. Len(memory_map) /\ iter - 1 < iter
    BY <1>1, <1>4
  <2>2. /\ Seen = memory_map[iter - 1].start + memory_map[iter - 1].frames
        /\ memory_map[iter - 1].start \in Nat /\ memory_map[iter - 1].frames \in Nat
        /\ Seen <= memory_map[iter].start
    BY <1>1, <1>4, <2>1, Descriptor DEF Seen
  <2>3. ASSUME NEW k \in DOMAIN memory_map, k < iter
        PROVE  memory_map[k].start + memory_map[k].frames <= Seen
    <3>1. CASE k = iter - 1
      BY <2>2, <3>1
    <3>2. CASE k < iter - 1
      <4>1. memory_map[k].start + memory_map[k].frames <= memory_map[iter - 1].start
        BY <1>1, <2>1, <3>2, Descriptor
      <4>2. memory_map[k].start \in Nat /\ memory_map[k].frames \in Nat
        BY <1>1, Descriptor
      <4> QED  BY <2>2, <4>1, <4>2
    <3> QED  BY <1>1, <2>1, <2>3, <3>1, <3>2
  <2>4. ASSUME NEW k \in DOMAIN memory_map, k > iter
        PROVE  memory_map[iter].start + memory_map[iter].frames <= memory_map[k].start
    BY <1>1, <2>4, Descriptor
  <2> QED  BY <1>1, <2>2, <2>3, <2>4, SMTT(30)
<1> QED  BY <1>3, <1>4

\* At the end of the map everything described has been read.
LEMMA AllSeen ==
  ASSUME TypeOK, iter = Len(memory_map) + 1, NEW f \in Described(memory_map)
  PROVE  f \in Frames /\ f < Seen
<1>1. /\ IsMemoryMap(memory_map) /\ Len(memory_map) \in Nat
      /\ memory_map \in Seq([start : Nat, frames : Nat \ {0}, available : BOOLEAN])
  BY DEF TypeOK, IsMemoryMap
<1>2. memory_map # <<>> /\ f \in 0 .. memory_map[Len(memory_map)].start
                                      + memory_map[Len(memory_map)].frames - 1
  BY DEF Described
<1>3. Len(memory_map) \in 1 .. Len(memory_map)
  BY <1>1, <1>2
<1>4. /\ memory_map[Len(memory_map)].start \in Nat
      /\ memory_map[Len(memory_map)].frames \in Nat
      /\ memory_map[Len(memory_map)].start + memory_map[Len(memory_map)].frames <= FrameCount
  BY <1>1, <1>3, Descriptor
<1>5. Seen = memory_map[Len(memory_map)].start + memory_map[Len(memory_map)].frames
  BY <1>1, <1>3 DEF Seen
<1> QED  BY <1>2, <1>4, <1>5, BitmapMemoryAssumption DEF Frames

-----------------------------------------------------------------------------
(* The steps.                                                              *)

LEMMA InitIInv == Init => IInv
<1> SUFFICES ASSUME Init PROVE IInv
  OBVIOUS
<1>1. IsMemoryMap(memory_map)
  BY BitmapMemoryAssumption DEF Init
<1>2. Len(memory_map) \in Nat
  BY <1>1 DEF IsMemoryMap
<1>3. TypeOK
  <2>1. iter \in 1 .. Len(memory_map) + 1 /\ available_end \in 0 .. FrameCount
    BY <1>2, BitmapMemoryAssumption DEF Init
  <2>2. /\ pc \in {"map", "search", "run", "halted"} /\ heap \in BOOLEAN
        /\ num_frames \in Nat /\ start_frame_id \in Nat /\ offset \in Nat
        /\ alloc_map_ \subseteq Frames /\ blocks \subseteq Frames \X Nat
    BY DEF Init
  <2> QED  BY <1>1, <2>1, <2>2 DEF TypeOK
<1>4. Seen = 0 /\ Given = {}
  BY DEF Init, Seen, Given
<1>5. BlocksAreDisjoint /\ SearchInv
  BY <1>4 DEF Init, BlocksAreDisjoint, SearchInv
<1>6. ReflectedInv
  <2>1. \A f \in Frames : ~ (f < Seen)
    BY <1>4, BitmapMemoryAssumption DEF Frames
  <2> QED  BY <1>4, <2>1 DEF Init, ReflectedInv
<1>7. MapInv
  BY <1>4 DEF Init, MapInv
<1> QED  BY <1>3, <1>5, <1>6, <1>7 DEF IInv

LEMMA ReadDescriptorStep ==
  ASSUME IInv, ReadDescriptor
  PROVE  IInv'
<1> DEFINE desc == memory_map[iter]
           gap == Block(available_end, desc.start - available_end)
           frames == Block(desc.start, desc.frames)
<1>1. /\ IsMemoryMap(memory_map) /\ iter \in 1 .. Len(memory_map)
      /\ Len(memory_map) \in Nat /\ DOMAIN memory_map = 1 .. Len(memory_map)
  BY DEF IInv, TypeOK, IsMemoryMap, ReadDescriptor
<1>2. /\ desc.start \in Nat /\ desc.frames \in Nat /\ desc.frames >= 1
      /\ desc.available \in BOOLEAN
      /\ desc.start + desc.frames <= FrameCount
  BY <1>1, Descriptor
<1>3. /\ Seen \in Nat /\ Seen <= desc.start
      /\ \A k \in DOMAIN memory_map :
           \/ k < iter /\ memory_map[k].start + memory_map[k].frames <= Seen
           \/ k = iter
           \/ k > iter /\ desc.start + desc.frames <= memory_map[k].start
  BY <1>1, NextDescriptor DEF IInv
<1>4. /\ memory_map' = memory_map /\ iter' = iter + 1 /\ pc = "map" /\ pc' = "map"
      /\ blocks' = blocks
      /\ alloc_map_' = alloc_map_ \cup gap \cup IF desc.available THEN {} ELSE frames
      /\ available_end' = IF desc.available THEN desc.start + desc.frames ELSE available_end
      /\ UNCHANGED <<heap, num_frames, start_frame_id, offset>>
  BY DEF ReadDescriptor, search
<1>5. Seen' = desc.start + desc.frames
  BY <1>1, <1>4 DEF Seen
<1>6. /\ blocks = {} /\ available_end <= Seen /\ available_end \in Nat
      /\ \A f \in alloc_map_ : f < Seen
      /\ \A f \in Nat : available_end <= f /\ f < Seen => f \notin Available(memory_map)
      /\ Given = {}
  BY <1>4 DEF IInv, MapInv, TypeOK, Given
\* Which of the frames up to the end of the descriptor are available.
<1>7. ASSUME NEW f \in Nat, Seen <= f, f < desc.start + desc.frames
      PROVE  f \in Available(memory_map) <=> desc.available /\ desc.start <= f
  <2>1. ASSUME NEW k \in DOMAIN memory_map,
               f \in Block(memory_map[k].start, memory_map[k].frames)
        PROVE  k = iter
    <3>1. memory_map[k].start \in Nat /\ memory_map[k].frames \in Nat
      BY <1>1, Descriptor
    <3> QED  BY <1>2, <1>3, <1>7, <2>1, <3>1 DEF Block
  <2>2. f \in frames <=> desc.start <= f
    BY <1>2, <1>7 DEF Block
  <2> QED  BY <1>1, <2>1, <2>2, AvailableFrame
<1>8. \A f \in gap : f \in Nat /\ available_end <= f /\ f < desc.start
  BY <1>2, <1>6 DEF Block
<1>9. \A f \in frames : f \in Nat /\ desc.start <= f /\ f < desc.start + desc.frames
  BY <1>2 DEF Block
<1>10. Given' = {}
  BY <1>4, <1>6 DEF Given
<1> HIDE DEF desc, gap, frames
<1>11. TypeOK'
  <2>1. alloc_map_' \subseteq Frames
    <3>1. gap \subseteq Frames /\ frames \subseteq Frames
      BY <1>2, <1>8, <1>9, BitmapMemoryAssumption DEF Frames
    <3>2. alloc_map_ \subseteq Frames
      BY DEF IInv, TypeOK
    <3> QED  BY <1>4, <3>1, <3>2
  <2>2. available_end' \in 0 .. FrameCount
    BY <1>2, <1>4, BitmapMemoryAssumption DEF IInv, TypeOK
  <2>3. iter' \in 1 .. Len(memory_map) + 1
    BY <1>1, <1>4
  <2> QED  BY <1>4, <2>1, <2>2, <2>3 DEF IInv, TypeOK, IsMemoryMap
<1>12. BlocksAreDisjoint' /\ SearchInv'
  BY <1>4, <1>6, <1>10 DEF BlocksAreDisjoint, SearchInv
<1>13. ReflectedInv'
  <2>1. ASSUME NEW f \in Frames, f < Seen'
        PROVE  f \in alloc_map_' <=> f \notin Available(memory_map)
    <3>0. f \in Nat
      BY BitmapMemoryAssumption DEF Frames
    <3>1. CASE f < Seen
      <4>1. f \in alloc_map_ <=> f \notin Available(memory_map)
        BY <1>6, <3>1 DEF IInv, ReflectedInv
      <4>2. f \in gap => f \notin Available(memory_map)
        BY <1>6, <1>8, <3>0, <3>1
      <4>3. f \notin frames
        BY <1>2, <1>3, <1>9, <3>0, <3>1
      <4> QED  BY <1>4, <4>1, <4>2, <4>3
    <3>2. CASE Seen <= f /\ f < desc.start
      <4>1. f \in gap
        BY <1>2, <1>3, <1>6, <3>0, <3>2 DEF gap, Block
      <4>2. f \notin Available(memory_map)
        BY <1>2, <1>5, <1>7, <2>1, <3>0, <3>2
      <4> QED  BY <1>4, <4>1, <4>2
    <3>3. CASE desc.start <= f
      <4>1. f \in frames
        BY <1>2, <1>5, <2>1, <3>0, <3>3 DEF frames, Block
      <4>2. f \notin gap /\ f \notin alloc_map_
        BY <1>2, <1>3, <1>6, <1>8, <3>0, <3>3
      <4>3. f \in Available(memory_map) <=> desc.available
        BY <1>2, <1>3, <1>5, <1>7, <2>1, <3>0, <3>3
      <4> QED  BY <1>2, <1>4, <4>1, <4>2, <4>3
    <3> QED  BY <1>2, <1>3, <3>0, <3>1, <3>2, <3>3
  <2> QED  BY <1>4, <1>10, <2>1 DEF ReflectedInv
<1>14. MapInv'
  <2>1. available_end' <= Seen'
    BY <1>2, <1>3, <1>4, <1>5, <1>6
  <2>2. \A f \in alloc_map_' : f < Seen'
    <3>1. \A f \in alloc_map_ : f \in Nat
      BY BitmapMemoryAssumption DEF IInv, TypeOK, Frames
    <3> QED  BY <1>2, <1>3, <1>4, <1>5, <1>6, <1>8, <1>9, <3>1
  <2>3. ASSUME NEW f \in Nat, available_end' <= f, f < Seen'
        PROVE  f \notin Available(memory_map)
    BY <1>2, <1>3, <1>4, <1>5, <1>6, <1>7, <2>3
  <2> QED  BY <1>4, <1>6, <2>1, <2>2, <2>3 DEF MapInv
<1> QED  BY <1>11, <1>12, <1>13, <1>14 DEF IInv

LEMMA CallStep ==
  ASSUME IInv, NEW n \in Nat \ {0}, Call(n), iter = Len(memory_map) + 1
  PROVE  IInv'
<1>1. /\ UNCHANGED <<memory_map, iter, available_end, heap, alloc_map_, blocks>>
      /\ pc' = "search" /\ num_frames' = n /\ start_frame_id' = 0 /\ offset' = 0
  BY DEF Call, booting
<1>2. TypeOK' /\ Seen' = Seen /\ Given' = Given
  BY <1>1 DEF IInv, TypeOK, Seen, Given
<1>3. BlocksAreDisjoint' /\ ReflectedInv' /\ MapInv'
  BY <1>1, <1>2 DEF IInv, BlocksAreDisjoint, ReflectedInv, MapInv
<1>4. SearchInv'
  BY <1>1 DEF SearchInv, Block
<1> QED  BY <1>2, <1>3, <1>4 DEF IInv

LEMMA NextFrameStep ==
  ASSUME IInv, NextFrame
  PROVE  IInv'
<1>1. /\ UNCHANGED <<memory_map, iter, available_end, pc, heap, num_frames,
                     start_frame_id, alloc_map_, blocks>>
      /\ offset' = offset + 1 /\ pc = "search" /\ offset < num_frames
      /\ Frame < FrameCount /\ Frame \notin alloc_map_
  BY DEF NextFrame, booting
<1>2. TypeOK' /\ Seen' = Seen /\ Given' = Given
  BY <1>1 DEF IInv, TypeOK, Seen, Given
<1>3. BlocksAreDisjoint' /\ ReflectedInv' /\ MapInv'
  BY <1>1, <1>2 DEF IInv, BlocksAreDisjoint, ReflectedInv, MapInv
<1>4. \A f \in Block(start_frame_id, offset + 1) :
         f \in Block(start_frame_id, offset) \/ f = Frame
  BY DEF IInv, TypeOK, Block, Frame
<1>5. offset + 1 <= num_frames
  BY <1>1 DEF IInv, TypeOK
<1>6. SearchInv'
  BY <1>1, <1>4, <1>5 DEF IInv, SearchInv, Fits, Block
<1> QED  BY <1>2, <1>3, <1>6 DEF IInv

\* No block that begins in front of a taken frame and reaches it fits.
LEMMA Skipped ==
  ASSUME IInv, SkipFrame, NEW s \in Nat, s < start_frame_id + offset + 1
  PROVE  ~ Fits(s)
<1>1. /\ start_frame_id \in Nat /\ offset \in Nat /\ num_frames \in Nat
      /\ offset < num_frames /\ pc = "search"
  BY DEF IInv, TypeOK, SkipFrame
<1>2. CASE s < start_frame_id
  BY <1>1, <1>2 DEF IInv, SearchInv
<1>3. CASE s >= start_frame_id
  <2>1. Frame \in Block(s, num_frames)
    BY <1>1, <1>3 DEF Block, Frame
  <2> QED  BY <2>1 DEF SkipFrame, Fits
<1> QED  BY <1>1, <1>2, <1>3

LEMMA SkipFrameStep ==
  ASSUME IInv, SkipFrame
  PROVE  IInv'
<1>1. /\ UNCHANGED <<memory_map, iter, available_end, pc, heap, num_frames,
                     alloc_map_, blocks>>
      /\ offset' = 0 /\ start_frame_id' = start_frame_id + offset + 1
      /\ pc = "search" /\ offset < num_frames
  BY DEF SkipFrame, booting
<1>2. TypeOK' /\ Seen' = Seen /\ Given' = Given
  BY <1>1 DEF IInv, TypeOK, Seen, Given
<1>3. BlocksAreDisjoint' /\ ReflectedInv' /\ MapInv'
  BY <1>1, <1>2 DEF IInv, BlocksAreDisjoint, ReflectedInv, MapInv
<1>4. \A s \in Nat : s < start_frame_id' => ~ Fits(s)'
  BY <1>1, Skipped DEF Fits
<1>5. Block(start_frame_id', 0) = {}
  <2>1. start_frame_id' \in Nat
    BY <1>2 DEF TypeOK
  <2>2. \A s \in Nat : Block(s, 0) = {}
    BY DEF Block
  <2> QED  BY <2>1, <2>2
<1>6. SearchInv'
  BY <1>1, <1>2, <1>4, <1>5 DEF IInv, TypeOK, SearchInv
<1> QED  BY <1>2, <1>3, <1>6 DEF IInv

LEMMA FailStep ==
  ASSUME IInv, Fail
  PROVE  IInv'
<1>1. /\ UNCHANGED <<memory_map, iter, available_end, heap, alloc_map_, blocks>>
      /\ pc = "search" /\ pc' \in {"run", "halted"}
      /\ num_frames' = 0 /\ start_frame_id' = 0 /\ offset' = 0
  BY DEF Fail, Return, booting
<1>2. TypeOK' /\ Seen' = Seen /\ Given' = Given
  BY <1>1 DEF IInv, TypeOK, Seen, Given
<1> QED  BY <1>1, <1>2 DEF IInv, BlocksAreDisjoint, SearchInv, ReflectedInv, MapInv

\* When the search ends, the frames of the block are free.
LEMMA FoundIsFree ==
  ASSUME IInv, Found
  PROVE  /\ Block(start_frame_id, num_frames) \subseteq Frames
         /\ Block(start_frame_id, num_frames) \cap alloc_map_ = {}
         /\ start_frame_id \in Frames
<1>1. /\ offset = num_frames /\ start_frame_id \in Nat /\ num_frames \in Nat
      /\ num_frames >= 1
      /\ \A f \in Block(start_frame_id, offset) : f < FrameCount /\ f \notin alloc_map_
  BY DEF IInv, TypeOK, SearchInv, Found
<1>2. start_frame_id \in Block(start_frame_id, num_frames)
  BY <1>1 DEF Block
<1>3. \A f \in Block(start_frame_id, num_frames) : f \in Nat
  BY <1>1 DEF Block
<1> QED  BY <1>1, <1>2, <1>3, BitmapMemoryAssumption DEF Frames

LEMMA FoundStep ==
  ASSUME IInv, Found
  PROVE  IInv'
<1> DEFINE block == Block(start_frame_id, num_frames)
<1>1. /\ UNCHANGED <<memory_map, iter, available_end>>
      /\ pc = "search" /\ pc' = "run" /\ heap' = TRUE
      /\ num_frames' = 0 /\ start_frame_id' = 0 /\ offset' = 0
      /\ alloc_map_' = alloc_map_ \cup block
      /\ blocks' = blocks \cup {<<start_frame_id, num_frames>>}
  BY DEF Found, Return, booting
<1>2. block \subseteq Frames /\ block \cap alloc_map_ = {} /\ start_frame_id \in Frames
  BY FoundIsFree
<1>3. Given' = Given \cup block /\ Seen' = Seen
  <2>1. <<start_frame_id, num_frames>>[1] = start_frame_id
        /\ <<start_frame_id, num_frames>>[2] = num_frames
    OBVIOUS
  <2> HIDE DEF block
  <2>2. \A f : f \in Given' <=> \E b \in blocks' : f \in Block(b[1], b[2])
    BY DEF Given
  <2>3. \A f : f \in Given <=> \E b \in blocks : f \in Block(b[1], b[2])
    BY DEF Given
  <2>4. \A f : f \in Given' <=> f \in Given \/ f \in block
    BY <1>1, <2>1, <2>2, <2>3 DEF block
  <2> QED  BY <1>1, <2>4 DEF Seen
<1>4. Given \subseteq alloc_map_
  BY DEF IInv, BlocksAreDisjoint
<1>5. \A b \in blocks : Block(b[1], b[2]) \subseteq Given
  BY DEF Given
<1>6. TypeOK'
  <2>1. num_frames \in Nat /\ blocks \subseteq Frames \X Nat
    BY DEF IInv, TypeOK
  <2>2. <<start_frame_id, num_frames>> \in Frames \X Nat
    BY <1>2, <2>1
  <2>3. blocks' \subseteq Frames \X Nat
    BY <1>1, <2>1, <2>2
  <2>4. alloc_map_' \subseteq Frames
    BY <1>1, <1>2 DEF IInv, TypeOK
  <2> HIDE DEF block
  <2>5. /\ IsMemoryMap(memory_map)' /\ iter' \in 1 .. Len(memory_map') + 1
        /\ available_end' \in 0 .. FrameCount
    BY <1>1 DEF IInv, TypeOK, IsMemoryMap
  <2> QED  BY <1>1, <2>3, <2>4, <2>5 DEF TypeOK
<1>7. BlocksAreDisjoint'
  <2>1. ASSUME NEW b \in blocks PROVE Block(b[1], b[2]) \cap block = {}
    BY <1>2, <1>4, <1>5
  <2>2. <<start_frame_id, num_frames>>[1] = start_frame_id
        /\ <<start_frame_id, num_frames>>[2] = num_frames
    OBVIOUS
  <2> HIDE DEF block
  <2>3. ASSUME NEW a \in blocks', NEW b \in blocks', a # b
        PROVE  Block(a[1], a[2]) \cap Block(b[1], b[2]) = {}
    <3>1. CASE a \in blocks /\ b \in blocks
      BY <2>3, <3>1 DEF IInv, BlocksAreDisjoint
    <3>2. CASE a \notin blocks
      BY <1>1, <2>1, <2>2, <2>3, <3>2 DEF block
    <3>3. CASE b \notin blocks
      BY <1>1, <2>1, <2>2, <2>3, <3>3 DEF block
    <3> QED  BY <3>1, <3>2, <3>3
  <2> QED  BY <1>1, <1>3, <1>4, <2>3 DEF BlocksAreDisjoint
<1>8. SearchInv' /\ MapInv'
  BY <1>1 DEF SearchInv, MapInv
<1>9. ReflectedInv'
  BY <1>1, <1>2, <1>3 DEF IInv, ReflectedInv
<1> QED  BY <1>6, <1>7, <1>8, <1>9 DEF IInv

LEMMA FreeStep ==
  ASSUME IInv, NEW b \in blocks, Free(b)
  PROVE  IInv'
<1> DEFINE block == Block(b[1], b[2])
<1>1. /\ UNCHANGED <<memory_map, iter, available_end, pc, heap, num_frames,
                     start_frame_id, offset>>
      /\ pc = "run" /\ alloc_map_' = alloc_map_ \ block /\ blocks' = blocks \ {b}
  BY DEF Free, booting, search
<1>2. \A c \in blocks : c # b => Block(c[1], c[2]) \cap block = {}
  BY DEF IInv, BlocksAreDisjoint
<1>3. Given' = Given \ block
  <2> HIDE DEF block
  <2>1. \A f : f \in Given' <=> \E c \in blocks' : f \in Block(c[1], c[2])
    BY DEF Given
  <2>2. \A f : f \in Given <=> \E c \in blocks : f \in Block(c[1], c[2])
    BY DEF Given
  <2>3. \A f : f \in Block(b[1], b[2]) <=> f \in block
    BY DEF block
  <2>4. \A f : f \in Given' <=> f \in Given /\ f \notin block
    BY <1>1, <1>2, <2>1, <2>2, <2>3
  <2> QED  BY <2>4
<1>4. block \subseteq Given /\ Given \subseteq alloc_map_ /\ Seen' = Seen
  BY <1>1 DEF IInv, BlocksAreDisjoint, Given, Seen
<1> HIDE DEF block
<1>5. TypeOK'
  BY <1>1 DEF IInv, TypeOK
<1>6. BlocksAreDisjoint'
  BY <1>1, <1>3, <1>4 DEF IInv, BlocksAreDisjoint
<1>7. SearchInv' /\ MapInv'
  BY <1>1 DEF SearchInv, MapInv
<1>8. ReflectedInv'
  BY <1>1, <1>3, <1>4 DEF IInv, ReflectedInv
<1> QED  BY <1>5, <1>6, <1>7, <1>8 DEF IInv

LEMMA NextStep == IInv /\ [Next]_vars => IInv'
<1> SUFFICES ASSUME IInv, [Next]_vars PROVE IInv'
  OBVIOUS
<1>1. CASE InitializeHeap
  <2>1. iter = Len(memory_map) + 1
    <3>1. Len(memory_map) \in Nat
      BY DEF IInv, TypeOK, IsMemoryMap
    <3> QED  BY <1>1, <3>1 DEF IInv, TypeOK, InitializeHeap
  <2> QED  BY <1>1, <2>1, CallStep, BitmapMemoryAssumption DEF InitializeHeap
<1>2. ASSUME NEW n \in Requests, Allocate(n) PROVE IInv'
  <2>1. iter = Len(memory_map) + 1 /\ n \in Nat \ {0}
    BY <1>2, BitmapMemoryAssumption DEF IInv, ReflectedInv, Allocate
  <2> QED  BY <1>2, <2>1, CallStep DEF Allocate
<1>3. CASE UNCHANGED vars
  BY <1>3 DEF vars, booting, search, IInv, TypeOK, BlocksAreDisjoint, SearchInv,
     ReflectedInv, MapInv, Seen, Given, Fits
<1> QED  BY <1>1, <1>2, <1>3, ReadDescriptorStep, NextFrameStep, SkipFrameStep,
         FailStep, FoundStep, FreeStep DEF Next

LEMMA Invariance == Spec => []IInv
  BY InitIInv, NextStep, PTL DEF Spec

-----------------------------------------------------------------------------
\* The bitmap stays within its frames, and the variables within their types.
THEOREM TypeCorrectness == Spec => []TypeOK
<1>1. IInv => TypeOK
  BY DEF IInv
<1> QED  BY <1>1, Invariance, PTL

\* No frame is ever given to two owners, for any sequence of calls.
THEOREM NoFrameTwice == Spec => []BlocksAreDisjoint
<1>1. IInv => BlocksAreDisjoint
  BY DEF IInv
<1> QED  BY <1>1, Invariance, PTL

\* Whatever the memory map, the bitmap reflects all that it describes.
THEOREM MapIsReflected == Spec => []MapReflected
<1>1. IInv => MapReflected
  <2> SUFFICES ASSUME IInv, pc # "map", NEW f \in Described(memory_map)
               PROVE  f \in alloc_map_ <=> f \notin Available(memory_map) \/ f \in Given
    BY DEF MapReflected
  <2>1. iter = Len(memory_map) + 1
    BY DEF IInv, ReflectedInv
  <2>2. f \in Frames /\ f < Seen
    BY <2>1, AllSeen DEF IInv
  <2> QED  BY <2>2 DEF IInv, ReflectedInv
<1> QED  BY <1>1, Invariance, PTL

\* Whatever the memory map, Allocate gives out beside available memory only frames
\* behind everything the map describes.
THEOREM OnlyBehindMap == Spec => []UnavailableOnlyBehindMap
<1>1. IInv => UnavailableOnlyBehindMap
  <2> SUFFICES ASSUME IInv, NEW f \in Given \ Available(memory_map),
                      NEW i \in DOMAIN memory_map
               PROVE  f >= memory_map[i].start + memory_map[i].frames
    BY DEF UnavailableOnlyBehindMap
  <2>1. iter = Len(memory_map) + 1
    <3>1. blocks # {}
      BY DEF Given
    <3> QED  BY <3>1 DEF IInv, ReflectedInv, MapInv
  <2>2. f \in Nat /\ ~ (f < Seen)
    <3>1. f \in Frames
      BY DEF IInv, TypeOK, BlocksAreDisjoint
    <3> QED  BY <3>1, BitmapMemoryAssumption DEF IInv, ReflectedInv, Frames
  <2>3. /\ IsMemoryMap(memory_map) /\ Len(memory_map) \in Nat
        /\ i \in 1 .. Len(memory_map) /\ Len(memory_map) \in 1 .. Len(memory_map)
    BY DEF IInv, TypeOK, IsMemoryMap
  <2>4. Seen = memory_map[Len(memory_map)].start + memory_map[Len(memory_map)].frames
    BY <2>1, <2>3 DEF Seen
  <2>5. memory_map[i].start \in Nat /\ memory_map[i].frames \in Nat
    BY <2>3, Descriptor
  <2>6. /\ memory_map[Len(memory_map)].start \in Nat
        /\ memory_map[Len(memory_map)].frames \in Nat
    BY <2>3, Descriptor
  <2>7. CASE i = Len(memory_map)
    BY <2>2, <2>4, <2>6, <2>7
  <2>8. CASE i < Len(memory_map)
    <3>1. memory_map[i].start + memory_map[i].frames <= memory_map[Len(memory_map)].start
      BY <2>3, <2>8, Descriptor
    <3> QED  BY <2>2, <2>4, <2>5, <2>6, <3>1
  <2> QED  BY <2>3, <2>7, <2>8
<1> QED  BY <1>1, Invariance, PTL

\* Allocate returns the lowest block that fits, and fails only when none does.
THEOREM FirstFit == Spec => AllocateIsFirstFit
<1>1. ASSUME IInv, Found
      PROVE  Fits(start_frame_id) /\ \A s \in Frames : Fits(s) => start_frame_id <= s
  <2>1. Fits(start_frame_id)
    BY <1>1 DEF IInv, TypeOK, SearchInv, Found, Fits
  <2>2. \A s \in Nat : s < start_frame_id => ~ Fits(s)
    BY <1>1 DEF IInv, SearchInv, Found
  <2>3. start_frame_id \in Nat /\ Frames \subseteq Nat
    BY <1>1, BitmapMemoryAssumption DEF IInv, TypeOK, Frames
  <2> QED  BY <2>1, <2>2, <2>3
<1>2. ASSUME IInv, Fail, NEW s \in Frames
      PROVE  ~ Fits(s)
  <2>1. /\ start_frame_id \in Nat /\ offset \in Nat /\ num_frames \in Nat
        /\ offset < num_frames /\ start_frame_id + offset >= FrameCount
        /\ s \in Nat /\ s < FrameCount /\ FrameCount \in Nat
    BY <1>2, BitmapMemoryAssumption DEF IInv, TypeOK, Fail, Frame, Frames
  <2>2. CASE s < start_frame_id
    BY <1>2, <2>1, <2>2 DEF IInv, SearchInv, Fail
  <2>3. CASE s >= start_frame_id
    <3>1. FrameCount \in Block(s, num_frames)
      BY <2>1, <2>3 DEF Block
    <3> QED  BY <2>1, <3>1 DEF Fits
  <2> QED  BY <2>1, <2>2, <2>3
<1>3. IInv /\ [Next]_vars =>
        [/\ Found => Fits(start_frame_id)
                     /\ \A s \in Frames : Fits(s) => start_frame_id <= s
         /\ Fail => \A s \in Frames : ~ Fits(s)]_vars
  BY <1>1, <1>2
<1> QED  BY <1>3, Invariance, PTL DEF Spec, AllocateIsFirstFit

-----------------------------------------------------------------------------
(* The address spaces: the tables, and the paths through them.             *)

AllFrames == PoolFrames \cup KernelFrames
Memories == [AllFrames -> [Index -> PageMapEntry]]
AllAddresses == [1 .. Levels -> Index]

PathIn(m, root, a) ==
  LET path[n \in 1 .. Levels + 1] ==
        IF n = 1 THEN root
        ELSE IF path[n - 1] = NullFrame \/ ~m[path[n - 1]][a[n - 1]].present
             THEN NullFrame
             ELSE m[path[n - 1]][a[n - 1]].frame
  IN path

LEMMA PathIsPathIn == \A root, a : Path(root, a) = PathIn(memory, root, a)
  BY DEF Path, PathIn

LEMMA NullIsNoFrame == NullFrame \notin AllFrames
  BY AddressSpaceAssumption DEF AllFrames, NullFrame, KernelFrames, Kernel, Identity

LEMMA PathUnfolds ==
  ASSUME NEW m \in Memories, NEW root \in AllFrames, NEW a \in AllAddresses
  PROVE  /\ PathIn(m, root, a) \in [1 .. Levels + 1 -> AllFrames \cup {NullFrame}]
         /\ PathIn(m, root, a)[1] = root
         /\ \A n \in 1 .. Levels :
              PathIn(m, root, a)[n + 1] =
                IF PathIn(m, root, a)[n] = NullFrame \/ ~m[PathIn(m, root, a)[n]][a[n]].present
                THEN NullFrame ELSE m[PathIn(m, root, a)[n]][a[n]].frame
<1> DEFINE D == AllFrames \cup {NullFrame}
           After(n, x) == IF x = NullFrame \/ ~m[x][a[n]].present
                          THEN NullFrame ELSE m[x][a[n]].frame
           step == [n \in 1 .. Levels |-> [x \in D |-> After(n, x)]]
           Body(f) == [n \in 1 .. Levels + 1 |-> IF n = 1 THEN root ELSE After(n - 1, f[n - 1])]
<1>1. Levels \in Nat
  BY AddressSpaceAssumption
<1>2. ASSUME NEW n \in 1 .. Levels, NEW x \in D PROVE After(n, x) \in D
  <2>1. CASE x = NullFrame
    BY <2>1
  <2>2. CASE x # NullFrame
    <3>1. x \in AllFrames /\ a[n] \in Index
      BY <2>2 DEF AllAddresses
    <3>2. m[x][a[n]] \in PageMapEntry
      BY <3>1 DEF Memories
    <3>3. m[x][a[n]].frame \in AllFrames
      BY <3>2 DEF PageMapEntry, AllFrames
    <3> QED BY <3>3
  <2> QED BY <2>1, <2>2
<1>3. step \in [1 .. Levels -> [D -> D]]
  BY <1>2
<1>4. PICK f \in [1 .. Levels + 1 -> D] :
        f[1] = root /\ \A n \in 1 .. Levels : f[n + 1] = step[n][f[n]]
  <2> HIDE DEF step
  <2>0. root \in D
    OBVIOUS
  <2> HIDE DEF D
  <2>1. \E f : IsStepwise(f, Levels, D, root, step)
    BY <1>1, <1>3, <2>0, StepByStep
  <2> QED BY <2>1 DEF IsStepwise
<1>5. \A n \in 1 .. Levels : f[n + 1] = After(n, f[n])
  <2> TAKE n \in 1 .. Levels
  <2>1. f[n] \in D
    BY <1>1, <1>4
  <2> QED BY <1>4, <2>1
<1>6. f = Body(f)
  <2> HIDE DEF After
  <2>1. ASSUME NEW n \in 1 .. Levels + 1
        PROVE  f[n] = IF n = 1 THEN root ELSE After(n - 1, f[n - 1])
    <3>1. CASE n = 1
      BY <3>1, <1>4
    <3>2. CASE n # 1
      <4>1. n - 1 \in 1 .. Levels /\ (n - 1) + 1 = n
        BY <3>2, <1>1
      <4> QED BY <4>1, <1>5, <3>2
    <3> QED BY <3>1, <3>2
  <2> QED BY <2>1
<1> DEFINE p == CHOOSE g : g = Body(g)
<1>7. p = Body(p)
  BY <1>6
<1>8. PathIn(m, root, a) = p
  BY DEF PathIn
<1> HIDE DEF p
<1>9. p[1] = root
  BY <1>7, <1>1
<1>10. ASSUME NEW n \in 1 .. Levels PROVE p[n + 1] = After(n, p[n])
  <2>1. n + 1 \in 1 .. Levels + 1 /\ n + 1 # 1 /\ (n + 1) - 1 = n
    BY <1>1
  <2> HIDE DEF After
  <2> QED BY <1>7, <2>1
<1>11. p \in [1 .. Levels + 1 -> D]
  <2> DEFINE S == {n \in 1 .. Levels + 1 : p[n] \in D}
  <2>1. 1 \in S
    BY <1>1, <1>9
  <2>2. ASSUME NEW n \in 1 .. Levels, n \in S PROVE n + 1 \in S
    <3> HIDE DEF After
    <3>1. p[n] \in D /\ n + 1 \in 1 .. Levels + 1
      BY <2>2, <1>1
    <3> QED BY <3>1, <1>10, <1>2
  <2>3. 1 .. Levels + 1 \subseteq S
    <3> HIDE DEF S
    <3> QED BY <1>1, <2>1, <2>2, UpTo
  <2>4. \A n \in 1 .. Levels + 1 : p[n] \in D
    BY <2>3
  <2>5. p = [n \in 1 .. Levels + 1 |-> p[n]]
    <3> HIDE DEF After
    <3> QED BY <1>7
  <2> HIDE DEF D
  <2> QED BY <2>4, <2>5
<1> QED BY <1>8, <1>9, <1>10, <1>11

-----------------------------------------------------------------------------
(* The inductive invariant.                                                *)

Upper == {a \in AllAddresses : ~IsLower(a)}

OwnMap(t) == cr3[t] # Kernel

\* The way of address a in the page map of t.
Way(t, a) == PathIn(memory, cr3[t], a)

\* FramesSeparate, for all the addresses of the upper half.
WaysSeparate ==
  \A t, u \in Tasks : \A a, b \in Upper : \A n, m \in 1 .. Levels + 1 :
    OwnMap(t) /\ OwnMap(u) /\ Way(t, a)[n] # NullFrame
    => /\ Way(t, a)[n] \in allocated
       /\ Way(t, a)[n] = Way(u, b)[m] => t = u /\ n = m /\ SameBeginning(a, b, n)

EntriesOfUser ==
  \A t \in Tasks : \A a \in Upper : \A n \in 1 .. Levels :
    /\ OwnMap(t) /\ Way(t, a)[n] # NullFrame
    /\ memory[Way(t, a)[n]][a[n]].present
    => memory[Way(t, a)[n]][a[n]].user

KernelTablesKept ==
  /\ \A t \in Tasks : \A i \in LowerHalf : memory[cr3[t]][i] = Entry(Identity, FALSE)
  /\ \A i \in Index \ LowerHalf : memory[Kernel][i] = Absent
  /\ \A i \in Index : memory[Identity][i] = Entry(Identity, FALSE)

\* SetupPageMapForApp is on the way of its address, in the task's own page map or,
\* after a failure of SetupPML4, in the kernel's.
WalkOnWay ==
  \A t \in Tasks : at[t] \in {"walk", "link"} =>
    /\ addr[t] \in Upper
    /\ table[t] = Way(t, addr[t])[level[t]]
    /\ at[t] = "link" => OwnMap(t) /\ ~memory[table[t]][addr[t][level[t]]].present
    /\ ~OwnMap(t) => level[t] = 1

\* A task is without a page map before SetCR3, and later only for want of frames.
MapUnlessFull ==
  \A t \in Tasks :
    /\ at[t] \in {"start", "pml4"} => ~OwnMap(t)
    /\ at[t] = "pml4" /\ found[t] = NullFrame => allocated = PoolFrames
    /\ at[t] \notin {"start", "pml4"} /\ ~OwnMap(t) => allocated = PoolFrames

TouchedInv ==
  \A t \in Tasks : \A a \in touched[t] :
    /\ OwnMap(t) /\ a \in Upper
    /\ Way(t, a)[Levels + 1] # NullFrame

HaltInv == (\E t \in Tasks : at[t] = "halted") => illegal \/ allocated = PoolFrames

Good ==
  /\ WaysSeparate
  /\ EntriesOfUser
  /\ KernelTablesKept
  /\ WalkOnWay
  /\ MapUnlessFull
  /\ TouchedInv
  /\ HaltInv

FoundInv == \A t \in Tasks : at[t] = "link" => found[t] \in PoolFrames

SpaceInv ==
  /\ MapsTypeOK
  /\ FaultTakesFreeFrame
  /\ FoundInv
  /\ ~twice /\ ~dirty => Good

-----------------------------------------------------------------------------
(* Types.                                                                  *)

LEMMA Constants ==
  /\ Levels \in Nat /\ Levels >= 2 /\ 1 \in 1 .. Levels
  /\ 0 \in Index
  /\ PoolFrames \subseteq Nat /\ PoolFrames \cap KernelFrames = {}
  /\ Kernel \notin PoolFrames /\ Identity \notin PoolFrames /\ NullFrame \notin PoolFrames
  /\ Kernel \in AllFrames /\ Identity \in AllFrames
  /\ PoolFrames \subseteq AllFrames /\ AllFrames = PoolFrames \cup {Kernel, Identity}
  /\ NullFrame \notin AllFrames /\ Kernel # Identity
  /\ Addresses \subseteq AllAddresses /\ Base \in AllAddresses /\ Base \in Upper
  BY AddressSpaceAssumption
     DEF Index, KernelFrames, Kernel, Identity, NullFrame, AllFrames, AllAddresses, Upper

LEMMA Entries ==
  /\ Absent \in PageMapEntry /\ ~Absent.present
  /\ \A f \in AllFrames : \A user \in BOOLEAN :
       /\ Entry(f, user) \in PageMapEntry
       /\ Entry(f, user).present /\ Entry(f, user).frame = f /\ Entry(f, user).user = user
  BY DEF Absent, Entry, PageMapEntry, AllFrames, KernelFrames, Kernel

LEMMA EntryType ==
  ASSUME NEW m \in Memories, NEW f \in AllFrames, NEW i \in Index
  PROVE  m[f][i] \in PageMapEntry /\ m[f][i].frame \in AllFrames /\ m[f][i].present \in BOOLEAN
<1>1. m[f][i] \in PageMapEntry
  BY DEF Memories
<1> QED BY <1>1 DEF PageMapEntry, AllFrames

LEMMA FirstFreeIsFree ==
  ASSUME MapsTypeOK
  PROVE  \/ FirstFree = NullFrame /\ allocated = PoolFrames
         \/ FirstFree \in PoolFrames /\ FirstFree \notin allocated /\ FirstFree # NullFrame
<1> DEFINE free == PoolFrames \ allocated
<1>1. CASE free = {}
  BY <1>1 DEF FirstFree, MapsTypeOK
<1>2. CASE free # {}
  <2>1. free \subseteq Nat
    BY Constants
  <2>2. \E x \in free : \A y \in free : x <= y
    BY <1>2, <2>1, LeastElement
  <2>3. Min(free) \in free
    <3> HIDE DEF free
    <3> QED BY <2>2 DEF Min
  <2>4. FirstFree = Min(free)
    BY <1>2 DEF FirstFree
  <2> QED BY <2>3, <2>4, Constants
<1> QED BY <1>1, <1>2

LEMMA InitType == MapsInit => MapsTypeOK
<1> SUFFICES ASSUME MapsInit PROVE MapsTypeOK
  OBVIOUS
<1>1. memory \in Memories
  <2>1. contents \in [Index -> PageMapEntry]
    BY AddressSpaceAssumption DEF MapsInit
  <2>2. [i \in Index |-> IF i \in LowerHalf THEN Entry(Identity, FALSE) ELSE Absent]
          \in [Index -> PageMapEntry]
    BY Entries, Constants
  <2>3. [i \in Index |-> Entry(Identity, FALSE)] \in [Index -> PageMapEntry]
    BY Entries, Constants
  <2> QED BY <2>1, <2>2, <2>3 DEF MapsInit, Memories, AllFrames
<1> QED
  BY <1>1, Constants DEF MapsInit, MapsTypeOK, Memories, AllFrames

BasicInv == MapsTypeOK /\ FaultTakesFreeFrame /\ FoundInv

\* The places of a task, and the result of SetupPageMapForApp.
Places == {"start", "pml4", "walk", "link", "run", "sleep", "halted"}

LEMMA GotoType ==
  ASSUME MapsTypeOK, NEW t \in Tasks, NEW where \in Places, Goto(t, where)
  PROVE  /\ at' \in [Tasks -> Places]
         /\ at'[t] = where /\ \A u \in Tasks : u # t => at'[u] = at[u]
  BY DEF MapsTypeOK, Goto, Places

LEMMA EndSetupEffect ==
  ASSUME MapsTypeOK, NEW t \in Tasks, MayRun(t), NEW result \in {0, 1}, EndSetup(t, result)
  PROVE  /\ at' \in [Tasks -> Places]
         /\ handler' \in Tasks \cup {NoTask}
         /\ at'[t] = IF handler = t /\ result = 0 THEN "halted" ELSE "run"
         /\ \A u \in Tasks : u # t => at'[u] = at[u]
         /\ handler' # NoTask => handler' = t /\ at'[t] = "halted"
<1> DEFINE where == IF handler = t /\ result = 0 THEN "halted" ELSE "run"
<1>1. Goto(t, where)
  BY DEF EndSetup
<1>2. where \in Places
  BY DEF Places
<1> HIDE DEF where
<1>3. /\ at' \in [Tasks -> Places]
      /\ at'[t] = where /\ \A u \in Tasks : u # t => at'[u] = at[u]
  BY <1>1, <1>2, GotoType
<1> USE DEF where
<1> QED BY <1>3 DEF EndSetup, MayRun, MapsTypeOK

LEMMA DescendEffect ==
  ASSUME MapsTypeOK, NEW t \in Tasks, MayRun(t), at[t] \in {"walk", "link"},
         NEW f \in AllFrames, Descend(t, f)
  PROVE  /\ at' \in [Tasks -> Places]
         /\ handler' \in Tasks \cup {NoTask}
         /\ level' \in [Tasks -> 1 .. Levels]
         /\ table' \in [Tasks -> AllFrames]
         /\ handler' # NoTask => at'[handler'] = "walk" /\ handler' = t
         /\ \A u \in Tasks : u # t =>
              at'[u] = at[u] /\ level'[u] = level[u] /\ table'[u] = table[u]
         /\ \/ level[t] = Levels /\ at'[t] = "run" /\ handler' = NoTask
            \/ /\ level[t] < Levels /\ at'[t] = "walk"
               /\ level'[t] = level[t] + 1 /\ table'[t] = f
<1>0. level[t] \in 1 .. Levels /\ level \in [Tasks -> 1 .. Levels] /\ table \in [Tasks -> AllFrames]
  BY DEF MapsTypeOK, AllFrames
<1>1. CASE level[t] = Levels
  <2>1. EndSetup(t, 1) /\ UNCHANGED <<level, table>>
    BY <1>1 DEF Descend
  <2>2. /\ at' \in [Tasks -> Places]
        /\ handler' \in Tasks \cup {NoTask}
        /\ at'[t] = "run"
        /\ \A u \in Tasks : u # t => at'[u] = at[u]
        /\ handler' # NoTask => at'[t] = "halted"
    BY <2>1, EndSetupEffect
  <2> QED BY <1>0, <1>1, <2>1, <2>2
<1>2. CASE level[t] # Levels
  <2>1. /\ level' = [level EXCEPT ![t] = @ + 1] /\ table' = [table EXCEPT ![t] = f]
        /\ Goto(t, "walk") /\ handler' = handler
    BY <1>2 DEF Descend
  <2>2. /\ at' \in [Tasks -> Places]
        /\ at'[t] = "walk" /\ \A u \in Tasks : u # t => at'[u] = at[u]
    BY <2>1, GotoType DEF Places
  <2>3. level[t] < Levels /\ level[t] + 1 \in 1 .. Levels
    BY <1>0, <1>2, Constants
  <2>4. handler' \in Tasks \cup {NoTask} /\ (handler' # NoTask => handler' = t)
    BY <2>1 DEF MayRun, MapsTypeOK
  <2> QED BY <1>0, <2>1, <2>2, <2>3, <2>4
<1> QED BY <1>1, <1>2

LEMMA SetupPML4Basic ==
  ASSUME BasicInv, NEW t \in Tasks, SetupPML4(t)
  PROVE  BasicInv'
<1>1. MapsTypeOK /\ FaultTakesFreeFrame /\ FoundInv /\ at[t] = "start" /\ MayRun(t)
  BY DEF BasicInv, SetupPML4
<1>2. /\ at' \in [Tasks -> Places]
      /\ at'[t] = "pml4" /\ \A u \in Tasks : u # t => at'[u] = at[u]
  BY <1>1, GotoType DEF SetupPML4, Places
<1>3. FirstFree \in PoolFrames \cup {NullFrame}
  BY <1>1, FirstFreeIsFree
<1>4. /\ found' \in [Tasks -> PoolFrames \cup {NullFrame}]
      /\ \A u \in Tasks : u # t => found'[u] = found[u]
  BY <1>1, <1>3 DEF SetupPML4, MapsTypeOK
<1>5. UNCHANGED <<contents, memory, allocated, cr3, addr, level, table, handler, history>>
  BY DEF SetupPML4
<1>6. handler = NoTask \/ handler # t
  BY <1>1 DEF MapsTypeOK
<1>7. MapsTypeOK'
  BY <1>1, <1>2, <1>4, <1>5, <1>6 DEF MapsTypeOK, history, Places
<1>8. FaultTakesFreeFrame' /\ FoundInv'
  BY <1>1, <1>2, <1>4, <1>5, <1>6 DEF FaultTakesFreeFrame, FoundInv, MapsTypeOK
<1> QED BY <1>7, <1>8 DEF BasicInv

LEMMA MemoryUpdate ==
  ASSUME NEW m \in Memories, NEW f \in AllFrames, NEW tab \in [Index -> PageMapEntry]
  PROVE  /\ [m EXCEPT ![f] = tab] \in Memories
         /\ [m EXCEPT ![f] = tab][f] = tab
         /\ \A g \in AllFrames : g # f => [m EXCEPT ![f] = tab][g] = m[g]
  BY DEF Memories

LEMMA CopiedTable ==
  ASSUME MapsTypeOK, NEW f
  PROVE  CopyLowerHalf(f) \in [Index -> PageMapEntry]
<1>1. memory \in Memories
  BY DEF MapsTypeOK, Memories, AllFrames
<1>2. \A i \in Index : memory[Kernel][i] \in PageMapEntry
  BY <1>1, EntryType, Constants
<1> QED BY <1>2, Entries DEF CopyLowerHalf

LEMMA SetCR3Basic ==
  ASSUME BasicInv, NEW t \in Tasks, SetCR3(t)
  PROVE  BasicInv'
<1>1. MapsTypeOK /\ FaultTakesFreeFrame /\ FoundInv /\ at[t] = "pml4" /\ MayRun(t)
  BY DEF BasicInv, SetCR3
<1> DEFINE f == found[t]
<1>2. /\ at' \in [Tasks -> Places]
      /\ at'[t] = "walk" /\ \A u \in Tasks : u # t => at'[u] = at[u]
  BY <1>1, GotoType DEF SetCR3, Places
<1>3. handler = NoTask
  BY <1>1 DEF MapsTypeOK, MayRun
<1>4. UNCHANGED <<contents, found, handler, touched, dirty, illegal>>
  BY DEF SetCR3
<1>5. \E root \in PoolFrames \cup {Kernel} : Enter(t, Base, root)
  <2>1. CASE f = NullFrame
    BY <1>1, <2>1 DEF SetCR3, MapsTypeOK
  <2>2. CASE f # NullFrame
    BY <1>1, <2>2 DEF SetCR3, MapsTypeOK
  <2> QED BY <2>1, <2>2
<1>6. /\ addr' \in [Tasks -> Addresses \cup {Base}] /\ level' \in [Tasks -> 1 .. Levels]
      /\ table' \in [Tasks -> PoolFrames \cup KernelFrames]
  BY <1>1, <1>5, Constants DEF Enter, MapsTypeOK, KernelFrames
<1>7. /\ memory' \in Memories /\ allocated' \subseteq PoolFrames
      /\ cr3' \in [Tasks -> PoolFrames \cup {Kernel}] /\ twice' \in BOOLEAN
  <2>0. memory \in Memories
    BY <1>1 DEF MapsTypeOK, Memories, AllFrames
  <2>1. CASE f = NullFrame
    BY <1>1, <2>0, <2>1 DEF SetCR3, MapsTypeOK
  <2>2. CASE f # NullFrame
    <3>1. f \in PoolFrames /\ f \in AllFrames
      BY <1>1, <2>2, Constants DEF MapsTypeOK
    <3>2. /\ memory' = [memory EXCEPT ![f] = CopyLowerHalf(f)]
          /\ cr3' = [cr3 EXCEPT ![t] = f]
          /\ allocated' = allocated \cup {f} /\ twice' = (twice \/ f \in allocated)
      BY <2>2 DEF SetCR3, MarkAllocated
    <3>3. memory' \in Memories
      BY <1>1, <2>0, <3>1, <3>2, CopiedTable, MemoryUpdate
    <3>4. twice' \in BOOLEAN
      BY <3>2
    <3>5. allocated' \subseteq PoolFrames /\ cr3' \in [Tasks -> PoolFrames \cup {Kernel}]
      BY <1>1, <3>1, <3>2 DEF MapsTypeOK
    <3> QED BY <3>3, <3>4, <3>5
  <2> QED BY <2>1, <2>2
<1>8. MapsTypeOK'
  BY <1>1, <1>2, <1>3, <1>4, <1>6, <1>7 DEF MapsTypeOK, Places, Memories, AllFrames
<1>9. FaultTakesFreeFrame' /\ FoundInv'
  BY <1>1, <1>2, <1>3, <1>4 DEF FaultTakesFreeFrame, FoundInv
<1> QED BY <1>8, <1>9 DEF BasicInv

LEMMA LookBasic ==
  ASSUME BasicInv, NEW t \in Tasks, Look(t)
  PROVE  BasicInv'
<1>1. MapsTypeOK /\ FaultTakesFreeFrame /\ FoundInv /\ at[t] = "walk" /\ MayRun(t)
  BY DEF BasicInv, Look
<1>2. UNCHANGED <<contents, memory, allocated, cr3, addr, history>>
  BY DEF Look
<1>3. /\ memory \in Memories /\ table[t] \in AllFrames /\ level[t] \in 1 .. Levels
      /\ addr[t] \in AllAddresses
  BY <1>1, Constants DEF MapsTypeOK, Memories, AllFrames
<1>4. addr[t][level[t]] \in Index
  BY <1>3 DEF AllAddresses
<1> DEFINE entry == memory[table[t]][addr[t][level[t]]]
<1>5. entry.frame \in AllFrames
  BY <1>3, <1>4, EntryType
<1> HIDE DEF entry
<1>6. handler \in {NoTask, t} /\ NoTask \notin Tasks
  BY <1>1, AddressSpaceAssumption DEF MayRun
<1>7. CASE entry.present /\ Descend(t, entry.frame) /\ UNCHANGED found
  <2>1. /\ at' \in [Tasks -> Places]
        /\ handler' \in Tasks \cup {NoTask}
        /\ level' \in [Tasks -> 1 .. Levels]
        /\ table' \in [Tasks -> AllFrames]
        /\ handler' # NoTask => at'[handler'] = "walk"
        /\ \A u \in Tasks : u # t => at'[u] = at[u]
        /\ at'[t] \in {"run", "walk"}
    BY <1>1, <1>5, <1>7, DescendEffect
  <2>2. MapsTypeOK'
    BY <1>1, <1>2, <1>7, <2>1 DEF MapsTypeOK, history, Places, AllFrames
  <2>3. FaultTakesFreeFrame' /\ FoundInv'
    BY <1>1, <1>2, <1>7, <2>1 DEF FaultTakesFreeFrame, FoundInv
  <2> QED BY <2>2, <2>3 DEF BasicInv
<1>8. CASE /\ found' = [found EXCEPT ![t] = FirstFree]
           /\ IF FirstFree = NullFrame THEN EndSetup(t, 0) ELSE Goto(t, "link") /\ UNCHANGED handler
           /\ UNCHANGED <<level, table>>
  <2>0. /\ found' \in [Tasks -> PoolFrames \cup {NullFrame}]
        /\ found'[t] = FirstFree
        /\ \A u \in Tasks : u # t => found'[u] = found[u]
    BY <1>1, <1>8, FirstFreeIsFree DEF MapsTypeOK
  <2>1. CASE FirstFree = NullFrame
    <3>0. EndSetup(t, 0)
      BY <1>8, <2>1
    <3>1. /\ at' \in [Tasks -> Places]
          /\ handler' \in Tasks \cup {NoTask}
          /\ at'[t] \in {"halted", "run"}
          /\ \A u \in Tasks : u # t => at'[u] = at[u]
          /\ handler' # NoTask => handler' = t /\ at'[t] = "halted"
      BY <1>1, <3>0, EndSetupEffect
    <3>2. MapsTypeOK'
      BY <1>1, <1>2, <1>8, <2>0, <3>1 DEF MapsTypeOK, history, Places
    <3>3. FaultTakesFreeFrame' /\ FoundInv'
      BY <1>1, <1>2, <2>0, <3>1 DEF FaultTakesFreeFrame, FoundInv
    <3> QED BY <3>2, <3>3 DEF BasicInv
  <2>2. CASE FirstFree # NullFrame
    <3>0. Goto(t, "link") /\ handler' = handler
      BY <1>8, <2>2
    <3>1. /\ at' \in [Tasks -> Places]
          /\ at'[t] = "link" /\ \A u \in Tasks : u # t => at'[u] = at[u]
      BY <1>1, <3>0, GotoType DEF Places
    <3>2. FirstFree \in PoolFrames /\ FirstFree \notin allocated
      BY <1>1, <2>2, FirstFreeIsFree
    <3>3. MapsTypeOK'
      BY <1>1, <1>2, <1>6, <1>8, <2>0, <3>0, <3>1 DEF MapsTypeOK, history, Places
    <3>4. FaultTakesFreeFrame' /\ FoundInv'
      BY <1>1, <1>2, <1>6, <2>0, <3>0, <3>1, <3>2 DEF FaultTakesFreeFrame, FoundInv
    <3> QED BY <3>3, <3>4 DEF BasicInv
  <2> QED BY <2>1, <2>2
<1> QED BY <1>7, <1>8 DEF Look, entry

\* What Link does to the memory: the frame found loses its first entry, and becomes
\* the entry at the end of the walk.
LEMMA LinkMemory ==
  ASSUME MapsTypeOK, NEW t \in Tasks, Link(t), found[t] \in PoolFrames
  PROVE  /\ memory \in Memories /\ memory' \in Memories
         /\ table[t] \in AllFrames /\ level[t] \in 1 .. Levels
         /\ addr[t] \in AllAddresses /\ addr[t][level[t]] \in Index
         /\ memory'[table[t]][addr[t][level[t]]] = NewEntry(found[t])
         /\ \A g \in AllFrames : \A i \in Index :
              g # found[t] /\ ~(g = table[t] /\ i = addr[t][level[t]])
              => memory'[g][i] = memory[g][i]
         /\ table[t] # found[t] =>
              \A i \in Index : memory'[found[t]][i] = IF i = 0 THEN Absent ELSE memory[found[t]][i]
<1> DEFINE f == found[t]
           g == table[t]
           k == addr[t][level[t]]
           new == [memory EXCEPT ![f] = Cleared(f)]
           tab == [new[g] EXCEPT ![k] = NewEntry(f)]
<1>1. /\ memory \in Memories /\ g \in AllFrames /\ level[t] \in 1 .. Levels
      /\ addr[t] \in AllAddresses /\ f \in AllFrames
  BY Constants DEF MapsTypeOK, Memories, AllFrames
<1>2. k \in Index
  BY <1>1 DEF AllAddresses
<1>3. memory' = [new EXCEPT ![g][k] = NewEntry(f)]
  BY DEF Link
<1>4. Cleared(f) \in [Index -> PageMapEntry]
      /\ \A i \in Index : Cleared(f)[i] = IF i = 0 THEN Absent ELSE memory[f][i]
  <2>1. memory[f] \in [Index -> PageMapEntry]
    BY <1>1 DEF Memories
  <2> HIDE DEF f
  <2> QED BY <2>1, Entries, Constants DEF Cleared
<1> HIDE DEF f, g, k
<1>5. /\ new \in Memories /\ new[f] = Cleared(f)
      /\ \A h \in AllFrames : h # f => new[h] = memory[h]
  BY <1>1, <1>4, MemoryUpdate
<1> HIDE DEF new
<1>6. NewEntry(f) \in PageMapEntry
  BY <1>1, Entries DEF NewEntry
<1>7. new[g] \in [Index -> PageMapEntry]
  BY <1>1, <1>5 DEF Memories
<1>8. /\ tab \in [Index -> PageMapEntry] /\ tab[k] = NewEntry(f)
      /\ \A i \in Index : i # k => tab[i] = new[g][i]
  BY <1>2, <1>6, <1>7
<1>9. memory' = [new EXCEPT ![g] = tab]
  BY <1>1, <1>3, <1>5 DEF Memories
<1> HIDE DEF tab
<1>10. /\ memory' \in Memories /\ memory'[g] = tab
       /\ \A h \in AllFrames : h # g => memory'[h] = new[h]
  <2> DEFINE after == [new EXCEPT ![g] = tab]
  <2>1. new \in Memories /\ g \in AllFrames /\ tab \in [Index -> PageMapEntry]
    BY <1>1, <1>5, <1>8
  <2>2. /\ after \in Memories /\ after[g] = tab
        /\ \A h \in AllFrames : h # g => after[h] = new[h]
    BY <2>1, MemoryUpdate
  <2> QED BY <1>9, <2>2
<1>11. \A h \in AllFrames : \A i \in Index :
         h # f /\ ~(h = g /\ i = k) => memory'[h][i] = memory[h][i]
  BY <1>5, <1>8, <1>10
<1>12. g # f => \A i \in Index : memory'[f][i] = IF i = 0 THEN Absent ELSE memory[f][i]
  BY <1>1, <1>4, <1>5, <1>10
<1>13. memory'[g][k] = NewEntry(f)
  BY <1>8, <1>10
<1> QED BY <1>1, <1>2, <1>10, <1>11, <1>12, <1>13 DEF f, g, k

LEMMA LinkBasic ==
  ASSUME BasicInv, NEW t \in Tasks, Link(t)
  PROVE  BasicInv'
<1>1. MapsTypeOK /\ FaultTakesFreeFrame /\ FoundInv /\ at[t] = "link" /\ MayRun(t)
  BY DEF BasicInv, Link
<1>2. found[t] \in PoolFrames /\ found[t] \in AllFrames
  BY <1>1, Constants DEF FoundInv
<1>3. UNCHANGED <<contents, cr3, addr, found, touched, illegal>>
  BY DEF Link
<1>4. memory' \in Memories
  BY <1>1, <1>2, LinkMemory
<1>5. Descend(t, found[t])
  BY DEF Link
<1>6. /\ at' \in [Tasks -> Places]
      /\ handler' \in Tasks \cup {NoTask}
      /\ level' \in [Tasks -> 1 .. Levels]
      /\ table' \in [Tasks -> AllFrames]
      /\ handler' # NoTask => at'[handler'] = "walk"
      /\ \A u \in Tasks : u # t => at'[u] = at[u]
      /\ at'[t] \in {"run", "walk"}
  BY <1>1, <1>2, <1>5, DescendEffect
<1>7. allocated' \subseteq PoolFrames /\ twice' \in BOOLEAN
  BY <1>1, <1>2 DEF Link, MarkAllocated, MapsTypeOK
<1>8. dirty' \in BOOLEAN
  BY DEF Link
<1>9. MapsTypeOK'
  BY <1>1, <1>3, <1>4, <1>6, <1>7, <1>8 DEF MapsTypeOK, Places, AllFrames, Memories
<1>10. FaultTakesFreeFrame' /\ FoundInv'
  BY <1>1, <1>3, <1>6 DEF FaultTakesFreeFrame, FoundInv
<1> QED BY <1>9, <1>10 DEF BasicInv

LEMMA EnterType ==
  ASSUME MapsTypeOK, NEW t \in Tasks, NEW a \in Addresses \cup {Base},
         NEW root \in PoolFrames \cup {Kernel}, Enter(t, a, root)
  PROVE  /\ addr' \in [Tasks -> Addresses \cup {Base}] /\ level' \in [Tasks -> 1 .. Levels]
         /\ table' \in [Tasks -> AllFrames]
         /\ addr'[t] = a /\ level'[t] = 1 /\ table'[t] = root
         /\ \A u \in Tasks : u # t =>
              addr'[u] = addr[u] /\ level'[u] = level[u] /\ table'[u] = table[u]
  BY Constants DEF Enter, MapsTypeOK, AllFrames

LEMMA AccessBasic ==
  ASSUME BasicInv, NEW t \in Tasks, NEW a \in Addresses, Access(t, a)
  PROVE  BasicInv'
<1>1. /\ MapsTypeOK /\ FaultTakesFreeFrame /\ FoundInv /\ at[t] = "run" /\ handler = NoTask
      /\ NoTask \notin Tasks
  BY AddressSpaceAssumption DEF BasicInv, Access
<1>2. UNCHANGED <<contents, memory, allocated, cr3, found, twice, dirty>>
  BY DEF Access
<1>3. CASE /\ touched' = [touched EXCEPT ![t] = @ \cup {a}]
           /\ UNCHANGED <<at, addr, level, table, handler, illegal>>
  <2>1. MapsTypeOK'
    BY <1>1, <1>2, <1>3 DEF MapsTypeOK
  <2>2. FaultTakesFreeFrame' /\ FoundInv'
    BY <1>1, <1>2, <1>3 DEF FaultTakesFreeFrame, FoundInv
  <2> QED BY <2>1, <2>2 DEF BasicInv
<1>4. CASE /\ handler' = t /\ Enter(t, a, cr3[t]) /\ Goto(t, "walk")
           /\ UNCHANGED <<touched, illegal>>
  <2>1. /\ at' \in [Tasks -> Places]
        /\ at'[t] = "walk" /\ \A u \in Tasks : u # t => at'[u] = at[u]
    BY <1>1, <1>4, GotoType DEF Places
  <2>2. cr3[t] \in PoolFrames \cup {Kernel}
    BY <1>1 DEF MapsTypeOK
  <2>3. /\ addr' \in [Tasks -> Addresses \cup {Base}] /\ level' \in [Tasks -> 1 .. Levels]
        /\ table' \in [Tasks -> AllFrames]
    BY <1>1, <1>4, <2>2, EnterType
  <2>4. MapsTypeOK'
    BY <1>1, <1>2, <1>4, <2>1, <2>3 DEF MapsTypeOK, Places, AllFrames
  <2>5. FaultTakesFreeFrame' /\ FoundInv'
    BY <1>1, <1>2, <1>4, <2>1 DEF FaultTakesFreeFrame, FoundInv
  <2> QED BY <2>4, <2>5 DEF BasicInv
<1>5. CASE /\ handler' = t /\ illegal' = (illegal \/ IsLower(a)) /\ Goto(t, "halted")
           /\ UNCHANGED <<addr, level, table, touched>>
  <2>1. /\ at' \in [Tasks -> Places]
        /\ at'[t] = "halted" /\ \A u \in Tasks : u # t => at'[u] = at[u]
    BY <1>1, <1>5, GotoType DEF Places
  <2>2. illegal' \in BOOLEAN
    BY <1>5
  <2>3. MapsTypeOK'
    BY <1>1, <1>2, <1>5, <2>1, <2>2 DEF MapsTypeOK, Places
  <2>4. FaultTakesFreeFrame' /\ FoundInv'
    BY <1>1, <1>2, <1>5, <2>1 DEF FaultTakesFreeFrame, FoundInv
  <2> QED BY <2>3, <2>4 DEF BasicInv
<1> QED BY <1>3, <1>4, <1>5 DEF Access

LEMMA ExitBasic ==
  ASSUME BasicInv, NEW t \in Tasks, Exit(t)
  PROVE  BasicInv'
<1>1. /\ MapsTypeOK /\ FaultTakesFreeFrame /\ FoundInv /\ at[t] = "run" /\ MayRun(t)
  BY DEF BasicInv, Exit
<1>2. /\ at' \in [Tasks -> Places]
      /\ at'[t] = "sleep" /\ \A u \in Tasks : u # t => at'[u] = at[u]
  BY <1>1, GotoType DEF Exit, Places
<1>3. UNCHANGED <<contents, memory, allocated, cr3, walk, handler, history>>
  BY DEF Exit
<1>4. handler = NoTask
  BY <1>1 DEF MapsTypeOK, MayRun
<1>5. MapsTypeOK'
  BY <1>1, <1>2, <1>3, <1>4 DEF MapsTypeOK, Places, walk, history
<1>6. FaultTakesFreeFrame' /\ FoundInv'
  BY <1>1, <1>2, <1>3, <1>4 DEF FaultTakesFreeFrame, FoundInv, walk, history
<1> QED BY <1>5, <1>6 DEF BasicInv

LEMMA BasicStep == BasicInv /\ [MapsNext]_mapsVars => BasicInv'
<1> SUFFICES ASSUME BasicInv, [MapsNext]_mapsVars PROVE BasicInv'
  OBVIOUS
<1>1. CASE UNCHANGED mapsVars
  BY <1>1 DEF mapsVars, walk, history, BasicInv, MapsTypeOK, FaultTakesFreeFrame, FoundInv
<1>2. CASE MapsNext
  BY <1>2, SetupPML4Basic, SetCR3Basic, LookBasic, LinkBasic, ExitBasic, AccessBasic DEF MapsNext
<1> QED BY <1>1, <1>2

LEMMA BasicHolds == MapsSpec => []BasicInv
<1>1. MapsInit => BasicInv
  BY InitType, AddressSpaceAssumption
     DEF BasicInv, FaultTakesFreeFrame, FoundInv, MapsInit
<1> QED BY <1>1, BasicStep, PTL DEF MapsSpec

-----------------------------------------------------------------------------
(* Ways down the tables.                                                   *)

LEMMA NullStays ==
  ASSUME NEW m \in Memories, NEW root \in AllFrames, NEW a \in AllAddresses,
         NEW n \in 1 .. Levels + 1, PathIn(m, root, a)[n] = NullFrame
  PROVE  \A k \in n .. Levels + 1 : PathIn(m, root, a)[k] = NullFrame
<1> DEFINE p == PathIn(m, root, a)
           S == {k \in 1 .. Levels + 1 : n <= k => p[k] = NullFrame}
<1>1. 1 \in S
  BY Constants
<1>2. ASSUME NEW k \in 1 .. Levels, k \in S PROVE k + 1 \in S
  <2>1. k + 1 \in 1 .. Levels + 1
    BY Constants
  <2>2. CASE n <= k
    <3>1. p[k] = NullFrame
      BY <1>2, <2>2
    <3>2. p[k + 1] = NullFrame
      BY <3>1, PathUnfolds
    <3> QED BY <2>1, <3>2
  <2>3. CASE n = k + 1
    BY <2>1, <2>3
  <2>4. CASE ~ (n <= k + 1)
    BY <2>1, <2>4
  <2> QED BY <2>2, <2>3, <2>4
<1>3. 1 .. Levels + 1 \subseteq S
  <2> HIDE DEF S
  <2> QED BY <1>1, <1>2, UpTo, Constants
<1>4. ASSUME NEW k \in n .. Levels + 1 PROVE p[k] = NullFrame
  <2>1. k \in 1 .. Levels + 1 /\ n <= k
    BY Constants
  <2>2. k \in S
    <3> HIDE DEF S
    <3> QED BY <1>3, <2>1
  <2> QED BY <2>1, <2>2
<1> QED BY <1>4

LEMMA SameBeginningSamePath ==
  ASSUME NEW m \in Memories, NEW root \in AllFrames, NEW a \in AllAddresses, NEW b \in AllAddresses,
         NEW n \in 1 .. Levels + 1, SameBeginning(a, b, n)
  PROVE  PathIn(m, root, a)[n] = PathIn(m, root, b)[n]
<1> DEFINE p == PathIn(m, root, a)
           q == PathIn(m, root, b)
           S == {k \in 1 .. Levels + 1 : k <= n => p[k] = q[k]}
<1>1. 1 \in S
  BY Constants, PathUnfolds
<1>2. ASSUME NEW k \in 1 .. Levels, k \in S PROVE k + 1 \in S
  <2>1. k + 1 \in 1 .. Levels + 1
    BY Constants
  <2>2. CASE k + 1 <= n
    <3>1. p[k] = q[k]
      BY <1>2, <2>2
    <3>2. k \in 1 .. n - 1
      BY <2>2
    <3>3. a[k] = b[k]
      BY <3>2 DEF SameBeginning
    <3>4. p[k + 1] = q[k + 1]
      BY <3>1, <3>3, PathUnfolds
    <3> QED BY <2>1, <3>4
  <2>3. CASE ~ (k + 1 <= n)
    BY <2>1, <2>3
  <2> QED BY <2>2, <2>3
<1>3. 1 .. Levels + 1 \subseteq S
  <2> HIDE DEF S
  <2> QED BY <1>1, <1>2, UpTo, Constants
<1>4. n \in S
  <2> HIDE DEF S
  <2> QED BY <1>3
<1> QED BY <1>4

\* A change of the memory that no entry on a path sees leaves the path alone.
LEMMA PathUntouched ==
  ASSUME NEW m \in Memories, NEW m2 \in Memories, NEW root \in AllFrames, NEW a \in AllAddresses,
         \A n \in 1 .. Levels : PathIn(m, root, a)[n] # NullFrame =>
           m2[PathIn(m, root, a)[n]][a[n]] = m[PathIn(m, root, a)[n]][a[n]]
  PROVE  \A n \in 1 .. Levels + 1 : PathIn(m2, root, a)[n] = PathIn(m, root, a)[n]
<1> DEFINE p == PathIn(m, root, a)
           q == PathIn(m2, root, a)
           S == {k \in 1 .. Levels + 1 : q[k] = p[k]}
<1>1. 1 \in S
  BY Constants, PathUnfolds
<1>2. ASSUME NEW k \in 1 .. Levels, k \in S PROVE k + 1 \in S
  <2>1. k + 1 \in 1 .. Levels + 1
    BY Constants
  <2>2. q[k] = p[k]
    BY <1>2
  <2>3. /\ p[k + 1] = IF p[k] = NullFrame \/ ~m[p[k]][a[k]].present
                      THEN NullFrame ELSE m[p[k]][a[k]].frame
        /\ q[k + 1] = IF q[k] = NullFrame \/ ~m2[q[k]][a[k]].present
                      THEN NullFrame ELSE m2[q[k]][a[k]].frame
    BY PathUnfolds
  <2>4. q[k + 1] = p[k + 1]
    <3> HIDE DEF p, q
    <3>1. CASE p[k] = NullFrame
      BY <2>2, <2>3, <3>1
    <3>2. CASE p[k] # NullFrame
      <4>1. m2[p[k]][a[k]] = m[p[k]][a[k]]
        BY <3>2 DEF p
      <4> QED BY <2>2, <2>3, <4>1
    <3> QED BY <3>1, <3>2
  <2> QED BY <2>1, <2>4
<1>3. 1 .. Levels + 1 \subseteq S
  <2> HIDE DEF S
  <2> QED BY <1>1, <1>2, UpTo, Constants
<1> QED BY <1>3

LEMMA WayUnfolds ==
  ASSUME MapsTypeOK, NEW t \in Tasks, NEW a \in AllAddresses
  PROVE  /\ Way(t, a) = Path(cr3[t], a)
         /\ memory \in Memories /\ cr3[t] \in AllFrames
         /\ Way(t, a)[1] = cr3[t]
         /\ \A n \in 1 .. Levels + 1 : Way(t, a)[n] \in AllFrames \cup {NullFrame}
         /\ \A n \in 1 .. Levels :
              Way(t, a)[n + 1] =
                IF Way(t, a)[n] = NullFrame \/ ~memory[Way(t, a)[n]][a[n]].present
                THEN NullFrame ELSE memory[Way(t, a)[n]][a[n]].frame
         /\ Way(t, a)[Levels + 1] # NullFrame =>
              \A n \in 1 .. Levels : /\ Way(t, a)[n] # NullFrame
                                     /\ memory[Way(t, a)[n]][a[n]].present
<1>1. memory \in Memories /\ cr3[t] \in AllFrames
  BY Constants DEF MapsTypeOK, Memories, AllFrames
<1>2. Way(t, a) = Path(cr3[t], a)
  BY PathIsPathIn DEF Way
<1>3. /\ Way(t, a) \in [1 .. Levels + 1 -> AllFrames \cup {NullFrame}]
      /\ Way(t, a)[1] = cr3[t]
      /\ \A n \in 1 .. Levels :
              Way(t, a)[n + 1] =
                IF Way(t, a)[n] = NullFrame \/ ~memory[Way(t, a)[n]][a[n]].present
                THEN NullFrame ELSE memory[Way(t, a)[n]][a[n]].frame
  BY <1>1, PathUnfolds DEF Way
<1>4. ASSUME Way(t, a)[Levels + 1] # NullFrame, NEW n \in 1 .. Levels
      PROVE  Way(t, a)[n] # NullFrame /\ memory[Way(t, a)[n]][a[n]].present
  <2>1. /\ n \in 1 .. Levels + 1 /\ n + 1 \in 1 .. Levels + 1
        /\ Levels + 1 \in n .. Levels + 1 /\ Levels + 1 \in n + 1 .. Levels + 1
    BY Constants
  <2>2. Way(t, a)[n] # NullFrame /\ Way(t, a)[n + 1] # NullFrame
    BY <1>1, <1>4, <2>1, NullStays DEF Way
  <2> QED BY <1>3, <2>2
<1> QED BY <1>1, <1>2, <1>3, <1>4

LEMMA KernelHasNoUpperWay ==
  ASSUME MapsTypeOK, KernelTablesKept, NEW t \in Tasks, ~OwnMap(t), NEW a \in Upper
  PROVE  /\ Way(t, a)[1] = Kernel /\ ~memory[Kernel][a[1]].present
         /\ Way(t, a)[Levels + 1] = NullFrame
<1>1. a \in AllAddresses /\ a[1] \in Index \ LowerHalf
  BY Constants DEF Upper, IsLower, AllAddresses
<1>2. memory[Kernel][a[1]] = Absent
  BY <1>1 DEF KernelTablesKept
<1>3. Way(t, a)[1] = Kernel
  BY <1>1, WayUnfolds DEF OwnMap
<1>4. ~memory[Kernel][a[1]].present
  BY <1>2, Entries
<1>5. ~ (Way(t, a)[Levels + 1] # NullFrame)
  BY <1>1, <1>3, <1>4, WayUnfolds, Constants
<1> QED BY <1>3, <1>4, <1>5

\* What is mapped in the upper half is a page of the application.
LEMMA MappedIsUser ==
  ASSUME MapsTypeOK, KernelTablesKept, EntriesOfUser, NEW t \in Tasks, NEW a \in Upper,
         Way(t, a)[Levels + 1] # NullFrame
  PROVE  OwnMap(t) /\ IsUserPage(cr3[t], a)
<1>1. a \in AllAddresses
  BY DEF Upper
<1>2. OwnMap(t)
  BY KernelHasNoUpperWay
<1>3. \A n \in 1 .. Levels : memory[Way(t, a)[n]][a[n]].user
  BY <1>1, <1>2, WayUnfolds DEF EntriesOfUser
<1>4. Way(t, a) = Path(cr3[t], a)
  BY <1>1, WayUnfolds
<1> QED BY <1>2, <1>3, <1>4 DEF IsUserPage, IsMapped, Translate

LEMMA LowerIsNotUser ==
  ASSUME MapsTypeOK, KernelTablesKept, NEW t \in Tasks, NEW a \in AllAddresses,
         IsUserPage(cr3[t], a)
  PROVE  a \in Upper /\ Way(t, a)[Levels + 1] # NullFrame
<1>1. Way(t, a) = Path(cr3[t], a) /\ Way(t, a)[1] = cr3[t]
  BY WayUnfolds
<1>2. memory[cr3[t]][a[1]].user /\ Way(t, a)[Levels + 1] # NullFrame
  BY <1>1, Constants DEF IsUserPage, IsMapped, Translate
<1>3. ASSUME a[1] \in LowerHalf PROVE FALSE
  <2>1. memory[cr3[t]][a[1]] = Entry(Identity, FALSE)
    BY <1>3 DEF KernelTablesKept
  <2> QED BY <1>2, <2>1, Entries, Constants
<1> QED BY <1>2, <1>3 DEF Upper, IsLower

-----------------------------------------------------------------------------
(* The steps that leave all page maps as they are.                         *)

LEMMA MapsUnchanged ==
  ASSUME Good, UNCHANGED <<memory, allocated, cr3>>
  PROVE  /\ WaysSeparate' /\ EntriesOfUser' /\ KernelTablesKept'
         /\ \A t, a : Way(t, a)' = Way(t, a)
         /\ \A t : OwnMap(t)' = OwnMap(t)
<1>1. \A t, a : Way(t, a)' = Way(t, a)
  BY DEF Way
<1>2. \A t : OwnMap(t)' = OwnMap(t)
  BY DEF OwnMap
<1>3. WaysSeparate'
  BY <1>1, <1>2 DEF Good, WaysSeparate
<1>4. EntriesOfUser'
  BY <1>1, <1>2 DEF Good, EntriesOfUser
<1>5. KernelTablesKept'
  BY DEF Good, KernelTablesKept
<1> QED BY <1>1, <1>2, <1>3, <1>4, <1>5

LEMMA SetupPML4Good ==
  ASSUME BasicInv, Good, NEW t \in Tasks, SetupPML4(t)
  PROVE  Good'
<1>1. MapsTypeOK /\ at[t] = "start"
  BY DEF BasicInv, SetupPML4
<1>2. UNCHANGED <<contents, memory, allocated, cr3, addr, level, table, handler, history>>
  BY DEF SetupPML4
<1>3. /\ at'[t] = "pml4" /\ \A u \in Tasks : u # t => at'[u] = at[u]
  BY <1>1, GotoType DEF SetupPML4, Places
<1>4. /\ found'[t] = FirstFree /\ \A u \in Tasks : u # t => found'[u] = found[u]
  BY <1>1 DEF SetupPML4, MapsTypeOK
<1>5. /\ WaysSeparate' /\ EntriesOfUser' /\ KernelTablesKept'
      /\ \A u, a : Way(u, a)' = Way(u, a)
      /\ \A u : OwnMap(u)' = OwnMap(u)
  BY <1>2, MapsUnchanged
<1>6. WalkOnWay'
  BY <1>2, <1>3, <1>5 DEF Good, WalkOnWay
<1>7. MapUnlessFull'
  <2>1. found'[t] = NullFrame => allocated = PoolFrames
    BY <1>1, <1>4, FirstFreeIsFree
  <2>2. ~OwnMap(t)
    BY <1>1 DEF Good, MapUnlessFull
  <2> QED BY <1>2, <1>3, <1>4, <1>5, <2>1, <2>2 DEF Good, MapUnlessFull
<1>8. TouchedInv'
  BY <1>2, <1>5 DEF Good, TouchedInv, history
<1>9. HaltInv'
  BY <1>2, <1>3 DEF Good, HaltInv, history
<1> QED BY <1>5, <1>6, <1>7, <1>8, <1>9 DEF Good

LEMMA ExitGood ==
  ASSUME BasicInv, Good, NEW t \in Tasks, Exit(t)
  PROVE  Good'
<1>1. MapsTypeOK /\ at[t] = "run"
  BY DEF BasicInv, Exit
<1>2. UNCHANGED <<contents, memory, allocated, cr3, walk, handler, history>>
  BY DEF Exit
<1>3. /\ at'[t] = "sleep" /\ \A u \in Tasks : u # t => at'[u] = at[u]
  BY <1>1, GotoType DEF Exit, Places
<1>5. /\ WaysSeparate' /\ EntriesOfUser' /\ KernelTablesKept'
      /\ \A u, a : Way(u, a)' = Way(u, a)
      /\ \A u : OwnMap(u)' = OwnMap(u)
  BY <1>2, MapsUnchanged
<1>6. WalkOnWay'
  BY <1>2, <1>3, <1>5 DEF Good, WalkOnWay, walk
<1>7. MapUnlessFull'
  BY <1>1, <1>2, <1>3, <1>5 DEF Good, MapUnlessFull, walk
<1>8. TouchedInv'
  BY <1>2, <1>5 DEF Good, TouchedInv, history
<1>9. HaltInv'
  BY <1>2, <1>3 DEF Good, HaltInv, history
<1> QED BY <1>5, <1>6, <1>7, <1>8, <1>9 DEF Good

\* The table and the entry a walk looks at.
LEMMA WalkEntry ==
  ASSUME MapsTypeOK, KernelTablesKept, WalkOnWay, NEW t \in Tasks, at[t] \in {"walk", "link"}
  PROVE  /\ addr[t] \in Upper /\ addr[t] \in AllAddresses /\ level[t] \in 1 .. Levels
         /\ table[t] = Way(t, addr[t])[level[t]] /\ table[t] # NullFrame /\ table[t] \in AllFrames
         /\ memory[table[t]][addr[t][level[t]]].present =>
              /\ OwnMap(t)
              /\ memory[table[t]][addr[t][level[t]]].frame = Way(t, addr[t])[level[t] + 1]
<1>1. /\ addr[t] \in Upper /\ addr[t] \in AllAddresses /\ level[t] \in 1 .. Levels
      /\ table[t] = Way(t, addr[t])[level[t]] /\ table[t] # NullFrame /\ table[t] \in AllFrames
      /\ ~OwnMap(t) => level[t] = 1
  BY Constants DEF WalkOnWay, Upper, MapsTypeOK, AllFrames
<1>2. ASSUME memory[table[t]][addr[t][level[t]]].present
      PROVE  /\ OwnMap(t)
             /\ memory[table[t]][addr[t][level[t]]].frame = Way(t, addr[t])[level[t] + 1]
  <2>1. OwnMap(t)
    BY <1>1, <1>2, KernelHasNoUpperWay
  <2>2. memory[table[t]][addr[t][level[t]]].frame = Way(t, addr[t])[level[t] + 1]
    BY <1>1, <1>2, WayUnfolds
  <2> QED BY <2>1, <2>2
<1> QED BY <1>1, <1>2

LEMMA LookGood ==
  ASSUME BasicInv, Good, NEW t \in Tasks, Look(t)
  PROVE  Good'
<1>1. MapsTypeOK /\ at[t] = "walk" /\ MayRun(t)
  BY DEF BasicInv, Look
<1>2. UNCHANGED <<contents, memory, allocated, cr3, addr, history>>
  BY DEF Look
<1>3. /\ WaysSeparate' /\ EntriesOfUser' /\ KernelTablesKept'
      /\ \A u, a : Way(u, a)' = Way(u, a)
      /\ \A u : OwnMap(u)' = OwnMap(u)
  BY <1>2, MapsUnchanged
<1>4. TouchedInv'
  BY <1>2, <1>3 DEF Good, TouchedInv, history
<1> DEFINE entry == memory[table[t]][addr[t][level[t]]]
<1>5. /\ addr[t] \in Upper /\ level[t] \in 1 .. Levels
      /\ table[t] = Way(t, addr[t])[level[t]]
      /\ entry.present => OwnMap(t) /\ entry.frame = Way(t, addr[t])[level[t] + 1]
  BY <1>1, WalkEntry DEF Good
<1>6. entry.frame \in AllFrames
  <2>1. memory \in Memories /\ table[t] \in AllFrames /\ addr[t][level[t]] \in Index
    BY <1>1, <1>5 DEF MapsTypeOK, Memories, AllFrames, Upper, AllAddresses
  <2> QED BY <2>1, EntryType
<1> HIDE DEF entry
<1>7. CASE entry.present /\ Descend(t, entry.frame) /\ UNCHANGED found
  <2>1. /\ \A u \in Tasks : u # t =>
             at'[u] = at[u] /\ level'[u] = level[u] /\ table'[u] = table[u]
        /\ \/ level[t] = Levels /\ at'[t] = "run" /\ handler' = NoTask
           \/ /\ level[t] < Levels /\ at'[t] = "walk"
              /\ level'[t] = level[t] + 1 /\ table'[t] = entry.frame
    BY <1>1, <1>6, <1>7, DescendEffect
  <2>2. OwnMap(t) /\ entry.frame = Way(t, addr[t])[level[t] + 1]
    BY <1>5, <1>7
  <2>3. WalkOnWay'
    BY <1>2, <1>3, <1>5, <2>1, <2>2 DEF Good, WalkOnWay
  <2>4. MapUnlessFull'
    BY <1>2, <1>3, <1>7, <2>1, <2>2 DEF Good, MapUnlessFull
  <2>5. HaltInv'
    BY <1>2, <2>1 DEF Good, HaltInv, history
  <2> QED BY <1>3, <1>4, <2>3, <2>4, <2>5 DEF Good
<1>8. CASE /\ ~entry.present
           /\ found' = [found EXCEPT ![t] = FirstFree]
           /\ IF FirstFree = NullFrame THEN EndSetup(t, 0) ELSE Goto(t, "link") /\ UNCHANGED handler
           /\ UNCHANGED <<level, table>>
  <2>0. \A u \in Tasks : u # t => found'[u] = found[u]
    BY <1>1, <1>8 DEF MapsTypeOK
  <2>1. CASE FirstFree = NullFrame
    <3>0. EndSetup(t, 0) /\ allocated = PoolFrames
      BY <1>1, <1>8, <2>1, FirstFreeIsFree
    <3>1. /\ at'[t] \in {"halted", "run"}
          /\ \A u \in Tasks : u # t => at'[u] = at[u]
      BY <1>1, <3>0, EndSetupEffect
    <3>2. WalkOnWay'
      BY <1>2, <1>3, <1>8, <3>1 DEF Good, WalkOnWay
    <3>3. MapUnlessFull'
      BY <1>2, <1>3, <2>0, <3>0, <3>1 DEF Good, MapUnlessFull
    <3>4. HaltInv'
      BY <1>2, <3>0 DEF HaltInv
    <3> QED BY <1>3, <1>4, <3>2, <3>3, <3>4 DEF Good
  <2>2. CASE FirstFree # NullFrame
    <3>0. Goto(t, "link") /\ FirstFree \notin allocated /\ FirstFree \in PoolFrames
      BY <1>1, <1>8, <2>2, FirstFreeIsFree
    <3>1. at'[t] = "link" /\ \A u \in Tasks : u # t => at'[u] = at[u]
      BY <1>1, <3>0, GotoType DEF Places
    <3>2. OwnMap(t)
      BY <1>1, <3>0 DEF Good, MapUnlessFull
    <3>3. WalkOnWay'
      <4>1. ~entry'.present
        BY <1>2, <1>8 DEF entry
      <4> QED BY <1>2, <1>3, <1>5, <1>8, <3>1, <3>2, <4>1 DEF Good, WalkOnWay, entry
    <3>4. MapUnlessFull'
      BY <1>2, <1>3, <2>0, <3>1, <3>2 DEF Good, MapUnlessFull
    <3>5. HaltInv'
      BY <1>2, <3>1 DEF Good, HaltInv, history
    <3> QED BY <1>3, <1>4, <3>3, <3>4, <3>5 DEF Good
  <2> QED BY <2>1, <2>2
<1> QED BY <1>7, <1>8 DEF Look, entry

LEMMA AccessGood ==
  ASSUME BasicInv, Good, NEW t \in Tasks, NEW a \in Addresses, Access(t, a)
  PROVE  Good'
<1>1. /\ MapsTypeOK /\ at[t] = "run" /\ a \in AllAddresses
  BY Constants DEF BasicInv, Access
<1>2. UNCHANGED <<contents, memory, allocated, cr3, found, twice, dirty>>
  BY DEF Access
<1>3. /\ WaysSeparate' /\ EntriesOfUser' /\ KernelTablesKept'
      /\ \A u, b : Way(u, b)' = Way(u, b)
      /\ \A u : OwnMap(u)' = OwnMap(u)
  BY <1>2, MapsUnchanged
<1>4. CASE /\ IsUserPage(cr3[t], a)
           /\ touched' = [touched EXCEPT ![t] = @ \cup {a}]
           /\ UNCHANGED <<at, addr, level, table, handler, illegal>>
  <2>1. OwnMap(t) /\ a \in Upper /\ Way(t, a)[Levels + 1] # NullFrame
    BY <1>1, <1>4, LowerIsNotUser, MappedIsUser DEF Good
  <2>2. TouchedInv'
    <3>1. touched'[t] = touched[t] \cup {a} /\ \A u \in Tasks : u # t => touched'[u] = touched[u]
      BY <1>1, <1>4 DEF MapsTypeOK
    <3> QED BY <1>3, <2>1, <3>1 DEF Good, TouchedInv
  <2>3. WalkOnWay' /\ MapUnlessFull' /\ HaltInv'
    BY <1>2, <1>3, <1>4 DEF Good, WalkOnWay, MapUnlessFull, HaltInv
  <2> QED BY <1>3, <2>2, <2>3 DEF Good
<1>5. CASE /\ ~IsLower(a)
           /\ handler' = t /\ Enter(t, a, cr3[t]) /\ Goto(t, "walk")
           /\ UNCHANGED <<touched, illegal>>
  <2>1. at'[t] = "walk" /\ \A u \in Tasks : u # t => at'[u] = at[u]
    BY <1>1, <1>5, GotoType DEF Places
  <2>2. cr3[t] \in PoolFrames \cup {Kernel}
    BY <1>1 DEF MapsTypeOK
  <2>3. /\ addr'[t] = a /\ level'[t] = 1 /\ table'[t] = cr3[t]
        /\ \A u \in Tasks : u # t =>
              addr'[u] = addr[u] /\ level'[u] = level[u] /\ table'[u] = table[u]
    BY <1>1, <1>5, <2>2, EnterType
  <2>4. a \in Upper /\ Way(t, a)[1] = cr3[t]
    BY <1>1, <1>5, WayUnfolds DEF Upper
  <2>5. WalkOnWay'
    BY <1>2, <1>3, <2>1, <2>3, <2>4 DEF Good, WalkOnWay
  <2>6. MapUnlessFull'
    BY <1>1, <1>2, <1>3, <2>1 DEF Good, MapUnlessFull
  <2>7. TouchedInv'
    BY <1>3, <1>5 DEF Good, TouchedInv
  <2>8. HaltInv'
    BY <1>2, <1>5, <2>1 DEF Good, HaltInv
  <2> QED BY <1>3, <2>5, <2>6, <2>7, <2>8 DEF Good
<1>6. CASE /\ IsMapped(cr3[t], a) \/ IsLower(a)
           /\ ~IsUserPage(cr3[t], a)
           /\ handler' = t /\ illegal' = (illegal \/ IsLower(a)) /\ Goto(t, "halted")
           /\ UNCHANGED <<addr, level, table, touched>>
  <2>1. at'[t] = "halted" /\ \A u \in Tasks : u # t => at'[u] = at[u]
    BY <1>1, <1>6, GotoType DEF Places
  <2>2. IsLower(a)
    <3> SUFFICES ASSUME ~IsLower(a) PROVE FALSE
      OBVIOUS
    <3>1. a \in Upper /\ IsMapped(cr3[t], a)
      BY <1>1, <1>6 DEF Upper
    <3>2. Way(t, a)[Levels + 1] # NullFrame
      BY <1>1, <3>1, WayUnfolds DEF IsMapped, Translate
    <3> QED BY <1>1, <1>6, <3>1, <3>2, MappedIsUser DEF Good
  <2>3. HaltInv'
    BY <1>6, <2>2 DEF HaltInv
  <2>4. WalkOnWay'
    BY <1>2, <1>3, <1>6, <2>1 DEF Good, WalkOnWay
  <2>5. MapUnlessFull'
    BY <1>1, <1>2, <1>3, <2>1 DEF Good, MapUnlessFull
  <2>6. TouchedInv'
    BY <1>3, <1>6 DEF Good, TouchedInv
  <2> QED BY <1>3, <2>3, <2>4, <2>5, <2>6 DEF Good
<1> QED BY <1>4, <1>5, <1>6 DEF Access

-----------------------------------------------------------------------------
(* SetCR3 gives a task its page map.                                       *)

LEMMA OwnRootAllocated ==
  ASSUME MapsTypeOK, WaysSeparate, NEW t \in Tasks, OwnMap(t)
  PROVE  cr3[t] \in allocated
<1>1. Base \in Upper /\ Base \in AllAddresses /\ 1 \in 1 .. Levels + 1
  BY Constants
<1>2. Way(t, Base)[1] = cr3[t] /\ cr3[t] # NullFrame
  BY <1>1, WayUnfolds, Constants
<1> QED BY <1>1, <1>2 DEF WaysSeparate

\* From a table without the entry for a, no way goes on.
LEMMA FreshPath ==
  ASSUME NEW m \in Memories, NEW f \in AllFrames, NEW a \in AllAddresses,
         m[f][a[1]] = Absent
  PROVE  \A n \in 1 .. Levels + 1 : PathIn(m, f, a)[n] = IF n = 1 THEN f ELSE NullFrame
<1> DEFINE p == PathIn(m, f, a)
<1>1. p[1] = f /\ f # NullFrame
  BY PathUnfolds, Constants
<1>2. p[1 + 1] = IF p[1] = NullFrame \/ ~m[p[1]][a[1]].present
                 THEN NullFrame ELSE m[p[1]][a[1]].frame
  <2>1. \A k \in 1 .. Levels :
          p[k + 1] = IF p[k] = NullFrame \/ ~m[p[k]][a[k]].present
                     THEN NullFrame ELSE m[p[k]][a[k]].frame
    BY PathUnfolds
  <2> HIDE DEF p
  <2> QED BY <2>1, Constants
<1>3. p[1 + 1] = NullFrame
  <2> HIDE DEF p
  <2> QED BY <1>1, <1>2, Entries
<1>4. 1 + 1 \in 1 .. Levels + 1 /\ \A n \in 1 .. Levels + 1 : n # 1 => n \in 1 + 1 .. Levels + 1
  BY Constants
<1>5. \A n \in 1 + 1 .. Levels + 1 : p[n] = NullFrame
  BY <1>3, <1>4, NullStays
<1> QED BY <1>1, <1>4, <1>5

\* A way through frames that stay as they are stays.
LEMMA PathThroughKept ==
  ASSUME NEW m \in Memories, NEW m2 \in Memories, NEW root \in AllFrames, NEW a \in AllAddresses,
         NEW Kept, \A g \in Kept : m2[g] = m[g],
         \A n \in 1 .. Levels : PathIn(m, root, a)[n] \in Kept \cup {NullFrame}
  PROVE  \A n \in 1 .. Levels + 1 : PathIn(m2, root, a)[n] = PathIn(m, root, a)[n]
<1>1. \A n \in 1 .. Levels : PathIn(m, root, a)[n] # NullFrame =>
        m2[PathIn(m, root, a)[n]][a[n]] = m[PathIn(m, root, a)[n]][a[n]]
  OBVIOUS
<1> QED BY <1>1, PathUntouched

MapBecomes(t, f) ==
  /\ memory' = [memory EXCEPT ![f] = CopyLowerHalf(f)]
  /\ cr3' = [cr3 EXCEPT ![t] = f]

\* A frame that was free becomes the page map of t.
LEMMA SetCR3Ways ==
  ASSUME MapsTypeOK, MapsTypeOK', WaysSeparate, NEW t \in Tasks,
         NEW f \in PoolFrames, f \notin allocated, MapBecomes(t, f)
  PROVE  /\ \A u \in Tasks : u # t /\ OwnMap(u) =>
              \A a \in Upper : \A n \in 1 .. Levels + 1 : Way(u, a)'[n] = Way(u, a)[n]
         /\ \A a \in Upper : \A n \in 1 .. Levels + 1 :
              Way(t, a)'[n] = IF n = 1 THEN f ELSE NullFrame
<1>1. memory \in Memories /\ memory' \in Memories /\ f \in AllFrames
  BY Constants DEF MapsTypeOK, Memories, AllFrames
<1>2. /\ memory'[f] = CopyLowerHalf(f)
      /\ \A g \in AllFrames : g # f => memory'[g] = memory[g]
  BY <1>1, CopiedTable, MemoryUpdate DEF MapBecomes
<1>3. cr3'[t] = f /\ \A u \in Tasks : u # t => cr3'[u] = cr3[u]
  BY DEF MapsTypeOK, MapBecomes
<1>4. ASSUME NEW u \in Tasks, u # t, OwnMap(u), NEW a \in Upper, NEW n \in 1 .. Levels + 1
      PROVE  Way(u, a)'[n] = Way(u, a)[n]
  <2>1. cr3[u] \in AllFrames /\ a \in AllAddresses /\ cr3'[u] = cr3[u]
    BY <1>3, <1>4, WayUnfolds DEF Upper
  <2>2. \A k \in 1 .. Levels : PathIn(memory, cr3[u], a)[k] \in allocated \cup {NullFrame}
    BY <1>4, Constants DEF WaysSeparate, Way
  <2>3. \A g \in allocated : memory'[g] = memory[g]
    BY <1>2, Constants DEF MapsTypeOK
  <2>4. \A k \in 1 .. Levels + 1 : PathIn(memory', cr3[u], a)[k] = PathIn(memory, cr3[u], a)[k]
    BY <1>1, <2>1, <2>2, <2>3, PathThroughKept
  <2> QED BY <2>1, <2>4 DEF Way
<1>5. ASSUME NEW a \in Upper, NEW n \in 1 .. Levels + 1
      PROVE  Way(t, a)'[n] = IF n = 1 THEN f ELSE NullFrame
  <2>1. a \in AllAddresses /\ a[1] \in Index /\ a[1] \notin LowerHalf
    BY Constants DEF Upper, IsLower, AllAddresses
  <2>2. memory'[f][a[1]] = Absent
    BY <1>2, <2>1 DEF CopyLowerHalf
  <2>3. PathIn(memory', f, a)[n] = IF n = 1 THEN f ELSE NullFrame
    BY <1>1, <2>1, <2>2, FreshPath
  <2> QED BY <1>3, <2>3 DEF Way
<1> QED BY <1>4, <1>5

LEMMA SetCR3Good ==
  ASSUME BasicInv, BasicInv', Good, NEW t \in Tasks, SetCR3(t), ~twice'
  PROVE  Good'
<1> DEFINE f == found[t]
<1>1. MapsTypeOK /\ MapsTypeOK' /\ at[t] = "pml4"
  BY DEF BasicInv, SetCR3
<1>2. UNCHANGED <<contents, found, handler, touched, dirty, illegal>>
  BY DEF SetCR3
<1>3. at'[t] = "walk" /\ \A u \in Tasks : u # t => at'[u] = at[u]
  BY <1>1, GotoType DEF SetCR3, Places
<1>4. ~OwnMap(t)
  BY <1>1 DEF Good, MapUnlessFull
<1>5. CASE f = NullFrame
  <2>1. Enter(t, Base, cr3[t]) /\ UNCHANGED <<memory, allocated, cr3, twice>>
    BY <1>5 DEF SetCR3
  <2>2. /\ WaysSeparate' /\ EntriesOfUser' /\ KernelTablesKept'
        /\ \A u, b : Way(u, b)' = Way(u, b)
        /\ \A u : OwnMap(u)' = OwnMap(u)
    BY <2>1, MapsUnchanged
  <2>3. cr3[t] \in PoolFrames \cup {Kernel} /\ Base \in Upper /\ Way(t, Base)[1] = cr3[t]
    BY <1>1, WayUnfolds, Constants DEF MapsTypeOK
  <2>4. /\ addr'[t] = Base /\ level'[t] = 1 /\ table'[t] = cr3[t]
        /\ \A u \in Tasks : u # t =>
              addr'[u] = addr[u] /\ level'[u] = level[u] /\ table'[u] = table[u]
    BY <1>1, <2>1, <2>3, EnterType
  <2>5. WalkOnWay'
    BY <1>3, <2>1, <2>2, <2>3, <2>4 DEF Good, WalkOnWay
  <2>6. MapUnlessFull'
    <3>1. allocated = PoolFrames
      BY <1>1, <1>5 DEF Good, MapUnlessFull
    <3> QED BY <1>3, <1>4, <2>1, <2>2, <3>1 DEF Good, MapUnlessFull
  <2>7. TouchedInv' /\ HaltInv'
    BY <1>2, <1>3, <2>1, <2>2 DEF Good, TouchedInv, HaltInv
  <2> QED BY <2>2, <2>5, <2>6, <2>7 DEF Good
<1>6. CASE f # NullFrame
  <2>1. f \in PoolFrames /\ f # Kernel /\ f # Identity /\ f \in AllFrames /\ f # NullFrame
    BY <1>1, <1>6, Constants DEF MapsTypeOK
  <2>2. /\ memory' = [memory EXCEPT ![f] = CopyLowerHalf(f)]
        /\ cr3' = [cr3 EXCEPT ![t] = f]
        /\ allocated' = allocated \cup {f} /\ f \notin allocated
        /\ Enter(t, Base, f)
    BY <1>6 DEF SetCR3, MarkAllocated
  <2> HIDE DEF f
  <2>3. /\ \A u \in Tasks : u # t /\ OwnMap(u) =>
              \A a \in Upper : \A n \in 1 .. Levels + 1 : Way(u, a)'[n] = Way(u, a)[n]
        /\ \A a \in Upper : \A n \in 1 .. Levels + 1 :
              Way(t, a)'[n] = IF n = 1 THEN f ELSE NullFrame
    BY <1>1, <2>1, <2>2, SetCR3Ways DEF Good, MapBecomes
  <2>4. cr3'[t] = f /\ \A u \in Tasks : u # t => cr3'[u] = cr3[u]
    BY <1>1, <2>2 DEF MapsTypeOK
  <2>5. OwnMap(t)' /\ \A u \in Tasks : u # t => OwnMap(u)' = OwnMap(u)
    BY <2>1, <2>4 DEF OwnMap
  <2>6. /\ memory'[f] = CopyLowerHalf(f)
        /\ \A g \in AllFrames : g # f => memory'[g] = memory[g]
    BY <1>1, <2>1, <2>2, CopiedTable, MemoryUpdate DEF MapsTypeOK, Memories, AllFrames
  <2>7. WaysSeparate'
    <3> SUFFICES ASSUME NEW u \in Tasks, NEW v \in Tasks, NEW a \in Upper, NEW b \in Upper,
                        NEW n \in 1 .. Levels + 1, NEW k \in 1 .. Levels + 1,
                        OwnMap(u)', OwnMap(v)', Way(u, a)'[n] # NullFrame
                 PROVE  /\ Way(u, a)'[n] \in allocated'
                        /\ Way(u, a)'[n] = Way(v, b)'[k] => u = v /\ n = k /\ SameBeginning(a, b, n)
      BY DEF WaysSeparate
    <3>1. ASSUME NEW w \in Tasks, NEW c \in Upper, NEW i \in 1 .. Levels + 1,
                 OwnMap(w)', Way(w, c)'[i] # NullFrame
          PROVE  \/ w = t /\ i = 1 /\ Way(w, c)'[i] = f
                 \/ /\ w # t /\ OwnMap(w) /\ Way(w, c)'[i] = Way(w, c)[i]
                    /\ Way(w, c)[i] \in allocated /\ Way(w, c)'[i] # f
      <4>1. CASE w = t
        BY <2>3, <3>1, <4>1
      <4>2. CASE w # t
        <5>1. OwnMap(w) /\ Way(w, c)'[i] = Way(w, c)[i]
          BY <2>3, <2>5, <3>1, <4>2
        <5>2. Way(w, c)[i] \in allocated
          BY <3>1, <5>1 DEF Good, WaysSeparate
        <5> QED BY <2>2, <4>2, <5>1, <5>2
      <4> QED BY <4>1, <4>2
    <3>2. Way(u, a)'[n] \in allocated'
      BY <2>2, <3>1
    <3>3. ASSUME Way(u, a)'[n] = Way(v, b)'[k]
          PROVE  u = v /\ n = k /\ SameBeginning(a, b, n)
      <4>1. Way(v, b)'[k] # NullFrame
        BY <3>3
      <4>2. CASE u = t
        <5>1. n = 1 /\ k = 1 /\ v = t
          BY <3>1, <3>3, <4>1, <4>2
        <5>2. 1 .. 1 - 1 = {}
          OBVIOUS
        <5>3. SameBeginning(a, b, 1)
          BY <5>2 DEF SameBeginning
        <5> QED BY <4>2, <5>1, <5>3
      <4>3. CASE u # t
        <5>1. /\ v # t /\ OwnMap(u) /\ OwnMap(v) /\ Way(u, a)[n] # NullFrame
              /\ Way(u, a)[n] = Way(v, b)[k]
          BY <3>1, <3>3, <4>1, <4>3
        <5> QED BY <5>1 DEF Good, WaysSeparate
      <4> QED BY <4>2, <4>3
    <3> QED BY <3>2, <3>3
  <2>8. EntriesOfUser'
    <3> SUFFICES ASSUME NEW u \in Tasks, NEW a \in Upper, NEW n \in 1 .. Levels,
                        OwnMap(u)', Way(u, a)'[n] # NullFrame,
                        memory'[Way(u, a)'[n]][a[n]].present
                 PROVE  memory'[Way(u, a)'[n]][a[n]].user
      BY DEF EntriesOfUser
    <3>0. n \in 1 .. Levels + 1 /\ a[1] \in Index /\ a[1] \notin LowerHalf /\ 1 \in 1 .. Levels + 1
      BY Constants DEF Upper, IsLower, AllAddresses
    <3>1. CASE u = t
      <4>1. n = 1 /\ Way(u, a)'[n] = f
        BY <2>3, <3>0, <3>1
      <4>2. memory'[f][a[1]] = Absent
        BY <2>6, <3>0 DEF CopyLowerHalf
      <4> QED BY <4>1, <4>2, Entries
    <3>2. CASE u # t
      <4>1. OwnMap(u) /\ Way(u, a)'[n] = Way(u, a)[n]
        BY <2>3, <2>5, <3>0, <3>2
      <4>2. Way(u, a)[n] \in allocated
        BY <3>0, <4>1 DEF Good, WaysSeparate
      <4>3. Way(u, a)[n] \in AllFrames /\ Way(u, a)[n] # f
        BY <1>1, <2>2, <4>2, Constants DEF MapsTypeOK
      <4>4. memory'[Way(u, a)[n]] = memory[Way(u, a)[n]]
        BY <2>6, <4>3
      <4> QED BY <4>1, <4>4 DEF Good, EntriesOfUser
    <3> QED BY <3>1, <3>2
  <2>9. KernelTablesKept'
    <3>1. memory'[Kernel] = memory[Kernel] /\ memory'[Identity] = memory[Identity]
      BY <2>1, <2>6, Constants
    <3>2. ASSUME NEW u \in Tasks, NEW i \in LowerHalf
          PROVE  memory'[cr3'[u]][i] = Entry(Identity, FALSE)
      <4>1. CASE u = t
        <5>1. i \in Index
          BY AddressSpaceAssumption DEF LowerHalf, Index
        <5>2. memory'[cr3'[u]][i] = memory[Kernel][i]
          BY <2>4, <2>6, <4>1, <5>1 DEF CopyLowerHalf
        <5> QED BY <1>4, <5>2 DEF Good, KernelTablesKept, OwnMap
      <4>2. CASE u # t
        <5>1. cr3[u] # f /\ cr3[u] \in AllFrames
          <6>1. cr3[u] \in PoolFrames \cup {Kernel}
            BY <1>1 DEF MapsTypeOK
          <6>2. CASE OwnMap(u)
            BY <1>1, <2>2, <6>1, <6>2, OwnRootAllocated, Constants DEF Good
          <6>3. CASE ~OwnMap(u)
            BY <2>1, <6>3, Constants DEF OwnMap
          <6> QED BY <6>2, <6>3
        <5>2. memory'[cr3'[u]] = memory[cr3[u]]
          BY <2>4, <2>6, <4>2, <5>1
        <5>3. memory[cr3[u]][i] = Entry(Identity, FALSE)
          BY DEF Good, KernelTablesKept
        <5> QED BY <5>2, <5>3
      <4> QED BY <4>1, <4>2
    <3> QED BY <3>1, <3>2 DEF Good, KernelTablesKept
  <2>10. WalkOnWay'
    <3>1. /\ addr'[t] = Base /\ level'[t] = 1 /\ table'[t] = f
          /\ \A u \in Tasks : u # t =>
                addr'[u] = addr[u] /\ level'[u] = level[u] /\ table'[u] = table[u]
      BY <1>1, <2>1, <2>2, EnterType
    <3> SUFFICES ASSUME NEW u \in Tasks, at'[u] \in {"walk", "link"}
                 PROVE  /\ addr'[u] \in Upper
                        /\ table'[u] = PathIn(memory', cr3'[u], addr'[u])[level'[u]]
                        /\ at'[u] = "link" =>
                             OwnMap(u)' /\ ~memory'[table'[u]][addr'[u][level'[u]]].present
                        /\ ~OwnMap(u)' => level'[u] = 1
      BY DEF WalkOnWay, Way
    <3>2. CASE u = t
      <4>1. Base \in Upper /\ 1 \in 1 .. Levels + 1
        BY Constants
      <4>2. Way(t, Base)'[1] = f
        BY <2>3, <4>1
      <4>3. PathIn(memory', cr3'[t], addr'[t])[1] = f
        BY <3>1, <4>2 DEF Way
      <4> QED BY <1>3, <2>5, <3>1, <3>2, <4>1, <4>2, <4>3
    <3>3. CASE u # t
      <4>1. /\ at[u] \in {"walk", "link"} /\ at'[u] = at[u] /\ addr[u] \in Upper
            /\ table[u] = Way(u, addr[u])[level[u]] /\ level[u] \in 1 .. Levels
            /\ at[u] = "link" => OwnMap(u) /\ ~memory[table[u]][addr[u][level[u]]].present
            /\ ~OwnMap(u) => level[u] = 1
            /\ addr[u] \in AllAddresses
        BY <1>1, <1>3, <3>3 DEF Good, WalkOnWay, MapsTypeOK, Upper
      <4>2. PathIn(memory', cr3'[u], addr'[u]) = PathIn(memory', cr3[u], addr[u])
        BY <2>4, <3>1, <3>3
      <4>3. CASE OwnMap(u)
        <5>1. level[u] \in 1 .. Levels + 1
          BY <4>1, Constants
        <5>2. PathIn(memory', cr3[u], addr[u])[level[u]] = Way(u, addr[u])[level[u]]
          <6>2. \A a \in Upper : \A n \in 1 .. Levels + 1 :
                  PathIn(memory', cr3'[u], a)[n] = Way(u, a)[n]
            BY <2>3, <3>3, <4>3 DEF Way
          <6> QED BY <2>4, <3>3, <4>1, <5>1, <6>2
        <5>3. table[u] # NullFrame /\ Way(u, addr[u])[level[u]] \in allocated
          <6>1. table[u] # NullFrame
            BY <1>1, Constants DEF MapsTypeOK, AllFrames
          <6> QED BY <4>1, <4>3, <5>1, <6>1 DEF Good, WaysSeparate
        <5>4. table[u] # f /\ table[u] \in AllFrames
          BY <1>1, <2>2, <4>1, <5>3, Constants DEF MapsTypeOK
        <5>5. memory'[table[u]] = memory[table[u]]
          BY <2>6, <5>4
        <5> QED BY <2>5, <3>1, <3>3, <4>1, <4>2, <4>3, <5>2, <5>5
      <4>4. CASE ~OwnMap(u)
        <5>1. memory' \in Memories /\ cr3[u] \in AllFrames
          BY <1>1, WayUnfolds, <4>1 DEF MapsTypeOK, Memories, AllFrames
        <5>2. PathIn(memory', cr3[u], addr[u])[1] = cr3[u]
          BY <4>1, <5>1, PathUnfolds
        <5>3. Way(u, addr[u])[1] = cr3[u]
          BY <1>1, <4>1, WayUnfolds
        <5> QED BY <2>5, <3>1, <3>3, <4>1, <4>2, <4>4, <5>2, <5>3
      <4> QED BY <4>3, <4>4
    <3> QED BY <3>2, <3>3
  <2>11. MapUnlessFull'
    <3>1. allocated = PoolFrames => allocated' = PoolFrames
      BY <2>1, <2>2
    <3> QED BY <1>2, <1>3, <2>5, <3>1 DEF Good, MapUnlessFull
  <2>12. TouchedInv'
    <3> SUFFICES ASSUME NEW u \in Tasks, NEW a \in touched[u]
                 PROVE  OwnMap(u)' /\ a \in Upper /\ Way(u, a)'[Levels + 1] # NullFrame
      BY <1>2 DEF TouchedInv
    <3>1. OwnMap(u) /\ a \in Upper /\ Way(u, a)[Levels + 1] # NullFrame /\ u # t
      BY <1>4 DEF Good, TouchedInv
    <3>2. Way(u, a)'[Levels + 1] = Way(u, a)[Levels + 1]
      BY <2>3, <3>1, Constants
    <3> QED BY <2>5, <3>1, <3>2
  <2>13. HaltInv'
    <3>1. allocated = PoolFrames => allocated' = PoolFrames
      BY <2>1, <2>2
    <3> QED BY <1>2, <1>3, <3>1 DEF Good, HaltInv
  <2> QED BY <2>7, <2>8, <2>9, <2>10, <2>11, <2>12, <2>13 DEF Good
<1> QED BY <1>5, <1>6

-----------------------------------------------------------------------------
(* Link adds one entry at the end of a walk.                               *)

\* The way of b in the page map of u goes, behind level n, through the new entry.
Through(t, u, b, n) == u = t /\ level[t] < n /\ SameBeginning(addr[t], b, level[t] + 1)

\* Before Link, the walk is on its way, which ends there, and the frame found is free.
LinkBefore(t) ==
  /\ MapsTypeOK /\ Good
  /\ t \in Tasks /\ OwnMap(t) /\ addr[t] \in Upper /\ addr[t] \in AllAddresses
  /\ level[t] \in 1 .. Levels /\ level[t] \in 1 .. Levels + 1 /\ level[t] + 1 \in 1 .. Levels + 1
  /\ addr[t][level[t]] \in Index
  /\ table[t] = Way(t, addr[t])[level[t]] /\ table[t] # NullFrame
  /\ table[t] \in allocated /\ table[t] \in AllFrames
  /\ ~memory[table[t]][addr[t][level[t]]].present
  /\ found[t] \in PoolFrames /\ found[t] \notin allocated /\ found[t] # NullFrame
  /\ found[t] \in AllFrames

LinkAfter(t) ==
  /\ memory \in Memories /\ memory' \in Memories /\ cr3' = cr3 /\ allocated' = allocated \cup {found[t]}
  /\ memory'[table[t]][addr[t][level[t]]] = NewEntry(found[t])
  /\ \A g \in AllFrames : \A i \in Index :
       g # found[t] /\ ~(g = table[t] /\ i = addr[t][level[t]]) => memory'[g][i] = memory[g][i]
  /\ level[t] < Levels => \A i \in Index : ~memory'[found[t]][i].present

LEMMA LinkFacts ==
  ASSUME BasicInv, Good, NEW t \in Tasks, Link(t), ~twice', ~dirty'
  PROVE  LinkBefore(t) /\ LinkAfter(t)
<1>1. MapsTypeOK /\ FoundInv /\ at[t] = "link" /\ found[t] \in PoolFrames
  BY DEF BasicInv, Link, FoundInv
<1>2. /\ addr[t] \in Upper /\ addr[t] \in AllAddresses /\ level[t] \in 1 .. Levels
      /\ table[t] = Way(t, addr[t])[level[t]] /\ table[t] # NullFrame /\ table[t] \in AllFrames
  BY <1>1, WalkEntry DEF Good
<1>3. OwnMap(t) /\ ~memory[table[t]][addr[t][level[t]]].present
  BY <1>1 DEF Good, WalkOnWay
<1>4. level[t] \in 1 .. Levels + 1 /\ level[t] + 1 \in 1 .. Levels + 1
  BY <1>2, Constants
<1>5. table[t] \in allocated
  BY <1>2, <1>3, <1>4 DEF Good, WaysSeparate
<1>6. /\ found[t] \notin allocated /\ allocated' = allocated \cup {found[t]} /\ cr3' = cr3
  BY DEF Link, MarkAllocated
<1>7. level[t] < Levels => \A i \in Index \ {0} : ~memory[found[t]][i].present
  <2>1. level[t] < Levels => ~LeftoversIn(found[t])
    BY DEF Link
  <2>2. ~Absent.present
    BY DEF Absent
  <2> QED BY <2>1, <2>2 DEF LeftoversIn
<1>8. addr[t][level[t]] \in Index
  BY <1>2 DEF AllAddresses
<1>9. LinkBefore(t)
  BY <1>1, <1>2, <1>3, <1>4, <1>5, <1>6, <1>8, Constants DEF LinkBefore
<1>10. /\ memory \in Memories /\ memory' \in Memories
       /\ memory'[table[t]][addr[t][level[t]]] = NewEntry(found[t])
       /\ \A g \in AllFrames : \A i \in Index :
            g # found[t] /\ ~(g = table[t] /\ i = addr[t][level[t]]) => memory'[g][i] = memory[g][i]
       /\ table[t] # found[t] =>
            \A i \in Index : memory'[found[t]][i] = IF i = 0 THEN Absent ELSE memory[found[t]][i]
  BY <1>1, LinkMemory
<1>11. level[t] < Levels => \A i \in Index : ~memory'[found[t]][i].present
  <2>1. table[t] # found[t]
    BY <1>5, <1>6
  <2> QED BY <1>7, <1>10, <2>1, Entries
<1>12. LinkAfter(t)
  BY <1>6, <1>10, <1>11 DEF LinkAfter
<1> QED BY <1>9, <1>12

\* The entry that changes is on one way only.
LEMMA OnlyThatWay ==
  ASSUME NEW t, LinkBefore(t), NEW u \in Tasks, OwnMap(u), NEW b \in Upper,
         NEW n \in 1 .. Levels, Way(u, b)[n] = table[t]
  PROVE  /\ u = t /\ n = level[t] /\ SameBeginning(addr[t], b, n)
         /\ b[n] = addr[t][n] => Through(t, u, b, n + 1)
<1>1. n \in 1 .. Levels + 1
  BY Constants
<1>2. u = t /\ n = level[t] /\ SameBeginning(b, addr[t], n)
  BY <1>1 DEF LinkBefore, Good, WaysSeparate
<1>3. SameBeginning(addr[t], b, n)
  BY <1>2 DEF SameBeginning
<1>4. ASSUME b[n] = addr[t][n] PROVE Through(t, u, b, n + 1)
  <2>1. level[t] < n + 1
    BY <1>2
  <2>2. ASSUME NEW k \in 1 .. (level[t] + 1) - 1 PROVE addr[t][k] = b[k]
    <3>1. k \in 1 .. n - 1 \/ k = n
      BY <1>2
    <3> QED BY <1>3, <1>4, <3>1 DEF SameBeginning
  <2> QED BY <1>2, <2>1, <2>2 DEF Through, SameBeginning
<1> QED BY <1>2, <1>3, <1>4

LEMMA OnTheWay ==
  ASSUME NEW t, LinkBefore(t), NEW b \in Upper, SameBeginning(addr[t], b, level[t] + 1)
  PROVE  Way(t, b)[level[t]] = table[t] /\ b[level[t]] = addr[t][level[t]]
<1> DEFINE l == level[t]
<1>1. l \in 1 .. Levels /\ l \in 1 .. Levels + 1 /\ addr[t] \in AllAddresses /\ b \in AllAddresses
  BY DEF LinkBefore, Upper
<1>2. memory \in Memories /\ cr3[t] \in AllFrames
  BY <1>1, WayUnfolds DEF LinkBefore
<1>3. SameBeginning(addr[t], b, l)
  <2>1. ASSUME NEW k \in 1 .. l - 1 PROVE addr[t][k] = b[k]
    <3>1. k \in 1 .. (l + 1) - 1
      BY <1>1
    <3> QED BY <3>1 DEF SameBeginning
  <2> QED BY <2>1 DEF SameBeginning
<1>4. addr[t][l] = b[l]
  <2>1. l \in 1 .. (l + 1) - 1
    BY <1>1
  <2> QED BY <2>1 DEF SameBeginning
<1>5. PathIn(memory, cr3[t], addr[t])[l] = PathIn(memory, cr3[t], b)[l]
  BY <1>1, <1>2, <1>3, SameBeginningSamePath
<1>6. table[t] = Way(t, addr[t])[l]
  BY DEF LinkBefore
<1> QED BY <1>4, <1>5, <1>6 DEF Way

\* The ways after Link.
LEMMA LinkWays ==
  ASSUME NEW t, LinkBefore(t), LinkAfter(t), NEW u \in Tasks, OwnMap(u), NEW b \in Upper
  PROVE  \A n \in 1 .. Levels + 1 :
           Way(u, b)'[n] = IF Through(t, u, b, n)
                           THEN IF n = level[t] + 1 THEN found[t] ELSE NullFrame
                           ELSE Way(u, b)[n]
<1> DEFINE l == level[t]
           f == found[t]
           p == Way(u, b)
           q == PathIn(memory', cr3[u], b)
           After(n) == IF Through(t, u, b, n)
                       THEN IF n = l + 1 THEN f ELSE NullFrame
                       ELSE p[n]
           S == {n \in 1 .. Levels + 1 : q[n] = After(n)}
<1>0. /\ memory' \in Memories /\ b \in AllAddresses /\ cr3[u] \in AllFrames /\ l \in 1 .. Levels
      /\ MapsTypeOK /\ f # NullFrame /\ f \in AllFrames
  BY WayUnfolds DEF LinkBefore, LinkAfter, Upper
<1>1. /\ q[1] = cr3[u]
      /\ \A n \in 1 .. Levels :
           q[n + 1] = IF q[n] = NullFrame \/ ~memory'[q[n]][b[n]].present
                      THEN NullFrame ELSE memory'[q[n]][b[n]].frame
  BY <1>0, PathUnfolds
<1>2. /\ p[1] = cr3[u]
      /\ \A n \in 1 .. Levels :
           p[n + 1] = IF p[n] = NullFrame \/ ~memory[p[n]][b[n]].present
                      THEN NullFrame ELSE memory[p[n]][b[n]].frame
  BY <1>0, WayUnfolds
<1>3. \A n \in 1 .. Levels : p[n] # NullFrame => p[n] \in allocated
  BY Constants DEF LinkBefore, Good, WaysSeparate
<1>4. SameBeginning(addr[t], b, l + 1) /\ u = t => p[l] = table[t] /\ b[l] = addr[t][l]
  BY OnTheWay
<1>5. \A n \in 1 .. Levels : p[n] = table[t] =>
        u = t /\ n = l /\ (b[n] = addr[t][n] => Through(t, u, b, n + 1))
  BY OnlyThatWay
<1>6. \A n \in 1 .. Levels : b[n] \in Index
  BY <1>0 DEF AllAddresses
<1>7. 1 \in S
  <2>1. ~Through(t, u, b, 1)
    BY <1>0 DEF Through
  <2> QED BY <1>1, <1>2, <2>1, Constants
<1>8. ASSUME NEW n \in 1 .. Levels, n \in S PROVE n + 1 \in S
  <2>0. q[n] = After(n) /\ n + 1 \in 1 .. Levels + 1
    BY <1>8, Constants
  <2>q. q[n + 1] = IF q[n] = NullFrame \/ ~memory'[q[n]][b[n]].present
                   THEN NullFrame ELSE memory'[q[n]][b[n]].frame
    BY <1>1
  <2> HIDE DEF p, q, l, f
  <2>1. CASE Through(t, u, b, n)
    <3>1. Through(t, u, b, n + 1) /\ n + 1 # l + 1 /\ l < n
      BY <1>0, <2>1 DEF Through, l
    <3>2. q[n + 1] = NullFrame
      <4>1. CASE n = l + 1
        <5>1. l < Levels /\ q[n] = f
          <6>1. l < Levels
            BY <1>0, <4>1, Constants
          <6>2. q[n] = f
            BY <2>0, <2>1, <4>1
          <6> QED BY <6>1, <6>2
        <5>2. ~memory'[f][b[n]].present
          BY <1>6, <5>1 DEF LinkAfter, l, f
        <5> QED BY <2>q, <5>1, <5>2
      <4>2. CASE n # l + 1
        BY <2>0, <2>q, <2>1, <4>2
      <4> QED BY <4>1, <4>2
    <3> QED BY <2>0, <3>1, <3>2
  <2>2. CASE ~Through(t, u, b, n) /\ Through(t, u, b, n + 1)
    <3>1. n = l /\ u = t /\ SameBeginning(addr[t], b, l + 1)
      BY <1>0, <2>2 DEF Through, l
    <3>2. q[n] = table[t] /\ b[n] = addr[t][l]
      BY <1>4, <2>0, <2>2, <3>1
    <3>3. memory'[table[t]][addr[t][l]] = Entry(f, TRUE)
      BY DEF LinkAfter, NewEntry, l, f
    <3>4. table[t] # NullFrame
      BY DEF LinkBefore
    <3>5. q[n + 1] = f
      <4>1. Entry(f, TRUE).present /\ Entry(f, TRUE).frame = f
        BY <1>0, Entries
      <4>2. memory'[q[n]][b[n]] = Entry(f, TRUE) /\ q[n] # NullFrame
        BY <3>2, <3>3, <3>4
      <4> HIDE DEF After
      <4> QED BY <2>q, <4>1, <4>2
    <3> QED BY <2>0, <2>2, <3>1, <3>5
  <2>3. CASE ~Through(t, u, b, n) /\ ~Through(t, u, b, n + 1)
    <3>1. q[n] = p[n]
      BY <2>0, <2>3
    <3>2. p[n + 1] = IF p[n] = NullFrame \/ ~memory[p[n]][b[n]].present
                      THEN NullFrame ELSE memory[p[n]][b[n]].frame
      BY <1>2
    <3>3. CASE p[n] = NullFrame
      BY <2>0, <2>q, <2>3, <3>1, <3>2, <3>3
    <3>4. CASE p[n] # NullFrame
      <4>1. p[n] \in allocated /\ p[n] # f /\ p[n] \in AllFrames
        BY <1>0, <1>3, <3>4, Constants DEF LinkBefore, MapsTypeOK, f
      <4>2. ~(p[n] = table[t] /\ b[n] = addr[t][level[t]])
        BY <1>5, <2>3 DEF l
      <4>3. memory'[p[n]][b[n]] = memory[p[n]][b[n]]
        BY <1>6, <4>1, <4>2 DEF LinkAfter, f
      <4> QED BY <2>0, <2>q, <2>3, <3>1, <3>2, <4>3
    <3> QED BY <3>3, <3>4
  <2> QED BY <2>1, <2>2, <2>3
<1>9. 1 .. Levels + 1 \subseteq S
  <2> HIDE DEF S
  <2> QED BY <1>7, <1>8, UpTo, Constants
<1>10. cr3' = cr3
  BY DEF LinkAfter
<1> QED BY <1>9, <1>10 DEF Way

\* The way of address a, whatever becomes of addr.
WayAfter(t, a) == PathIn(memory', cr3'[t], a)

LEMMA LinkWaysAfter ==
  ASSUME NEW t, LinkBefore(t), LinkAfter(t), NEW u \in Tasks, OwnMap(u)
  PROVE  \A b \in Upper : \A n \in 1 .. Levels + 1 :
           WayAfter(u, b)[n] = IF Through(t, u, b, n)
                               THEN IF n = level[t] + 1 THEN found[t] ELSE NullFrame
                               ELSE Way(u, b)[n]
<1>1. ASSUME NEW b \in Upper, NEW n \in 1 .. Levels + 1
      PROVE  WayAfter(u, b)[n] = IF Through(t, u, b, n)
                                 THEN IF n = level[t] + 1 THEN found[t] ELSE NullFrame
                                 ELSE Way(u, b)[n]
  <2>1. WayAfter(u, b) = Way(u, b)'
    BY DEF WayAfter, Way
  <2> QED BY <2>1, LinkWays
<1> QED BY <1>1

LEMMA LinkSeparate ==
  ASSUME NEW t, LinkBefore(t), LinkAfter(t)
  PROVE  WaysSeparate'
<1> DEFINE f == found[t]
           l == level[t]
<1>1. \A u : OwnMap(u)' = OwnMap(u)
  BY DEF LinkAfter, OwnMap
<1>2. ASSUME NEW w \in Tasks, NEW c \in Upper, NEW i \in 1 .. Levels + 1,
             OwnMap(w), Way(w, c)'[i] # NullFrame
      PROVE  \/ Through(t, w, c, i) /\ i = l + 1 /\ Way(w, c)'[i] = f
             \/ /\ Way(w, c)'[i] = Way(w, c)[i] /\ Way(w, c)[i] \in allocated
                /\ Way(w, c)'[i] # f
  <2>1. Way(w, c)'[i] = IF Through(t, w, c, i)
                        THEN IF i = l + 1 THEN f ELSE NullFrame
                        ELSE Way(w, c)[i]
    BY <1>2, LinkWays
  <2>2. CASE Through(t, w, c, i)
    BY <1>2, <2>1, <2>2
  <2>3. CASE ~Through(t, w, c, i)
    <3>1. Way(w, c)[i] \in allocated
      BY <1>2, <2>1, <2>3 DEF LinkBefore, Good, WaysSeparate
    <3> QED BY <2>1, <2>3, <3>1 DEF LinkBefore
  <2> QED BY <2>2, <2>3
<1> SUFFICES ASSUME NEW u \in Tasks, NEW v \in Tasks, NEW a \in Upper, NEW b \in Upper,
                    NEW n \in 1 .. Levels + 1, NEW k \in 1 .. Levels + 1,
                    OwnMap(u), OwnMap(v), Way(u, a)'[n] # NullFrame
             PROVE  /\ Way(u, a)'[n] \in allocated'
                    /\ Way(u, a)'[n] = Way(v, b)'[k] => u = v /\ n = k /\ SameBeginning(a, b, n)
  BY <1>1 DEF WaysSeparate
<1>3. Way(u, a)'[n] \in allocated'
  BY <1>2 DEF LinkAfter
<1>4. ASSUME Way(u, a)'[n] = Way(v, b)'[k]
      PROVE  u = v /\ n = k /\ SameBeginning(a, b, n)
  <2>1. Way(v, b)'[k] # NullFrame
    BY <1>4
  <2>2. CASE Way(u, a)'[n] = f
    <3>1. Through(t, u, a, n) /\ n = l + 1 /\ Through(t, v, b, k) /\ k = l + 1
      BY <1>2, <1>4, <2>1, <2>2
    <3>2. u = v /\ SameBeginning(addr[t], a, n) /\ SameBeginning(addr[t], b, n)
      BY <3>1 DEF Through
    <3>3. SameBeginning(a, b, n)
      BY <3>2 DEF SameBeginning
    <3> QED BY <3>1, <3>2, <3>3
  <2>3. CASE Way(u, a)'[n] # f
    <3>1. Way(u, a)[n] # NullFrame /\ Way(u, a)[n] = Way(v, b)[k]
      BY <1>2, <1>4, <2>1, <2>3
    <3> QED BY <3>1 DEF LinkBefore, Good, WaysSeparate
  <2> QED BY <2>2, <2>3
<1> QED BY <1>3, <1>4

LEMMA LinkUserEntries ==
  ASSUME NEW t, LinkBefore(t), LinkAfter(t)
  PROVE  EntriesOfUser'
<1> SUFFICES ASSUME NEW u \in Tasks, NEW a \in Upper, NEW n \in 1 .. Levels,
                    OwnMap(u), Way(u, a)'[n] # NullFrame, memory'[Way(u, a)'[n]][a[n]].present
             PROVE  memory'[Way(u, a)'[n]][a[n]].user
  BY DEF EntriesOfUser, OwnMap, LinkAfter
<1>1. n \in 1 .. Levels + 1 /\ a[n] \in Index
  BY Constants DEF Upper, AllAddresses
<1>2. Way(u, a)'[n] = IF Through(t, u, a, n)
                      THEN IF n = level[t] + 1 THEN found[t] ELSE NullFrame
                      ELSE Way(u, a)[n]
  BY <1>1, LinkWays
<1>3. CASE Through(t, u, a, n)
  <2>1. n = level[t] + 1 /\ Way(u, a)'[n] = found[t]
    BY <1>2, <1>3
  <2>2. level[t] < Levels
    BY <2>1, Constants DEF LinkBefore
  <2> QED BY <1>1, <2>1, <2>2 DEF LinkAfter
<1>4. CASE ~Through(t, u, a, n)
  <2>1. Way(u, a)'[n] = Way(u, a)[n] /\ Way(u, a)[n] # NullFrame
    BY <1>2, <1>4
  <2>2. Way(u, a)[n] \in allocated /\ Way(u, a)[n] # found[t] /\ Way(u, a)[n] \in AllFrames
    BY <1>1, <2>1, Constants DEF LinkBefore, Good, WaysSeparate, MapsTypeOK
  <2>3. CASE Way(u, a)[n] = table[t] /\ a[n] = addr[t][level[t]]
    <3>1. NewEntry(found[t]).user
      BY Entries DEF NewEntry, LinkBefore
    <3> QED BY <2>1, <2>3, <3>1 DEF LinkAfter
  <2>4. CASE ~(Way(u, a)[n] = table[t] /\ a[n] = addr[t][level[t]])
    <3>1. memory'[Way(u, a)[n]][a[n]] = memory[Way(u, a)[n]][a[n]]
      BY <1>1, <2>2, <2>4 DEF LinkAfter
    <3> QED BY <2>1, <3>1 DEF LinkBefore, Good, EntriesOfUser
  <2> QED BY <2>3, <2>4
<1> QED BY <1>3, <1>4

LEMMA LinkKernelTables ==
  ASSUME NEW t, LinkBefore(t), LinkAfter(t)
  PROVE  KernelTablesKept'
<1>0. /\ LowerHalf \subseteq Index /\ cr3' = cr3 /\ KernelTablesKept /\ MapsTypeOK
      /\ WaysSeparate /\ Base \in Upper /\ 1 \in 1 .. Levels
  BY AddressSpaceAssumption, Constants DEF LowerHalf, Index, LinkAfter, LinkBefore, Good
<1>1. /\ Kernel \in AllFrames /\ Kernel # found[t] /\ Kernel # table[t]
      /\ Identity \in AllFrames /\ Identity # found[t] /\ Identity # table[t]
  BY <1>0, Constants DEF LinkBefore, MapsTypeOK
<1>2. \A i \in Index : memory'[Kernel][i] = memory[Kernel][i] /\ memory'[Identity][i] = memory[Identity][i]
  BY <1>1 DEF LinkAfter
<1>3. ASSUME NEW u \in Tasks, NEW i \in LowerHalf
      PROVE  memory'[cr3[u]][i] = Entry(Identity, FALSE)
  <2>1. memory[cr3[u]][i] = Entry(Identity, FALSE) /\ i \in Index
    BY <1>0 DEF KernelTablesKept
  <2>2. CASE ~OwnMap(u)
    BY <1>2, <2>1, <2>2 DEF OwnMap
  <2>3. CASE OwnMap(u)
    <3>1. cr3[u] \in allocated /\ cr3[u] # found[t] /\ cr3[u] \in AllFrames
      BY <1>0, <2>3, OwnRootAllocated, Constants DEF LinkBefore, MapsTypeOK
    <3>2. ASSUME cr3[u] = table[t], i = addr[t][level[t]]
          PROVE  FALSE
      <4>1. Way(u, Base)[1] = table[t]
        BY <1>0, <3>2, WayUnfolds DEF Upper
      <4>2. level[t] = 1
        BY <1>0, <2>3, <4>1, OnlyThatWay
      <4>3. ~IsLower(addr[t])
        BY DEF LinkBefore, Upper
      <4> QED BY <3>2, <4>2, <4>3 DEF IsLower
    <3>3. memory'[cr3[u]][i] = memory[cr3[u]][i]
      BY <2>1, <3>1, <3>2 DEF LinkAfter
    <3> QED BY <2>1, <3>3
  <2> QED BY <2>2, <2>3
<1> QED BY <1>0, <1>2, <1>3 DEF KernelTablesKept

LEMMA LinkGood ==
  ASSUME BasicInv, Good, NEW t \in Tasks, Link(t), ~twice', ~dirty'
  PROVE  Good'
<1> DEFINE f == found[t]
           l == level[t]
<1>1. /\ LinkBefore(t) /\ LinkAfter(t) /\ MapsTypeOK /\ MayRun(t) /\ at[t] = "link"
      /\ f \in AllFrames /\ l \in 1 .. Levels /\ l \in 1 .. Levels + 1 /\ l + 1 \in 1 .. Levels + 1
  BY LinkFacts DEF BasicInv, Link, LinkBefore
<1>2. WaysSeparate' /\ EntriesOfUser' /\ KernelTablesKept'
  BY <1>1, LinkSeparate, LinkUserEntries, LinkKernelTables
<1>3. UNCHANGED <<contents, cr3, addr, found, touched, illegal>> /\ Descend(t, f)
  BY DEF Link
<1>4. \A u : OwnMap(u)' = OwnMap(u)
  BY <1>3 DEF OwnMap
<1>5. OwnMap(t)
  BY <1>1 DEF LinkBefore
<1>6. /\ \A u \in Tasks : u # t =>
           at'[u] = at[u] /\ level'[u] = level[u] /\ table'[u] = table[u]
      /\ \/ l = Levels /\ at'[t] = "run" /\ handler' = NoTask
         \/ l < Levels /\ at'[t] = "walk" /\ level'[t] = l + 1 /\ table'[t] = f
  BY <1>1, <1>3, DescendEffect
<1> HIDE DEF f, l
<1>7. allocated = PoolFrames => allocated' = PoolFrames
  BY <1>1 DEF LinkAfter, LinkBefore
<1>8. WalkOnWay'
  <2> SUFFICES ASSUME NEW u \in Tasks, at'[u] \in {"walk", "link"}
               PROVE  /\ addr[u] \in Upper
                      /\ table'[u] = WayAfter(u, addr[u])[level'[u]]
                      /\ at'[u] = "link" =>
                           OwnMap(u) /\ ~memory'[table'[u]][addr[u][level'[u]]].present
                      /\ ~OwnMap(u) => level'[u] = 1
    <3>1. \A u \in Tasks : PathIn(memory', cr3'[u], addr'[u]) = PathIn(memory', cr3'[u], addr[u])
      BY <1>3
    <3> QED BY <1>3, <1>4, <3>1 DEF WalkOnWay, Way, WayAfter
  <2>1. CASE u = t
    <3>1. l < Levels /\ at'[t] = "walk" /\ level'[t] = l + 1 /\ table'[t] = f
      BY <1>6, <2>1
    <3>2. addr[t] \in Upper /\ Through(t, t, addr[t], l + 1)
      BY <1>1 DEF LinkBefore, Through, SameBeginning, l
    <3>3. WayAfter(t, addr[t])[l + 1] = f
      BY <1>1, <1>5, <3>2, LinkWaysAfter DEF f, l
    <3> QED BY <1>5, <2>1, <3>1, <3>2, <3>3
  <2>2. CASE u # t
    <3>1. /\ at[u] \in {"walk", "link"} /\ at'[u] = at[u]
          /\ level'[u] = level[u] /\ table'[u] = table[u]
          /\ addr[u] \in Upper /\ addr[u] \in AllAddresses /\ level[u] \in 1 .. Levels
          /\ table[u] = Way(u, addr[u])[level[u]] /\ table[u] # NullFrame /\ table[u] \in AllFrames
          /\ at[u] = "link" => OwnMap(u) /\ ~memory[table[u]][addr[u][level[u]]].present
          /\ ~OwnMap(u) => level[u] = 1
      BY <1>1, <1>6, <2>2, WalkEntry DEF Good, WalkOnWay
    <3>2. level[u] \in 1 .. Levels + 1 /\ addr[u][level[u]] \in Index
      BY <3>1, Constants DEF AllAddresses
    <3>3. CASE OwnMap(u)
      <4>1. ~Through(t, u, addr[u], level[u])
        BY <2>2 DEF Through
      <4>2. WayAfter(u, addr[u])[level[u]] = Way(u, addr[u])[level[u]]
        BY <1>1, <3>1, <3>2, <3>3, <4>1, LinkWaysAfter
      <4>3. table[u] \in allocated /\ table[u] # f
        BY <1>1, <3>1, <3>2, <3>3 DEF LinkBefore, Good, WaysSeparate, f
      <4>4. table[u] # table[t]
        BY <1>1, <2>2, <3>1, <3>3, OnlyThatWay
      <4>5. memory'[table[u]][addr[u][level[u]]] = memory[table[u]][addr[u][level[u]]]
        BY <1>1, <3>1, <3>2, <4>3, <4>4 DEF LinkAfter, f
      <4> QED BY <3>1, <3>3, <4>2, <4>5
    <3>4. CASE ~OwnMap(u)
      <4>1. memory' \in Memories /\ cr3[u] \in AllFrames /\ Way(u, addr[u])[1] = cr3[u]
        BY <1>1, <3>1, WayUnfolds DEF LinkAfter
      <4>2. PathIn(memory', cr3[u], addr[u])[1] = cr3[u]
        BY <3>1, <4>1, PathUnfolds
      <4>3. WayAfter(u, addr[u])[1] = cr3[u]
        BY <1>3, <4>2 DEF WayAfter
      <4> QED BY <3>1, <3>4, <4>1, <4>3
    <3> QED BY <3>3, <3>4
  <2> QED BY <2>1, <2>2
<1>9. MapUnlessFull'
  BY <1>3, <1>4, <1>5, <1>6, <1>7 DEF Good, MapUnlessFull
<1>10. TouchedInv'
  <2> SUFFICES ASSUME NEW u \in Tasks, NEW a \in touched[u]
               PROVE  OwnMap(u) /\ a \in Upper /\ Way(u, a)'[Levels + 1] # NullFrame
    BY <1>3, <1>4 DEF TouchedInv
  <2>1. /\ OwnMap(u) /\ a \in Upper /\ a \in AllAddresses /\ Way(u, a)[Levels + 1] # NullFrame
        /\ Levels + 1 \in 1 .. Levels + 1
    BY Constants DEF Good, TouchedInv, Upper
  <2>2. ~Through(t, u, a, Levels + 1)
    <3> SUFFICES ASSUME Through(t, u, a, Levels + 1) PROVE FALSE
      OBVIOUS
    <3>1. u = t /\ Way(t, a)[l] = table[t] /\ a[l] = addr[t][l]
      BY <1>1, <2>1, OnTheWay DEF Through, l
    <3>2. memory[Way(u, a)[l]][a[l]].present
      BY <1>1, <2>1, WayUnfolds
    <3>3. ~memory[table[t]][addr[t][l]].present
      BY <1>1 DEF LinkBefore, l
    <3> QED BY <3>1, <3>2, <3>3
  <2>3. Way(u, a)'[Levels + 1] = Way(u, a)[Levels + 1]
    BY <1>1, <2>1, <2>2, LinkWays
  <2> QED BY <2>1, <2>3
<1>11. HaltInv'
  BY <1>3, <1>6, <1>7 DEF Good, HaltInv
<1> QED BY <1>2, <1>8, <1>9, <1>10, <1>11 DEF Good

-----------------------------------------------------------------------------
(* The theorems.                                                           *)

LEMMA InitGood == MapsInit => SpaceInv
<1> SUFFICES ASSUME MapsInit PROVE SpaceInv
  OBVIOUS
<1>1. MapsTypeOK
  BY InitType
<1>2. /\ \A t \in Tasks : cr3[t] = Kernel /\ at[t] = "start" /\ touched[t] = {}
      /\ handler = NoTask /\ NoTask \notin Tasks
  BY AddressSpaceAssumption DEF MapsInit
<1>3. KernelTablesKept
  <2>1. \A i \in Index : /\ memory[Kernel][i] = IF i \in LowerHalf THEN Entry(Identity, FALSE) ELSE Absent
                         /\ memory[Identity][i] = Entry(Identity, FALSE)
    BY Constants DEF MapsInit, KernelFrames
  <2>2. LowerHalf \subseteq Index
    BY AddressSpaceAssumption DEF LowerHalf, Index
  <2> QED BY <1>2, <2>1, <2>2 DEF KernelTablesKept
<1>4. Good
  BY <1>2, <1>3 DEF Good, WaysSeparate, EntriesOfUser, WalkOnWay, MapUnlessFull, TouchedInv,
                    HaltInv, OwnMap
<1> QED BY <1>1, <1>2, <1>4 DEF SpaceInv, FaultTakesFreeFrame, FoundInv

\* twice and dirty never become FALSE again.
LEMMA HistoryGrows ==
  ASSUME MapsTypeOK, [MapsNext]_mapsVars, ~twice', ~dirty'
  PROVE  ~twice /\ ~dirty
<1>1. CASE UNCHANGED mapsVars
  BY <1>1 DEF mapsVars, history
<1>2. ASSUME NEW t \in Tasks, SetupPML4(t) \/ Look(t) \/ Exit(t) PROVE ~twice /\ ~dirty
  BY <1>2 DEF SetupPML4, Look, Exit, history
<1>3. ASSUME NEW t \in Tasks, SetCR3(t) PROVE ~twice /\ ~dirty
  <2>1. found[t] # NullFrame => MarkAllocated(found[t])
    BY <1>3 DEF SetCR3
  <2>2. found[t] = NullFrame => twice' = twice
    BY <1>3 DEF SetCR3
  <2>3. dirty' = dirty
    BY <1>3 DEF SetCR3
  <2>4. CASE found[t] = NullFrame
    BY <2>2, <2>3, <2>4
  <2>5. CASE found[t] # NullFrame
    BY <2>1, <2>3, <2>5 DEF MarkAllocated
  <2> QED BY <2>4, <2>5
<1>4. ASSUME NEW t \in Tasks, Link(t) PROVE ~twice /\ ~dirty
  BY <1>4 DEF Link, MarkAllocated
<1>5. ASSUME NEW t \in Tasks, NEW a \in Addresses, Access(t, a) PROVE ~twice /\ ~dirty
  BY <1>5 DEF Access
<1> QED BY <1>1, <1>2, <1>3, <1>4, <1>5 DEF MapsNext

LEMMA SpaceStep == SpaceInv /\ [MapsNext]_mapsVars => SpaceInv'
<1> SUFFICES ASSUME SpaceInv, [MapsNext]_mapsVars PROVE SpaceInv'
  OBVIOUS
<1>1. BasicInv /\ BasicInv'
  BY BasicStep DEF SpaceInv, BasicInv
<1>2. ASSUME ~twice', ~dirty' PROVE Good'
  <2>1. Good
    BY <1>2, HistoryGrows DEF SpaceInv
  <2>2. CASE UNCHANGED mapsVars
    <3>1. /\ WaysSeparate' /\ EntriesOfUser' /\ KernelTablesKept'
          /\ \A t, a : Way(t, a)' = Way(t, a)
          /\ \A t : OwnMap(t)' = OwnMap(t)
      BY <2>1, <2>2, MapsUnchanged DEF mapsVars
    <3>2. WalkOnWay'
      BY <2>1, <2>2, <3>1 DEF Good, WalkOnWay, mapsVars, walk
    <3>3. MapUnlessFull' /\ TouchedInv' /\ HaltInv'
      BY <2>1, <2>2, <3>1 DEF Good, MapUnlessFull, TouchedInv, HaltInv, mapsVars, walk, history
    <3> QED BY <3>1, <3>2, <3>3 DEF Good
  <2>3. CASE MapsNext
    BY <1>1, <1>2, <2>1, <2>3, SetupPML4Good, SetCR3Good, LookGood, LinkGood, ExitGood, AccessGood
       DEF MapsNext
  <2> QED BY <2>2, <2>3
<1> QED BY <1>1, <1>2 DEF SpaceInv, BasicInv

LEMMA SpaceHolds == MapsSpec => []SpaceInv
  BY InitGood, SpaceStep, PTL DEF MapsSpec

LEMMA UpperIsUpper == \A a \in UpperAddresses : a \in Upper
  BY Constants DEF UpperAddresses, Upper

\* Page maps of applications never meet, and what an application has touched stays
\* its own, for any number of applications, levels, frames and pages, as long as no
\* frame was taken twice and no table was left with entries.
THEOREM MapsAreKept == MapsSpec => []MapsKept
<1>1. ASSUME SpaceInv PROVE MapsKept
  <2>0. MapsTypeOK
    BY <1>1 DEF SpaceInv
  <2>1. ASSUME ~twice, ~dirty PROVE Good
    BY <1>1, <2>1 DEF SpaceInv
  <2>2. FramesSeparate
    <3> SUFFICES ASSUME ~twice, ~dirty, NEW t \in Tasks, NEW u \in Tasks,
                        NEW a \in UpperAddresses, NEW b \in UpperAddresses,
                        NEW n \in 1 .. Levels + 1, NEW m \in 1 .. Levels + 1,
                        cr3[t] # Kernel, cr3[u] # Kernel, Path(cr3[t], a)[n] # NullFrame
                 PROVE  /\ Path(cr3[t], a)[n] \in allocated
                        /\ Path(cr3[t], a)[n] = Path(cr3[u], b)[m]
                           => t = u /\ n = m /\ SameBeginning(a, b, n)
      BY DEF FramesSeparate
    <3>1. a \in Upper /\ b \in Upper /\ a \in AllAddresses /\ b \in AllAddresses
      BY UpperIsUpper DEF Upper
    <3>2. Way(t, a) = Path(cr3[t], a) /\ Way(u, b) = Path(cr3[u], b)
      BY <2>0, <3>1, WayUnfolds
    <3> QED BY <2>1, <3>1, <3>2 DEF Good, WaysSeparate, OwnMap
  <2>3. TouchedStaysMapped
    BY <2>0, <2>1, MappedIsUser DEF TouchedStaysMapped, Good, TouchedInv
  <2>4. KernelMapKept
    BY <2>1 DEF KernelMapKept, Good, KernelTablesKept
  <2> QED BY <2>0, <2>2, <2>3, <2>4 DEF MapsKept
<1> QED BY <1>1, SpaceHolds, PTL

\* The page fault handler marks a frame that is free, and stops the machine only for
\* an access below the application's half or when no frame is left, for any number
\* of applications, levels and frames.
THEOREM FaultsAreHandledAlone == MapsSpec => []FaultsHandledAlone
<1>1. ASSUME SpaceInv PROVE FaultsHandledAlone
  BY <1>1 DEF SpaceInv, FaultsHandledAlone, HaltsForAReason, Good, HaltInv
<1> QED BY <1>1, SpaceHolds, PTL

UserPageIn(m, root, a) ==
  /\ PathIn(m, root, a)[Levels + 1] # NullFrame
  /\ \A n \in 1 .. Levels : m[PathIn(m, root, a)[n]][a[n]].user

LEMMA UserPageIsIn == \A root, a : IsUserPage(root, a) <=> UserPageIn(memory, root, a)
  BY PathIsPathIn DEF IsUserPage, IsMapped, Translate, UserPageIn

LEMMA UserPageIsInAfter ==
  \A t : IsUserPage(cr3[t], addr[t])' <=> UserPageIn(memory', cr3'[t], addr'[t])
  BY DEF IsUserPage, IsMapped, Translate, UserPageIn, Path, PathIn

LEMMA PathPresent ==
  ASSUME NEW m \in Memories, NEW root \in AllFrames, NEW a \in AllAddresses,
         PathIn(m, root, a)[Levels + 1] # NullFrame, NEW n \in 1 .. Levels
  PROVE  /\ PathIn(m, root, a)[n] # NullFrame
         /\ m[PathIn(m, root, a)[n]][a[n]].present
<1>1. /\ n \in 1 .. Levels + 1 /\ n + 1 \in 1 .. Levels + 1
      /\ Levels + 1 \in n .. Levels + 1 /\ Levels + 1 \in n + 1 .. Levels + 1
  BY Constants
<1>2. PathIn(m, root, a)[n] # NullFrame /\ PathIn(m, root, a)[n + 1] # NullFrame
  BY <1>1, NullStays
<1> QED BY <1>2, PathUnfolds

\* When SetupPageMapForApp is done with an address, the address has a page for the
\* application, unless no frame is left.
THEOREM HandledIsMapped == MapsSpec => HandledMeansMapped
<1>1. ASSUME SpaceInv, SpaceInv', [MapsNext]_mapsVars, NEW t \in Tasks,
             at[t] \in {"walk", "link"}, at'[t] = "run", ~twice', ~dirty', PoolFrames # allocated'
      PROVE  IsUserPage(cr3[t], addr[t])'
  <2>1. BasicInv /\ BasicInv' /\ MapsTypeOK /\ MapsTypeOK'
    BY <1>1 DEF SpaceInv, BasicInv
  <2>2. Good /\ Good'
    BY <1>1, <2>1, HistoryGrows DEF SpaceInv
  <2>3. /\ addr[t] \in Upper /\ addr[t] \in AllAddresses /\ level[t] \in 1 .. Levels
        /\ table[t] = Way(t, addr[t])[level[t]] /\ table[t] # NullFrame
        /\ memory[table[t]][addr[t][level[t]]].present =>
              /\ OwnMap(t)
              /\ memory[table[t]][addr[t][level[t]]].frame = Way(t, addr[t])[level[t] + 1]
    BY <1>1, <2>1, <2>2, WalkEntry DEF Good
  <2>4. ASSUME NEW u \in Tasks, \/ SetupPML4(u) \/ SetCR3(u) \/ Exit(u)
                                \/ \E a \in Addresses : Access(u, a)
        PROVE  FALSE
    <3>1. at[u] \notin {"walk", "link"}
      BY <2>4 DEF SetupPML4, SetCR3, Exit, Access
    <3>2. \E where \in Places : at' = [at EXCEPT ![u] = where] \/ at' = at
      BY <2>4 DEF SetupPML4, SetCR3, Exit, Access, Goto, Places
    <3> QED BY <1>1, <2>1, <3>1, <3>2 DEF MapsTypeOK
  <2>5. ASSUME NEW u \in Tasks, Look(u) \/ Link(u) PROVE u = t
    <3> SUFFICES ASSUME u # t PROVE FALSE
      OBVIOUS
    <3>1. at'[t] = at[t]
      <4>1. at[u] \in {"walk", "link"} /\ MayRun(u)
        BY <2>5 DEF Look, Link
      <4>2. \/ \E g \in AllFrames : Descend(u, g)
            \/ EndSetup(u, 0) \/ Goto(u, "link")
        <5>1. CASE Link(u)
          <6>1. found[u] \in AllFrames
            BY <1>1, <5>1, Constants DEF SpaceInv, FoundInv, Link
          <6> QED BY <5>1, <6>1 DEF Link
        <5>2. CASE Look(u)
          <6>1. memory \in Memories /\ table[u] \in AllFrames /\ addr[u][level[u]] \in Index
            <7>1. addr[u] \in AllAddresses /\ level[u] \in 1 .. Levels
              BY <2>1, Constants DEF MapsTypeOK
            <7> QED BY <2>1, <7>1 DEF MapsTypeOK, Memories, AllFrames, AllAddresses
          <6>2. memory[table[u]][addr[u][level[u]]].frame \in AllFrames
            BY <6>1, EntryType
          <6> QED BY <5>2, <6>2 DEF Look
        <5> QED BY <2>5, <5>1, <5>2
      <4> QED BY <2>1, <4>1, <4>2, DescendEffect, EndSetupEffect, GotoType DEF Places
    <3> QED BY <1>1, <3>1
  <2>6. CASE Look(t)
    <3>1. UNCHANGED <<memory, allocated, cr3, addr>> /\ MayRun(t)
      BY <2>6 DEF Look
    <3> DEFINE entry == memory[table[t]][addr[t][level[t]]]
    <3>2. CASE entry.present /\ Descend(t, entry.frame)
      <4>1. entry.frame \in AllFrames
        <5>1. memory \in Memories /\ table[t] \in AllFrames /\ addr[t][level[t]] \in Index
          BY <2>1, <2>3 DEF MapsTypeOK, Memories, AllFrames, AllAddresses
        <5> QED BY <5>1, EntryType
      <4>2. level[t] = Levels
        <5> HIDE DEF entry
        <5> QED BY <1>1, <2>1, <3>1, <3>2, <4>1, DescendEffect
      <4>3. Way(t, addr[t])[Levels + 1] # NullFrame
        BY <2>3, <3>2, <4>1, <4>2, Constants
      <4>4. IsUserPage(cr3[t], addr[t])
        BY <2>1, <2>2, <2>3, <4>3, MappedIsUser DEF Good
      <4>5. UserPageIn(memory', cr3'[t], addr'[t])
        BY <3>1, <4>4, UserPageIsIn
      <4> QED BY <4>5, UserPageIsInAfter
    <3>3. CASE IF FirstFree = NullFrame THEN EndSetup(t, 0) ELSE Goto(t, "link") /\ UNCHANGED handler
      <4>1. FirstFree # NullFrame
        BY <1>1, <2>1, <3>1, FirstFreeIsFree
      <4>2. at'[t] = "link"
        BY <2>1, <3>3, <4>1, GotoType DEF Places
      <4> QED BY <1>1, <4>2
    <3> QED BY <2>6, <3>2, <3>3 DEF Look
  <2>7. CASE Link(t)
    <3>1. LinkBefore(t) /\ LinkAfter(t)
      BY <1>1, <2>1, <2>2, <2>7, LinkFacts
    <3>2. UNCHANGED <<addr, cr3>> /\ Descend(t, found[t]) /\ MayRun(t)
      BY <2>7 DEF Link
    <3>3. level[t] = Levels
      <4>1. found[t] \in AllFrames
        BY <3>1 DEF LinkBefore
      <4> QED BY <1>1, <2>1, <3>2, <4>1, DescendEffect
    <3>4. WayAfter(t, addr[t])[Levels + 1] # NullFrame
      <4>1. Through(t, t, addr[t], Levels + 1)
        BY <3>3, Constants DEF Through, SameBeginning
      <4>2. Levels + 1 \in 1 .. Levels + 1 /\ OwnMap(t) /\ found[t] # NullFrame
        BY <3>1, Constants DEF LinkBefore
      <4>3. WayAfter(t, addr[t])[Levels + 1] = found[t]
        BY <2>3, <3>1, <3>3, <4>1, <4>2, LinkWaysAfter
      <4> QED BY <4>2, <4>3
    <3>5. memory' \in Memories /\ cr3'[t] \in AllFrames
      BY <2>1, Constants DEF MapsTypeOK, Memories, AllFrames
    <3>6. ASSUME NEW n \in 1 .. Levels
          PROVE  memory'[WayAfter(t, addr[t])[n]][addr[t][n]].user
      <4>1. /\ WayAfter(t, addr[t])[n] # NullFrame
            /\ memory'[WayAfter(t, addr[t])[n]][addr[t][n]].present
        BY <2>3, <3>4, <3>5, PathPresent DEF WayAfter
      <4>2. OwnMap(t)'
        BY <3>1, <3>2 DEF OwnMap, LinkBefore
      <4>3. \A a \in Upper : WayAfter(t, a)[n] # NullFrame /\ memory'[WayAfter(t, a)[n]][a[n]].present
              => memory'[WayAfter(t, a)[n]][a[n]].user
        BY <2>2, <4>2 DEF Good, EntriesOfUser, Way, WayAfter
      <4> QED BY <2>3, <4>1, <4>3
    <3>7. UserPageIn(memory', cr3'[t], addr'[t])
      BY <3>2, <3>4, <3>6 DEF UserPageIn, WayAfter
    <3> QED BY <3>7, UserPageIsInAfter
  <2> QED BY <1>1, <2>4, <2>5, <2>6, <2>7 DEF MapsNext, mapsVars
<1>2. SpaceInv /\ SpaceInv' /\ [MapsNext]_mapsVars =>
        [\A t \in Tasks :
           at[t] \in {"walk", "link"} /\ at'[t] = "run" /\ ~twice' /\ ~dirty' /\ PoolFrames # allocated'
             => IsUserPage(cr3[t], addr[t])']_mapsVars
  BY <1>1
<1> QED BY <1>2, SpaceHolds, PTL DEF MapsSpec, HandledMeansMapped
=============================================================================
