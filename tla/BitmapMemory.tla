---------------------------- MODULE BitmapMemory ----------------------------
(***************************************************************************)
(* The frame allocator (kernel/memory_manager.cpp): a bitmap with one bit  *)
(* per physical frame, filled from the memory map of the firmware by       *)
(* InitializeMemoryManager, and searched first fit by Allocate.            *)
(*                                                                         *)
(* The bitmap is the set of the frames whose bit is set.  The calls of     *)
(* Allocate come one after the other, from the start of the kernel and     *)
(* then from the main task, whose page faults are its own; the loop of     *)
(* Allocate is taken step by step to show what it finds.                   *)
(***************************************************************************)
EXTENDS Naturals, Sequences

CONSTANTS
  FrameCount,   \* kFrameCount: the frames the bitmap has bits for
  MemoryMaps,   \* the memory maps the loader may pass
  HeapFrames,   \* kHeapFrames
  Requests      \* the numbers of frames asked of Allocate

\* A descriptor says which frames it covers and what isAvailable says of its
\* type.  Descriptors are disjoint and in ascending order, with gaps.
IsMemoryMap(map) ==
  /\ map \in Seq([start : Nat, frames : Nat \ {0}, available : BOOLEAN])
  /\ \A i \in DOMAIN map : map[i].start + map[i].frames <= FrameCount
  /\ \A i, j \in DOMAIN map : i < j => map[i].start + map[i].frames <= map[j].start

ASSUME BitmapMemoryAssumption ==
  /\ FrameCount \in Nat
  /\ \A map \in MemoryMaps : IsMemoryMap(map)
  /\ HeapFrames \in Nat \ {0}
  /\ Requests \subseteq Nat \ {0}

Frames == 0 .. FrameCount - 1

Block(start, n) == start .. start + n - 1

VARIABLES
  memory_map,      \* the memory map passed by the loader
  iter,            \* the next descriptor InitializeMemoryManager looks at
  available_end,   \* its local of the same name
  pc,              \* "map", "search" in Allocate, "run" outside, or "halted"
  heap,            \* InitializeHeap has its frames
  num_frames,      \* the argument of Allocate
  start_frame_id,  \* its local of the same name
  offset,          \* its local i
  alloc_map_,      \* the frames whose bit is set
  blocks           \* history: the blocks <<start, n>> given out and not freed

booting == <<memory_map, iter, available_end>>
search == <<num_frames, start_frame_id, offset>>
vars == <<booting, pc, heap, search, alloc_map_, blocks>>

Init ==
  /\ memory_map \in MemoryMaps
  /\ iter = 1 /\ available_end = 0 /\ pc = "map" /\ heap = FALSE
  /\ num_frames = 0 /\ start_frame_id = 0 /\ offset = 0
  /\ alloc_map_ = {} /\ blocks = {}

-----------------------------------------------------------------------------
(* InitializeMemoryManager.                                                *)

\* Fault: the gap before a descriptor stays free.
ReadDescriptorWithoutGap ==
  /\ pc = "map" /\ iter <= Len(memory_map)
  /\ LET desc == memory_map[iter]
     IN /\ alloc_map_' = IF desc.available THEN alloc_map_
                         ELSE alloc_map_ \cup Block(desc.start, desc.frames)
        /\ available_end' = IF desc.available THEN desc.start + desc.frames
                            ELSE available_end
  /\ iter' = iter + 1
  /\ UNCHANGED <<memory_map, pc, heap, search, blocks>>

\* The gap before a descriptor is marked, and the descriptor when its memory is
\* not available.
ReadDescriptor ==
  /\ pc = "map" /\ iter <= Len(memory_map)
  /\ LET desc == memory_map[iter]
         gap == Block(available_end, desc.start - available_end)
         frames == Block(desc.start, desc.frames)
     IN /\ alloc_map_' = alloc_map_ \cup gap \cup IF desc.available THEN {} ELSE frames
        /\ available_end' = IF desc.available THEN desc.start + desc.frames
                            ELSE available_end
  /\ iter' = iter + 1
  /\ UNCHANGED <<memory_map, pc, heap, search, blocks>>

-----------------------------------------------------------------------------
(* Allocate, and InitializeHeap as its first caller.                       *)

Call(n) ==
  /\ pc' = "search"
  /\ num_frames' = n
  /\ start_frame_id' = 0 /\ offset' = 0
  /\ UNCHANGED <<booting, heap, alloc_map_, blocks>>

InitializeHeap == pc = "map" /\ iter > Len(memory_map) /\ Call(HeapFrames)

Allocate(n) == pc = "run" /\ Call(n)

Frame == start_frame_id + offset

Return == num_frames' = 0 /\ start_frame_id' = 0 /\ offset' = 0

NextFrame ==
  /\ pc = "search" /\ offset < num_frames
  /\ Frame < FrameCount /\ Frame \notin alloc_map_
  /\ offset' = offset + 1
  /\ UNCHANGED <<booting, pc, heap, num_frames, start_frame_id, alloc_map_, blocks>>

\* Fault: the search goes on behind the whole block that does not fit.
SkipBlock ==
  /\ pc = "search" /\ offset < num_frames
  /\ Frame < FrameCount /\ Frame \in alloc_map_
  /\ start_frame_id' = start_frame_id + num_frames
  /\ offset' = 0
  /\ UNCHANGED <<booting, pc, heap, num_frames, alloc_map_, blocks>>

\* The search goes on behind the frame that is taken.
SkipFrame ==
  /\ pc = "search" /\ offset < num_frames
  /\ Frame < FrameCount /\ Frame \in alloc_map_
  /\ start_frame_id' = start_frame_id + offset + 1
  /\ offset' = 0
  /\ UNCHANGED <<booting, pc, heap, num_frames, alloc_map_, blocks>>

\* Allocate returns kNullFrame.  Without a heap the kernel halts.
Fail ==
  /\ pc = "search" /\ offset < num_frames
  /\ Frame >= FrameCount
  /\ pc' = IF heap THEN "run" ELSE "halted"
  /\ Return
  /\ UNCHANGED <<booting, heap, alloc_map_, blocks>>

\* Fault: the last frame of the block is not marked.
FoundMarkingTooFew ==
  /\ pc = "search" /\ offset = num_frames
  /\ alloc_map_' = alloc_map_ \cup Block(start_frame_id, num_frames - 1)
  /\ blocks' = blocks \cup {<<start_frame_id, num_frames>>}
  /\ heap' = TRUE
  /\ pc' = "run"
  /\ Return
  /\ UNCHANGED booting

Found ==
  /\ pc = "search" /\ offset = num_frames
  /\ alloc_map_' = alloc_map_ \cup Block(start_frame_id, num_frames)
  /\ blocks' = blocks \cup {<<start_frame_id, num_frames>>}
  /\ heap' = TRUE
  /\ pc' = "run"
  /\ Return
  /\ UNCHANGED booting

\* Nobody frees a frame yet; a caller would free a block it was given.
Free(block) ==
  /\ pc = "run" /\ block \in blocks
  /\ alloc_map_' = alloc_map_ \ Block(block[1], block[2])
  /\ blocks' = blocks \ {block}
  /\ UNCHANGED <<booting, pc, heap, search>>

Next ==
  \/ ReadDescriptor
  \/ InitializeHeap
  \/ \E n \in Requests : Allocate(n)
  \/ NextFrame \/ SkipFrame \/ Fail \/ Found
  \/ \E block \in blocks : Free(block)

Spec == Init /\ [][Next]_vars

-----------------------------------------------------------------------------
(* Properties.                                                             *)

TypeOK ==
  /\ IsMemoryMap(memory_map)
  /\ iter \in 1 .. Len(memory_map) + 1
  /\ available_end \in 0 .. FrameCount
  /\ pc \in {"map", "search", "run", "halted"} /\ heap \in BOOLEAN
  /\ num_frames \in Nat /\ start_frame_id \in Nat /\ offset \in Nat
  /\ alloc_map_ \subseteq Frames
  /\ blocks \subseteq Frames \X Nat

Given == UNION {Block(b[1], b[2]) : b \in blocks}

\* The frames of the descriptors of available memory, and those in front of the
\* end of the last descriptor.
Available(map) ==
  UNION {Block(map[i].start, map[i].frames) : i \in {k \in DOMAIN map : map[k].available}}

Described(map) ==
  IF map = <<>> THEN {} ELSE 0 .. map[Len(map)].start + map[Len(map)].frames - 1

\* No frame is given to two owners, and a frame that was given stays marked.
BlocksAreDisjoint ==
  /\ \A a, b \in blocks : a # b => Block(a[1], a[2]) \cap Block(b[1], b[2]) = {}
  /\ Given \subseteq alloc_map_

\* The bitmap reflects the memory map as far as the map reaches: frames that are
\* reserved or in a gap are never free, and frames that are available are free
\* unless they were given out.
MapReflected ==
  pc # "map" =>
    \A f \in Described(memory_map) :
      f \in alloc_map_ <=> f \notin Available(memory_map) \/ f \in Given

Fits(s) == \A f \in Block(s, num_frames) : f < FrameCount /\ f \notin alloc_map_

\* First fit: although the search skips behind every obstacle, it finds the lowest
\* block that is free, and fails only when there is none.
AllocateIsFirstFit ==
  [][/\ Found => Fits(start_frame_id) /\ \A s \in Frames : Fits(s) => start_frame_id <= s
     /\ Fail => \A s \in Frames : ~ Fits(s)]_vars

\* The comment on isAvailable (memory_map.hpp:51) says that a region for which it
\* returns false must not be used.  Allocate keeps to that as far as the memory map
\* goes: what it gives out beside the available frames lies behind the last
\* descriptor, where nothing is marked and SetMemoryRange is called by nobody.
UnavailableOnlyBehindMap ==
  \A f \in Given \ Available(memory_map) :
    \A i \in DOMAIN memory_map : f >= memory_map[i].start + memory_map[i].frames
=============================================================================
