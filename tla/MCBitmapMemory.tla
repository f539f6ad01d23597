--------------------------- MODULE MCBitmapMemory ---------------------------
(* An instance of BitmapMemory for TLC: every memory map of a small machine. *)
EXTENDS BitmapMemory, TLC

CONSTANT MaxDescriptors

Descriptors ==
  {d \in [start : 0 .. FrameCount - 1, frames : 1 .. FrameCount, available : BOOLEAN] :
     d.start + d.frames <= FrameCount}

Ascending(map) ==
  \A i, j \in DOMAIN map : i < j => map[i].start + map[i].frames <= map[j].start

SmallMaps ==
  UNION {{map \in [1 .. k -> Descriptors] : Ascending(map)} : k \in 1 .. MaxDescriptors}
=============================================================================
