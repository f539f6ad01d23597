----------------------------- MODULE UsbMemory -----------------------------
(***************************************************************************)
(* The memory pool of the USB driver (usb/memory.cpp): AllocMem moves a    *)
(* pointer through an array of bytes, and FreeMem does nothing.  A request *)
(* names an alignment and a boundary that its block must not cross; both   *)
(* are powers of two in the code, or 0 for none.                           *)
(***************************************************************************)
EXTENDS Integers

CONSTANTS
  PoolSize   \* kMemoryPoolSize

NULL == 0

VARIABLES
  memory_pool,   \* the address of the array, wherever the linker puts it
  alloc_ptr,
  blocks,        \* history: the blocks that were granted,
  last           \* and the last request, with what AllocMem made of it

pool == <<memory_pool, alloc_ptr, blocks, last>>

Request(size, alignment, boundary) ==
  [size |-> size, alignment |-> alignment, boundary |-> boundary]

\* The mask ~(alignment - 1) rounds down to a multiple.
Ceil(ptr, alignment) == ((ptr + alignment - 1) \div alignment) * alignment

\* Fault: a block that ends at a boundary is moved.
CrossesOrTouches(ptr, r) == r.boundary > 0 /\ Ceil(ptr, r.boundary) <= ptr + r.size

Crosses(ptr, r) == r.boundary > 0 /\ Ceil(ptr, r.boundary) < ptr + r.size

\* Where AllocMem puts a block, starting at ptr.
Place(ptr, r) ==
  LET p == IF r.alignment > 0 THEN Ceil(ptr, r.alignment) ELSE ptr
  IN IF Crosses(p, r) THEN Ceil(p, r.boundary) ELSE p

\* The block is last'.addr.  The pointer has moved to its place even when it does
\* not fit there.
AllocMem(r) ==
  LET p == Place(alloc_ptr, r)
      fits == p + r.size <= memory_pool + PoolSize
      addr == IF fits THEN p ELSE NULL
  IN /\ alloc_ptr' = IF fits THEN p + r.size ELSE p
     /\ blocks' = IF fits THEN blocks \cup {[addr |-> p, request |-> r]} ELSE blocks
     /\ last' = [from |-> alloc_ptr, request |-> r, addr |-> addr]
     /\ UNCHANGED memory_pool
=============================================================================
