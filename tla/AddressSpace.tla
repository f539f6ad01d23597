---------------------------- MODULE AddressSpace ----------------------------
(***************************************************************************)
(* The address spaces of the applications (run_application.cpp, the page   *)
(* fault handler in interrupt.cpp and memory_manager.cpp): RunApplication  *)
(* gives its task a page map of its own, whose lower half is the kernel's, *)
(* and a page of the upper half gets its tables and its frame when the     *)
(* first access to it faults.                                              *)
(*                                                                         *)
(* The tasks are preempted between any two steps, but not in the page      *)
(* fault handler, which an interrupt gate enters.  Frames come first fit   *)
(* from the bitmap of module BitmapMemory; Allocate looks for a frame in   *)
(* one step and marks it in a later one.  The code has four levels of      *)
(* tables, all treated alike.                                              *)
(***************************************************************************)
EXTENDS Integers, FiniteSets, FiniteSetsExt

CONSTANTS
  Tasks,      \* the tasks that run RunApplication
  NoTask,
  Levels,     \* the levels of tables
  Half,       \* entries in one half of a table
  PoolFrames, \* the frames Allocate gives out, after the kernel's own
  Base,       \* the address RunApplication maps
  Addresses,  \* the pages the application touches, as sequences of indices
  Contents    \* what the firmware may have left in a free frame, seen as entries

Kernel == 0      \* the frame of pml4_table
Identity == 1    \* and of the tables below it, which map all memory
KernelFrames == {Kernel, Identity}
NullFrame == -1

Index == 0 .. (2 * Half) - 1
LowerHalf == 0 .. Half - 1

\* An address below 0xffff800000000000, which SetupPageMapForApp refuses.
IsLower(a) == a[1] \in LowerHalf

PageMapEntry == [present : BOOLEAN, frame : PoolFrames \cup KernelFrames, user : BOOLEAN]
Absent == [present |-> FALSE, frame |-> 0, user |-> FALSE]
Entry(frame, user) == [present |-> TRUE, frame |-> frame, user |-> user]
Empty == [i \in Index |-> Absent]

ASSUME AddressSpaceAssumption ==
  /\ NoTask \notin Tasks
  /\ Levels \in Nat /\ Levels >= 2
  /\ Half \in Nat \ {0}
  /\ PoolFrames \subseteq Nat \ KernelFrames /\ IsFiniteSet(PoolFrames)
  /\ Addresses \cup {Base} \subseteq [1 .. Levels -> Index]
  /\ ~IsLower(Base)
  /\ Empty \in Contents /\ Contents \subseteq [Index -> PageMapEntry]

VARIABLES
  contents,     \* what the free frames hold at the start
  memory,       \* the entries in each frame
  allocated,    \* the frames whose bit is set in alloc_map_
  cr3,          \* the page map of each task
  at,           \* where each task is
  addr,         \* the linear address SetupPageMapForApp maps for it,
  level,        \* the table it has come to
  table,
  found,        \* and the frame Allocate has found
  handler,      \* the task in the page fault handler
  touched,      \* the pages the task has used
  twice,        \* history: a frame was marked that was marked already
  dirty,        \* history: a frame became a table with something left in its entries
  illegal       \* history: an access to an address below an application's half

walk == <<addr, level, table, found>>
history == <<touched, twice, dirty, illegal>>
mapsVars == <<contents, memory, allocated, cr3, at, walk, handler, history>>

MapsInit ==
  /\ contents \in Contents
  /\ memory = [f \in PoolFrames \cup KernelFrames |->
                 IF f = Kernel
                 THEN [i \in Index |-> IF i \in LowerHalf THEN Entry(Identity, FALSE) ELSE Absent]
                 ELSE IF f = Identity THEN [i \in Index |-> Entry(Identity, FALSE)]
                 ELSE contents]
  /\ allocated = {}
  /\ cr3 = [t \in Tasks |-> Kernel]
  /\ at = [t \in Tasks |-> "start"]
  /\ addr = [t \in Tasks |-> Base]
  /\ level = [t \in Tasks |-> 1]
  /\ table = [t \in Tasks |-> Kernel]
  /\ found = [t \in Tasks |-> NullFrame]
  /\ handler = NoTask
  /\ touched = [t \in Tasks |-> {}]
  /\ twice = FALSE /\ dirty = FALSE /\ illegal = FALSE

-----------------------------------------------------------------------------
(* The page map of root.                                                   *)

\* The table that an address leads to at each level, and behind the last one the
\* page, while the entries are present.
Path(root, a) ==
  LET path[n \in 1 .. Levels + 1] ==
        IF n = 1 THEN root
        ELSE IF path[n - 1] = NullFrame \/ ~memory[path[n - 1]][a[n - 1]].present
             THEN NullFrame
             ELSE memory[path[n - 1]][a[n - 1]].frame
  IN path

\* Translate4LevelPaging, which is also the processor's walk.
Translate(root, a) == Path(root, a)[Levels + 1]

IsMapped(root, a) == Translate(root, a) # NullFrame

\* An application may use a page when every entry on the way says so.
IsUserPage(root, a) ==
  /\ IsMapped(root, a)
  /\ \A n \in 1 .. Levels : memory[Path(root, a)[n]][a[n]].user

-----------------------------------------------------------------------------
(* A task is preempted anywhere but in the page fault handler.             *)

\* Fault: the gate leaves interrupts on.
MayRunAnyway(t) == at[t] # "halted"

MayRun(t) == handler \in {NoTask, t} /\ \A u \in Tasks : at[u] # "halted"

\* What the search of Allocate finds: the first frame whose bit is clear.
FirstFree ==
  LET free == PoolFrames \ allocated
  IN IF free = {} THEN NullFrame ELSE Min(free)

\* The rest of Allocate.
MarkAllocated(f) ==
  /\ allocated' = allocated \cup {f}
  /\ twice' = (twice \/ f \in allocated)

Goto(t, where) == at' = [at EXCEPT ![t] = where]

\* SetupPML4 up to the middle of Allocate.
SetupPML4(t) ==
  /\ MayRun(t) /\ at[t] = "start"
  /\ found' = [found EXCEPT ![t] = FirstFree]
  /\ Goto(t, "pml4")
  /\ UNCHANGED <<contents, memory, allocated, cr3, addr, level, table, handler, history>>

\* SetupPageMapForApp is entered with the page map of the task.
Enter(t, a, root) ==
  /\ addr' = [addr EXCEPT ![t] = a]
  /\ level' = [level EXCEPT ![t] = 1]
  /\ table' = [table EXCEPT ![t] = root]

\* The page map is cleared whole, and gets the lower half of the current one.
CopyLowerHalf(f) ==
  [i \in Index |-> IF i \in LowerHalf THEN memory[Kernel][i] ELSE Absent]

\* The rest of SetupPML4.  When it fails, RunApplication goes on all the same.
SetCR3(t) ==
  /\ MayRun(t) /\ at[t] = "pml4"
  /\ LET f == found[t]
     IN IF f = NullFrame
        THEN /\ Enter(t, Base, cr3[t])
             /\ UNCHANGED <<memory, allocated, cr3, twice>>
        ELSE /\ MarkAllocated(f)
             /\ memory' = [memory EXCEPT ![f] = CopyLowerHalf(f)]
             /\ cr3' = [cr3 EXCEPT ![t] = f]
             /\ Enter(t, Base, f)
  /\ Goto(t, "walk")
  /\ UNCHANGED <<contents, found, handler, touched, dirty, illegal>>

-----------------------------------------------------------------------------
(* SetupPageMapForApp, one level at a time.                                *)

\* It returns to RunApplication, which ignores the result, or to the page fault
\* handler, which stops the machine when the result is 0.
EndSetup(t, result) ==
  /\ Goto(t, IF handler = t /\ result = 0 THEN "halted" ELSE "run")
  /\ handler' = IF result = 0 THEN handler ELSE NoTask

Descend(t, f) ==
  IF level[t] = Levels
  THEN EndSetup(t, 1) /\ UNCHANGED <<level, table>>
  ELSE /\ level' = [level EXCEPT ![t] = @ + 1]
       /\ table' = [table EXCEPT ![t] = f]
       /\ Goto(t, "walk")
       /\ UNCHANGED handler

\* Fault: an entry that is there is made again.
LookAgain(t) ==
  /\ MayRun(t) /\ at[t] = "walk"
  /\ found' = [found EXCEPT ![t] = FirstFree]
  /\ IF FirstFree = NullFrame THEN EndSetup(t, 0) ELSE Goto(t, "link") /\ UNCHANGED handler
  /\ UNCHANGED <<contents, memory, allocated, cr3, addr, level, table, history>>

Look(t) ==
  /\ MayRun(t) /\ at[t] = "walk"
  /\ LET entry == memory[table[t]][addr[t][level[t]]]
     IN \/ /\ entry.present
           /\ Descend(t, entry.frame)
           /\ UNCHANGED found
        \/ /\ ~entry.present
           /\ found' = [found EXCEPT ![t] = FirstFree]
           /\ IF FirstFree = NullFrame
              THEN EndSetup(t, 0)
              ELSE Goto(t, "link") /\ UNCHANGED handler
           /\ UNCHANGED <<level, table>>
  /\ UNCHANGED <<contents, memory, allocated, cr3, addr, history>>

\* memset with the size of the constant kBytesPerFrame: one entry is cleared.
Cleared(f) == [memory[f] EXCEPT ![0] = Absent]

\* Fault: as in SetIDMapEntry.
EntryOfKernel(f) == Entry(f, FALSE)

NewEntry(f) == Entry(f, TRUE)

\* An entry that is not present matters too: SetPointer and the assignments that follow
\* leave its other bits as they are, page_size among them.
LeftoversIn(f) == \E i \in Index \ {0} : memory[f][i] # Absent

Link(t) ==
  /\ MayRun(t) /\ at[t] = "link"
  /\ LET f == found[t]
         new == [memory EXCEPT ![f] = Cleared(f)]
     IN /\ MarkAllocated(f)
        /\ memory' = [new EXCEPT ![table[t]][addr[t][level[t]]] = NewEntry(f)]
        /\ dirty' = (dirty \/ (level[t] < Levels /\ LeftoversIn(f)))
        /\ Descend(t, f)
  /\ UNCHANGED <<contents, cr3, addr, found, touched, illegal>>

-----------------------------------------------------------------------------
(* The application, and before it the copying of its segments.             *)

\* The access succeeds, or it raises a page fault and is tried again.
Access(t, a) ==
  /\ MayRun(t) /\ at[t] = "run" /\ handler = NoTask /\ a \notin touched[t]
  /\ \/ /\ IsUserPage(cr3[t], a)
        /\ touched' = [touched EXCEPT ![t] = @ \cup {a}]
        /\ UNCHANGED <<at, addr, level, table, handler, illegal>>
     \/ /\ ~IsMapped(cr3[t], a) /\ ~IsLower(a)
        /\ handler' = t
        /\ Enter(t, a, cr3[t])
        /\ Goto(t, "walk")
        /\ UNCHANGED <<touched, illegal>>
     \/ \* a page of the kernel's, or an address SetupPageMapForApp refuses
        /\ IsMapped(cr3[t], a) \/ IsLower(a)
        /\ ~IsUserPage(cr3[t], a)
        /\ handler' = t
        /\ illegal' = (illegal \/ IsLower(a))
        /\ Goto(t, "halted")
        /\ UNCHANGED <<addr, level, table, touched>>
  /\ UNCHANGED <<contents, memory, allocated, cr3, found, twice, dirty>>

\* The system call Exit: RunApplication puts its task to sleep for good, with all
\* its frames.
Exit(t) ==
  /\ MayRun(t) /\ at[t] = "run"
  /\ Goto(t, "sleep")
  /\ UNCHANGED <<contents, memory, allocated, cr3, walk, handler, history>>

MapsNext ==
  \E t \in Tasks :
    \/ SetupPML4(t) \/ SetCR3(t) \/ Look(t) \/ Link(t) \/ Exit(t)
    \/ \E a \in Addresses : Access(t, a)

MapsSpec == MapsInit /\ [][MapsNext]_mapsVars

-----------------------------------------------------------------------------
(* What the address spaces promise.                                        *)

\* The type invariant.
MapsTypeOK ==
  /\ contents \in Contents
  /\ memory \in [PoolFrames \cup KernelFrames -> [Index -> PageMapEntry]]
  /\ allocated \subseteq PoolFrames
  /\ cr3 \in [Tasks -> PoolFrames \cup {Kernel}]
  /\ at \in [Tasks -> {"start", "pml4", "walk", "link", "run", "sleep", "halted"}]
  /\ addr \in [Tasks -> Addresses \cup {Base}]
  /\ level \in [Tasks -> 1 .. Levels]
  /\ table \in [Tasks -> PoolFrames \cup KernelFrames]
  /\ found \in [Tasks -> PoolFrames \cup {NullFrame}]
  /\ handler \in Tasks \cup {NoTask}
  /\ handler # NoTask => at[handler] \in {"walk", "link", "halted"}
  /\ touched \in [Tasks -> SUBSET Addresses]
  /\ {twice, dirty, illegal} \subseteq BOOLEAN

UpperAddresses == {a \in Addresses \cup {Base} : ~IsLower(a)}

\* Two addresses lead through the same tables down to level n.
SameBeginning(a, b, n) == \A k \in 1 .. n - 1 : a[k] = b[k]

\* A frame is one table or one page of one application, and none of the kernel's,
\* however the faults of the tasks interleave: when two ways down the page maps of
\* applications come to one frame, they are one way.  Two things spoil it: a task that was
\* preempted between the search and the marking of its Allocate in SetupPML4 or
\* SetupPageMapForApp (run_application.cpp:21, 928), and a table that was cleared
\* in its first entry only (run_application.cpp:931).
FramesSeparate ==
  ~twice /\ ~dirty =>
    \A t, u \in Tasks : \A a, b \in UpperAddresses : \A n, m \in 1 .. Levels + 1 :
      /\ cr3[t] # Kernel /\ cr3[u] # Kernel
      /\ Path(cr3[t], a)[n] # NullFrame
      => /\ Path(cr3[t], a)[n] \in allocated
         /\ Path(cr3[t], a)[n] = Path(cr3[u], b)[m] => t = u /\ n = m /\ SameBeginning(a, b, n)

\* A page that an application has used once stays its page: it is never mapped
\* again or taken away, since nothing is swapped out and Exit frees nothing.
TouchedStaysMapped ==
  ~twice /\ ~dirty => \A t \in Tasks : \A a \in touched[t] : IsUserPage(cr3[t], a)

\* The handler runs to its end before another task allocates: what its Allocate has
\* found is still free when it marks it.  Only RunApplication's own calls can take
\* a frame that another task has taken.
FaultTakesFreeFrame ==
  handler # NoTask /\ at[handler] = "link" => found[handler] \notin allocated

\* Every page map has the lower half of the kernel's, which stays as it was, and
\* the kernel's own page map gets no entry for an application, not even when
\* SetupPML4 has failed and RunApplication calls SetupPageMapForApp with it.
KernelMapKept ==
  ~twice /\ ~dirty =>
    /\ \A t \in Tasks : \A i \in LowerHalf : memory[cr3[t]][i] = Entry(Identity, FALSE)
    /\ \A i \in Index \ LowerHalf : memory[Kernel][i] = Absent
    /\ \A i \in Index : memory[Identity][i] = Entry(Identity, FALSE)

\* The page fault handler stops the machine, with interrupts off and for all the
\* tasks, only when an application leaves its half of the addresses or when all the
\* frames are taken (interrupt.cpp:160): within its half, an application never
\* meets a page that is mapped and not its own.
HaltsForAReason ==
  (\E t \in Tasks : at[t] = "halted") /\ ~twice /\ ~dirty => illegal \/ allocated = PoolFrames

\* A fault that was handled does not come back: when SetupPageMapForApp is done with
\* an address, in the handler or in RunApplication, the address has a page for the
\* application, unless it gave up for want of a frame.
HandledMeansMapped ==
  [][\A t \in Tasks :
       at[t] \in {"walk", "link"} /\ at'[t] = "run" /\ ~twice' /\ ~dirty' /\ PoolFrames # allocated'
         => IsUserPage(cr3[t], addr[t])']_mapsVars

\* The page maps of the applications and of the kernel, over every interleaving.
MapsKept == MapsTypeOK /\ FramesSeparate /\ TouchedStaysMapped /\ KernelMapKept

\* The page fault handler works alone, and gives up only when it must.
FaultsHandledAlone == FaultTakesFreeFrame /\ HaltsForAReason
=============================================================================
