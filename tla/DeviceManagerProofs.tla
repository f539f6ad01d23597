------------------------ MODULE DeviceManagerProofs ------------------------
(***************************************************************************)
(* What the xHCI driver keeps in memory is right for a pool of any size    *)
(* that lies anywhere, any number of slots, and however often slots are    *)
(* enabled, addressed and disabled.                                        *)
(*                                                                         *)
(* PoolInv is about AllocMem alone: every block ends at alloc_ptr or       *)
(* below.  QueuesInv says which command or event is on its way in which    *)
(* state of the init task.  SlotsInv: a slot that the tables still show is *)
(* enabled, or main has not come to the event that disabled it; the event  *)
(* that enabled a slot can itself be followed by one that disables it.     *)
(* WorkInv: unless the slot is disabled meanwhile, the init task finds in  *)
(* the tables what it wrote there.                                         *)
(***************************************************************************)
EXTENDS DeviceManager, SequenceTheorems, TLAPS

\* Where the init task has the device in the tables, its context allocated, the context in
\* DCBAA_, and the device in its local.
Found == {"rings", "address", "configure"}
Loaded == {"find"} \cup Found
Allocated == {"input", "load"} \cup Loaded
Created == {"device"} \cup Allocated
Busy == {"enabled", "alloc"} \cup Created

Requests == [size : Nat, alignment : Nat, boundary : Nat]

Commands == [cmd : {"enable"}, slot : {NULL}] \cup [cmd : {"address", "disable"}, slot : Slots]

Completions ==
       [cmd : {"enable"}, slot : {NULL}, ok : {FALSE}]
  \cup [cmd : {"enable", "address", "disable"}, slot : Slots, ok : BOOLEAN]

\* The part of BlocksSeparate that is about one block, for a pool at start.
Placed(b, start) ==
  /\ start <= b.addr /\ End(b) <= start + PoolSize
  /\ b.request.alignment > 0 => b.addr % b.request.alignment = 0
  /\ b.request.boundary > 0 =>
       b.addr \div b.request.boundary = (End(b) - 1) \div b.request.boundary

PoolInv ==
  /\ memory_pool \in Bases /\ alloc_ptr \in Nat /\ memory_pool <= alloc_ptr
  /\ blocks \subseteq [addr : Nat, request : Requests]
  /\ \A b \in blocks : Placed(b, memory_pool) /\ End(b) <= alloc_ptr
  /\ \A b, c \in blocks : b # c => End(b) <= c.addr \/ End(c) <= b.addr
  /\ LowestPlace

ControlInv ==
  /\ at \in {"boot", "run", "enable", "undefined"} \cup Busy
  /\ boot \in 0 .. Len(BootRequests) /\ (at = "boot" => boot < Len(BootRequests))
  /\ slot \in Slots \cup {NULL} /\ (at \in Busy => slot \in Slots)
  /\ rings \in 0 .. Endpoints + 1
  /\ main \in Slots \cup {NULL}

TablesInv ==
  /\ objects \in Seq([dev_ctx : Nat, input_ctx : Nat])
  /\ devices_ \in [Slots -> 0 .. Len(objects)] /\ DCBAA_ \in [Slots -> Nat]
  /\ dev \in 0 .. Len(objects)
  /\ slot_to_port_ \subseteq Slots /\ enabled \subseteq Slots

Asked(c) == c.cmd # "disable"

NothingAsked(q) == \A i \in DOMAIN q : ~ Asked(q[i])

\* What the init task, at a with the slot s, waits for is on its way once.
AskedOnce(c, e, a, s) ==
  /\ \A i \in DOMAIN c : Asked(c[i]) => c[i].cmd = a /\ (a = "address" => c[i].slot = s)
  /\ \A i \in DOMAIN e : Asked(e[i]) => e[i].cmd = a
  /\ \A i, j \in DOMAIN c : Asked(c[i]) /\ Asked(c[j]) => i = j
  /\ \A i, j \in DOMAIN e : Asked(e[i]) /\ Asked(e[j]) => i = j
  /\ NothingAsked(c) \/ NothingAsked(e)

QueuesInv ==
  /\ cmds \in Seq(Commands) /\ events \in Seq(Completions)
  /\ AskedOnce(cmds, events, at, slot)

IsDisabled(e, s) == e = [cmd |-> "disable", slot |-> s, ok |-> TRUE]
IsEnabled(e, s) == e = [cmd |-> "enable", slot |-> s, ok |-> TRUE]

\* The slot s is in use, or an event in q says that it no longer is.
Used(s, slots, q) == s \in slots \/ \E i \in DOMAIN q : IsDisabled(q[i], s)

EnabledUsed(slots, q) ==
  \A i \in DOMAIN q, s \in Slots : IsEnabled(q[i], s) =>
    s \in slots \/ \E j \in DOMAIN q : i < j /\ IsDisabled(q[j], s)

SlotsInv ==
  /\ EnabledUsed(enabled, events)
  /\ ~ raced => \A s \in Slots :
       /\ devices_[s] # NULL => Used(s, enabled, events)
       /\ DCBAA_[s] # NULL => Used(s, enabled, events) \/ main = s

WorkInv ==
  ~ raced =>
    /\ at # "undefined"
    /\ at \in Busy => Used(slot, enabled, events) /\ main # slot
    /\ at \in Created => objects # <<>> /\ devices_[slot] = Len(objects)
    /\ at \in Allocated => (objects[Len(objects)].dev_ctx = NULL => null_written)
    /\ at \in Loaded => DCBAA_[slot] = objects[Len(objects)].dev_ctx
    /\ at \in Found => dev = Len(objects)

DeviceInv == ControlInv /\ TablesInv /\ QueuesInv /\ SlotsInv /\ WorkInv

-----------------------------------------------------------------------------
(* AllocMem.                                                               *)

\* A number between two multiples, and its quotient.
LEMMA Quotient ==
  ASSUME NEW m \in Nat, m > 0, NEW q \in Int, NEW x \in Int, q * m <= x, x < (q + 1) * m
  PROVE  x \div m = q
<1> DEFINE p == x \div m
           s == x % m
<1>1. q * m \in Int /\ (q + 1) * m = q * m + m
  OBVIOUS
<1>2. p \in Int /\ s \in 0 .. m - 1 /\ x = p * m + s /\ p * m \in Int
  OBVIOUS
<1> HIDE DEF p, s
<1>3. (q - p) * m = q * m - p * m
  BY <1>2
<1>4. - m < (q - p) * m /\ (q - p) * m < m
  BY <1>1, <1>2, <1>3
<1>5. q - p >= 1 => (q - p) * m >= m
  BY <1>2
<1>6. q - p <= -1 => (q - p) * m <= - m
  BY <1>2
<1>7. p = q
  BY <1>2, <1>4, <1>5, <1>6
<1> QED BY <1>7 DEF p

\* Ceil is the least multiple that is not below.
LEMMA CeilProperties ==
  ASSUME NEW p \in Nat, NEW m \in Nat, m > 0
  PROVE  /\ Ceil(p, m) \in Nat /\ p <= Ceil(p, m) /\ Ceil(p, m) < p + m
         /\ \E k \in Nat : Ceil(p, m) = k * m
         /\ \A k \in Nat : p <= k * m => Ceil(p, m) <= k * m
<1> DEFINE x == p + m - 1
           k == x \div m
           s == x % m
<1>1. x \in Nat
  OBVIOUS
<1>2. k \in Int /\ s \in 0 .. m - 1 /\ x = k * m + s /\ k * m \in Int
  BY <1>1
<1>3. Ceil(p, m) = k * m
  BY DEF Ceil
<1> HIDE DEF k, s
<1>4. k * m + s = p + m - 1
  BY <1>2
<1> HIDE DEF x
<1>5. p <= k * m /\ k * m < p + m
  BY <1>2, <1>4
<1>6. k \in Nat
  <2>1. k <= -1 => k * m <= - m
    BY <1>2
  <2> QED BY <1>2, <1>5, <2>1
<1>7. ASSUME NEW j \in Nat, p <= j * m PROVE k * m <= j * m
  <2>1. j * m \in Int /\ (k - j) * m = k * m - j * m
    BY <1>2
  <2>2. k - j >= 1 => (k - j) * m >= m
    BY <1>2
  <2>3. (k - j) * m < m
    BY <1>2, <1>5, <1>7, <2>1
  <2>4. k <= j
    BY <1>2, <2>2, <2>3
  <2>5. k - j <= 0 => (k - j) * m <= 0
    BY <1>2
  <2> QED BY <1>2, <2>1, <2>4, <2>5
<1> QED BY <1>3, <1>5, <1>6, <1>7

LEMMA Multiples ==
  ASSUME NEW m \in Nat, m > 0
  PROVE  /\ \A k \in Int : (k * m) % m = 0
         /\ \A x \in Nat : x % m = 0 => \E k \in Nat : x = k * m
<1>1. ASSUME NEW k \in Int PROVE (k * m) % m = 0
  <2>1. k * m \in Int /\ (k + 1) * m = k * m + m
    OBVIOUS
  <2>2. (k * m) \div m = k
    BY <2>1, Quotient
  <2>3. k * m = ((k * m) \div m) * m + ((k * m) % m) /\ (k * m) % m \in Int
    BY <2>1
  <2> QED BY <2>1, <2>2, <2>3
<1>2. ASSUME NEW x \in Nat, x % m = 0 PROVE \E k \in Nat : x = k * m
  <2> DEFINE k == x \div m
  <2>1. k \in Int /\ x = k * m + (x % m) /\ k * m \in Int
    OBVIOUS
  <2>2. x = k * m
    BY <1>2, <2>1
  <2> HIDE DEF k
  <2>3. k <= -1 => k * m <= - m
    BY <2>1
  <2>4. k \in Nat
    BY <2>1, <2>2, <2>3
  <2> QED BY <2>2, <2>4
<1> QED BY <1>1, <1>2

LEMMA MultipleOfMultiple ==
  ASSUME NEW a \in Nat, a > 0, NEW b \in Nat, b > 0, b % a = 0, NEW k \in Nat
  PROVE  (k * b) % a = 0
<1>1. PICK j \in Nat : b = j * a
  BY Multiples
<1> DEFINE i == k * j
<1>2. k * b = i * a /\ i \in Int
  BY <1>1
<1> HIDE DEF i
<1>3. (i * a) % a = 0
  BY <1>2, Multiples
<1> QED BY <1>2, <1>3

\* What the driver asks for: not nothing, and a boundary that the alignment divides and
\* that leaves room for the block.
IsRequest(r) ==
  /\ r \in Requests /\ r.size > 0
  /\ r.boundary > 0 =>
       /\ r.size <= r.boundary
       /\ r.alignment > 0 => r.boundary % r.alignment = 0

\* No multiple of b between n bytes from p on.
Uncrossed(p, n, b) == p \div b = (p + n - 1) \div b

\* The place suits the request, but for the end of the pool.
Fitting(p, r) ==
  /\ r.alignment > 0 => p % r.alignment = 0
  /\ r.boundary > 0 => Uncrossed(p, r.size, r.boundary)

LEMMA NextBoundary ==
  ASSUME NEW p \in Nat, NEW b \in Nat, b > 0, NEW n \in Nat, n > 0, n <= b,
         NEW c \in Nat, c = Ceil(p, b)
  PROVE  /\ c < p + n => Uncrossed(c, n, b) /\ \A x \in p .. c - 1 : ~ Uncrossed(x, n, b)
         /\ c >= p + n => Uncrossed(p, n, b)
<1>1. p <= c /\ c < p + b
  BY CeilProperties
<1>2. PICK k \in Nat : c = k * b
  BY CeilProperties
<1>3. /\ (k + 1) * b = k * b + b /\ (k - 1) * b = k * b - b /\ k * b \in Int
      /\ k - 1 \in Int /\ (k - 1) + 1 = k
  OBVIOUS
<1>4. ASSUME c < p + n PROVE c \div b = (c + n - 1) \div b
  <2>1. c \div b = k
    BY <1>1, <1>2, <1>3, Quotient
  <2> DEFINE x == c + n - 1
  <2>2. x \in Int /\ k * b <= x /\ x < (k + 1) * b
    BY <1>1, <1>2, <1>3
  <2> HIDE DEF x
  <2>3. x \div b = k
    BY <2>2, Quotient
  <2> QED BY <2>1, <2>3 DEF x
<1>5. ASSUME NEW x \in p .. c - 1 PROVE x \div b = k - 1
  <2>1. x \in Int /\ (k - 1) * b <= x /\ x < k * b
    BY <1>1, <1>2, <1>3
  <2> QED BY <1>3, <2>1, Quotient
<1>6. ASSUME c < p + n, NEW x \in p .. c - 1 PROVE x \div b # (x + n - 1) \div b
  <2>1. x + n - 1 \in Int /\ k * b <= x + n - 1 /\ x + n - 1 < (k + 1) * b
    BY <1>1, <1>2, <1>3, <1>6
  <2>2. (x + n - 1) \div b = k
    BY <2>1, Quotient
  <2> QED BY <1>3, <1>5, <2>2
<1>7. ASSUME c >= p + n PROVE p \div b = (p + n - 1) \div b
  <2>1. p \in p .. c - 1 /\ p + n - 1 \in p .. c - 1
    BY <1>1, <1>7
  <2> QED BY <1>5, <2>1
<1> QED BY <1>4, <1>6, <1>7 DEF Uncrossed

\* The place that AllocMem takes is the first from there on that is fitting.
LEMMA PlaceProperties ==
  ASSUME NEW p \in Nat, NEW r, IsRequest(r)
  PROVE  LET q == Place(p, r) IN
         /\ q \in Nat /\ p <= q /\ Fitting(q, r)
         /\ \A x \in Nat : p <= x /\ Fitting(x, r) => q <= x
<1> DEFINE a == r.alignment
           b == r.boundary
           n == r.size
           s == IF a > 0 THEN Ceil(p, a) ELSE p
           c == Ceil(s, b)
           q == IF b > 0 /\ c < s + n THEN c ELSE s
<1>1. /\ a \in Nat /\ b \in Nat /\ n \in Nat /\ n > 0
      /\ b > 0 => n <= b /\ (a > 0 => b % a = 0)
  BY DEF IsRequest, Requests
<1>2. Place(p, r) = q
  BY DEF Place, Crosses
<1>3. \A x : Fitting(x, r) <=> /\ a > 0 => x % a = 0
                               /\ b > 0 => Uncrossed(x, n, b)
  BY DEF Fitting
<1> HIDE DEF a, b, n
<1>4. s \in Nat /\ p <= s
  BY <1>1, CeilProperties
<1>5. ASSUME a > 0 PROVE s % a = 0 /\ \A x \in Nat : p <= x /\ x % a = 0 => s <= x
  <2>1. PICK k \in Nat : s = k * a
    BY <1>1, <1>5, CeilProperties
  <2>2. s % a = 0
    BY <1>1, <1>5, <2>1, Multiples
  <2>3. ASSUME NEW x \in Nat, p <= x, x % a = 0 PROVE s <= x
    <3>1. PICK j \in Nat : x = j * a
      BY <1>1, <1>5, <2>3, Multiples
    <3> QED BY <1>1, <1>5, <2>3, <3>1, CeilProperties
  <2> QED BY <2>2, <2>3
<1>6. ASSUME b > 0 PROVE c \in Nat /\ s <= c /\ (a > 0 => c % a = 0)
  <2>1. c \in Nat /\ s <= c /\ \E k \in Nat : c = k * b
    BY <1>1, <1>4, <1>6, CeilProperties
  <2> QED BY <1>1, <1>6, <2>1, MultipleOfMultiple
<1>7. q \in Nat /\ s <= q
  BY <1>4, <1>6
<1>8. a > 0 => q % a = 0
  BY <1>5, <1>6
<1>9. ASSUME b > 0
      PROVE  Uncrossed(q, n, b) /\ \A x \in s .. q - 1 : ~ Uncrossed(x, n, b)
  <2> HIDE DEF s
  <2>1. c \in Nat
    BY <1>6, <1>9
  <2>2. /\ c < s + n => Uncrossed(c, n, b) /\ \A x \in s .. c - 1 : ~ Uncrossed(x, n, b)
        /\ c >= s + n => Uncrossed(s, n, b)
    <3>1. n <= b
      BY <1>1, <1>9
    <3>2. s \in Nat /\ b \in Nat /\ b > 0 /\ n \in Nat /\ n > 0
      BY <1>1, <1>4, <1>9
    <3> HIDE DEF c
    <3>3. c = Ceil(s, b)
      BY DEF c
    <3> QED BY <2>1, <3>1, <3>2, <3>3, NextBoundary
  <2>3. CASE c < s + n
    BY <1>9, <2>2, <2>3
  <2>4. CASE c >= s + n
    <3>1. q = s
      BY <1>1, <1>4, <2>1, <2>4
    <3>2. s .. q - 1 = {}
      BY <1>4, <3>1
    <3> QED BY <2>2, <2>4, <3>1, <3>2
  <2> QED BY <1>1, <1>4, <2>1, <2>3, <2>4
<1>10. Fitting(q, r)
  BY <1>3, <1>8, <1>9
<1>11. ASSUME NEW x \in Nat, p <= x, Fitting(x, r) PROVE q <= x
  <2>1. s <= x
    BY <1>3, <1>5, <1>11
  <2>2. CASE b > 0
    <3>1. x \notin s .. q - 1
      BY <1>3, <1>9, <1>11, <2>2
    <3> QED BY <1>4, <1>7, <2>1, <3>1
  <2>3. CASE ~ (b > 0)
    BY <2>1, <2>3
  <2> QED BY <2>2, <2>3
<1> QED BY <1>2, <1>4, <1>7, <1>10, <1>11

LEMMA PoolConstants ==
  /\ PoolSize \in Nat /\ Bases \subseteq Nat \ {0} /\ MaxSlots \in Nat /\ Endpoints \in Nat
BY DeviceManagerAssumption

LEMMA SamePoolInv == PoolInv /\ UNCHANGED pool => PoolInv'
BY DEF pool, PoolInv, Placed, End, LowestPlace, Suits

\* A block that is granted begins at alloc_ptr or behind, and so behind all others.
LEMMA AllocMemInv ==
  ASSUME PoolInv, NEW r, IsRequest(r), AllocMem(r)
  PROVE  PoolInv' /\ last'.addr \in Nat
<1> DEFINE p == Place(alloc_ptr, r)
           end == memory_pool + PoolSize
           fits == p + r.size <= end
           b == [addr |-> p, request |-> r]
<1>1. /\ PoolSize \in Nat /\ memory_pool \in Nat /\ memory_pool > 0 /\ memory_pool \in Bases
      /\ alloc_ptr \in Nat /\ memory_pool <= alloc_ptr
      /\ r \in Requests /\ r.size \in Nat /\ r.alignment \in Nat /\ r.boundary \in Nat
      /\ r.size > 0
  BY PoolConstants DEF PoolInv, IsRequest, Requests
<1>2. /\ p \in Nat /\ alloc_ptr <= p /\ Fitting(p, r)
      /\ \A x \in Nat : alloc_ptr <= x /\ Fitting(x, r) => p <= x
  BY <1>1, PlaceProperties
<1>3. /\ fits => alloc_ptr' = p + r.size /\ blocks' = blocks \cup {b}
      /\ ~ fits => alloc_ptr' = p /\ blocks' = blocks
      /\ last' = [from |-> alloc_ptr, request |-> r, addr |-> IF fits THEN p ELSE NULL]
      /\ memory_pool' = memory_pool
  BY DEF AllocMem
<1> HIDE DEF p
<1>4. /\ memory_pool' \in Bases /\ alloc_ptr' \in Nat /\ memory_pool' <= alloc_ptr'
      /\ alloc_ptr <= alloc_ptr'
      /\ last'.addr \in Nat
  BY <1>1, <1>2, <1>3 DEF NULL
<1>5. /\ blocks \subseteq [addr : Nat, request : Requests]
      /\ \A c \in blocks : /\ Placed(c, memory_pool) /\ End(c) <= alloc_ptr /\ End(c) \in Nat
                           /\ c.addr \in Nat
      /\ \A c, d \in blocks : c # d => End(c) <= d.addr \/ End(d) <= c.addr
  BY DEF PoolInv, End, Requests
<1>6. /\ b \in [addr : Nat, request : Requests]
      /\ b.addr = p /\ End(b) = p + r.size /\ End(b) - 1 = p + r.size - 1
  BY <1>1, <1>2 DEF End
<1>7. ASSUME fits PROVE Placed(b, memory_pool)
  BY <1>1, <1>2, <1>6, <1>7 DEF Placed, Fitting, Uncrossed
<1>8. ASSUME NEW c \in blocks' PROVE Placed(c, memory_pool') /\ End(c) <= alloc_ptr'
  <2>1. CASE c \in blocks
    BY <1>1, <1>3, <1>4, <1>5, <2>1 DEF Placed
  <2>2. CASE fits /\ c = b
    <3> HIDE DEF b, fits
    <3>1. alloc_ptr' = End(b) /\ End(b) \in Int
      BY <1>1, <1>2, <1>3, <1>6, <2>2
    <3> QED BY <1>3, <1>7, <2>2, <3>1
  <2> QED BY <1>3, <1>8, <2>1, <2>2
<1>9. ASSUME NEW c \in blocks', NEW d \in blocks', c # d
      PROVE  End(c) <= d.addr \/ End(d) <= c.addr
  <2>1. CASE c \in blocks /\ d \in blocks
    BY <1>5, <1>9, <2>1
  <2>2. CASE fits /\ c \in blocks /\ d = b
    BY <1>1, <1>2, <1>5, <1>6, <2>2
  <2>3. CASE fits /\ d \in blocks /\ c = b
    BY <1>1, <1>2, <1>5, <1>6, <2>3
  <2> QED BY <1>3, <1>9, <2>1, <2>2, <2>3
<1>10. LowestPlace'
  <2> DEFINE places == {x \in alloc_ptr .. end : Suits(x, r)}
  <2>1. \A x : Suits(x, r) <=> Fitting(x, r) /\ x + r.size <= end
    BY DEF Suits, Fitting, Uncrossed
  <2>2. CASE fits
    <3>1. p \in places /\ \A x \in places : p <= x
      BY <1>1, <1>2, <2>1, <2>2
    <3>2. last'.addr = p /\ last'.addr # NULL
      BY <1>1, <1>2, <1>3, <2>2 DEF NULL
    <3> QED BY <1>3, <3>1, <3>2 DEF LowestPlace, Suits
  <2>3. CASE ~ fits
    <3>1. places = {}
      BY <1>1, <1>2, <2>1, <2>3
    <3>2. last'.addr = NULL
      BY <1>3, <2>3
    <3> QED BY <1>3, <3>1, <3>2 DEF LowestPlace, Suits
  <2> QED BY <2>2, <2>3
<1>11. blocks' \subseteq [addr : Nat, request : Requests]
  BY <1>3, <1>5, <1>6
<1> QED BY <1>4, <1>8, <1>9, <1>10, <1>11 DEF PoolInv, End

LEMMA SegmentAligned == Segment % Alignment = 0
<1>1. /\ Alignment \in Nat /\ Alignment > 0 /\ Page \in Nat /\ Page > 0
      /\ Segment \in Nat /\ Page % Alignment = 0 /\ Segment % Page = 0
  BY DeviceManagerAssumption
<1>2. PICK k \in Nat : Segment = k * Page
  BY <1>1, Multiples
<1> QED BY <1>1, <1>2, MultipleOfMultiple

LEMMA DriverRequests ==
  /\ \A k \in 1 .. Len(BootRequests) : IsRequest(BootRequests[k])
  /\ \A n \in {DevCtxSize, InputCtxSize} : IsRequest(Request(n, Alignment, Page))
  /\ IsRequest(Request(RingSize, Alignment, Segment))
<1> DEFINE table == EntrySize * (MaxSlots + 1)
<1>1. /\ EntrySize \in Nat /\ EntrySize > 0 /\ MaxSlots \in Nat /\ table <= Page
      /\ \A n \in {Alignment, Page, Segment, RingSize, ErstSize, DevCtxSize, InputCtxSize} :
           n \in Nat /\ n > 0
      /\ Page % Alignment = 0
      /\ DevCtxSize <= Page /\ InputCtxSize <= Page /\ RingSize <= Segment
      /\ ErstSize <= Segment
  BY DeviceManagerAssumption
<1>2. table \in Nat /\ table > 0
  BY <1>1
<1> HIDE DEF table
<1>3. \A n \in {DevCtxSize, InputCtxSize, table} : IsRequest(Request(n, Alignment, Page))
  BY <1>1, <1>2 DEF IsRequest, Requests, Request
<1>4. \A n \in {RingSize, ErstSize} : IsRequest(Request(n, Alignment, Segment))
  BY <1>1, SegmentAligned DEF IsRequest, Requests, Request
<1>5. IsRequest(Request(table, 0, 0))
  BY <1>2 DEF IsRequest, Requests, Request
<1>6. /\ Len(BootRequests) = 5
      /\ BootRequests[1] = Request(table, Alignment, Page)
      /\ BootRequests[2] = Request(table, 0, 0)
      /\ BootRequests[3] = Request(RingSize, Alignment, Segment)
      /\ BootRequests[4] = Request(RingSize, Alignment, Segment)
      /\ BootRequests[5] = Request(ErstSize, Alignment, Segment)
  BY DEF BootRequests, table
<1>7. \A k \in 1 .. 5 : k \in {1, 2, 3, 4, 5}
  OBVIOUS
<1>8. \A k \in 1 .. 5 : IsRequest(BootRequests[k])
  BY <1>3, <1>4, <1>5, <1>6, <1>7
<1> QED BY <1>3, <1>4, <1>6, <1>8

LEMMA NextPool ==
  ASSUME ControlInv, Next
  PROVE  UNCHANGED pool \/ \E r : IsRequest(r) /\ AllocMem(r)
<1> USE DEF memory
<1>1. CASE Initializer
  <2>1. boot' \in 1 .. Len(BootRequests) /\ AllocMem(BootRequests[boot'])
    BY <1>1 DEF ControlInv, Initializer, AllocCleared, BootRequests
  <2> QED BY <2>1, DriverRequests
<1>2. CASE Initialize
  BY <1>2, DriverRequests DEF Initialize, InitializeContext, AllocCleared
<1>3. CASE AllocTransferRing
  BY <1>3, DriverRequests DEF AllocTransferRing, AllocCleared
<1>4. CASE \/ EnableSlot \/ SetPort \/ AllocDevice \/ LoadDCBAA \/ FindBySlot
           \/ AddressDevice \/ PostProcessing
  BY <1>4 DEF EnableSlot, SetPort, AllocDevice, LoadDCBAA, FindBySlot, AddressDevice,
              PostProcessing
<1>5. CASE MainTask
  BY <1>5 DEF MainTask, Detach, OnEnabled, OnAddressed, DisableSlot, ClearDCBAA
<1>6. CASE CompleteCommand
  BY <1>6 DEF CompleteCommand
<1> QED BY <1>1, <1>2, <1>3, <1>4, <1>5, <1>6 DEF Next, InitTask

-----------------------------------------------------------------------------
(* The queues.                                                             *)

LEMMA AppendParts ==
  ASSUME NEW T, NEW q \in Seq(T), NEW e \in T
  PROVE  LET r == Append(q, e)
             n == Len(q) + 1
         IN /\ r \in Seq(T) /\ n \in DOMAIN r /\ r[n] = e
            /\ \A i \in DOMAIN q : i \in DOMAIN r /\ r[i] = q[i] /\ i < n
            /\ \A i \in DOMAIN r : i \in DOMAIN q \/ i = n
<1>1. /\ Append(q, e) \in Seq(T) /\ Len(Append(q, e)) = Len(q) + 1 /\ Len(q) \in Nat
      /\ DOMAIN Append(q, e) = 1 .. Len(q) + 1 /\ DOMAIN q = 1 .. Len(q)
      /\ \A i \in 1 .. Len(q) : Append(q, e)[i] = q[i]
      /\ Append(q, e)[Len(q) + 1] = e
  BY AppendProperties
<1> QED BY <1>1

LEMMA TailParts ==
  ASSUME NEW T, NEW q \in Seq(T), q # <<>>
  PROVE  LET r == Tail(q)
         IN /\ r \in Seq(T) /\ 1 \in DOMAIN q /\ Head(q) = q[1] /\ Head(q) \in T
            /\ \A i \in DOMAIN r : i + 1 \in DOMAIN q /\ r[i] = q[i + 1] /\ i + 1 # 1
            /\ \A i \in DOMAIN q : i # 1 => i - 1 \in DOMAIN r /\ r[i - 1] = q[i]
            /\ \A i, j \in DOMAIN r : i + 1 = j + 1 => i = j
<1> DEFINE r == Tail(q)
<1>1. /\ Len(q) \in Nat /\ Len(q) > 0 /\ DOMAIN q = 1 .. Len(q)
      /\ \A i \in 1 .. Len(q) : q[i] \in T
      /\ Head(q) = q[1]
      /\ r \in Seq(T) /\ Len(r) = Len(q) - 1 /\ DOMAIN r = 1 .. Len(q) - 1
      /\ \A i \in 1 .. Len(q) - 1 : r[i] = q[i + 1]
  OBVIOUS
<1> HIDE DEF r
<1>2. 1 \in DOMAIN q /\ Head(q) \in T
  BY <1>1
<1>3. \A i \in DOMAIN r : i + 1 \in DOMAIN q /\ r[i] = q[i + 1] /\ i + 1 # 1
  BY <1>1
<1>4. ASSUME NEW i \in DOMAIN q, i # 1 PROVE i - 1 \in DOMAIN r /\ r[i - 1] = q[i]
  <2>1. i - 1 \in 1 .. Len(q) - 1 /\ (i - 1) + 1 = i
    BY <1>1, <1>4
  <2> QED BY <1>1, <2>1
<1>5. \A i, j \in DOMAIN r : i + 1 = j + 1 => i = j
  BY <1>1
<1> QED BY <1>1, <1>2, <1>3, <1>4, <1>5 DEF r

LEMMA Queued ==
  /\ \A c \in Commands : /\ c.cmd \in {"enable", "address", "disable"}
                         /\ c.cmd # "enable" => c.slot \in Slots
  /\ \A e \in Completions : /\ e.cmd \in {"enable", "address", "disable"}
                            /\ e.cmd # "enable" \/ e.ok => e.slot \in Slots
                            /\ e.slot \in Slots \cup {NULL} /\ e.ok \in BOOLEAN
BY DEF Commands, Completions

\* Nobody waits for anything.
LEMMA NobodyWaits ==
  ASSUME NEW c \in Seq(Commands), NEW e \in Seq(Completions), NEW a, NEW s,
         AskedOnce(c, e, a, s), a \notin {"enable", "address"}
  PROVE  NothingAsked(c) /\ NothingAsked(e)
<1>1. /\ \A i \in DOMAIN c : c[i] \in Commands
      /\ \A i \in DOMAIN e : e[i] \in Completions
  OBVIOUS
<1> QED BY <1>1, Queued DEF AskedOnce, NothingAsked, Asked

LEMMA NothingIsOnce ==
  ASSUME NEW c, NEW e, NothingAsked(c), NothingAsked(e), NEW a, NEW s
  PROVE  AskedOnce(c, e, a, s)
BY DEF AskedOnce, NothingAsked

LEMMA PushAsked ==
  ASSUME NEW c \in Seq(Commands), NEW e \in Seq(Completions), NEW d \in Commands,
         NothingAsked(c), NothingAsked(e), NEW s,
         d.cmd = "address" => d.slot = s
  PROVE  AskedOnce(Append(c, d), e, d.cmd, s)
<1> DEFINE r == Append(c, d)
           n == Len(c) + 1
<1>1. /\ n \in DOMAIN r /\ r[n] = d
      /\ \A i \in DOMAIN c : i \in DOMAIN r /\ r[i] = c[i]
      /\ \A i \in DOMAIN r : i \in DOMAIN c \/ i = n
  BY AppendParts
<1> HIDE DEF r, n
<1>2. \A i \in DOMAIN r : Asked(r[i]) => i = n
  BY <1>1 DEF NothingAsked
<1> QED BY <1>1, <1>2 DEF AskedOnce, NothingAsked, r

LEMMA PushUnasked ==
  ASSUME NEW c \in Seq(Commands), NEW e, NEW d \in Commands, ~ Asked(d), NEW a, NEW s,
         AskedOnce(c, e, a, s)
  PROVE  AskedOnce(Append(c, d), e, a, s)
<1> DEFINE r == Append(c, d)
           n == Len(c) + 1
<1>1. /\ n \in DOMAIN r /\ r[n] = d
      /\ \A i \in DOMAIN c : i \in DOMAIN r /\ r[i] = c[i]
      /\ \A i \in DOMAIN r : i \in DOMAIN c \/ i = n
  BY AppendParts
<1> HIDE DEF r, n
<1>2. \A i \in DOMAIN r : Asked(r[i]) => i \in DOMAIN c /\ r[i] = c[i]
  BY <1>1
<1> QED BY <1>1, <1>2 DEF AskedOnce, NothingAsked, r

\* The controller answers the first command.
LEMMA CompleteAsked ==
  ASSUME NEW c \in Seq(Commands), c # <<>>, NEW e \in Seq(Completions), NEW d \in Completions,
         d.cmd = Head(c).cmd, NEW a, NEW s, AskedOnce(c, e, a, s)
  PROVE  AskedOnce(Tail(c), Append(e, d), a, s)
<1> DEFINE t == Tail(c)
           r == Append(e, d)
           n == Len(e) + 1
<1>1. /\ n \in DOMAIN r /\ r[n] = d
      /\ \A i \in DOMAIN e : i \in DOMAIN r /\ r[i] = e[i]
      /\ \A i \in DOMAIN r : i \in DOMAIN e \/ i = n
  BY AppendParts
<1>2. /\ 1 \in DOMAIN c /\ Head(c) = c[1]
      /\ \A i \in DOMAIN t : i + 1 \in DOMAIN c /\ t[i] = c[i + 1] /\ i + 1 # 1
      /\ \A i, j \in DOMAIN t : i + 1 = j + 1 => i = j
  BY TailParts
<1> HIDE DEF r, n, t
<1>3. Asked(d) <=> Asked(c[1])
  BY <1>2 DEF Asked
<1>4. CASE Asked(d)
  <2>1. NothingAsked(e)
    BY <1>2, <1>3, <1>4 DEF AskedOnce, NothingAsked
  <2>2. NothingAsked(t)
    BY <1>2, <1>3, <1>4 DEF AskedOnce, NothingAsked
  <2>3. d.cmd = a
    BY <1>2, <1>3, <1>4 DEF AskedOnce
  <2>4. \A i \in DOMAIN r : Asked(r[i]) => i = n
    BY <1>1, <2>1 DEF NothingAsked
  <2> QED BY <1>1, <2>2, <2>3, <2>4 DEF AskedOnce, NothingAsked, r, t
<1>5. CASE ~ Asked(d)
  <2>1. \A i \in DOMAIN r : Asked(r[i]) => i \in DOMAIN e /\ r[i] = e[i]
    BY <1>1, <1>5
  <2>2. NothingAsked(e) => NothingAsked(r)
    BY <2>1 DEF NothingAsked
  <2>3. NothingAsked(c) => NothingAsked(t)
    BY <1>2 DEF NothingAsked
  <2>4. \A i \in DOMAIN t : Asked(t[i]) => t[i].cmd = a /\ (a = "address" => t[i].slot = s)
    BY <1>2 DEF AskedOnce
  <2>5. \A i, j \in DOMAIN t : Asked(t[i]) /\ Asked(t[j]) => i = j
    BY <1>2 DEF AskedOnce
  <2> QED BY <2>1, <2>2, <2>3, <2>4, <2>5 DEF AskedOnce, r, t
<1> QED BY <1>4, <1>5

\* The main task takes the first event.
LEMMA TakeEvent ==
  ASSUME NEW c \in Seq(Commands), NEW e \in Seq(Completions), e # <<>>, NEW a, NEW s,
         AskedOnce(c, e, a, s)
  PROVE  /\ Asked(Head(e)) =>
              Head(e).cmd = a /\ NothingAsked(c) /\ NothingAsked(Tail(e))
         /\ AskedOnce(c, Tail(e), a, s)
<1> DEFINE t == Tail(e)
<1>1. /\ 1 \in DOMAIN e /\ Head(e) = e[1]
      /\ \A i \in DOMAIN t : i + 1 \in DOMAIN e /\ t[i] = e[i + 1] /\ i + 1 # 1
      /\ \A i, j \in DOMAIN t : i + 1 = j + 1 => i = j
  BY TailParts
<1> HIDE DEF t
<1>2. ASSUME Asked(Head(e))
      PROVE  Head(e).cmd = a /\ NothingAsked(c) /\ NothingAsked(t)
  BY <1>1, <1>2 DEF AskedOnce, NothingAsked
<1>3. \A i \in DOMAIN t : Asked(t[i]) => t[i].cmd = a
  BY <1>1 DEF AskedOnce
<1>4. \A i, j \in DOMAIN t : Asked(t[i]) /\ Asked(t[j]) => i = j
  BY <1>1 DEF AskedOnce
<1>5. NothingAsked(e) => NothingAsked(t)
  BY <1>1 DEF NothingAsked
<1> QED BY <1>2, <1>3, <1>4, <1>5 DEF AskedOnce, t

-----------------------------------------------------------------------------
(* The slots.                                                              *)

\* When the controller completes a command, the slot it takes away is in the event that
\* it sends.
LEMMA CompleteUsed ==
  ASSUME NEW slots \in SUBSET Slots, NEW q \in Seq(Completions), EnabledUsed(slots, q),
         NEW c \in Commands, NEW s \in Slots \cup {NULL}, NEW ok \in BOOLEAN,
         IF c.cmd = "enable"
         THEN IF ok THEN s \in Slots \ slots ELSE s = NULL
         ELSE s = c.slot /\ (ok => s \in slots)
  PROVE  LET d == [cmd |-> c.cmd, slot |-> s, ok |-> ok]
             left == IF ~ ok THEN slots
                     ELSE IF c.cmd = "disable" THEN slots \ {s} ELSE slots \cup {s}
         IN /\ d \in Completions /\ left \subseteq Slots
            /\ EnabledUsed(left, Append(q, d))
            /\ \A t : Used(t, slots, q) => Used(t, left, Append(q, d))
<1> DEFINE d == [cmd |-> c.cmd, slot |-> s, ok |-> ok]
           left == IF ~ ok THEN slots
                   ELSE IF c.cmd = "disable" THEN slots \ {s} ELSE slots \cup {s}
           r == Append(q, d)
           n == Len(q) + 1
<1>1. d \in Completions
  BY Queued DEF Completions
<1>2. /\ n \in DOMAIN r /\ r[n] = d
      /\ \A i \in DOMAIN q : i \in DOMAIN r /\ r[i] = q[i] /\ i < n
      /\ \A i \in DOMAIN r : i \in DOMAIN q \/ i = n
  BY <1>1, AppendParts
<1>3. left \subseteq Slots
  BY Queued
<1>4. /\ \A t : t \in slots => t \in left \/ IsDisabled(d, t)
      /\ \A t : IsEnabled(d, t) => t \in left
  BY DEF IsDisabled, IsEnabled
<1> HIDE DEF d, left, r, n
<1>5. ASSUME NEW t, Used(t, slots, q) PROVE Used(t, left, r)
  <2>1. CASE t \in slots
    BY <1>2, <1>4, <2>1 DEF Used
  <2>2. CASE \E i \in DOMAIN q : IsDisabled(q[i], t)
    BY <1>2, <2>2 DEF Used
  <2> QED BY <1>5, <2>1, <2>2 DEF Used
<1>6. ASSUME NEW i \in DOMAIN r, NEW t \in Slots, IsEnabled(r[i], t)
      PROVE  t \in left \/ \E j \in DOMAIN r : i < j /\ IsDisabled(r[j], t)
  <2>1. CASE i \in DOMAIN q
    <3>1. t \in slots \/ \E j \in DOMAIN q : i < j /\ IsDisabled(q[j], t)
      BY <1>2, <1>6, <2>1 DEF EnabledUsed
    <3> QED BY <1>2, <1>4, <2>1, <3>1
  <2>2. CASE i = n
    BY <1>2, <1>4, <1>6, <2>2
  <2> QED BY <1>2, <2>1, <2>2
<1> QED BY <1>1, <1>3, <1>5, <1>6 DEF EnabledUsed, d, left, r

\* When the main task takes an event, only the slot that this one disables may no longer be
\* in use, and the one that this one enables is.
LEMMA TakeUsed ==
  ASSUME NEW slots, NEW q \in Seq(Completions), q # <<>>, EnabledUsed(slots, q)
  PROVE  /\ EnabledUsed(slots, Tail(q))
         /\ \A t : Used(t, slots, q) => Used(t, slots, Tail(q)) \/ IsDisabled(Head(q), t)
         /\ \A t \in Slots : IsEnabled(Head(q), t) => Used(t, slots, Tail(q))
<1> DEFINE r == Tail(q)
<1>1. /\ r \in Seq(Completions) /\ 1 \in DOMAIN q /\ Head(q) = q[1]
      /\ \A i \in DOMAIN r : i + 1 \in DOMAIN q /\ r[i] = q[i + 1]
      /\ \A i \in DOMAIN q : i # 1 => i - 1 \in DOMAIN r /\ r[i - 1] = q[i]
  BY TailParts
<1>2. DOMAIN q \subseteq Nat \ {0} /\ DOMAIN r \subseteq Nat \ {0}
  BY <1>1
<1> HIDE DEF r
<1>3. ASSUME NEW i \in DOMAIN r, NEW t \in Slots, IsEnabled(r[i], t)
      PROVE  t \in slots \/ \E j \in DOMAIN r : i < j /\ IsDisabled(r[j], t)
  <2>1. t \in slots \/ \E j \in DOMAIN q : i + 1 < j /\ IsDisabled(q[j], t)
    BY <1>1, <1>3 DEF EnabledUsed
  <2>2. ASSUME NEW j \in DOMAIN q, i + 1 < j, IsDisabled(q[j], t)
        PROVE  j - 1 \in DOMAIN r /\ i < j - 1 /\ IsDisabled(r[j - 1], t)
    <3>1. j # 1 /\ i < j - 1
      BY <1>2, <2>2
    <3> QED BY <1>1, <2>2, <3>1
  <2> QED BY <2>1, <2>2
<1>4. ASSUME NEW t, NEW j \in DOMAIN q, j # 1, IsDisabled(q[j], t) PROVE Used(t, slots, r)
  BY <1>1, <1>4 DEF Used
<1>5. \A t : Used(t, slots, q) => Used(t, slots, r) \/ IsDisabled(q[1], t)
  BY <1>4 DEF Used
<1>6. ASSUME NEW t \in Slots, IsEnabled(q[1], t) PROVE Used(t, slots, r)
  <2>1. t \in slots \/ \E j \in DOMAIN q : 1 < j /\ IsDisabled(q[j], t)
    BY <1>1, <1>6 DEF EnabledUsed
  <2>2. CASE t \in slots
    BY <2>2 DEF Used
  <2>3. CASE \E j \in DOMAIN q : 1 < j /\ IsDisabled(q[j], t)
    BY <1>2, <1>4, <2>3
  <2> QED BY <2>1, <2>2, <2>3
<1> QED BY <1>1, <1>3, <1>5, <1>6 DEF EnabledUsed, r

-----------------------------------------------------------------------------
(* The init task.                                                          *)

LEMMA SameQueues ==
  ASSUME QueuesInv, UNCHANGED <<cmds, events>>,
         at \notin {"enable", "address"} \/ UNCHANGED <<at, slot>>
  PROVE  QueuesInv'
<1>1. cmds \in Seq(Commands) /\ events \in Seq(Completions) /\ AskedOnce(cmds, events, at, slot)
  BY DEF QueuesInv
<1>2. AskedOnce(cmds, events, at', slot')
  BY <1>1, NobodyWaits, NothingIsOnce
<1> QED BY <1>1, <1>2 DEF QueuesInv

LEMMA SameSlots ==
  ASSUME SlotsInv, UNCHANGED <<devices_, DCBAA_, enabled, events, main, raced>>
  PROVE  SlotsInv'
BY DEF SlotsInv

LEMMA Cleared ==
  ASSUME NEW r, AllocCleared(r)
  PROVE  (null_written => null_written') /\ (last'.addr = NULL => null_written')
BY DEF AllocCleared

LEMMA ContextsOf ==
  ASSUME NEW q \in Seq([dev_ctx : Nat, input_ctx : Nat]), NEW i \in 1 .. Len(q), NEW a \in Nat
  PROVE  LET Contexts == [dev_ctx : Nat, input_ctx : Nat]
             d == [q EXCEPT ![i].dev_ctx = a]
             c == [q EXCEPT ![i].input_ctx = a]
         IN /\ q[i].dev_ctx \in Nat
            /\ d \in Seq(Contexts) /\ Len(d) = Len(q) /\ d[i].dev_ctx = a
            /\ c \in Seq(Contexts) /\ Len(c) = Len(q) /\ c[i].dev_ctx = q[i].dev_ctx
<1> DEFINE Contexts == [dev_ctx : Nat, input_ctx : Nat]
           d == [q[i] EXCEPT !.dev_ctx = a]
           c == [q[i] EXCEPT !.input_ctx = a]
<1>1. q[i] \in Contexts
  <2>1. q \in Seq(Contexts)
    OBVIOUS
  <2> HIDE DEF Contexts
  <2> QED BY <2>1
<1>2. /\ q[i].dev_ctx \in Nat /\ d \in Contexts /\ c \in Contexts
      /\ d.dev_ctx = a /\ c.dev_ctx = q[i].dev_ctx
  BY <1>1
<1>3. /\ [q EXCEPT ![i].dev_ctx = a] = [q EXCEPT ![i] = d]
      /\ [q EXCEPT ![i].input_ctx = a] = [q EXCEPT ![i] = c]
  OBVIOUS
<1>4. q \in Seq(Contexts)
  OBVIOUS
<1> HIDE DEF Contexts, d, c
<1>5. \A e \in Contexts : /\ [q EXCEPT ![i] = e] \in Seq(Contexts)
                          /\ Len([q EXCEPT ![i] = e]) = Len(q) /\ [q EXCEPT ![i] = e][i] = e
  BY <1>4
<1> QED BY <1>2, <1>3, <1>5 DEF Contexts

LEMMA InitializerInv ==
  ASSUME DeviceInv, Initializer
  PROVE  DeviceInv'
<1> USE DEF DeviceInv, tables, xhc, locals
<1>1. ControlInv'
  <2>1. Len(BootRequests) = 5
    BY DEF BootRequests
  <2> QED BY <2>1 DEF ControlInv, Initializer, Busy, Created, Allocated, Loaded, Found
<1>2. TablesInv'
  BY DEF TablesInv, Initializer
<1>3. QueuesInv'
  BY SameQueues DEF Initializer
<1>4. SlotsInv'
  BY SameSlots DEF Initializer
<1>5. WorkInv'
  BY DEF WorkInv, Initializer, Busy, Created, Allocated, Loaded, Found
<1> QED BY <1>1, <1>2, <1>3, <1>4, <1>5

LEMMA EnableSlotInv ==
  ASSUME DeviceInv, EnableSlot
  PROVE  DeviceInv'
<1> USE DEF DeviceInv, memory, tables, locals
<1>1. ControlInv'
  BY DEF ControlInv, EnableSlot, Busy, Created, Allocated, Loaded, Found
<1>2. TablesInv'
  BY DEF TablesInv, EnableSlot
<1>3. QueuesInv'
  <2> DEFINE c == [cmd |-> "enable", slot |-> NULL]
  <2>1. /\ cmds \in Seq(Commands) /\ events \in Seq(Completions)
        /\ NothingAsked(cmds) /\ NothingAsked(events)
    BY NobodyWaits DEF QueuesInv, EnableSlot
  <2>2. c \in Commands
    BY DEF Commands
  <2>3. AskedOnce(Append(cmds, c), events, "enable", slot) /\ Append(cmds, c) \in Seq(Commands)
    BY <2>1, <2>2, PushAsked, AppendParts
  <2>4. cmds' = Append(cmds, c) /\ events' = events /\ at' = "enable" /\ slot' = slot
    BY DEF EnableSlot, Push
  <2> QED BY <2>1, <2>3, <2>4 DEF QueuesInv
<1>4. SlotsInv'
  BY SameSlots DEF EnableSlot
<1>5. WorkInv'
  BY DEF WorkInv, EnableSlot, Busy, Created, Allocated, Loaded, Found
<1> QED BY <1>1, <1>2, <1>3, <1>4, <1>5

LEMMA SetPortInv ==
  ASSUME DeviceInv, SetPort
  PROVE  DeviceInv'
<1> USE DEF DeviceInv, memory, xhc, locals
<1>1. ControlInv'
  BY DEF ControlInv, SetPort, Busy, Created, Allocated, Loaded, Found
<1>2. TablesInv'
  BY DEF TablesInv, ControlInv, SetPort, Busy
<1>3. QueuesInv'
  BY SameQueues DEF SetPort
<1>4. SlotsInv'
  BY SameSlots DEF SetPort
<1>5. WorkInv'
  BY DEF WorkInv, SetPort, Busy, Created, Allocated, Loaded, Found
<1> QED BY <1>1, <1>2, <1>3, <1>4, <1>5

\* A new device has the next index, which no other slot has yet.
LEMMA AllocDeviceInv ==
  ASSUME DeviceInv, AllocDevice
  PROVE  DeviceInv'
<1> USE DEF DeviceInv, memory, xhc, locals
<1> DEFINE Contexts == [dev_ctx : Nat, input_ctx : Nat]
           new == [dev_ctx |-> NULL, input_ctx |-> NULL]
<1>1. /\ at = "alloc" /\ slot \in Slots /\ objects \in Seq(Contexts)
      /\ devices_ \in [Slots -> 0 .. Len(objects)] /\ dev \in 0 .. Len(objects)
  BY DEF AllocDevice, ControlInv, TablesInv, Busy
<1>2. ControlInv'
  BY DEF ControlInv, AllocDevice, Busy, Created, Allocated, Loaded, Found
<1>3. QueuesInv'
  BY <1>1, SameQueues DEF AllocDevice
<1>4. CASE devices_[slot] # NULL
  <2>1. at' = "run" /\ UNCHANGED <<devices_, objects>>
    BY <1>4 DEF AllocDevice
  <2>2. TablesInv'
    BY <2>1 DEF TablesInv, AllocDevice
  <2>3. SlotsInv'
    BY <2>1, SameSlots DEF AllocDevice
  <2>4. WorkInv'
    BY <2>1 DEF WorkInv, AllocDevice, Busy, Created, Allocated, Loaded, Found
  <2> QED BY <1>2, <1>3, <2>2, <2>3, <2>4
<1>5. CASE devices_[slot] = NULL
  <2>1. /\ objects' = Append(objects, new) /\ at' = "device"
        /\ devices_' = [devices_ EXCEPT ![slot] = Len(objects')]
    BY <1>5 DEF AllocDevice
  <2>2. new \in Contexts
    BY DEF NULL
  <2>3. /\ objects' \in Seq(Contexts) /\ objects' # <<>>
        /\ Len(objects') = Len(objects) + 1 /\ Len(objects) \in Nat
    BY <1>1, <2>1, <2>2, SMTT(30)
  <2>4. TablesInv'
    BY <1>1, <2>1, <2>3, SMTT(30) DEF TablesInv, AllocDevice
  <2>5. ~ raced => Used(slot, enabled, events) /\ main # slot
    BY <1>1 DEF WorkInv, Busy
  <2>6. \A s \in Slots : devices_'[s] = IF s = slot THEN Len(objects') ELSE devices_[s]
    BY <1>1, <2>1
  <2>7. SlotsInv'
    BY <2>5, <2>6 DEF SlotsInv, AllocDevice
  <2>8. WorkInv'
    BY <1>1, <2>1, <2>3, <2>5, <2>6
    DEF WorkInv, AllocDevice, Busy, Created, Allocated, Loaded, Found
  <2> QED BY <1>2, <1>3, <2>4, <2>7, <2>8
<1> QED BY <1>4, <1>5

\* The device that the slot has now is its own, unless it was taken away: then nothing is
\* there, or the slot has been raced for.
LEMMA InitializeInv ==
  ASSUME DeviceInv, PoolInv, Initialize
  PROVE  DeviceInv'
<1> USE DEF DeviceInv, xhc, locals
<1> DEFINE Contexts == [dev_ctx : Nat, input_ctx : Nat]
           i == devices_[slot]
<1>1. /\ at \in {"device", "input"} /\ slot \in Slots /\ slot_to_port_' = slot_to_port_
      /\ objects \in Seq(Contexts) /\ devices_ \in [Slots -> 0 .. Len(objects)]
      /\ UNCHANGED <<boot, devices_, DCBAA_, slot, dev, rings, main, raced, enabled, cmds, events>>
  BY DEF Initialize, InitializeContext, ControlInv, TablesInv, Busy, Created, Allocated
<1>2. /\ i = NULL => at' = "undefined" /\ objects' = objects
      /\ i # NULL =>
           \/ /\ at = "device" /\ at' = "input"
              /\ AllocCleared(Request(DevCtxSize, Alignment, Page))
              /\ objects' = [objects EXCEPT ![i].dev_ctx = last'.addr]
           \/ /\ at = "input" /\ at' = "load"
              /\ AllocCleared(Request(InputCtxSize, Alignment, Page))
              /\ objects' = [objects EXCEPT ![i].input_ctx = last'.addr]
  BY DEF Initialize, InitializeContext
<1>3. ControlInv'
  BY <1>1, <1>2 DEF ControlInv, Busy, Created, Allocated, Loaded, Found
<1>4. QueuesInv'
  BY <1>1, SameQueues
<1>5. SlotsInv'
  BY <1>1, SameSlots
<1>6. CASE i = NULL
  <2>1. raced
    BY <1>1, <1>6 DEF WorkInv, Created, Allocated, NULL
  <2>2. TablesInv'
    BY <1>1, <1>2, <1>6 DEF TablesInv
  <2> QED BY <1>1, <1>3, <1>4, <1>5, <2>1, <2>2 DEF WorkInv
<1>7. CASE i # NULL
  <2>1. i \in 1 .. Len(objects)
    BY <1>1, <1>7 DEF NULL
  <2>2. last'.addr \in Nat
    BY <1>2, <1>7, AllocMemInv, DriverRequests DEF AllocCleared
  <2>3. /\ objects' \in Seq(Contexts) /\ Len(objects') = Len(objects)
        /\ at = "device" => objects'[i].dev_ctx = last'.addr
        /\ at = "input" => objects'[i].dev_ctx = objects[i].dev_ctx
    <3> DEFINE a == last'.addr
               d == [objects EXCEPT ![i].dev_ctx = a]
               c == [objects EXCEPT ![i].input_ctx = a]
    <3>1. /\ d \in Seq(Contexts) /\ Len(d) = Len(objects) /\ d[i].dev_ctx = a
          /\ c \in Seq(Contexts) /\ Len(c) = Len(objects) /\ c[i].dev_ctx = objects[i].dev_ctx
      BY <1>1, <2>1, <2>2, ContextsOf
    <3>2. /\ at = "device" => objects' = d
          /\ at = "input" => objects' = c
      BY <1>2, <1>7
    <3> HIDE DEF a, d, c, i, Contexts
    <3>3. CASE at = "device"
      BY <3>1, <3>2, <3>3 DEF a
    <3>4. CASE at = "input"
      BY <3>1, <3>2, <3>4
    <3> QED BY <1>1, <3>3, <3>4
  <2>4. TablesInv'
    BY <1>1, <2>3 DEF TablesInv
  <2>5. (null_written => null_written') /\ (last'.addr = NULL => null_written')
    BY <1>2, <1>7, Cleared
  <2>6. ASSUME ~ raced PROVE WorkInv'
    <3>1. /\ i = Len(objects) /\ objects # <<>> /\ Used(slot, enabled, events) /\ main # slot
          /\ at = "input" => (objects[i].dev_ctx = NULL => null_written)
      BY <1>1, <2>6 DEF WorkInv, Busy, Created, Allocated
    <3>2. objects' # <<>> /\ Len(objects') = i
      BY <1>1, <2>1, <2>3, <3>1
    <3>3. objects'[i].dev_ctx = NULL => null_written'
      BY <1>1, <2>3, <2>5, <3>1
    <3>4. at' \in {"input", "load"}
      BY <1>2, <1>7
    <3> QED BY <1>1, <3>1, <3>2, <3>3, <3>4 DEF WorkInv, Loaded, Found
  <2>7. raced => WorkInv'
    BY <1>1 DEF WorkInv
  <2> QED BY <1>3, <1>4, <1>5, <2>4, <2>6, <2>7
<1> QED BY <1>6, <1>7

LEMMA LoadDCBAAInv ==
  ASSUME DeviceInv, LoadDCBAA
  PROVE  DeviceInv'
<1> USE DEF DeviceInv, memory, xhc, locals
<1> DEFINE Contexts == [dev_ctx : Nat, input_ctx : Nat]
           i == devices_[slot]
<1>1. /\ at = "load" /\ slot \in Slots /\ objects \in Seq(Contexts)
      /\ devices_ \in [Slots -> 0 .. Len(objects)] /\ DCBAA_ \in [Slots -> Nat]
      /\ UNCHANGED <<boot, devices_, objects, slot_to_port_, slot, dev, rings, main, raced,
                     enabled, cmds, events, null_written>>
      /\ i = NULL => at' = "undefined" /\ DCBAA_' = DCBAA_
      /\ i # NULL => at' = "find" /\ DCBAA_' = [DCBAA_ EXCEPT ![slot] = objects[i].dev_ctx]
  BY DEF LoadDCBAA, ControlInv, TablesInv, Busy, Created, Allocated
<1>2. ControlInv'
  BY <1>1 DEF ControlInv, Busy, Created, Allocated, Loaded
<1>3. QueuesInv'
  BY <1>1, SameQueues
<1>4. ASSUME ~ raced
      PROVE  /\ i = Len(objects) /\ i # NULL /\ objects # <<>> /\ main # slot
             /\ Used(slot, enabled, events) /\ (objects[i].dev_ctx = NULL => null_written)
  BY <1>1, <1>4 DEF WorkInv, Busy, Created, Allocated, NULL
<1>5. CASE i = NULL
  <2>1. TablesInv'
    BY <1>1, <1>5 DEF TablesInv
  <2>2. SlotsInv'
    BY <1>1, <1>5, SameSlots
  <2>3. WorkInv'
    BY <1>1, <1>4, <1>5 DEF WorkInv
  <2> QED BY <1>2, <1>3, <2>1, <2>2, <2>3
<1>6. CASE i # NULL
  <2>1. i \in 1 .. Len(objects) /\ objects[i].dev_ctx \in Nat
    <3>1. i \in 1 .. Len(objects)
      BY <1>1, <1>6 DEF NULL
    <3> QED BY <1>1, <3>1, ContextsOf
  <2>2. \A s \in Slots : DCBAA_'[s] = IF s = slot THEN objects[i].dev_ctx ELSE DCBAA_[s]
    BY <1>1, <1>6
  <2>3. TablesInv'
    BY <1>1, <1>6, <2>1 DEF TablesInv
  <2>4. SlotsInv'
    BY <1>1, <1>4, <2>2 DEF SlotsInv
  <2>5. WorkInv'
    BY <1>1, <1>4, <1>6, <2>2 DEF WorkInv, Found
  <2> QED BY <1>2, <1>3, <2>3, <2>4, <2>5
<1> QED BY <1>5, <1>6

LEMMA FindBySlotInv ==
  ASSUME DeviceInv, FindBySlot
  PROVE  DeviceInv'
<1> USE DEF DeviceInv, memory, tables, xhc
<1>1. at = "find" /\ slot \in Slots /\ devices_[slot] \in 0 .. Len(objects)
  BY DEF FindBySlot, ControlInv, TablesInv, Busy, Created, Allocated, Loaded
<1>2. ControlInv'
  <2>1. rings' = 0 /\ 0 \in 0 .. Endpoints + 1
    BY PoolConstants DEF FindBySlot
  <2> QED BY <1>1, <2>1 DEF ControlInv, FindBySlot, Busy, Created, Allocated, Loaded, Found
<1>3. TablesInv'
  BY <1>1 DEF TablesInv, FindBySlot
<1>4. QueuesInv'
  BY <1>1, SameQueues DEF FindBySlot
<1>5. SlotsInv'
  BY SameSlots DEF FindBySlot
<1>6. WorkInv'
  <2>1. ASSUME ~ raced PROVE devices_[slot] # NULL
    <3>1. objects # <<>> /\ devices_[slot] = Len(objects) /\ objects \in Seq([dev_ctx : Nat, input_ctx : Nat])
      BY <1>1, <2>1 DEF WorkInv, TablesInv, Created, Allocated, Loaded
    <3> QED BY <3>1 DEF NULL
  <2> QED BY <1>1, <2>1 DEF WorkInv, FindBySlot, Busy, Created, Allocated, Loaded, Found
<1> QED BY <1>2, <1>3, <1>4, <1>5, <1>6

LEMMA AllocTransferRingInv ==
  ASSUME DeviceInv, AllocTransferRing
  PROVE  DeviceInv'
<1> USE DEF DeviceInv, tables, xhc
<1>1. ControlInv'
  <2>1. rings' \in 0 .. Endpoints + 1
    BY PoolConstants DEF AllocTransferRing, ControlInv
  <2> QED BY <2>1 DEF ControlInv, AllocTransferRing
<1>2. TablesInv'
  BY DEF TablesInv, AllocTransferRing
<1>3. QueuesInv'
  BY SameQueues DEF AllocTransferRing
<1>4. SlotsInv'
  BY SameSlots DEF AllocTransferRing
<1>5. null_written => null_written'
  BY Cleared DEF AllocTransferRing
<1>6. WorkInv'
  BY <1>5 DEF WorkInv, AllocTransferRing
<1> QED BY <1>1, <1>2, <1>3, <1>4, <1>6

LEMMA AddressDeviceInv ==
  ASSUME DeviceInv, AddressDevice
  PROVE  DeviceInv'
<1> USE DEF DeviceInv, memory, tables, locals
<1> DEFINE c == [cmd |-> "address", slot |-> slot]
<1>1. at = "rings" /\ slot \in Slots /\ at' = "address" /\ cmds' = Append(cmds, c)
  BY DEF AddressDevice, Push, ControlInv, Busy, Created, Allocated, Loaded, Found
<1>2. ControlInv'
  BY <1>1 DEF ControlInv, AddressDevice, Busy, Created, Allocated, Loaded, Found
<1>3. TablesInv'
  BY DEF TablesInv, AddressDevice
<1>4. QueuesInv'
  <2>1. /\ cmds \in Seq(Commands) /\ events \in Seq(Completions)
        /\ NothingAsked(cmds) /\ NothingAsked(events)
    BY <1>1, NobodyWaits DEF QueuesInv
  <2>2. c \in Commands
    BY <1>1 DEF Commands
  <2>3. AskedOnce(Append(cmds, c), events, c.cmd, slot) /\ Append(cmds, c) \in Seq(Commands)
    BY <2>1, <2>2, PushAsked, AppendParts
  <2> QED BY <1>1, <2>1, <2>3 DEF QueuesInv, AddressDevice
<1>5. SlotsInv'
  BY SameSlots DEF AddressDevice
<1>6. WorkInv'
  BY <1>1 DEF WorkInv, AddressDevice, Busy, Created, Allocated, Loaded, Found
<1> QED BY <1>2, <1>3, <1>4, <1>5, <1>6

LEMMA PostProcessingInv ==
  ASSUME DeviceInv, PostProcessing
  PROVE  DeviceInv'
<1> USE DEF DeviceInv, memory, tables, xhc
<1>1. ControlInv'
  <2>1. rings' = 0 /\ 0 \in 0 .. Endpoints + 1
    BY PoolConstants DEF PostProcessing
  <2> QED BY <2>1 DEF ControlInv, PostProcessing, Busy, Created, Allocated, Loaded, Found
<1>2. TablesInv'
  <2>1. dev' = 0 /\ Len(objects) \in Nat
    BY DEF PostProcessing, TablesInv, NULL
  <2> QED BY <2>1 DEF TablesInv, PostProcessing
<1>3. QueuesInv'
  BY SameQueues DEF PostProcessing
<1>4. SlotsInv'
  BY SameSlots DEF PostProcessing
<1>5. WorkInv'
  BY DEF WorkInv, PostProcessing, Busy, Created, Allocated, Loaded, Found
<1> QED BY <1>1, <1>2, <1>3, <1>4, <1>5

-----------------------------------------------------------------------------
(* The main task.                                                          *)

LEMMA DetachInv ==
  ASSUME DeviceInv, Detach
  PROVE  DeviceInv'
<1> USE DEF DeviceInv, memory, tables, locals
<1>1. PICK s \in slot_to_port_ : cmds' = Append(cmds, [cmd |-> "disable", slot |-> s])
  BY DEF Detach, Push
<1> DEFINE c == [cmd |-> "disable", slot |-> s]
<1>2. ControlInv'
  BY DEF ControlInv, Detach
<1>3. TablesInv'
  BY DEF TablesInv, Detach
<1>4. QueuesInv'
  <2>1. s \in Slots
    BY DEF TablesInv
  <2>2. c \in Commands /\ ~ Asked(c)
    BY <2>1 DEF Commands, Asked
  <2>3. cmds \in Seq(Commands) /\ AskedOnce(cmds, events, at, slot)
    BY DEF QueuesInv
  <2>4. AskedOnce(Append(cmds, c), events, at, slot) /\ Append(cmds, c) \in Seq(Commands)
    BY <2>2, <2>3, PushUnasked, AppendParts
  <2> QED BY <1>1, <2>4 DEF QueuesInv, Detach
<1>5. SlotsInv'
  BY SameSlots DEF Detach
<1>6. WorkInv'
  BY DEF WorkInv, Detach
<1> QED BY <1>2, <1>3, <1>4, <1>5, <1>6

\* What taking the first event does to the queues.
LEMMA Taken ==
  ASSUME DeviceInv, NEW kind, Event(kind)
  PROVE  /\ Head(events) \in Completions /\ Head(events).cmd = kind /\ main = NULL
         /\ cmds \in Seq(Commands) /\ events' \in Seq(Completions)
         /\ AskedOnce(cmds, events', at, slot)
         /\ kind # "disable" => at = kind /\ NothingAsked(cmds) /\ NothingAsked(events')
         /\ EnabledUsed(enabled, events')
         /\ \A s : Used(s, enabled, events) =>
              Used(s, enabled, events') \/ IsDisabled(Head(events), s)
         /\ \A s \in Slots : IsEnabled(Head(events), s) => Used(s, enabled, events')
<1>1. /\ main = NULL /\ events # <<>> /\ Head(events).cmd = kind /\ events' = Tail(events)
      /\ cmds \in Seq(Commands) /\ events \in Seq(Completions)
      /\ AskedOnce(cmds, events, at, slot) /\ EnabledUsed(enabled, events)
  BY DEF Event, DeviceInv, QueuesInv, SlotsInv
<1>2. Head(events) \in Completions /\ Tail(events) \in Seq(Completions)
  BY <1>1, TailParts
<1>3. /\ Asked(Head(events)) =>
           Head(events).cmd = at /\ NothingAsked(cmds) /\ NothingAsked(Tail(events))
      /\ AskedOnce(cmds, Tail(events), at, slot)
  BY <1>1, TakeEvent
<1>4. /\ EnabledUsed(enabled, Tail(events))
      /\ \A t : Used(t, enabled, events) =>
           Used(t, enabled, Tail(events)) \/ IsDisabled(Head(events), t)
      /\ \A t \in Slots : IsEnabled(Head(events), t) => Used(t, enabled, Tail(events))
  BY <1>1, TakeUsed
<1> HIDE DEF Completions, Commands
<1>5. kind # "disable" => Asked(Head(events))
  BY <1>1 DEF Asked
<1> QED BY <1>1, <1>2, <1>3, <1>4, <1>5

\* The slot is in use, or an event behind this one says that it no longer is; the init task
\* finds out later than the tables, which is then a race.
LEMMA OnEnabledInv ==
  ASSUME DeviceInv, OnEnabled
  PROVE  DeviceInv'
<1> USE DEF DeviceInv, memory, tables
<1> DEFINE h == Head(events)
<1>1. /\ Event("enable") /\ slot' = h.slot
      /\ at' = IF h.ok THEN "enabled" ELSE "run"
      /\ UNCHANGED <<boot, null_written, devices_, DCBAA_, objects, slot_to_port_, enabled,
                     cmds, dev, rings, main, raced>>
  BY DEF OnEnabled
<1>2. /\ h \in Completions /\ h.cmd = "enable" /\ main = NULL /\ at = "enable"
      /\ cmds \in Seq(Commands) /\ events' \in Seq(Completions)
      /\ NothingAsked(cmds) /\ NothingAsked(events')
      /\ EnabledUsed(enabled, events')
      /\ \A s : Used(s, enabled, events) => Used(s, enabled, events') \/ IsDisabled(h, s)
      /\ \A s \in Slots : IsEnabled(h, s) => Used(s, enabled, events')
  BY <1>1, Taken
<1>3. h.ok \in BOOLEAN /\ h.slot \in Slots \cup {NULL} /\ (h.ok => h.slot \in Slots)
  BY <1>2, Queued
<1>4. h.ok => IsEnabled(h, h.slot)
  BY <1>2, <1>3 DEF Completions, IsEnabled
<1>5. \A s : ~ IsDisabled(h, s)
  BY <1>2 DEF IsDisabled
<1> HIDE DEF h
<1>6. ControlInv'
  BY <1>1, <1>2, <1>3 DEF ControlInv, Busy, Created, Allocated, Loaded, Found
<1>7. TablesInv'
  BY <1>1 DEF TablesInv
<1>8. QueuesInv'
  BY <1>1, <1>2, NothingIsOnce DEF QueuesInv
<1>9. SlotsInv'
  BY <1>1, <1>2, <1>5 DEF SlotsInv
<1>10. WorkInv'
  <2>1. h.ok => Used(h.slot, enabled, events') /\ main # h.slot
    <3>1. NULL \notin Slots
      BY DEF NULL, Slots
    <3> QED BY <1>2, <1>3, <1>4, <3>1
  <2> QED BY <1>1, <1>3, <2>1 DEF WorkInv, Busy, Created, Allocated, Loaded, Found
<1> QED BY <1>6, <1>7, <1>8, <1>9, <1>10

LEMMA OnAddressedInv ==
  ASSUME DeviceInv, OnAddressed
  PROVE  DeviceInv'
<1> USE DEF DeviceInv, memory, tables, locals
<1> DEFINE h == Head(events)
<1>1. /\ Event("address") /\ at' \in {"configure", "run"}
      /\ UNCHANGED <<boot, null_written, devices_, DCBAA_, objects, slot_to_port_, enabled,
                     cmds, slot, dev, rings, main, raced>>
  BY DEF OnAddressed
<1>2. /\ h \in Completions /\ h.cmd = "address" /\ at = "address"
      /\ cmds \in Seq(Commands) /\ events' \in Seq(Completions)
      /\ NothingAsked(cmds) /\ NothingAsked(events')
      /\ EnabledUsed(enabled, events')
      /\ \A s : Used(s, enabled, events) => Used(s, enabled, events') \/ IsDisabled(h, s)
  BY <1>1, Taken
<1>3. \A s : ~ IsDisabled(h, s)
  BY <1>2 DEF IsDisabled
<1> HIDE DEF h
<1>4. ControlInv'
  BY <1>1, <1>2 DEF ControlInv, Busy, Created, Allocated, Loaded, Found
<1>5. TablesInv'
  BY <1>1 DEF TablesInv
<1>6. QueuesInv'
  BY <1>1, <1>2, NothingIsOnce DEF QueuesInv
<1>7. SlotsInv'
  BY <1>1, <1>2, <1>3 DEF SlotsInv
<1>8. WorkInv'
  BY <1>1, <1>2, <1>3 DEF WorkInv, Busy, Created, Allocated, Loaded, Found
<1> QED BY <1>4, <1>5, <1>6, <1>7, <1>8

LEMMA DisableSlotInv ==
  ASSUME DeviceInv, DisableSlot
  PROVE  DeviceInv'
<1> USE DEF DeviceInv, memory, locals
<1> DEFINE h == Head(events)
           d == h.slot
<1>1. /\ Event("disable")
      /\ UNCHANGED <<boot, null_written, DCBAA_, objects, enabled, cmds, at, slot, dev, rings>>
      /\ h.ok => /\ slot_to_port_' = slot_to_port_ \ {d}
                 /\ devices_' = [devices_ EXCEPT ![d] = NULL]
                 /\ main' = d
                 /\ raced' = (raced \/ (d = slot /\ at \notin {"run", "enable"}))
      /\ ~ h.ok => UNCHANGED <<slot_to_port_, devices_, main, raced>>
  BY DEF DisableSlot
<1>2. /\ h \in Completions /\ h.cmd = "disable" /\ main = NULL
      /\ cmds \in Seq(Commands) /\ events' \in Seq(Completions)
      /\ AskedOnce(cmds, events', at, slot)
      /\ EnabledUsed(enabled, events')
      /\ \A s : Used(s, enabled, events) => Used(s, enabled, events') \/ IsDisabled(h, s)
  BY <1>1, Taken
<1>3. h.ok \in BOOLEAN /\ d \in Slots
  BY <1>2, Queued
<1>4. \A s : IsDisabled(h, s) => h.ok /\ s = d
  BY DEF IsDisabled
<1> HIDE DEF h, d
<1>5. ControlInv'
  BY <1>1, <1>3 DEF ControlInv
<1>6. QueuesInv'
  BY <1>1, <1>2 DEF QueuesInv
<1>7. CASE ~ h.ok
  <2>1. TablesInv'
    BY <1>1, <1>7 DEF TablesInv
  <2>2. SlotsInv'
    BY <1>1, <1>2, <1>4, <1>7 DEF SlotsInv
  <2>3. WorkInv'
    BY <1>1, <1>2, <1>4, <1>7 DEF WorkInv
  <2> QED BY <1>5, <1>6, <2>1, <2>2, <2>3
<1>8. CASE h.ok
  <2>1. TablesInv'
    <3>1. Len(objects) \in Nat
      BY DEF TablesInv
    <3>2. devices_' \in [Slots -> 0 .. Len(objects)]
      <4>1. 0 \in 0 .. Len(objects) /\ devices_ \in [Slots -> 0 .. Len(objects)]
        BY <3>1 DEF TablesInv
      <4> QED BY <1>1, <1>8, <4>1 DEF NULL
    <3>3. slot_to_port_' \subseteq Slots
      BY <1>1, <1>8 DEF TablesInv
    <3> QED BY <1>1, <3>2, <3>3 DEF TablesInv
  <2>2. \A s \in Slots : devices_'[s] = IF s = d THEN NULL ELSE devices_[s]
    BY <1>1, <1>3, <1>8 DEF TablesInv
  <2>3. ASSUME ~ raced'
        PROVE  ~ raced /\ (at \in Busy => d # slot)
    BY <1>1, <1>8, <2>3 DEF Busy, Created, Allocated, Loaded, Found
  <2>4. main' = d
    BY <1>1, <1>8
  <2>5. SlotsInv'
    <3>1. NULL \notin Slots
      BY DEF NULL, Slots
    <3> QED BY <1>1, <1>2, <1>4, <2>2, <2>3, <2>4, <3>1 DEF SlotsInv
  <2>6. WorkInv'
    <3>1. at \in Busy => slot \in Slots
      BY DEF ControlInv
    <3> QED BY <1>1, <1>2, <1>4, <2>2, <2>3, <2>4, <3>1
            DEF WorkInv, Busy, Created, Allocated, Loaded, Found
  <2> QED BY <1>5, <1>6, <2>1, <2>5, <2>6
<1> QED BY <1>3, <1>7, <1>8

LEMMA ClearDCBAAInv ==
  ASSUME DeviceInv, ClearDCBAA
  PROVE  DeviceInv'
<1> USE DEF DeviceInv, memory, xhc, locals
<1>1. main \in Slots /\ main' = NULL /\ DCBAA_' = [DCBAA_ EXCEPT ![main] = NULL]
  BY DEF ClearDCBAA, ControlInv
<1>2. ControlInv'
  BY <1>1 DEF ControlInv, ClearDCBAA
<1>3. TablesInv'
  BY <1>1 DEF TablesInv, ClearDCBAA, NULL
<1>4. QueuesInv'
  BY SameQueues DEF ClearDCBAA
<1>5. \A s \in Slots : DCBAA_'[s] = IF s = main THEN NULL ELSE DCBAA_[s]
  BY <1>1 DEF TablesInv
<1>6. SlotsInv'
  BY <1>1, <1>5 DEF SlotsInv, ClearDCBAA
<1>7. WorkInv'
  <2>1. NULL \notin Slots /\ (at \in Busy => slot \in Slots)
    BY DEF NULL, Slots, ControlInv
  <2> QED BY <1>1, <1>5, <2>1 DEF WorkInv, ClearDCBAA, Busy, Created, Allocated, Loaded, Found
<1> QED BY <1>2, <1>3, <1>4, <1>6, <1>7

-----------------------------------------------------------------------------
(* The controller, and the theorems.                                       *)

LEMMA CompleteCommandInv ==
  ASSUME DeviceInv, CompleteCommand
  PROVE  DeviceInv'
<1> USE DEF DeviceInv, memory, tables, locals
<1> DEFINE c == Head(cmds)
<1>1. /\ cmds # <<>> /\ cmds' = Tail(cmds)
      /\ cmds \in Seq(Commands) /\ events \in Seq(Completions)
      /\ AskedOnce(cmds, events, at, slot) /\ EnabledUsed(enabled, events)
      /\ enabled \in SUBSET Slots
      /\ UNCHANGED <<boot, null_written, devices_, DCBAA_, objects, slot_to_port_, at, slot, dev,
                     rings, main, raced>>
  BY DEF CompleteCommand, QueuesInv, SlotsInv, TablesInv
<1>2. c \in Commands /\ Tail(cmds) \in Seq(Commands)
  BY <1>1, TailParts
<1>3. PICK s \in Slots \cup {NULL}, ok \in BOOLEAN :
         /\ IF c.cmd = "enable"
            THEN IF ok THEN s \in Slots \ enabled ELSE s = NULL
            ELSE s = c.slot /\ (ok => s \in enabled)
         /\ enabled' = IF ~ ok THEN enabled
                       ELSE IF c.cmd = "disable" THEN enabled \ {s} ELSE enabled \cup {s}
         /\ events' = Append(events, [cmd |-> c.cmd, slot |-> s, ok |-> ok])
  BY DEF CompleteCommand
<1> DEFINE d == [cmd |-> c.cmd, slot |-> s, ok |-> ok]
<1> HIDE DEF c
<1>4. /\ d \in Completions /\ enabled' \subseteq Slots
      /\ EnabledUsed(enabled', Append(events, d))
      /\ \A t : Used(t, enabled, events) => Used(t, enabled', Append(events, d))
  BY <1>1, <1>2, <1>3, CompleteUsed
<1>5. d.cmd = Head(cmds).cmd
  BY DEF c
<1>6. events' = Append(events, d)
  BY <1>3
<1> HIDE DEF d
<1>7. AskedOnce(Tail(cmds), Append(events, d), at, slot) /\ Append(events, d) \in Seq(Completions)
  BY <1>1, <1>4, <1>5, CompleteAsked, AppendParts
<1>8. ControlInv'
  BY <1>1 DEF ControlInv
<1>9. TablesInv'
  BY <1>1, <1>4 DEF TablesInv
<1>10. QueuesInv'
  BY <1>1, <1>2, <1>6, <1>7 DEF QueuesInv
<1>11. SlotsInv'
  BY <1>1, <1>4, <1>6 DEF SlotsInv
<1>12. WorkInv'
  BY <1>1, <1>4, <1>6 DEF WorkInv
<1> QED BY <1>8, <1>9, <1>10, <1>11, <1>12

LEMMA InitPoolInv == Init => PoolInv
<1> SUFFICES ASSUME Init PROVE PoolInv
  OBVIOUS
<1>1. memory_pool \in Bases /\ alloc_ptr = memory_pool /\ blocks = {} /\ memory_pool \in Nat
  BY PoolConstants DEF Init
<1>2. LowestPlace
  BY DEF Init, LowestPlace, Request
<1> QED BY <1>1, <1>2 DEF PoolInv

LEMMA InitDeviceInv == Init => DeviceInv
<1> SUFFICES ASSUME Init PROVE DeviceInv
  OBVIOUS
<1> USE DEF Init, NULL
<1>1. ControlInv
  <2>1. Len(BootRequests) = 5 /\ Endpoints \in Nat
    BY PoolConstants DEF BootRequests
  <2> QED BY <2>1 DEF ControlInv, Busy, Created, Allocated, Loaded, Found
<1>2. TablesInv
  BY DEF TablesInv
<1>3. QueuesInv
  <2>1. cmds = <<>> /\ events = <<>> /\ DOMAIN cmds = {} /\ DOMAIN events = {}
    OBVIOUS
  <2>2. NothingAsked(cmds) /\ NothingAsked(events)
    BY <2>1 DEF NothingAsked
  <2> QED BY <2>1, <2>2, NothingIsOnce DEF QueuesInv
<1>4. SlotsInv
  <2>1. DOMAIN events = {}
    OBVIOUS
  <2> QED BY <2>1 DEF SlotsInv, EnabledUsed
<1>5. WorkInv
  BY DEF WorkInv, Busy, Created, Allocated, Loaded, Found
<1> QED BY <1>1, <1>2, <1>3, <1>4, <1>5 DEF DeviceInv

LEMMA NextDeviceInv == DeviceInv /\ PoolInv /\ [Next]_vars => DeviceInv'
<1> SUFFICES ASSUME DeviceInv, PoolInv, [Next]_vars PROVE DeviceInv'
  OBVIOUS
<1>1. CASE InitTask
  BY <1>1, EnableSlotInv, SetPortInv, AllocDeviceInv, InitializeInv, LoadDCBAAInv,
     FindBySlotInv, AllocTransferRingInv, AddressDeviceInv, PostProcessingInv DEF InitTask
<1>2. CASE MainTask
  BY <1>2, DetachInv, OnEnabledInv, OnAddressedInv, DisableSlotInv, ClearDCBAAInv DEF MainTask
<1>3. CASE UNCHANGED vars
  BY <1>3 DEF vars, memory, tables, xhc, locals, DeviceInv, ControlInv, TablesInv, QueuesInv,
              SlotsInv, WorkInv
<1> QED BY <1>1, <1>2, <1>3, InitializerInv, CompleteCommandInv DEF Next

LEMMA NextPoolInv == DeviceInv /\ PoolInv /\ [Next]_vars => PoolInv'
<1> SUFFICES ASSUME DeviceInv, PoolInv, [Next]_vars PROVE PoolInv'
  OBVIOUS
<1>1. UNCHANGED pool \/ \E r : IsRequest(r) /\ AllocMem(r)
  BY NextPool DEF DeviceInv, vars, memory
<1> QED BY <1>1, SamePoolInv, AllocMemInv

LEMMA KeptInv == Spec => [](PoolInv /\ DeviceInv)
<1>1. Init => PoolInv /\ DeviceInv
  BY InitPoolInv, InitDeviceInv
<1>2. PoolInv /\ DeviceInv /\ [Next]_vars => (PoolInv /\ DeviceInv)'
  BY NextPoolInv, NextDeviceInv
<1> QED BY <1>1, <1>2, PTL DEF Spec

\* AllocMem gives out the lowest place that suits a request, blocks do not overlap, and what
\* the driver keeps in the tables has its types, for a pool of any size that lies anywhere.
THEOREM MemoryIsKept == Spec => []MemoryKept
<1>1. PoolInv /\ DeviceInv => MemoryKept
  <2> SUFFICES ASSUME PoolInv, DeviceInv PROVE MemoryKept
    OBVIOUS
  <2>1. TypeOK
    BY DEF TypeOK, PoolInv, DeviceInv, ControlInv, TablesInv, Requests
  <2>2. BlocksSeparate
    BY DEF BlocksSeparate, PoolInv, Placed
  <2>3. LowestPlace
    BY DEF PoolInv
  <2> QED BY <2>1, <2>2, <2>3 DEF MemoryKept
<1> QED BY <1>1, KeptInv, PTL

\* The tables and the contexts are those of the devices that are there, and the init task
\* loses its device only to a detach, however many slots there are and however often they
\* are enabled and disabled.
THEOREM DevicesAreKept == Spec => []DevicesKept
<1>1. DeviceInv => DevicesKept
  <2> SUFFICES ASSUME DeviceInv PROVE DevicesKept
    OBVIOUS
  <2>1. DisabledSlotsEmpty
    <3> SUFFICES ASSUME NEW s \in Slots \ enabled, ~ raced, ~ Completed(s), main # s
                 PROVE  devices_[s] = NULL /\ DCBAA_[s] = NULL
      BY DEF DisabledSlotsEmpty
    <3>1. ~ Used(s, enabled, events)
      BY DEF Used, IsDisabled, Completed
    <3> QED BY <3>1 DEF DeviceInv, SlotsInv
  <2>2. AddressedWithContext
    <3> SUFFICES ASSUME ~ raced, NEW i \in DOMAIN cmds, cmds[i].cmd = "address"
                 PROVE  LET s == cmds[i].slot IN
                        /\ devices_[s] = dev /\ dev = Len(objects)
                        /\ DCBAA_[s] = objects[dev].dev_ctx
                        /\ DCBAA_[s] = NULL => null_written
      BY DEF AddressedWithContext
    <3>1. at = "address" /\ cmds[i].slot = slot
      BY DEF DeviceInv, QueuesInv, AskedOnce, Asked
    <3> QED BY <3>1 DEF DeviceInv, WorkInv, Created, Allocated, Loaded, Found
  <2>3. LostOnlyToADetach
    BY DEF LostOnlyToADetach, DeviceInv, WorkInv
  <2> QED BY <2>1, <2>2, <2>3 DEF DevicesKept
<1> QED BY <1>1, KeptInv, PTL
=============================================================================
