-------------------------- MODULE InputOutputProofs --------------------------
(***************************************************************************)
(* Proofs about the network card with its driver and the protocols,        *)
(* Network, for a receive ring of any size and packets of any lengths, and *)
(* about the terminal on its screen, Terminal, for every size of both.     *)
(*                                                                         *)
(* The invariant of the ring counts the bytes that all packets so far take *)
(* in it: CBA, the driver's offset and CAPR are remainders of two such     *)
(* counts, which lie less than the size of the ring apart.  That is why    *)
(* the remainders of what the card writes and of what is unread differ.    *)
(* The invariant of the wire says what is missing on it, by where the      *)
(* driver is: nothing, or the last frame, which is then in its buffer.     *)
(*                                                                         *)
(* The invariant of the screen adds to what is on display that nothing is  *)
(* below the cursor's row but blanks and that the display never starts     *)
(* below it: a scroll copies a row nobody wrote, and has to show it blank. *)
(* The invariant of the terminal adds that the line in the buffer is made  *)
(* of characters, so that the NUL which ends it is where the line does,    *)
(* and that the cursor's row repeats the buffer cell by cell.              *)
(***************************************************************************)
EXTENDS Network, Terminal, SequenceTheorems, NaturalsInduction, WellFoundedInduction, TLAPS

-----------------------------------------------------------------------------
(* Naturals, and functions defined step by step.                          *)

\* Induction on the naturals, for a set in the place of a predicate.
LEMMA NatSetInduction ==
  ASSUME NEW S, S \subseteq Nat, 0 \in S, \A n \in S : n + 1 \in S
  PROVE  S = Nat
<1> DEFINE T == Nat \ S
<1> SUFFICES ASSUME T # {} PROVE FALSE
  OBVIOUS
<1>1. PICK x \in T : \A y \in T : ~ (<<y, x>> \in OpToRel(<, Nat))
  <2> T \subseteq Nat
    OBVIOUS
  <2> QED BY NatLessThanWellFounded, WFMin
<1>2. x \in Nat /\ x # 0
  OBVIOUS
<1>3. x - 1 \in T
  OBVIOUS
<1>4. <<x - 1, x>> \in OpToRel(<, Nat)
  BY <1>2 DEF OpToRel
<1> QED BY <1>1, <1>3, <1>4

\* Induction on 0 .. N.
LEMMA UpTo ==
  ASSUME NEW N \in Nat, NEW S, 0 \in S, \A n \in 1 .. N : n - 1 \in S => n \in S
  PROVE  0 .. N \subseteq S
<1> DEFINE T == {k \in Nat : k <= N => k \in S}
<1>1. 0 \in T
  OBVIOUS
<1>2. ASSUME NEW k \in T PROVE k + 1 \in T
  <2>1. CASE k + 1 <= N
    <3>1. k + 1 \in 1 .. N /\ (k + 1) - 1 = k /\ k \in S
      BY <2>1, <1>2
    <3>2. k + 1 \in S
      BY <3>1
    <3> QED BY <3>2, <1>2
  <2>2. CASE ~ (k + 1 <= N)
    BY <2>2, <1>2
  <2> QED BY <2>1, <2>2
<1>3. T = Nat
  <2> T \subseteq Nat
    OBVIOUS
  <2> HIDE DEF T
  <2> QED BY <1>1, <1>2, NatSetInduction
<1>4. ASSUME NEW n \in 0 .. N PROVE n \in S
  <2>1. n \in Nat /\ n <= N
    OBVIOUS
  <2>2. n \in T
    <3> HIDE DEF T
    <3> QED BY <1>3, <2>1
  <2> QED BY <2>1, <2>2
<1> QED BY <1>4

\* f starts with first and goes on step by step.
IsStepwise(f, N, D, first, step) ==
  /\ f \in [0 .. N -> D]
  /\ f[0] = first
  /\ \A n \in 1 .. N : f[n] = step[n][f[n - 1]]

\* A function may be defined on 0 .. N by its first value and by steps.
LEMMA StepByStep ==
  ASSUME NEW N \in Nat, NEW D, NEW first \in D, NEW step \in [1 .. N -> [D -> D]]
  PROVE  \E f : IsStepwise(f, N, D, first, step)
<1> DEFINE Upto(k) == \E f \in [0 .. k -> D] :
                        f[0] = first /\ \A n \in 1 .. N : n <= k => f[n] = step[n][f[n - 1]]
           S == {k \in 0 .. N : Upto(k)}
<1>1. 0 \in S
  <2> DEFINE f == [n \in 0 .. 0 |-> first]
  <2>1. f \in [0 .. 0 -> D] /\ f[0] = first
    OBVIOUS
  <2>2. \A n \in 1 .. N : ~ (n <= 0)
    OBVIOUS
  <2> HIDE DEF f
  <2>3. Upto(0)
    BY <2>1, <2>2
  <2> QED BY <2>3
<1>2. ASSUME NEW k \in 1 .. N, k - 1 \in S PROVE k \in S
  <2>1. PICK f \in [0 .. k - 1 -> D] :
          f[0] = first /\ \A n \in 1 .. N : n <= k - 1 => f[n] = step[n][f[n - 1]]
    BY <1>2
  <2> DEFINE g == [n \in 0 .. k |-> IF n <= k - 1 THEN f[n] ELSE step[k][f[k - 1]]]
  <2>2. step[k][f[k - 1]] \in D
    OBVIOUS
  <2>3. g \in [0 .. k -> D]
    BY <2>2
  <2>4. g[0] = first
    BY <2>1
  <2>5. ASSUME NEW n \in 1 .. N, n <= k PROVE g[n] = step[n][g[n - 1]]
    <3>1. CASE n <= k - 1
      BY <2>1, <3>1
    <3>2. CASE n = k
      BY <3>2
    <3> QED BY <2>5, <3>1, <3>2
  <2> HIDE DEF g
  <2>6. Upto(k)
    BY <2>3, <2>4, <2>5
  <2> QED BY <2>6
<1>3. 0 .. N \subseteq S
  <2> HIDE DEF S
  <2> QED BY <1>1, <1>2, UpTo
<1>4. Upto(N)
  <2>1. N \in S
    <3> HIDE DEF S
    <3> QED BY <1>3
  <2> QED BY <2>1
<1>5. PICK f \in [0 .. N -> D] :
         f[0] = first /\ \A n \in 1 .. N : n <= N => f[n] = step[n][f[n - 1]]
  BY <1>4
<1>6. IsStepwise(f, N, D, first, step)
  BY <1>5 DEF IsStepwise
<1> QED BY <1>6

-----------------------------------------------------------------------------
(* Remainders.                                                             *)

\* A remainder is the one its bounds allow.
LEMMA Remainder ==
  ASSUME NEW m \in Nat, m > 0, NEW q \in Int, NEW r \in 0 .. m - 1
  PROVE  (q * m + r) % m = r
<1> DEFINE x == q * m + r
           p == x \div m
           s == x % m
<1>1. q * m \in Int /\ x \in Int
  OBVIOUS
<1>2. p \in Int /\ s \in 0 .. m - 1 /\ x = p * m + s
  BY <1>1
<1> HIDE DEF p, s
<1>3. (q - p) * m = s - r
  BY <1>2
<1>4. q - p >= 1 => (q - p) * m >= m
  BY <1>2
<1>5. q - p <= -1 => (q - p) * m <= - m
  BY <1>2
<1>6. q - p = 0
  BY <1>2, <1>3, <1>4, <1>5
<1>7. s = r
  BY <1>2, <1>3, <1>6
<1> QED BY <1>7 DEF s

\* Every number is a multiple and a remainder.
LEMMA Divided ==
  ASSUME NEW m \in Nat, m > 0, NEW x \in Int
  PROVE  /\ x % m \in 0 .. m - 1
         /\ \E q \in Int : x = q * m + (x % m)
<1> DEFINE q == x \div m
           s == x % m
<1>1. q \in Int /\ s \in 0 .. m - 1 /\ x = q * m + s
  OBVIOUS
<1> HIDE DEF q
<1> QED BY <1>1

\* A remainder taken before an addition makes no difference.
LEMMA RemainderFirst ==
  ASSUME NEW m \in Nat, m > 0, NEW x \in Int, NEW d \in Int
  PROVE  ((x % m) + d) % m = (x + d) % m
<1>1. PICK q \in Int : x = q * m + (x % m)
  BY Divided
<1> DEFINE s == x % m
           r == (s + d) % m
<1>2. s \in 0 .. m - 1 /\ x = q * m + s
  BY <1>1, Divided
<1> HIDE DEF s
<1>3. s + d \in Int
  BY <1>2
<1>4. r \in 0 .. m - 1 /\ \E p \in Int : s + d = p * m + r
  BY <1>3, Divided
<1> HIDE DEF r
<1>5. PICK p \in Int : s + d = p * m + r
  BY <1>4
<1>6. x + d = (q + p) * m + r /\ q + p \in Int
  BY <1>2, <1>5, <1>4
<1>7. ((q + p) * m + r) % m = r
  BY <1>4, <1>6, Remainder
<1> QED BY <1>6, <1>7 DEF r, s

\* Once round makes no difference either.
LEMMA OnceRound ==
  ASSUME NEW m \in Nat, m > 0, NEW x \in Int
  PROVE  (x + m) % m = x % m
<1> DEFINE s == x % m
<1>1. s \in 0 .. m - 1
  BY Divided
<1>2. PICK q \in Int : x = q * m + s
  BY Divided
<1> HIDE DEF s
<1>3. x + m = (q + 1) * m + s /\ q + 1 \in Int
  BY <1>1, <1>2
<1>4. ((q + 1) * m + s) % m = s
  BY <1>1, <1>3, Remainder
<1> QED BY <1>3, <1>4 DEF s

\* A remainder of an aligned number in an aligned ring is aligned.
LEMMA RemainderAligned ==
  ASSUME NEW x \in Int, NEW q \in Int, NEW m \in Int, NEW r \in Int,
         x = q * m + r, x % 4 = 0, m % 4 = 0
  PROVE  r % 4 = 0
<1>1. PICK a \in Int : x = a * 4
  OBVIOUS
<1>2. PICK b \in Int : m = b * 4
  OBVIOUS
<1>3. q * m = (q * b) * 4 /\ q * b \in Int
  BY <1>2
<1> DEFINE c == q * b
<1>4. c \in Int /\ r = (a - c) * 4
  BY <1>1, <1>3
<1> HIDE DEF c
<1> QED BY <1>4

\* Two numbers less than m apart have different remainders.
LEMMA RemaindersDiffer ==
  ASSUME NEW m \in Nat, m > 0, NEW x \in Int, NEW y \in Int, x < y, y < x + m
  PROVE  x % m # y % m
<1> SUFFICES ASSUME x % m = y % m PROVE FALSE
  OBVIOUS
<1> DEFINE r == x % m
<1>1. r \in 0 .. m - 1 /\ r = y % m
  BY Divided
<1>2. PICK q \in Int : x = q * m + r
  BY Divided
<1>3. PICK p \in Int : y = p * m + r
  BY <1>1, Divided
<1> HIDE DEF r
<1>4. y - x = (p - q) * m
  BY <1>1, <1>2, <1>3
<1>5. p - q >= 1 => (p - q) * m >= m
  OBVIOUS
<1>6. p - q <= 0 => (p - q) * m <= 0
  OBVIOUS
<1> QED BY <1>4, <1>5, <1>6

\* How far apart they are, the remainders show.
LEMMA DistanceOfRemainders ==
  ASSUME NEW m \in Nat, m > 0, NEW x \in Int, NEW y \in Int, x <= y, y < x + m
  PROVE  ((y % m) - (x % m)) % m = y - x
<1>1. PICK q \in Int : x = q * m + (x % m)
  BY Divided
<1>2. PICK p \in Int : y = p * m + (y % m)
  BY Divided
<1> DEFINE r == x % m
           s == y % m
<1>3. r \in 0 .. m - 1 /\ s \in 0 .. m - 1 /\ x = q * m + r /\ y = p * m + s
  BY <1>1, <1>2, Divided
<1> HIDE DEF r, s
<1>4. s - r = (q - p) * m + (y - x) /\ q - p \in Int
  BY <1>3
<1>5. y - x \in 0 .. m - 1
  OBVIOUS
<1>6. ((q - p) * m + (y - x)) % m = y - x
  BY <1>4, <1>5, Remainder
<1> QED BY <1>4, <1>6 DEF r, s

-----------------------------------------------------------------------------
(* The receive ring.                                                       *)

\* What a packet takes in the ring.
SizeOf(p) == AlignUp(Header + p.length)

LEMMA AlignUpProperties ==
  ASSUME NEW n \in Nat
  PROVE  /\ AlignUp(n) \in Nat /\ n <= AlignUp(n)
         /\ AlignUp(n) % 4 = 0
         /\ \A r \in Nat : r % 4 = 0 => AlignUp(r + n) = r + AlignUp(n)
<1>1. AlignUp(n) \in Nat /\ n <= AlignUp(n) /\ AlignUp(n) % 4 = 0
  BY DEF AlignUp
<1>2. ASSUME NEW r \in Nat, r % 4 = 0 PROVE AlignUp(r + n) = r + AlignUp(n)
  BY <1>2 DEF AlignUp
<1> QED BY <1>1, <1>2

LEMMA SizeOfPacket ==
  ASSUME NEW p \in Packets
  PROVE  /\ p.length \in Nat /\ p.length > 4
         /\ SizeOf(p) \in Nat /\ Header + p.length <= SizeOf(p) /\ SizeOf(p) % 4 = 0
<1>1. p.length \in Nat /\ p.length > 4
  BY NetworkAssumption DEF CRC
<1>2. Header + p.length \in Nat
  BY <1>1 DEF Header
<1> QED BY <1>1, <1>2, AlignUpProperties DEF SizeOf

LEMMA RoomUnfolds ==
  ASSUME NEW packets \in Seq(Packets)
  PROVE  /\ RoomFor(packets) \in [0 .. Len(packets) -> Nat]
         /\ RoomFor(packets)[0] = 0
         /\ \A n \in 1 .. Len(packets) :
              RoomFor(packets)[n] = RoomFor(packets)[n - 1] + SizeOf(packets[n])
<1> DEFINE N == Len(packets)
           step == [n \in 1 .. N |-> [b \in Nat |-> b + SizeOf(packets[n])]]
<1>1. N \in Nat /\ \A n \in 1 .. N : packets[n] \in Packets
  OBVIOUS
<1>2. step \in [1 .. N -> [Nat -> Nat]]
  BY <1>1, SizeOfPacket
<1>3. PICK f : IsStepwise(f, N, Nat, 0, step)
  <2> HIDE DEF step, N
  <2> QED BY <1>1, <1>2, StepByStep
<1>4. f \in [0 .. N -> Nat] /\ f[0] = 0
  BY <1>3 DEF IsStepwise
<1>5. ASSUME NEW n \in 1 .. N PROVE f[n] = f[n - 1] + SizeOf(packets[n])
  <2>1. f[n] = step[n][f[n - 1]]
    BY <1>3 DEF IsStepwise
  <2>2. f[n - 1] \in Nat
    BY <1>4
  <2> QED BY <2>1, <2>2
<1>6. f = [n \in 0 .. N |-> IF n = 0 THEN 0 ELSE f[n - 1] + SizeOf(packets[n])]
  <2> HIDE DEF N
  <2>1. \A n \in 0 .. N : f[n] = IF n = 0 THEN 0 ELSE f[n - 1] + SizeOf(packets[n])
    BY <1>1, <1>4, <1>5
  <2> QED BY <1>4, <2>1
<1>7. RoomFor(packets) =
        CHOOSE g : g = [n \in 0 .. N |-> IF n = 0 THEN 0 ELSE g[n - 1] + SizeOf(packets[n])]
  BY DEF RoomFor, SizeOf
<1>8. RoomFor(packets) =
        [n \in 0 .. N |-> IF n = 0 THEN 0
                          ELSE RoomFor(packets)[n - 1] + SizeOf(packets[n])]
  <2> HIDE DEF N
  <2> QED BY <1>6, <1>7
<1>9. RoomFor(packets) \in [0 .. N -> Nat]
  <2> DEFINE g == RoomFor(packets)
             T == {n \in 0 .. N : g[n] \in Nat}
  <2>1. 0 \in T
    BY <1>1, <1>8
  <2>2. ASSUME NEW n \in 1 .. N, n - 1 \in T PROVE n \in T
    <3>1. g[n] = g[n - 1] + SizeOf(packets[n])
      BY <1>8
    <3>2. SizeOf(packets[n]) \in Nat /\ g[n - 1] \in Nat
      BY <1>1, <2>2, SizeOfPacket
    <3> HIDE DEF g
    <3> QED BY <3>1, <3>2
  <2>3. 0 .. N \subseteq T
    <3> HIDE DEF T, N
    <3> QED BY <1>1, <2>1, <2>2, UpTo
  <2>4. \A n \in 0 .. N : g[n] \in Nat
    BY <2>3
  <2> HIDE DEF N
  <2> QED BY <1>8, <2>4
<1>10. 0 \in 0 .. N /\ \A n \in 1 .. N : n \in 0 .. N /\ n # 0
  BY <1>1
<1> DEFINE g == RoomFor(packets)
<1>11. \A n \in 0 .. N : g[n] = IF n = 0 THEN 0 ELSE g[n - 1] + SizeOf(packets[n])
  <2> HIDE DEF N
  <2> QED BY <1>8
<1> HIDE DEF N, g
<1>12. g[0] = 0 /\ \A n \in 1 .. N : g[n] = g[n - 1] + SizeOf(packets[n])
  BY <1>10, <1>11
<1> QED BY <1>9, <1>12 DEF N, g

LEMMA RoomProperties ==
  ASSUME NEW packets \in Seq(Packets)
  PROVE  /\ \A n \in 0 .. Len(packets) : RoomFor(packets)[n] % 4 = 0
         /\ \A n \in 0 .. Len(packets) : \A k \in 0 .. n :
              RoomFor(packets)[k] <= RoomFor(packets)[n]
<1> DEFINE N == Len(packets)
           room == RoomFor(packets)
           T == {n \in 0 .. N : room[n] % 4 = 0 /\ \A k \in 0 .. n : room[k] <= room[n]}
<1>1. N \in Nat /\ \A n \in 1 .. N : packets[n] \in Packets
  OBVIOUS
<1>2. /\ room \in [0 .. N -> Nat] /\ room[0] = 0
      /\ \A n \in 1 .. N : room[n] = room[n - 1] + SizeOf(packets[n])
  BY RoomUnfolds
<1> HIDE DEF room, N
<1>3. 0 \in T
  BY <1>1, <1>2
<1>4. ASSUME NEW n \in 1 .. N, n - 1 \in T PROVE n \in T
  <2>1. room[n] = room[n - 1] + SizeOf(packets[n])
    BY <1>2
  <2>2. SizeOf(packets[n]) \in Nat /\ SizeOf(packets[n]) % 4 = 0
    BY <1>1, SizeOfPacket
  <2>3. room[n - 1] \in Nat /\ room[n] \in Nat
    BY <1>1, <1>2
  <2>4. room[n - 1] % 4 = 0 /\ \A k \in 0 .. n - 1 : room[k] <= room[n - 1]
    BY <1>4
  <2>5. room[n] % 4 = 0
    BY <2>1, <2>2, <2>3, <2>4
  <2>6. ASSUME NEW k \in 0 .. n PROVE room[k] <= room[n]
    <3>1. CASE k = n
      BY <3>1, <2>3
    <3>2. CASE k # n
      <4>1. k \in 0 .. n - 1 /\ k \in 0 .. N
        BY <3>2, <1>1
      <4>2. room[k] <= room[n - 1] /\ room[k] \in Nat
        BY <4>1, <2>4, <1>2
      <4> QED BY <4>2, <2>1, <2>2, <2>3
    <3> QED BY <3>1, <3>2
  <2> QED BY <2>5, <2>6
<1>5. 0 .. N \subseteq T
  <2> HIDE DEF T
  <2> QED BY <1>1, <1>3, <1>4, UpTo
<1>6. \A n \in 0 .. N : room[n] % 4 = 0 /\ \A k \in 0 .. n : room[k] <= room[n]
  BY <1>5
<1> QED BY <1>6 DEF room, N

\* A packet that arrives leaves the places of the earlier ones alone.
LEMMA RoomAfterArrival ==
  ASSUME NEW packets \in Seq(Packets), NEW p \in Packets
  PROVE  /\ \A n \in 0 .. Len(packets) : RoomFor(Append(packets, p))[n] = RoomFor(packets)[n]
         /\ RoomFor(Append(packets, p))[Len(packets) + 1] =
              RoomFor(packets)[Len(packets)] + SizeOf(p)
<1> DEFINE N == Len(packets)
           more == Append(packets, p)
           room == RoomFor(packets)
           new == RoomFor(more)
           T == {n \in 0 .. N : new[n] = room[n]}
<1>1. /\ N \in Nat /\ more \in Seq(Packets) /\ Len(more) = N + 1 /\ more[N + 1] = p
      /\ \A n \in 1 .. N : more[n] = packets[n]
  OBVIOUS
<1>2. /\ room[0] = 0
      /\ \A n \in 1 .. N : room[n] = room[n - 1] + SizeOf(packets[n])
  BY RoomUnfolds
<1>3. /\ new[0] = 0
      /\ \A n \in 1 .. N + 1 : new[n] = new[n - 1] + SizeOf(more[n])
  <2> HIDE DEF more
  <2> QED BY <1>1, RoomUnfolds
<1> HIDE DEF room, new, N, more
<1>4. 0 \in T
  BY <1>1, <1>2, <1>3
<1>5. ASSUME NEW n \in 1 .. N, n - 1 \in T PROVE n \in T
  <2>1. n \in 1 .. N + 1 /\ new[n - 1] = room[n - 1]
    BY <1>1, <1>5
  <2> QED BY <1>1, <1>2, <1>3, <2>1
<1>6. 0 .. N \subseteq T
  <2> HIDE DEF T
  <2> QED BY <1>1, <1>4, <1>5, UpTo
<1>7. \A n \in 0 .. N : new[n] = room[n]
  BY <1>6
<1>8. N + 1 \in 1 .. N + 1 /\ (N + 1) - 1 = N /\ N \in 0 .. N
  BY <1>1
<1>9. new[N + 1] = new[N] + SizeOf(more[N + 1])
  BY <1>3, <1>8
<1>10. new[N + 1] = room[N] + SizeOf(p)
  BY <1>1, <1>7, <1>8, <1>9
<1> QED BY <1>7, <1>10 DEF room, new, N, more

-----------------------------------------------------------------------------
(* The invariant of the network.                                           *)

Room == RoomFor(arrived)

\* CBA, the driver's offset and CAPR stand where the counts of the packets say, and
\* the ring is never full.
RingInv ==
  /\ rx_offset_ = Room[handled] % RxSize
  /\ current_address_of_packet_read = CAPR(rx_offset_)
  /\ current_buffer_address = Room[Len(arrived)] % RxSize
  /\ Room[Len(arrived)] - Room[handled] < RxSize

\* UnreadKept, with the places counted on.
UnreadInv ==
  \A k \in handled + 1 .. Len(arrived) :
    \A i \in 0 .. Header + arrived[k].length - 1 :
      rx_buffer[(Room[k - 1] + i) % RxSize] = <<k, i>>

DataOf(k) == [i \in 1 .. arrived[k].length - CRC |-> <<k, Header + i - 1>>]

\* A packet that the driver has begun to take is there, and its copy is whole.
CopyInv ==
  /\ pc \in {"copy", "release"} => handled < Len(arrived)
  /\ pc = "release" => packet = DataOf(handled + 1)
  /\ pc = "handle" => handled >= 1 /\ packet = DataOf(handled)

ReceiveInv == NetworkTypeOK /\ RingInv /\ UnreadInv /\ CopyInv

\* The register of 16 bits gives the driver's offset back.
LEMMA ReadPositionIsOffset ==
  ASSUME rx_offset_ \in 0 .. RxSize - 1, current_address_of_packet_read = CAPR(rx_offset_)
  PROVE  /\ ReadPosition = rx_offset_
         /\ CAPR(rx_offset_) \in 0 .. Word - 1
<1> DEFINE W == Word
           G == CAPRGap
<1>1. RxSize \in Nat /\ RxSize > 0 /\ RxSize < W /\ W \in Nat /\ W > 0 /\ G \in Int
  BY RtlAssumption DEF Word, CAPRGap
<1>2. CAPR(rx_offset_) = (rx_offset_ - G) % W /\ ReadPosition = ((CAPR(rx_offset_) + G) % W) % RxSize
  BY DEF CAPR, ReadPosition
<1> HIDE DEF W, G
<1>3. rx_offset_ \in 0 .. W - 1 /\ rx_offset_ - G \in Int /\ rx_offset_ \in Int
  BY <1>1
<1>4. CAPR(rx_offset_) \in 0 .. W - 1
  BY <1>1, <1>2, <1>3, Divided
<1>5. (CAPR(rx_offset_) + G) % W = (rx_offset_ - G + G) % W
  BY <1>1, <1>2, <1>3, RemainderFirst
<1>6. rx_offset_ - G + G = 0 * W + rx_offset_ /\ rx_offset_ = 0 * RxSize + rx_offset_
  BY <1>1, <1>3
<1>7. (0 * W + rx_offset_) % W = rx_offset_
  BY <1>1, <1>3, Remainder
<1>8. (0 * RxSize + rx_offset_) % RxSize = rx_offset_
  BY <1>1, Remainder
<1> QED BY <1>2, <1>4, <1>5, <1>6, <1>7, <1>8 DEF W

\* The counts behind the registers.
LEMMA RingFacts ==
  ASSUME NetworkTypeOK, RingInv
  PROVE  /\ RxSize \in Nat /\ RxSize > 0 /\ RxSize % 4 = 0
         /\ Len(arrived) \in Nat /\ handled \in Nat /\ handled <= Len(arrived)
         /\ \A n \in 1 .. Len(arrived) : arrived[n] \in Packets
         /\ \A n \in 0 .. Len(arrived) : Room[n] \in Nat /\ Room[n] % 4 = 0
         /\ \A n \in 0 .. Len(arrived) : \A k \in 0 .. n : Room[k] <= Room[n]
         /\ \A n \in 1 .. Len(arrived) : Room[n] = Room[n - 1] + SizeOf(arrived[n])
         /\ Room[handled] <= Room[Len(arrived)]
         /\ ReadPosition = rx_offset_
<1>1. arrived \in Seq(Packets) /\ handled \in 0 .. Len(arrived)
  BY DEF NetworkTypeOK
<1>2. RxSize \in Nat /\ RxSize > 0 /\ RxSize % 4 = 0
  BY RtlAssumption
<1>3. rx_offset_ \in 0 .. RxSize - 1 /\ current_address_of_packet_read = CAPR(rx_offset_)
  BY DEF NetworkTypeOK, RingInv
<1>4. /\ \A n \in 0 .. Len(arrived) : Room[n] \in Nat /\ Room[n] % 4 = 0
      /\ \A n \in 0 .. Len(arrived) : \A k \in 0 .. n : Room[k] <= Room[n]
      /\ \A n \in 1 .. Len(arrived) : Room[n] = Room[n - 1] + SizeOf(arrived[n])
  <2>1. \A n \in 0 .. Len(arrived) : Room[n] \in Nat
    BY <1>1, RoomUnfolds DEF Room
  <2> QED BY <1>1, <2>1, RoomUnfolds, RoomProperties DEF Room
<1>5. Len(arrived) \in Nat /\ \A n \in 1 .. Len(arrived) : arrived[n] \in Packets
  BY <1>1
<1>6. Len(arrived) \in 0 .. Len(arrived) /\ handled \in Nat /\ handled <= Len(arrived)
  BY <1>1, <1>5
<1>7. Room[handled] <= Room[Len(arrived)]
  BY <1>1, <1>4, <1>6
<1>8. ReadPosition = rx_offset_
  BY <1>3, ReadPositionIsOffset
<1> QED BY <1>2, <1>4, <1>5, <1>6, <1>7, <1>8

LEMMA BufferEmptyMeans ==
  ASSUME NetworkTypeOK, RingInv
  PROVE  buffer_empty <=> handled = Len(arrived)
<1>1. /\ RxSize \in Nat /\ RxSize > 0 /\ Len(arrived) \in Nat /\ handled \in Nat
      /\ handled <= Len(arrived) /\ ReadPosition = rx_offset_
  BY RingFacts
<1>2. buffer_empty <=> Room[Len(arrived)] % RxSize = Room[handled] % RxSize
  BY <1>1 DEF buffer_empty, RingInv
<1>3. CASE handled = Len(arrived)
  BY <1>2, <1>3
<1>4. CASE handled # Len(arrived)
  <2>1. handled + 1 \in 1 .. Len(arrived) /\ (handled + 1) - 1 = handled
    BY <1>1, <1>4
  <2>2. arrived[handled + 1] \in Packets /\ Room[handled + 1] = Room[handled] + SizeOf(arrived[handled + 1])
    BY <2>1, RingFacts
  <2>3. SizeOf(arrived[handled + 1]) \in Nat /\ SizeOf(arrived[handled + 1]) > 0
    <3>1. Header + arrived[handled + 1].length <= SizeOf(arrived[handled + 1])
          /\ arrived[handled + 1].length > 4 /\ arrived[handled + 1].length \in Nat
          /\ SizeOf(arrived[handled + 1]) \in Nat
      BY <2>2, SizeOfPacket
    <3> QED BY <3>1 DEF Header
  <2>4. Room[handled + 1] <= Room[Len(arrived)]
    <3>1. Len(arrived) \in 0 .. Len(arrived) /\ handled + 1 \in 0 .. Len(arrived)
      BY <1>1, <2>1
    <3> QED BY <3>1, RingFacts
  <2>5. Room[handled] \in Nat /\ Room[Len(arrived)] \in Nat /\ Room[handled + 1] \in Nat
    <3>1. Len(arrived) \in 0 .. Len(arrived) /\ handled + 1 \in 0 .. Len(arrived)
          /\ handled \in 0 .. Len(arrived)
      BY <1>1, <2>1
    <3> QED BY <3>1, RingFacts
  <2>6. Room[handled] < Room[Len(arrived)] /\ Room[Len(arrived)] < Room[handled] + RxSize
    BY <1>1, <2>2, <2>3, <2>4, <2>5, SMTT(30) DEF RingInv
  <2>7. Room[handled] % RxSize # Room[Len(arrived)] % RxSize
    <3> DEFINE x == Room[handled]
               y == Room[Len(arrived)]
    <3>1. x \in Int /\ y \in Int /\ x < y /\ y < x + RxSize
      BY <2>5, <2>6
    <3> HIDE DEF x, y
    <3>2. x % RxSize # y % RxSize
      BY <1>1, <3>1, RemaindersDiffer
    <3> QED BY <3>2 DEF x, y
  <2> QED BY <1>2, <1>4, <2>7
<1> QED BY <1>3, <1>4

\* The card sees how much of the ring is free.
LEMMA RoomThatIsFree ==
  ASSUME NetworkTypeOK, RingInv, NEW p \in Packets, HasRoom(p)
  PROVE  Room[Len(arrived)] + SizeOf(p) - Room[handled] < RxSize
<1>1. /\ RxSize \in Nat /\ RxSize > 0 /\ Len(arrived) \in Nat /\ handled \in Nat
      /\ handled <= Len(arrived) /\ ReadPosition = rx_offset_
      /\ Room[handled] <= Room[Len(arrived)]
  BY RingFacts
<1>2. Room[handled] \in Nat /\ Room[Len(arrived)] \in Nat
  <2>1. Len(arrived) \in 0 .. Len(arrived) /\ handled \in 0 .. Len(arrived)
    BY <1>1
  <2> QED BY <2>1, RingFacts
<1>3. SizeOf(p) \in Nat
  BY SizeOfPacket
<1>4. CASE buffer_empty
  <2>1. SizeOf(p) < RxSize
    BY <1>4 DEF HasRoom, SizeOf
  <2>2. handled = Len(arrived)
    BY <1>4, BufferEmptyMeans
  <2> QED BY <1>1, <1>2, <1>3, <2>1, <2>2
<1>5. CASE ~buffer_empty
  <2> DEFINE x == Room[Len(arrived)]
             y == Room[handled] + RxSize
  <2>1. SizeOf(p) < ((Room[handled] % RxSize) - (x % RxSize)) % RxSize
    BY <1>1, <1>5 DEF HasRoom, SizeOf, RingInv
  <2>2. Room[handled] # x
    BY <1>1, <1>5 DEF buffer_empty, RingInv
  <2>3. x \in Int /\ y \in Int /\ x <= y /\ y < x + RxSize
    BY <1>1, <1>2, <2>2 DEF RingInv
  <2>4. y % RxSize = Room[handled] % RxSize
    <3> DEFINE h == Room[handled]
    <3>1. h \in Int
      BY <1>2
    <3> HIDE DEF h
    <3>2. (h + RxSize) % RxSize = h % RxSize
      BY <1>1, <3>1, OnceRound
    <3> QED BY <3>2 DEF h
  <2>5. ((y % RxSize) - (x % RxSize)) % RxSize = y - x
    <3> HIDE DEF x, y
    <3> QED BY <1>1, <2>3, DistanceOfRemainders
  <2>6. SizeOf(p) < y - x
    BY <2>1, <2>4, <2>5
  <2> QED BY <1>1, <1>2, <1>3, <2>6
<1> QED BY <1>4, <1>5

\* The card writes a packet behind the others, and over nothing that is unread.
LEMMA CardReceivesStep ==
  ASSUME ReceiveInv, NEW p \in Packets, CardReceives(p), nic_' = nic_
  PROVE  /\ ReceiveInv'
         /\ Room'[Len(arrived')] = Room[Len(arrived)] + SizeOf(p)
<1> DEFINE N == Len(arrived)
           x == Room[N]
           Cell(b) == (b - current_buffer_address) % RxSize
<1>a. NetworkTypeOK /\ RingInv /\ UnreadInv /\ CopyInv
  BY DEF ReceiveInv
<1>1. /\ N \in Nat /\ handled \in Nat /\ handled <= N
      /\ RxSize \in Nat /\ RxSize > 0
  BY <1>a, RingFacts
<1>0. arrived \in Seq(Packets)
  BY <1>a DEF NetworkTypeOK
<1>2. /\ N < MaxArrivals /\ HasRoom(p) /\ arrived' = Append(arrived, p)
      /\ rx_buffer' = [b \in 0 .. RxSize - 1 |->
                         IF Cell(b) < Header + p.length THEN <<N + 1, Cell(b)>> ELSE rx_buffer[b]]
      /\ current_buffer_address' = (current_buffer_address + SizeOf(p)) % RxSize
      /\ UNCHANGED <<handled, current_address_of_packet_read, rx_offset_, packet, sending, out, pc>>
  BY DEF CardReceives, SizeOf
<1>3. /\ Len(arrived') = N + 1 /\ arrived' \in Seq(Packets) /\ arrived'[N + 1] = p
      /\ \A k \in 1 .. N : arrived'[k] = arrived[k]
  BY <1>0, <1>2
<1>4. /\ \A n \in 0 .. N : Room'[n] = Room[n]
      /\ Room'[N + 1] = x + SizeOf(p)
  BY <1>0, <1>2, RoomAfterArrival DEF Room
<1>5. /\ p.length \in Nat /\ p.length > 4
      /\ SizeOf(p) \in Nat /\ SizeOf(p) \in Int /\ Header + p.length <= SizeOf(p)
  BY SizeOfPacket
<1>6. /\ x \in Nat /\ Room[handled] \in Nat /\ x \in Int /\ Room[handled] <= x
      /\ handled \in 0 .. N /\ N \in 0 .. N
  BY <1>a, <1>1, RingFacts
<1>7. x + SizeOf(p) - Room[handled] < RxSize
  BY <1>a, <1>2, RoomThatIsFree
<1>8. /\ current_buffer_address = x % RxSize
      /\ current_buffer_address \in 0 .. RxSize - 1 /\ rx_offset_ \in 0 .. RxSize - 1
  BY <1>a DEF RingInv, NetworkTypeOK
\* Where a cell lies behind CBA.
<1>9. ASSUME NEW y \in Int, x <= y, y < x + RxSize
      PROVE  y % RxSize \in 0 .. RxSize - 1 /\ Cell(y % RxSize) = y - x
  <2> HIDE DEF x
  <2>1. ((y % RxSize) - (x % RxSize)) % RxSize = y - x
    BY <1>1, <1>6, <1>9, DistanceOfRemainders
  <2>2. y % RxSize \in 0 .. RxSize - 1
    BY <1>1, <1>9, Divided
  <2> QED BY <1>8, <2>1, <2>2
<1> HIDE DEF x, Cell
<1>10. RingInv'
  <2>1. Room'[handled'] = Room[handled] /\ Room'[Len(arrived')] = x + SizeOf(p)
    BY <1>2, <1>3, <1>4, <1>6
  <2>2. current_buffer_address' = (x + SizeOf(p)) % RxSize
    BY <1>1, <1>2, <1>5, <1>6, <1>8, RemainderFirst
  <2>3. CAPR(rx_offset_)' = CAPR(rx_offset_)
    BY <1>2 DEF CAPR
  <2>4. rx_offset_' = Room[handled] % RxSize /\ current_address_of_packet_read' = CAPR(rx_offset_)
    BY <1>a, <1>2 DEF RingInv
  <2>5. Room'[Len(arrived')] - Room'[handled'] < RxSize
    BY <1>1, <1>5, <1>6, <1>7, <2>1
  <2>6. /\ rx_offset_' = Room'[handled'] % RxSize
        /\ current_address_of_packet_read' = CAPR(rx_offset_)'
        /\ current_buffer_address' = Room'[Len(arrived')] % RxSize
    BY <2>1, <2>2, <2>3, <2>4
  <2> QED BY <2>5, <2>6 DEF RingInv
<1>11. UnreadInv'
  <2>1. SUFFICES ASSUME NEW k \in handled + 1 .. N + 1,
                        NEW i \in 0 .. Header + arrived'[k].length - 1
                 PROVE  rx_buffer'[(Room'[k - 1] + i) % RxSize] = <<k, i>>
    BY <1>2, <1>3 DEF UnreadInv
  <2>2. k \in Nat /\ k - 1 \in 0 .. N /\ i \in Nat
    <3>1. k - 1 \in 0 .. N /\ k \in Nat
      BY <1>1
    <3> QED BY <3>1 DEF Header
  <2>3. Room'[k - 1] = Room[k - 1]
    BY <1>4, <2>2
  <2>4. CASE k = N + 1
    <3>1. k - 1 = N /\ i < Header + p.length
      BY <1>1, <1>3, <1>5, <2>4 DEF Header
    <3>2. Room[k - 1] = x
      BY <3>1 DEF x
    <3>3. x + i \in Int /\ x <= x + i /\ x + i < x + RxSize
      BY <1>1, <1>5, <1>6, <1>7, <2>2, <3>1, SMTT(30) DEF Header
    <3>4. (x + i) % RxSize \in 0 .. RxSize - 1 /\ Cell((x + i) % RxSize) = i
      BY <1>6, <1>9, <2>2, <3>3
    <3> QED BY <1>2, <2>3, <2>4, <3>1, <3>2, <3>4
  <2>5. CASE k # N + 1
    <3>1. k \in handled + 1 .. N /\ k \in 1 .. N /\ arrived'[k] = arrived[k]
      BY <1>1, <1>3, <2>5
    <3>2. rx_buffer[(Room[k - 1] + i) % RxSize] = <<k, i>>
      BY <1>a, <3>1 DEF UnreadInv
    <3> DEFINE z == Room[k - 1] + i
    <3>3. Room[k - 1] \in Nat /\ Room[k] \in Nat /\ Room[handled] <= Room[k - 1] /\ Room[k] <= x
          /\ Room[k] = Room[k - 1] + SizeOf(arrived[k]) /\ arrived[k] \in Packets
      <4>1. k \in 0 .. N /\ handled \in 0 .. k - 1
        BY <1>1, <3>1
      <4> QED BY <1>a, <1>6, <2>2, <3>1, <4>1, RingFacts DEF x
    <3>4. i < SizeOf(arrived[k])
      <4>1. arrived[k].length \in Nat /\ Header + arrived[k].length <= SizeOf(arrived[k])
            /\ SizeOf(arrived[k]) \in Nat
        BY <3>3, SizeOfPacket
      <4> QED BY <3>1, <4>1 DEF Header
    <3>5. SizeOf(arrived[k]) \in Nat
      BY <3>3, SizeOfPacket
    <3>6. z \in Nat /\ z \in Int /\ Room[handled] <= z /\ z < x
      <4> DEFINE r == Room[k - 1]
                 q == Room[k]
                 h == Room[handled]
                 w == SizeOf(arrived[k])
      <4>1. r \in Nat /\ q \in Nat /\ h <= r /\ q <= x /\ q = r + w /\ i < w /\ w \in Nat
            /\ h \in Nat /\ x \in Nat /\ i \in Nat
        BY <1>6, <2>2, <3>3, <3>4, <3>5
      <4> HIDE DEF r, q, h, w
      <4>2. r + i \in Nat /\ r + i \in Int /\ h <= r + i /\ r + i < x
        BY <4>1
      <4> QED BY <4>2 DEF r, h
    <3> HIDE DEF z
    <3>7. z + RxSize \in Int /\ x <= z + RxSize /\ z + RxSize < x + RxSize
      BY <1>1, <1>5, <1>6, <1>7, <3>6, SMTT(30)
    <3>8. (z + RxSize) % RxSize = z % RxSize
      BY <1>1, <3>6, OnceRound
    <3> DEFINE y == z + RxSize
               c == Cell(z % RxSize)
    <3>9. z % RxSize \in 0 .. RxSize - 1 /\ c = y - x
      <4>1. y \in Int /\ x <= y /\ y < x + RxSize
        BY <3>7
      <4>2. y % RxSize = z % RxSize
        BY <3>8
      <4> HIDE DEF y
      <4>3. y % RxSize \in 0 .. RxSize - 1 /\ Cell(y % RxSize) = y - x
        BY <1>9, <4>1
      <4> QED BY <4>2, <4>3
    <3>10. ~(Cell(z % RxSize) < Header + p.length)
      <4> HIDE DEF c
      <4>1. c = z + RxSize - x
        BY <1>1, <1>6, <3>6, <3>9
      <4>2. ~(c < 4 + p.length)
        <5> DEFINE h == Room[handled]
                   w == SizeOf(p)
                   l == p.length
        <5>1. /\ h \in Nat /\ w \in Nat /\ l \in Nat /\ z \in Nat /\ x \in Nat /\ RxSize \in Nat
              /\ x + w - h < RxSize /\ h <= z /\ 4 + l <= w
          BY <1>1, <1>5, <1>6, <1>7, <3>6 DEF Header
        <5> HIDE DEF h, w, l
        <5>2. ~(c < 4 + l)
          BY <4>1, <5>1
        <5> QED BY <5>2 DEF l
      <4> QED BY <4>2 DEF c, Header
    <3>11. rx_buffer'[z % RxSize] = rx_buffer[z % RxSize]
      BY <1>2, <3>9, <3>10
    <3>12. rx_buffer'[z % RxSize] = <<k, i>>
      BY <3>2, <3>11 DEF z
    <3> QED BY <2>3, <3>12 DEF z
  <2> QED BY <2>4, <2>5
<1>12. CopyInv'
  <2>1. \A k \in 1 .. N : DataOf(k)' = DataOf(k)
    BY <1>3 DEF DataOf
  <2>2. handled < N => handled + 1 \in 1 .. N
    BY <1>1
  <2>3. handled >= 1 => handled \in 1 .. N
    BY <1>1
  <2>4. (handled + 1)' = handled + 1 /\ handled' = handled /\ pc' = pc /\ packet' = packet
    BY <1>2
  <2>5. handled < N => DataOf(handled + 1)' = DataOf(handled + 1)
    BY <2>1, <2>2, <2>4 DEF DataOf
  <2>6. handled >= 1 => DataOf(handled)' = DataOf(handled)
    BY <2>1, <2>3, <2>4 DEF DataOf
  <2>7. handled < N => handled < N + 1
    BY <1>1
  <2> QED BY <1>3, <2>4, <2>5, <2>6, <2>7, <1>a DEF CopyInv
<1>13. NetworkTypeOK'
  <2>1. N + 1 <= MaxArrivals /\ MaxArrivals \in Nat
    BY <1>1, <1>2, RtlAssumption
  <2>2. handled' \in 0 .. Len(arrived') /\ Len(arrived') <= MaxArrivals
    BY <1>1, <1>2, <1>3, <2>1
  <2>3. rx_buffer' \in [0 .. RxSize - 1 -> (0 .. MaxArrivals) \X Nat]
    <3>1. \A b \in 0 .. RxSize - 1 : Cell(b) \in Nat
      <4> SUFFICES ASSUME NEW b \in 0 .. RxSize - 1 PROVE Cell(b) \in Nat
        OBVIOUS
      <4>1. b - current_buffer_address \in Int
        BY <1>1, <1>8
      <4>2. Cell(b) \in 0 .. RxSize - 1
        BY <1>1, <4>1, Divided DEF Cell
      <4> QED BY <1>1, <4>2
    <3>2. N + 1 \in 0 .. MaxArrivals
      BY <1>1, <2>1
    <3>3. rx_buffer \in [0 .. RxSize - 1 -> (0 .. MaxArrivals) \X Nat]
      BY <1>a DEF NetworkTypeOK
    <3> QED BY <1>2, <3>1, <3>2, <3>3
  <2>4. current_buffer_address' \in 0 .. RxSize - 1
    <3>1. current_buffer_address + SizeOf(p) \in Int
      BY <1>1, <1>5, <1>8
    <3> QED BY <1>1, <1>2, <3>1, Divided
  <2>5. /\ rx_offset_' \in 0 .. RxSize - 1 /\ current_address_of_packet_read' \in 0 .. Word - 1
        /\ own' \in [TxBuffers -> BOOLEAN] /\ transmit_ok' \in [TxBuffers -> BOOLEAN]
        /\ current_tx_buffer_' \in TxBuffers /\ {nic_, late}' \subseteq BOOLEAN
        /\ pc' \in {"init", "poll", "copy", "release", "handle", "send", "start", "wait",
                    "halted", "undefined"}
    BY <1>a, <1>2 DEF NetworkTypeOK, sending
  <2> QED BY <1>3, <2>2, <2>3, <2>4, <2>5 DEF NetworkTypeOK
<1> QED BY <1>3, <1>4, <1>10, <1>11, <1>12, <1>13 DEF x, ReceiveInv

\* The next packet as the driver finds it, from its offset on and perhaps round the
\* end of the ring.
LEMMA NextPacket ==
  ASSUME NetworkTypeOK, RingInv, UnreadInv, handled < Len(arrived)
  PROVE  /\ handled + 1 \in 1 .. Len(arrived) /\ arrived[handled + 1] \in Packets
         /\ rx_offset_ \in Nat /\ rx_offset_ % 4 = 0 /\ rx_offset_ + 4 <= RxSize
         /\ Header + arrived[handled + 1].length < RxSize
         /\ \A j \in 0 .. Header + arrived[handled + 1].length - 1 :
              rx_buffer[IF rx_offset_ + j < RxSize THEN rx_offset_ + j
                        ELSE rx_offset_ + j - RxSize] = <<handled + 1, j>>
         /\ ReceivedPacket = arrived[handled + 1]
<1> DEFINE k == handled + 1
           len == arrived[k].length
           h == Room[handled]
<1>1. /\ RxSize \in Nat /\ RxSize > 0 /\ RxSize % 4 = 0 /\ Len(arrived) \in Nat /\ handled \in Nat
  BY RingFacts
<1>2. k \in 1 .. Len(arrived) /\ k - 1 = handled /\ arrived[k] \in Packets
  <2>1. k \in 1 .. Len(arrived) /\ k - 1 = handled
    BY <1>1
  <2> HIDE DEF k
  <2> QED BY <2>1, RingFacts
<1>3. len \in Nat /\ len > 4 /\ Header + len <= SizeOf(arrived[k]) /\ SizeOf(arrived[k]) \in Nat
  BY <1>2, SizeOfPacket
<1>4. h \in Nat /\ h \in Int /\ h % 4 = 0
  <2>1. handled \in 0 .. Len(arrived)
    BY <1>1
  <2> QED BY <2>1, RingFacts
<1>5. Header + len < RxSize
  <2>1. k \in 0 .. Len(arrived) /\ Len(arrived) \in 0 .. Len(arrived) /\ k \in 0 .. Len(arrived)
    BY <1>1, <1>2
  <2>2. Room[k] \in Nat /\ Room[Len(arrived)] \in Nat /\ Room[k] <= Room[Len(arrived)]
    BY <1>2, <2>1, RingFacts
  <2>3. Room[k] = h + SizeOf(arrived[k])
    <3> HIDE DEF k
    <3> QED BY <1>2, RingFacts
  <2>4. Room[Len(arrived)] - h < RxSize
    BY DEF RingInv
  <2> DEFINE w == SizeOf(arrived[k])
             r == Room[k]
             t == Room[Len(arrived)]
  <2>5. w \in Nat /\ r \in Nat /\ t \in Nat /\ r <= t /\ r = h + w /\ t - h < RxSize /\ Header + len <= w
    BY <1>3, <2>2, <2>3, <2>4
  <2> HIDE DEF h, w, r, t, len
  <2> QED BY <1>1, <1>3, <1>4, <2>5 DEF Header
<1>6. rx_offset_ = h % RxSize /\ rx_offset_ \in 0 .. RxSize - 1
  BY <1>1 DEF RingInv, NetworkTypeOK
<1> HIDE DEF h
<1>7. rx_offset_ % 4 = 0
  <2>1. PICK q \in Int : h = q * RxSize + rx_offset_
    BY <1>1, <1>4, <1>6, Divided
  <2>2. RxSize \in Int /\ rx_offset_ \in Int
    BY <1>1, <1>6
  <2> QED BY <1>1, <1>4, <2>1, <2>2, RemainderAligned
<1>8. rx_offset_ + 4 <= RxSize /\ rx_offset_ \in Nat
  BY <1>1, <1>6, <1>7
<1>9. ASSUME NEW j \in 0 .. Header + len - 1
      PROVE  rx_buffer[IF rx_offset_ + j < RxSize THEN rx_offset_ + j
                       ELSE rx_offset_ + j - RxSize] = <<k, j>>
  <2>1. k \in handled + 1 .. Len(arrived)
    BY <1>1, <1>2
  <2>2. rx_buffer[(h + j) % RxSize] = <<k, j>>
    BY <1>2, <1>9, <2>1 DEF UnreadInv, h
  <2> HIDE DEF k, len
  <2>3. j \in Nat /\ j \in Int /\ j < RxSize
    BY <1>1, <1>3, <1>5, <1>9 DEF Header
  <2>4. (rx_offset_ + j) % RxSize = (h + j) % RxSize
    BY <1>1, <1>4, <1>6, <2>3, RemainderFirst
  <2>5. CASE rx_offset_ + j < RxSize
    <3>1. (0 * RxSize + (rx_offset_ + j)) % RxSize = rx_offset_ + j
      <4>1. rx_offset_ + j \in 0 .. RxSize - 1 /\ 0 \in Int
        BY <1>1, <1>8, <2>3, <2>5
      <4> QED BY <1>1, <4>1, Remainder
    <3>2. 0 * RxSize + (rx_offset_ + j) = rx_offset_ + j
      BY <1>1, <1>8, <2>3
    <3> QED BY <2>2, <2>4, <2>5, <3>1, <3>2
  <2>6. CASE ~(rx_offset_ + j < RxSize)
    <3>1. (1 * RxSize + (rx_offset_ + j - RxSize)) % RxSize = rx_offset_ + j - RxSize
      <4>1. rx_offset_ + j - RxSize \in 0 .. RxSize - 1 /\ 1 \in Int
        BY <1>1, <1>6, <1>8, <2>3, <2>6
      <4> QED BY <1>1, <4>1, Remainder
    <3>2. 1 * RxSize + (rx_offset_ + j - RxSize) = rx_offset_ + j
      BY <1>1, <1>8, <2>3
    <3> QED BY <2>2, <2>4, <2>6, <3>1, <3>2
  <2> QED BY <2>5, <2>6
<1>10. ReceivedPacket = arrived[k]
  <2>1. 0 \in 0 .. Header + len - 1 /\ rx_offset_ + 0 < RxSize /\ rx_offset_ + 0 = rx_offset_
    BY <1>1, <1>3, <1>8 DEF Header
  <2>2. rx_buffer[rx_offset_] = <<k, 0>>
    BY <1>9, <2>1
  <2> QED BY <2>2 DEF ReceivedPacket
<1> QED BY <1>2, <1>5, <1>7, <1>8, <1>9, <1>10

LEMMA BytesAreASequence ==
  ASSUME NEW from \in Nat, NEW n \in Nat, NEW S,
         \A i \in 1 .. n : rx_buffer[from + i - 1] \in S
  PROVE  /\ Bytes(from, n) \in Seq(S) /\ Len(Bytes(from, n)) = n
         /\ \A i \in 1 .. n : Bytes(from, n)[i] = rx_buffer[from + i - 1]
<1>1. Bytes(from, n) \in [1 .. n -> S]
  BY DEF Bytes
<1>2. \A i \in 1 .. n : Bytes(from, n)[i] = rx_buffer[from + i - 1]
  BY DEF Bytes
<1> HIDE DEF Bytes
<1> QED BY <1>1, <1>2

\* What ReceivePacket copies is the data of the next packet, in one part or in two.
LEMMA CopiedIsData ==
  ASSUME NetworkTypeOK, RingInv, UnreadInv, handled < Len(arrived)
  PROVE  Copied = DataOf(handled + 1)
<1> DEFINE k == handled + 1
           len == arrived[k].length
           size == len - 4
           semi == RxSize - rx_offset_ - 4
           S == (0 .. MaxArrivals) \X Nat
<1>1. RxSize \in Nat /\ RxSize > 0
  BY RtlAssumption
<1>2. /\ arrived[k] \in Packets /\ rx_offset_ \in Nat /\ rx_offset_ + 4 <= RxSize
      /\ Header + len < RxSize /\ ReceivedPacket = arrived[k]
  BY NextPacket
<1>3. /\ rx_offset_ < RxSize
      /\ \A j \in 0 .. 4 + len - 1 :
           rx_buffer[IF rx_offset_ + j < RxSize THEN rx_offset_ + j
                     ELSE rx_offset_ + j - RxSize] = <<k, j>>
  <2>1. rx_offset_ < RxSize
    BY <1>1, <1>2
  <2>2. Header = 4
    BY DEF Header
  <2>3. \A j \in 0 .. Header + len - 1 :
           rx_buffer[IF rx_offset_ + j < RxSize THEN rx_offset_ + j
                     ELSE rx_offset_ + j - RxSize] = <<k, j>>
    BY NextPacket
  <2> HIDE DEF len, k
  <2> QED BY <2>1, <2>2, <2>3
<1>4. len \in Nat /\ len > 4 /\ 4 + len < RxSize
  BY <1>2, SizeOfPacket DEF Header
<1>5. \A b \in 0 .. RxSize - 1 : rx_buffer[b] \in S
  BY DEF NetworkTypeOK
<1>6. DataOf(k) = [i \in 1 .. size |-> <<k, 4 + i - 1>>]
  BY DEF DataOf, CRC, Header
<1>7. Copied = IF rx_offset_ + len > RxSize
               THEN Bytes(rx_offset_ + 4, semi) \o Bytes(0, size - semi)
               ELSE Bytes(rx_offset_ + 4, size)
  BY <1>2 DEF Copied, CRC, Header
<1> HIDE DEF len, k, S
<1>8. size \in Nat /\ semi \in Nat /\ rx_offset_ + 4 \in Nat
  BY <1>1, <1>2, <1>4
<1>9. CASE rx_offset_ + len > RxSize
  <2> DEFINE s == Bytes(rx_offset_ + 4, semi)
             t == Bytes(0, size - semi)
  <2>1. size - semi \in Nat /\ semi + (size - semi) = size /\ size - semi < RxSize
    BY <1>1, <1>2, <1>4, <1>8, <1>9
  <2>2. \A i \in 1 .. semi : rx_offset_ + 4 + i - 1 \in 0 .. RxSize - 1
    BY <1>1, <1>2, <1>8
  <2>3. \A i \in 1 .. size - semi : 0 + i - 1 \in 0 .. RxSize - 1
    BY <1>1, <2>1
  <2>4. /\ s \in Seq(S) /\ Len(s) = semi
        /\ \A i \in 1 .. semi : s[i] = rx_buffer[rx_offset_ + 4 + i - 1]
    <3> HIDE DEF semi
    <3>1. \A i \in 1 .. semi : rx_buffer[rx_offset_ + 4 + i - 1] \in S
      BY <1>5, <2>2
    <3> QED BY <1>8, <3>1, BytesAreASequence
  <2>5. /\ t \in Seq(S) /\ Len(t) = size - semi
        /\ \A i \in 1 .. size - semi : t[i] = rx_buffer[0 + i - 1]
    <3> DEFINE n == size - semi
    <3>1. n \in Nat /\ 0 \in Nat
      BY <2>1
    <3>2. \A i \in 1 .. n : rx_buffer[0 + i - 1] \in S
      BY <1>5, <2>3
    <3> HIDE DEF n
    <3>3. /\ Bytes(0, n) \in Seq(S) /\ Len(Bytes(0, n)) = n
          /\ \A i \in 1 .. n : Bytes(0, n)[i] = rx_buffer[0 + i - 1]
      BY <3>1, <3>2, BytesAreASequence
    <3> QED BY <3>3 DEF n
  <2> HIDE DEF s, t
  <2>6. /\ s \o t \in Seq(S) /\ Len(s \o t) = size
        /\ \A i \in 1 .. size : (s \o t)[i] = IF i <= semi THEN s[i] ELSE t[i - semi]
    <3>1. s \in Seq(S) /\ t \in Seq(S)
      BY <2>4, <2>5
    <3>2. /\ s \o t \in Seq(S) /\ Len(s \o t) = Len(s) + Len(t)
          /\ \A i \in 1 .. Len(s) + Len(t) :
               (s \o t)[i] = IF i <= Len(s) THEN s[i] ELSE t[i - Len(s)]
      BY <3>1, ConcatProperties
    <3>3. Len(s) = semi /\ Len(t) = size - semi /\ Len(s) + Len(t) = size
      BY <2>1, <2>4, <2>5
    <3> HIDE DEF size, semi
    <3> QED BY <3>2, <3>3
  <2>7. ASSUME NEW i \in 1 .. size PROVE (s \o t)[i] = <<k, 4 + i - 1>>
    <3>0. i \in Nat /\ i >= 1 /\ i <= size /\ 4 + i - 1 \in 0 .. 4 + len - 1
      BY <1>4, <2>7
    <3>1. CASE i <= semi
      <4>1. rx_offset_ + (4 + i - 1) < RxSize
        BY <1>1, <1>2, <3>0, <3>1
      <4>2. s[i] = rx_buffer[rx_offset_ + 4 + i - 1] /\ rx_offset_ + 4 + i - 1 = rx_offset_ + (4 + i - 1)
        <5>1. i \in 1 .. semi
          BY <1>8, <3>0, <3>1
        <5>2. s[i] = rx_buffer[rx_offset_ + 4 + i - 1]
          <6> HIDE DEF semi
          <6> QED BY <2>4, <5>1
        <5> QED BY <1>2, <3>0, <5>2
      <4> QED BY <1>3, <2>6, <3>0, <3>1, <4>1, <4>2
    <3>2. CASE ~(i <= semi)
      <4>1. ~(rx_offset_ + (4 + i - 1) < RxSize) /\ i - semi \in 1 .. size - semi
        BY <1>1, <1>2, <1>8, <3>0, <3>2
      <4>2. 0 + (i - semi) - 1 = rx_offset_ + (4 + i - 1) - RxSize
        BY <1>1, <1>2, <3>0
      <4>3. t[i - semi] = rx_buffer[rx_offset_ + (4 + i - 1) - RxSize]
        <5> HIDE DEF size, semi
        <5> QED BY <2>5, <4>1, <4>2
      <4> QED BY <1>3, <2>6, <3>0, <3>2, <4>1, <4>3
    <3> QED BY <3>1, <3>2
  <2>8. s \o t = [i \in 1 .. size |-> <<k, 4 + i - 1>>]
    <3> HIDE DEF size
    <3>1. s \o t \in [1 .. size -> S]
      BY <2>6, LenProperties
    <3> QED BY <2>7, <3>1
  <2>9. Copied = s \o t
    BY <1>7, <1>9 DEF s, t
  <2> QED BY <1>6, <2>8, <2>9 DEF k
<1>10. CASE ~(rx_offset_ + len > RxSize)
  <2>1. \A i \in 1 .. size : /\ 4 + i - 1 \in 0 .. 4 + len - 1 /\ rx_offset_ + (4 + i - 1) < RxSize
                             /\ rx_offset_ + 4 + i - 1 = rx_offset_ + (4 + i - 1)
    BY <1>1, <1>2, <1>4, <1>10
  <2>2. \A i \in 1 .. size : rx_buffer[rx_offset_ + 4 + i - 1] = <<k, 4 + i - 1>>
    BY <1>3, <2>1
  <2>3. Copied = Bytes(rx_offset_ + 4, size)
    BY <1>7, <1>10
  <2>4. Bytes(rx_offset_ + 4, size) = [i \in 1 .. size |-> <<k, 4 + i - 1>>]
    BY <2>2 DEF Bytes
  <2> QED BY <1>6, <2>3, <2>4 DEF k
<1> QED BY <1>9, <1>10

\* The driver rounds the length of a packet as the card does.
LEMMA NextOffsetIsPlaced ==
  ASSUME NetworkTypeOK, RingInv, UnreadInv, handled < Len(arrived)
  PROVE  NextOffset = Room[handled + 1] % RxSize
<1> DEFINE k == handled + 1
           len == arrived[k].length
           h == Room[handled]
<1>1. RxSize \in Nat /\ RxSize > 0 /\ Len(arrived) \in Nat /\ handled \in Nat
  BY RingFacts
<1>2. /\ k \in 1 .. Len(arrived) /\ arrived[k] \in Packets /\ ReceivedPacket = arrived[k]
      /\ rx_offset_ \in Nat /\ rx_offset_ % 4 = 0
  BY NextPacket
<1>3. len \in Nat /\ SizeOf(arrived[k]) \in Int
  BY <1>2, SizeOfPacket
<1>4. rx_offset_ + len + Header = rx_offset_ + (Header + len) /\ Header + len \in Nat
  BY <1>2, <1>3 DEF Header
<1>5. AlignUp(rx_offset_ + (Header + len)) = rx_offset_ + AlignUp(Header + len)
  BY <1>2, <1>4, AlignUpProperties
<1>6. NextOffset = (rx_offset_ + SizeOf(arrived[k])) % RxSize
  BY <1>2, <1>4, <1>5 DEF NextOffset, SizeOf
<1>7. h \in Int /\ rx_offset_ = h % RxSize
  <2>1. handled \in 0 .. Len(arrived)
    BY <1>1
  <2> QED BY <2>1, RingFacts DEF RingInv
<1>8. Room[k] = h + SizeOf(arrived[k])
  <2>1. k - 1 = handled
    BY <1>1
  <2> HIDE DEF k
  <2> QED BY <1>2, <2>1, RingFacts
<1> HIDE DEF h, k
<1>9. ((h % RxSize) + SizeOf(arrived[k])) % RxSize = (h + SizeOf(arrived[k])) % RxSize
  BY <1>1, <1>3, <1>7, RemainderFirst
<1> QED BY <1>6, <1>7, <1>8, <1>9 DEF k

LEMMA ReleaseStep ==
  ASSUME ReceiveInv, Release, nic_' = nic_
  PROVE  ReceiveInv'
<1>1. NetworkTypeOK /\ RingInv /\ UnreadInv /\ CopyInv
  BY DEF ReceiveInv
<1>2. /\ pc = "release" /\ rx_offset_' = NextOffset /\ current_address_of_packet_read' = CAPR(NextOffset)
      /\ handled' = handled + 1 /\ pc' = "handle"
      /\ UNCHANGED <<arrived, rx_buffer, current_buffer_address, packet, sending, out>>
  BY DEF Release
<1>3. handled < Len(arrived) /\ packet = DataOf(handled + 1)
  BY <1>1, <1>2 DEF CopyInv
<1>4. /\ RxSize \in Nat /\ RxSize > 0 /\ Len(arrived) \in Nat /\ handled \in Nat
  BY <1>1, RingFacts
<1>5. handled + 1 \in 0 .. Len(arrived) /\ handled \in 0 .. handled + 1 /\ handled \in 0 .. Len(arrived)
      /\ Len(arrived) \in 0 .. Len(arrived)
  BY <1>3, <1>4
<1>6. /\ Room[handled + 1] \in Nat /\ Room[handled] \in Nat /\ Room[Len(arrived)] \in Nat
      /\ Room[handled] <= Room[handled + 1]
  BY <1>1, <1>5, RingFacts
<1>7. Room' = Room
  BY <1>2 DEF Room
<1>8. NextOffset = Room[handled + 1] % RxSize
  BY <1>1, <1>3, NextOffsetIsPlaced
<1>9. NextOffset \in 0 .. RxSize - 1
  <2> DEFINE r == Room[handled + 1]
  <2>1. r \in Int
    BY <1>6
  <2> HIDE DEF r
  <2>2. r % RxSize \in 0 .. RxSize - 1
    BY <1>4, <2>1, Divided
  <2> QED BY <1>8, <2>2 DEF r
<1>10. CAPR(NextOffset) \in 0 .. Word - 1
  <2>1. NextOffset - CAPRGap \in Int /\ Word \in Nat /\ Word > 0
    BY <1>4, <1>9 DEF CAPRGap, Word
  <2> QED BY <2>1, Divided DEF CAPR
<1>11. NetworkTypeOK'
  BY <1>1, <1>2, <1>5, <1>9, <1>10 DEF NetworkTypeOK, sending
<1>12. RingInv'
  <2>1. Room[Len(arrived)] - Room[handled + 1] < RxSize
    BY <1>1, <1>4, <1>6 DEF RingInv
  <2>2. CAPR(rx_offset_)' = CAPR(NextOffset)
    BY <1>2 DEF CAPR
  <2> QED BY <1>1, <1>2, <1>7, <1>8, <2>1, <2>2 DEF RingInv
<1>13. UnreadInv'
  <2>1. \A k \in handled + 1 + 1 .. Len(arrived) : k \in handled + 1 .. Len(arrived)
    BY <1>4
  <2> QED BY <1>1, <1>2, <1>7, <2>1 DEF UnreadInv
<1>14. CopyInv'
  <2>1. DataOf(handled)' = DataOf(handled + 1)
    BY <1>2 DEF DataOf
  <2>2. handled + 1 >= 1
    BY <1>4
  <2> QED BY <1>2, <1>3, <2>1, <2>2 DEF CopyInv
<1> QED BY <1>11, <1>12, <1>13, <1>14 DEF ReceiveInv

LEMMA PollStep ==
  ASSUME ReceiveInv, Poll, nic_' = nic_
  PROVE  ReceiveInv' /\ (pc' = "copy" => handled < Len(arrived))
<1>1. NetworkTypeOK /\ RingInv /\ UnreadInv /\ CopyInv
  BY DEF ReceiveInv
<1>2. /\ ~buffer_empty /\ pc' \in {"copy", "halted"}
      /\ UNCHANGED <<arrived, handled, rx_buffer, current_buffer_address,
                     current_address_of_packet_read, rx_offset_, packet, sending, out>>
  BY DEF Poll, receiving
<1>3. handled < Len(arrived)
  <2>1. handled # Len(arrived) /\ handled <= Len(arrived) /\ handled \in Nat /\ Len(arrived) \in Nat
    BY <1>1, <1>2, BufferEmptyMeans, RingFacts
  <2> QED BY <2>1
<1>4. NetworkTypeOK'
  BY <1>1, <1>2 DEF NetworkTypeOK, sending
<1>5. RingInv' /\ UnreadInv'
  BY <1>1, <1>2 DEF RingInv, UnreadInv, Room, CAPR
<1>6. CopyInv'
  BY <1>2, <1>3 DEF CopyInv
<1> QED BY <1>3, <1>4, <1>5, <1>6 DEF ReceiveInv

LEMMA CopyStep ==
  ASSUME ReceiveInv, Copy, nic_' = nic_
  PROVE  ReceiveInv'
<1>1. NetworkTypeOK /\ RingInv /\ UnreadInv /\ CopyInv
  BY DEF ReceiveInv
<1>2. /\ pc = "copy" /\ pc' = "release" /\ packet' = Copied
      /\ UNCHANGED <<arrived, handled, rx_buffer, current_buffer_address,
                     current_address_of_packet_read, rx_offset_, sending, out>>
  BY DEF Copy, receiving
<1>3. handled < Len(arrived)
  BY <1>1, <1>2 DEF CopyInv
<1>4. Copied = DataOf(handled + 1)
  BY <1>1, <1>3, CopiedIsData
<1>5. NetworkTypeOK'
  BY <1>1, <1>2 DEF NetworkTypeOK, sending
<1>6. RingInv' /\ UnreadInv'
  BY <1>1, <1>2 DEF RingInv, UnreadInv, Room, CAPR
<1>7. CopyInv'
  <2>1. DataOf(handled + 1)' = DataOf(handled + 1)
    BY <1>2 DEF DataOf
  <2> QED BY <1>2, <1>3, <1>4, <2>1 DEF CopyInv
<1> QED BY <1>5, <1>6, <1>7 DEF ReceiveInv

\* What the sending side does leaves the receiving side as it is.
LEMMA ReceivingKept ==
  ASSUME ReceiveInv, UNCHANGED <<arrived, handled, receiving, packet>>,
         pc' = pc \/ pc' \in {"init", "poll", "send", "start", "wait", "halted", "undefined"},
         own' \in [TxBuffers -> BOOLEAN], transmit_ok' \in [TxBuffers -> BOOLEAN],
         current_tx_buffer_' \in TxBuffers, late' \in BOOLEAN, nic_' \in BOOLEAN
  PROVE  ReceiveInv'
<1>1. NetworkTypeOK /\ RingInv /\ UnreadInv /\ CopyInv
  BY DEF ReceiveInv
<1>2. UNCHANGED <<arrived, handled, rx_buffer, current_buffer_address,
                  current_address_of_packet_read, rx_offset_, packet>>
  BY DEF receiving
<1>3. NetworkTypeOK'
  BY <1>1, <1>2 DEF NetworkTypeOK
<1>4. RingInv' /\ UnreadInv'
  BY <1>1, <1>2 DEF RingInv, UnreadInv, Room, CAPR
<1>5. DataOf(handled + 1)' = DataOf(handled + 1) /\ DataOf(handled)' = DataOf(handled)
  BY <1>2 DEF DataOf
<1>6. CopyInv'
  BY <1>1, <1>2, <1>5 DEF CopyInv
<1> QED BY <1>3, <1>4, <1>6 DEF ReceiveInv
LEMMA InitReceiveInv ==
  ASSUME NetworkInit
  PROVE  ReceiveInv
<1>1. /\ arrived = <<>> /\ handled = 0 /\ rx_offset_ = 0 /\ current_buffer_address = 0
      /\ current_address_of_packet_read = Word - CAPRGap /\ pc = "init"
      /\ rx_buffer = [b \in 0 .. RxSize - 1 |-> Unused]
  BY DEF NetworkInit, RtlInit
<1>2. RxSize \in Nat /\ RxSize > 0 /\ MaxArrivals \in Nat
  BY RtlAssumption
<1>3. Word - CAPRGap \in 0 .. Word - 1 /\ CAPR(0) = Word - CAPRGap
  <2>1. Word - CAPRGap = -1 * Word + (Word - CAPRGap) + Word /\ 0 - CAPRGap = -1 * Word + (Word - CAPRGap)
        /\ Word - CAPRGap \in 0 .. Word - 1 /\ Word \in Nat /\ Word > 0
    BY DEF Word, CAPRGap
  <2>2. -1 \in Int
    OBVIOUS
  <2> DEFINE W == Word
             r == Word - CAPRGap
  <2>3. W \in Nat /\ W > 0 /\ r \in 0 .. W - 1
    BY <2>1
  <2> HIDE DEF W, r
  <2>4. (-1 * W + r) % W = r
    BY <2>2, <2>3, Remainder
  <2> QED BY <2>1, <2>4 DEF W, r, CAPR
<1>4. NetworkTypeOK
  <2>1. arrived \in Seq(Packets) /\ Len(arrived) = 0 /\ Len(arrived) <= MaxArrivals
        /\ handled \in 0 .. Len(arrived)
    BY <1>1, <1>2
  <2>2. rx_buffer \in [0 .. RxSize - 1 -> (0 .. MaxArrivals) \X Nat]
    <3>1. Unused \in (0 .. MaxArrivals) \X Nat
      BY <1>2 DEF Unused
    <3> QED BY <1>1, <3>1
  <2>3. {current_buffer_address, rx_offset_} \subseteq 0 .. RxSize - 1
    BY <1>1, <1>2
  <2>4. own \in [TxBuffers -> BOOLEAN] /\ transmit_ok \in [TxBuffers -> BOOLEAN]
        /\ current_tx_buffer_ \in TxBuffers /\ {nic_, late} \subseteq BOOLEAN
    <3>1. own \in [TxBuffers -> BOOLEAN] /\ transmit_ok \in [TxBuffers -> BOOLEAN]
      BY Zenon DEF NetworkInit, RtlInit
    <3>2. late \in BOOLEAN /\ nic_ \in BOOLEAN
      BY Zenon DEF NetworkInit, RtlInit
    <3>3. current_tx_buffer_ \in TxBuffers
      BY DEF NetworkInit, RtlInit, TxBuffers
    <3> QED BY <3>1, <3>2, <3>3
  <2> QED BY <1>1, <1>3, <2>1, <2>2, <2>3, <2>4 DEF NetworkTypeOK
<1>5. RingInv
  <2>1. Len(arrived) = 0 /\ arrived \in Seq(Packets)
    BY <1>1
  <2>2. Room[0] = 0
    BY <2>1, RoomUnfolds DEF Room
  <2>3. 0 % RxSize = 0
    <3>1. 0 * RxSize + 0 = 0 /\ 0 \in Int /\ 0 \in 0 .. RxSize - 1
      BY <1>2
    <3>2. (0 * RxSize + 0) % RxSize = 0
      BY <1>2, <3>1, Remainder
    <3> QED BY <3>1, <3>2
  <2> QED BY <1>1, <1>2, <1>3, <2>1, <2>2, <2>3 DEF RingInv
<1>6. UnreadInv /\ CopyInv
  BY <1>1 DEF UnreadInv, CopyInv
<1> QED BY <1>4, <1>5, <1>6 DEF ReceiveInv

LEMMA CopyToTxBufferReceives ==
  ASSUME ReceiveInv, CopyToTxBuffer, nic_' = nic_
  PROVE  ReceiveInv'
<1>1. NetworkTypeOK
  BY DEF ReceiveInv
<1>2. /\ UNCHANGED <<arrived, handled, receiving, packet>>
      /\ UNCHANGED <<own, transmit_ok, current_tx_buffer_, late, nic_>>
      /\ pc' \in {"halted", "start"}
  BY DEF CopyToTxBuffer
<1> QED BY <1>1, <1>2, ReceivingKept DEF NetworkTypeOK

LEMMA StartReceives ==
  ASSUME ReceiveInv, Start, nic_' = nic_
  PROVE  ReceiveInv'
<1>1. NetworkTypeOK
  BY DEF ReceiveInv
<1>2. /\ UNCHANGED <<arrived, handled, receiving, packet>>
      /\ UNCHANGED <<current_tx_buffer_, late, nic_>> /\ pc' = "wait"
      /\ own' = [own EXCEPT ![current_tx_buffer_] = FALSE]
      /\ transmit_ok' = [transmit_ok EXCEPT ![current_tx_buffer_] = FALSE]
  BY DEF Start
<1>3. own' \in [TxBuffers -> BOOLEAN] /\ transmit_ok' \in [TxBuffers -> BOOLEAN]
  BY <1>1, <1>2 DEF NetworkTypeOK
<1>4. current_tx_buffer_' \in TxBuffers /\ late' \in BOOLEAN /\ nic_' \in BOOLEAN
  BY <1>1, <1>2 DEF NetworkTypeOK
<1> QED BY <1>2, <1>3, <1>4, ReceivingKept

LEMMA WaitReceives ==
  ASSUME ReceiveInv, Wait, nic_' = nic_
  PROVE  ReceiveInv'
<1>1. NetworkTypeOK
  BY DEF ReceiveInv
<1>2. /\ UNCHANGED <<arrived, handled, receiving, packet>>
      /\ UNCHANGED <<own, transmit_ok, late, nic_>> /\ pc' \in {"poll", "halted"}
      /\ current_tx_buffer_' = (current_tx_buffer_ + 1) % 4 \/ current_tx_buffer_' = current_tx_buffer_
  BY DEF Wait
<1>3. current_tx_buffer_' \in TxBuffers
  BY <1>1, <1>2 DEF NetworkTypeOK, TxBuffers
<1> QED BY <1>1, <1>2, <1>3, ReceivingKept DEF NetworkTypeOK

LEMMA CardSendsReceives ==
  ASSUME ReceiveInv, NEW i \in TxBuffers, CardSends(i), nic_' = nic_
  PROVE  ReceiveInv'
<1>1. NetworkTypeOK
  BY DEF ReceiveInv
<1>2. PICK ok \in BOOLEAN :
        transmit_ok' = [transmit_ok EXCEPT ![i] = ok] /\ late' = (late \/ ~ok)
  BY DEF CardSends
<1>3. /\ UNCHANGED <<arrived, handled, receiving, packet>>
      /\ UNCHANGED <<current_tx_buffer_, nic_, pc>>
      /\ own' = [own EXCEPT ![i] = TRUE]
  BY DEF CardSends
<1>4. own' \in [TxBuffers -> BOOLEAN] /\ transmit_ok' \in [TxBuffers -> BOOLEAN]
  BY <1>1, <1>2, <1>3 DEF NetworkTypeOK
<1>5. current_tx_buffer_' \in TxBuffers /\ nic_' \in BOOLEAN
  BY <1>1, <1>3 DEF NetworkTypeOK
<1>6. late' \in BOOLEAN
  BY <1>2
<1> QED BY <1>3, <1>4, <1>5, <1>6, ReceivingKept

LEMMA CardConfirmsReceives ==
  ASSUME ReceiveInv, NEW i \in TxBuffers, CardConfirms(i), nic_' = nic_
  PROVE  ReceiveInv'
<1>1. NetworkTypeOK
  BY DEF ReceiveInv
<1>2. /\ UNCHANGED <<arrived, handled, receiving, packet>>
      /\ UNCHANGED <<own, current_tx_buffer_, late, nic_, pc>>
      /\ transmit_ok' = [transmit_ok EXCEPT ![i] = TRUE]
  BY DEF CardConfirms
<1>3. transmit_ok' \in [TxBuffers -> BOOLEAN]
  BY <1>1, <1>2 DEF NetworkTypeOK
<1>4. own' \in [TxBuffers -> BOOLEAN] /\ current_tx_buffer_' \in TxBuffers /\ late' \in BOOLEAN /\ nic_' \in BOOLEAN
  BY <1>1, <1>2 DEF NetworkTypeOK
<1> QED BY <1>2, <1>3, <1>4, ReceivingKept

LEMMA NextReceives ==
  ASSUME ReceiveInv, NetworkNext
  PROVE  ReceiveInv'
<1>1. CASE Initialize
  <2>1. /\ UNCHANGED <<arrived, handled, receiving, packet>>
        /\ UNCHANGED sending /\ nic_' = nic_ /\ pc' \in {"send", "undefined"}
    BY <1>1 DEF Initialize
  <2> QED BY <2>1, ReceivingKept DEF ReceiveInv, NetworkTypeOK, sending
<1>2. CASE HandlePacket
  <2>1. /\ UNCHANGED <<arrived, handled, receiving, packet>>
        /\ UNCHANGED sending /\ nic_' = nic_ /\ pc' \in {"send", "poll"}
    BY <1>2 DEF HandlePacket
  <2> QED BY <2>1, ReceivingKept DEF ReceiveInv, NetworkTypeOK, sending
<1>3. CASE RtlDriver /\ nic_' = nic_
  BY <1>3, PollStep, CopyStep, ReleaseStep, CopyToTxBufferReceives, StartReceives, WaitReceives
     DEF RtlDriver
<1>4. CASE Card
  BY <1>4, CardReceivesStep, CardSendsReceives, CardConfirmsReceives DEF Card, RtlSends
<1> QED BY <1>1, <1>2, <1>3, <1>4 DEF NetworkNext, Driver
LEMMA ReceivesAlways == NetworkSpec => []ReceiveInv
<1>1. NetworkInit => ReceiveInv
  BY InitReceiveInv
<1>2. ReceiveInv /\ [NetworkNext]_networkVars => ReceiveInv'
  <2>1. SUFFICES ASSUME ReceiveInv, UNCHANGED networkVars PROVE ReceiveInv'
    BY NextReceives
  <2>2. /\ UNCHANGED <<arrived, handled, receiving, packet>>
        /\ UNCHANGED sending /\ nic_' = nic_ /\ pc' = pc
    BY <2>1 DEF networkVars
  <2> QED BY <2>1, <2>2, ReceivingKept DEF ReceiveInv, NetworkTypeOK, sending
<1> QED BY <1>1, <1>2, PTL DEF NetworkSpec

LEMMA UnreadIsKept ==
  ASSUME ReceiveInv
  PROVE  UnreadKept
<1>1. /\ RxSize \in Nat /\ RxSize > 0 /\ Len(arrived) \in Nat /\ handled \in Nat
      /\ \A n \in 0 .. Len(arrived) : Room[n] \in Nat
  BY RingFacts DEF ReceiveInv
<1>2. SUFFICES ASSUME NEW k \in handled + 1 .. Len(arrived),
                      NEW i \in 0 .. Header + arrived[k].length - 1
               PROVE  rx_buffer[(StartOf(k) + i) % RxSize] = <<k, i>>
  BY DEF UnreadKept
<1>3. rx_buffer[(Room[k - 1] + i) % RxSize] = <<k, i>>
  BY <1>2 DEF ReceiveInv, UnreadInv
<1> DEFINE x == Room[k - 1]
<1>4. x \in Int /\ i \in Int
  BY <1>1
<1>5. StartOf(k) = x % RxSize
  BY DEF StartOf, Room
<1> HIDE DEF x
<1>6. ((x % RxSize) + i) % RxSize = (x + i) % RxSize
  BY <1>1, <1>4, RemainderFirst
<1> QED BY <1>3, <1>5, <1>6 DEF x

LEMMA HeaderIsFound ==
  ASSUME ReceiveInv
  PROVE  HeaderFound
<1>1. NetworkTypeOK /\ RingInv /\ UnreadInv
  BY DEF ReceiveInv
<1>2. buffer_empty <=> handled = Len(arrived)
  BY <1>1, BufferEmptyMeans
<1>3. ASSUME ~buffer_empty, NEW i \in 0 .. Header - 1
      PROVE  rx_offset_ + i < RxSize /\ rx_buffer[rx_offset_ + i] = <<handled + 1, i>>
  <2>1. handled < Len(arrived)
    <3>1. handled # Len(arrived) /\ handled <= Len(arrived) /\ handled \in Nat /\ Len(arrived) \in Nat
      BY <1>1, <1>2, <1>3, RingFacts
    <3> QED BY <3>1
  <2>2. /\ arrived[handled + 1] \in Packets /\ rx_offset_ \in Nat /\ rx_offset_ + 4 <= RxSize
        /\ \A j \in 0 .. Header + arrived[handled + 1].length - 1 :
             rx_buffer[IF rx_offset_ + j < RxSize THEN rx_offset_ + j
                       ELSE rx_offset_ + j - RxSize] = <<handled + 1, j>>
    BY <1>1, <2>1, NextPacket
  <2>3. i \in 0 .. Header + arrived[handled + 1].length - 1
    <3>1. arrived[handled + 1].length \in Nat
      BY <2>2, SizeOfPacket
    <3> QED BY <3>1 DEF Header
  <2>4. rx_offset_ + i < RxSize
    <3>1. RxSize \in Nat
      BY RtlAssumption
    <3> QED BY <2>2, <3>1 DEF Header
  <2> QED BY <2>2, <2>3, <2>4
<1> QED BY <1>2, <1>3 DEF HeaderFound, buffer_empty

LEMMA TakenByReceiveInv ==
  ASSUME ReceiveInv
  PROVE  PacketsTaken
<1>1. NetworkTypeOK /\ CopyInv
  BY DEF ReceiveInv
<1>2. UnreadKept /\ HeaderFound
  BY UnreadIsKept, HeaderIsFound
<1>3. PacketsIntact
  BY <1>1 DEF CopyInv, PacketsIntact, DataOf
<1> QED BY <1>1, <1>2, <1>3 DEF PacketsTaken

\* What the card puts into its ring is what the driver takes out: nothing unread is
\* written over, the next header is where the driver looks for it, and the copy is the
\* data of the packet (Controller::ReceivePacket, rtl8139.cpp:112).
THEOREM PacketsAreTaken == NetworkSpec => []PacketsTaken
  BY ReceivesAlways, TakenByReceiveInv, PTL
-----------------------------------------------------------------------------
(* The wire.                                                               *)

\* All that may ever go out.
Outgoing == {SendRequest} \cup {SendReply(p.frame) : p \in Packets}

LEMMA AnswersUnfold ==
  ASSUME NEW packets \in Seq(Packets)
  PROVE  /\ Answers(packets) \in [0 .. Len(packets) -> Seq(Outgoing)]
         /\ Answers(packets)[0] = <<SendRequest>>
         /\ \A n \in 1 .. Len(packets) :
              Answers(packets)[n] =
                IF IsRequestForMe(packets[n].frame)
                THEN Append(Answers(packets)[n - 1], SendReply(packets[n].frame))
                ELSE Answers(packets)[n - 1]
<1> DEFINE N == Len(packets)
           Next(n, s) == IF IsRequestForMe(packets[n].frame)
                         THEN Append(s, SendReply(packets[n].frame)) ELSE s
           D == Seq(Outgoing)
           first == <<SendRequest>>
           step == [n \in 1 .. N |-> [s \in D |-> Next(n, s)]]
<1>1. N \in Nat /\ \A n \in 1 .. N : packets[n] \in Packets
  OBVIOUS
<1>2. first \in D
  BY DEF Outgoing
<1>3. ASSUME NEW n \in 1 .. N, NEW s \in D PROVE Next(n, s) \in D
  <2>1. SendReply(packets[n].frame) \in Outgoing
    BY <1>1 DEF Outgoing
  <2> QED BY <2>1
<1> HIDE DEF Next, D, N, first
<1>4. step \in [1 .. N -> [D -> D]]
  BY <1>3
<1>5. PICK f : IsStepwise(f, N, D, first, step)
  <2> HIDE DEF step
  <2> QED BY <1>1, <1>2, <1>4, StepByStep
<1>6. f \in [0 .. N -> D] /\ f[0] = first
  BY <1>5 DEF IsStepwise
<1>7. ASSUME NEW n \in 1 .. N PROVE f[n] = Next(n, f[n - 1])
  <2>1. f[n] = step[n][f[n - 1]]
    BY <1>5 DEF IsStepwise
  <2>2. f[n - 1] \in D
    BY <1>1, <1>6
  <2> QED BY <2>1, <2>2
<1> DEFINE Direct(n, s) ==
             LET frame == packets[n].frame
             IN IF frame.type = "ARP" /\ frame.opcode = "request" /\ frame.dst_ip_addr = MyIp
                THEN Append(s, ArpFrame(frame.src_mac_addr, "reply", MyIp,
                                        frame.src_mac_addr, frame.src_ip_addr))
                ELSE s
<1>8. ASSUME NEW n, NEW s PROVE Direct(n, s) = Next(n, s)
  BY DEF Next, IsRequestForMe, SendReply
<1>9. Answers(packets) =
        CHOOSE g : g = [n \in 0 .. N |-> IF n = 0 THEN first ELSE Direct(n, g[n - 1])]
  BY DEF Answers, N, first
<1> HIDE DEF Direct
<1>10. Answers(packets) =
         [n \in 0 .. N |-> IF n = 0 THEN first ELSE Next(n, Answers(packets)[n - 1])]
  <2>1. \A n \in 0 .. N : f[n] = IF n = 0 THEN first ELSE Direct(n, f[n - 1])
    BY <1>1, <1>6, <1>7, <1>8
  <2>2. f = [n \in 0 .. N |-> IF n = 0 THEN first ELSE Direct(n, f[n - 1])]
    BY <1>6, <2>1
  <2>3. Answers(packets) =
          [n \in 0 .. N |-> IF n = 0 THEN first ELSE Direct(n, Answers(packets)[n - 1])]
    BY <1>9, <2>2
  <2> QED BY <1>8, <2>3
<1>11. /\ Answers(packets)[0] = first
       /\ \A n \in 1 .. N : Answers(packets)[n] = Next(n, Answers(packets)[n - 1])
  BY <1>1, <1>10
<1>12. Answers(packets) \in [0 .. N -> D]
  <2> DEFINE g == Answers(packets)
             T == {n \in 0 .. N : g[n] \in D}
  <2>1. 0 \in T
    BY <1>1, <1>2, <1>11
  <2>2. ASSUME NEW n \in 1 .. N, n - 1 \in T PROVE n \in T
    <3>1. g[n] = Next(n, g[n - 1])
      BY <1>11
    <3> QED BY <1>1, <1>3, <2>2, <3>1
  <2>3. 0 .. N \subseteq T
    <3> HIDE DEF T
    <3> QED BY <1>1, <2>1, <2>2, UpTo
  <2>4. \A n \in 0 .. N : g[n] \in D
    BY <2>3
  <2> QED BY <1>10, <2>4
<1> QED BY <1>11, <1>12 DEF Next, D, N, first
\* A packet that arrives changes nothing about what is due for the earlier ones.
LEMMA AnswersAfterArrival ==
  ASSUME NEW packets \in Seq(Packets), NEW p \in Packets, NEW n \in 0 .. Len(packets)
  PROVE  Answers(Append(packets, p))[n] = Answers(packets)[n]
<1> DEFINE N == Len(packets)
           more == Append(packets, p)
           old == Answers(packets)
           new == Answers(more)
           T == {k \in 0 .. N : new[k] = old[k]}
<1>1. /\ N \in Nat /\ more \in Seq(Packets) /\ Len(more) = N + 1
      /\ \A k \in 1 .. N : more[k] = packets[k] /\ k \in 1 .. N + 1
  OBVIOUS
<1>2. /\ old[0] = <<SendRequest>>
      /\ \A k \in 1 .. N : old[k] = IF IsRequestForMe(packets[k].frame)
                                    THEN Append(old[k - 1], SendReply(packets[k].frame))
                                    ELSE old[k - 1]
  BY AnswersUnfold
<1>3. /\ new[0] = <<SendRequest>>
      /\ \A k \in 1 .. N + 1 : new[k] = IF IsRequestForMe(more[k].frame)
                                        THEN Append(new[k - 1], SendReply(more[k].frame))
                                        ELSE new[k - 1]
  <2> HIDE DEF more
  <2> QED BY <1>1, AnswersUnfold
<1> HIDE DEF N, more, old, new
<1>4. 0 \in T
  BY <1>1, <1>2, <1>3
<1>5. ASSUME NEW k \in 1 .. N, k - 1 \in T PROVE k \in T
  BY <1>1, <1>2, <1>3, <1>5
<1>6. 0 .. N \subseteq T
  <2> HIDE DEF T
  <2> QED BY <1>1, <1>4, <1>5, UpTo
<1>7. \A k \in 0 .. N : new[k] = old[k]
  BY <1>6
<1> QED BY <1>7 DEF N, more, old, new

LEMMA PrefixOfSelf ==
  ASSUME NEW S, NEW s \in Seq(S)
  PROVE  IsPrefix(s, s)
BY DEF IsPrefix

LEMMA PrefixOfAppended ==
  ASSUME NEW S, NEW s \in Seq(S), NEW e, Append(s, e) \in Seq(S)
  PROVE  IsPrefix(s, Append(s, e))
<1>1. Len(s) \in Nat /\ Len(Append(s, e)) = Len(s) + 1
  OBVIOUS
<1>2. SubSeq(s, 1, Len(s)) = SubSeq(Append(s, e), 1, Len(s))
  <2>1. \A i \in 1 .. Len(s) : Append(s, e)[i] = s[i]
    OBVIOUS
  <2>2. SubSeq(s, 1, Len(s)) = [i \in 1 .. Len(s) |-> s[i]]
    OBVIOUS
  <2>3. SubSeq(Append(s, e), 1, Len(s)) = [i \in 1 .. Len(s) |-> Append(s, e)[i]]
    OBVIOUS
  <2> QED BY <2>1, <2>2, <2>3
<1> QED BY <1>1, <1>2 DEF IsPrefix

\* What should be on the wire for the packets handled so far.
Due == Answers(arrived)[handled]

\* The card owns a buffer that is not waited for, and no other.
OwnInv ==
  /\ tx_buffers_ = [i \in TxBuffers |-> tx_buffers_[i]]
  /\ \A i \in TxBuffers : own[i] \/ (pc = "wait" /\ i = current_tx_buffer_)

\* What is missing on the wire, by where the driver is.
WireInv ==
  /\ wire \in Seq(Outgoing)
  /\ pc = "init" => handled = 0 /\ wire = <<>>
  /\ pc \in {"poll", "copy", "release"} => wire = Due
  /\ pc = "handle" => wire = Answers(arrived)[handled - 1]
  /\ pc \in {"send", "start"} => Due = Append(wire, out)
  /\ pc \in {"start", "wait"} => tx_buffers_[current_tx_buffer_] = out
  /\ pc = "wait" => IF own[current_tx_buffer_] THEN wire = Due ELSE Due = Append(wire, out)
  /\ pc \in {"halted", "undefined"} => IsPrefix(wire, Due)

SendInv == ReceiveInv /\ OwnInv /\ WireInv
LEMMA DueFacts ==
  ASSUME NetworkTypeOK
  PROVE  /\ Due \in Seq(Outgoing)
         /\ handled \in Nat /\ Len(arrived) \in Nat /\ handled <= Len(arrived)
         /\ handled >= 1 =>
              /\ Answers(arrived)[handled - 1] \in Seq(Outgoing)
              /\ Due = IF IsRequestForMe(arrived[handled].frame)
                       THEN Append(Answers(arrived)[handled - 1], SendReply(arrived[handled].frame))
                       ELSE Answers(arrived)[handled - 1]
<1>1. arrived \in Seq(Packets) /\ Len(arrived) \in Nat /\ handled \in 0 .. Len(arrived)
  BY DEF NetworkTypeOK
<1>2. Answers(arrived) \in [0 .. Len(arrived) -> Seq(Outgoing)]
  BY <1>1, AnswersUnfold
<1>3. ASSUME handled >= 1 PROVE handled \in 1 .. Len(arrived) /\ handled - 1 \in 0 .. Len(arrived)
  BY <1>1, <1>3
<1> QED BY <1>1, <1>2, <1>3, AnswersUnfold DEF Due

LEMMA InitSendInv ==
  ASSUME NetworkInit
  PROVE  SendInv
<1>1. ReceiveInv
  BY InitReceiveInv
<1>2. OwnInv
  BY DEF NetworkInit, RtlInit, OwnInv
<1>3. WireInv
  <2>1. wire = <<>> /\ handled = 0 /\ pc = "init"
    BY DEF NetworkInit, RtlInit
  <2> QED BY <2>1 DEF WireInv
<1> QED BY <1>1, <1>2, <1>3 DEF SendInv

LEMMA InitializeSends ==
  ASSUME SendInv, Initialize
  PROVE  OwnInv' /\ WireInv'
<1>1. NetworkTypeOK /\ OwnInv /\ WireInv
  BY DEF SendInv, ReceiveInv
<1>2. /\ pc = "init"
      /\ \/ pc' = "send" /\ out' = SendRequest
         \/ pc' = "undefined"
      /\ UNCHANGED <<arrived, handled, tx_buffers_, own, current_tx_buffer_, wire>>
  BY DEF Initialize, sending
<1>3. OwnInv'
  BY <1>1, <1>2 DEF OwnInv
<1>4. Due' = Due
  BY <1>2 DEF Due
<1>5. wire = <<>> /\ Due = <<SendRequest>>
  <2>1. arrived \in Seq(Packets) /\ handled = 0 /\ wire = <<>>
    BY <1>1, <1>2 DEF NetworkTypeOK, WireInv
  <2> QED BY <2>1, AnswersUnfold DEF Due
<1>6. Append(wire, SendRequest) = Due
  BY <1>5
<1>7. IsPrefix(wire, Due)
  <2>1. Append(wire, SendRequest) \in Seq(Outgoing)
    BY <1>1, <1>6, DueFacts
  <2> QED BY <1>1, <1>6, <2>1, PrefixOfAppended DEF WireInv
<1>8. wire \in Seq(Outgoing)
  BY <1>1 DEF WireInv
<1>9. CASE pc' = "send" /\ out' = SendRequest
  BY <1>2, <1>3, <1>4, <1>6, <1>8, <1>9 DEF WireInv
<1>10. CASE pc' = "undefined"
  BY <1>2, <1>3, <1>4, <1>7, <1>8, <1>10 DEF WireInv
<1> QED BY <1>2, <1>3, <1>9, <1>10

LEMMA HandlePacketSends ==
  ASSUME SendInv, HandlePacket
  PROVE  OwnInv' /\ WireInv'
<1>1. NetworkTypeOK /\ OwnInv /\ WireInv /\ CopyInv
  BY DEF SendInv, ReceiveInv
<1>2. /\ pc = "handle"
      /\ IF IsRequestForMe(Frame) THEN out' = SendReply(Frame) /\ pc' = "send" ELSE pc' = "poll"
      /\ UNCHANGED <<arrived, handled, tx_buffers_, own, current_tx_buffer_, wire>>
  BY DEF HandlePacket, sending
<1>3. OwnInv'
  BY <1>1, <1>2 DEF OwnInv
<1>4. Due' = Due
  BY <1>2 DEF Due
<1>5. handled >= 1 /\ handled \in 1 .. Len(arrived) /\ packet = DataOf(handled)
  BY <1>1, <1>2, DueFacts DEF CopyInv
<1>6. Frame = arrived[handled].frame
  <2>1. arrived[handled] \in Packets
    BY <1>1, <1>5 DEF NetworkTypeOK
  <2>2. arrived[handled].length \in Nat /\ arrived[handled].length > 4
    BY <2>1, SizeOfPacket
  <2>3. 1 \in 1 .. arrived[handled].length - CRC
    BY <2>2 DEF CRC
  <2>4. packet[1] = <<handled, Header + 1 - 1>>
    BY <1>5, <2>3 DEF DataOf
  <2> QED BY <2>4 DEF Frame
<1>7. Due = IF IsRequestForMe(Frame) THEN Append(wire, SendReply(Frame)) ELSE wire
  BY <1>1, <1>2, <1>5, <1>6, DueFacts DEF WireInv
<1>8. wire \in Seq(Outgoing)
  BY <1>1 DEF WireInv
<1>9. WireInv'
  <2>1. CASE IsRequestForMe(Frame)
    BY <1>2, <1>4, <1>7, <1>8, <2>1 DEF WireInv
  <2>2. CASE ~IsRequestForMe(Frame)
    BY <1>2, <1>4, <1>7, <1>8, <2>2 DEF WireInv
  <2> QED BY <2>1, <2>2
<1> QED BY <1>3, <1>9

LEMMA PollSends ==
  ASSUME SendInv, Poll \/ Copy \/ Release
  PROVE  OwnInv' /\ WireInv'
<1>1. NetworkTypeOK /\ OwnInv /\ WireInv
  BY DEF SendInv, ReceiveInv
<1>2. /\ UNCHANGED <<arrived, tx_buffers_, own, current_tx_buffer_, wire>>
      /\ wire = Due /\ pc \in {"poll", "copy", "release"}
      /\ pc' \in {"copy", "release", "handle", "halted"}
      /\ IF pc' = "handle" THEN handled' = handled + 1 ELSE handled' = handled
  BY <1>1 DEF Poll, Copy, Release, sending, WireInv
<1>3. OwnInv'
  BY <1>1, <1>2 DEF OwnInv
<1>4. wire' \in Seq(Outgoing)
  BY <1>1, <1>2 DEF WireInv
<1>5. CASE pc' = "handle"
  <2>1. wire' = Answers(arrived)[handled] /\ handled' - 1 = handled
    BY <1>1, <1>2, <1>5, DueFacts DEF Due
  <2> QED BY <1>2, <1>3, <1>4, <1>5, <2>1 DEF WireInv
<1>6. CASE pc' # "handle"
  <2>1. Due' = Due /\ wire' = Due'
    BY <1>2, <1>6 DEF Due
  <2>2. IsPrefix(wire', Due')
    BY <1>4, <2>1, PrefixOfSelf
  <2> QED BY <1>2, <1>3, <1>4, <1>6, <2>1, <2>2 DEF WireInv
<1> QED BY <1>5, <1>6
LEMMA CopyToTxBufferSends ==
  ASSUME SendInv, CopyToTxBuffer
  PROVE  OwnInv' /\ WireInv'
<1>1. NetworkTypeOK /\ OwnInv /\ WireInv
  BY DEF SendInv, ReceiveInv
<1>2. /\ pc = "send" /\ UNCHANGED <<arrived, handled, own, current_tx_buffer_, wire, out>>
      /\ \/ pc' = "halted" /\ tx_buffers_' = tx_buffers_
         \/ pc' = "start" /\ tx_buffers_' = [tx_buffers_ EXCEPT ![current_tx_buffer_] = out]
  BY DEF CopyToTxBuffer
<1>3. /\ Due' = Due /\ Due = Append(wire, out) /\ wire \in Seq(Outgoing)
      /\ current_tx_buffer_ \in TxBuffers
  BY <1>1, <1>2 DEF Due, WireInv, NetworkTypeOK
<1>4. OwnInv'
  BY <1>1, <1>2 DEF OwnInv
<1>5. CASE pc' = "halted"
  <2>1. IsPrefix(wire, Due)
    BY <1>1, <1>3, DueFacts, PrefixOfAppended
  <2> QED BY <1>2, <1>3, <1>4, <1>5, <2>1 DEF WireInv
<1>6. CASE pc' = "start" /\ tx_buffers_' = [tx_buffers_ EXCEPT ![current_tx_buffer_] = out]
  <2>1. tx_buffers_'[current_tx_buffer_'] = out'
    BY <1>1, <1>2, <1>3, <1>6 DEF OwnInv
  <2> QED BY <1>2, <1>3, <1>4, <1>6, <2>1 DEF WireInv
<1> QED BY <1>2, <1>5, <1>6

LEMMA StartSends ==
  ASSUME SendInv, Start
  PROVE  OwnInv' /\ WireInv'
<1>1. NetworkTypeOK /\ OwnInv /\ WireInv
  BY DEF SendInv, ReceiveInv
<1>2. /\ pc = "start" /\ pc' = "wait"
      /\ own' = [own EXCEPT ![current_tx_buffer_] = FALSE]
      /\ UNCHANGED <<arrived, handled, tx_buffers_, current_tx_buffer_, wire, out>>
  BY DEF Start
<1>3. Due' = Due /\ current_tx_buffer_ \in TxBuffers /\ own \in [TxBuffers -> BOOLEAN]
  BY <1>1, <1>2 DEF Due, NetworkTypeOK
<1>4. OwnInv'
  BY <1>1, <1>2, <1>3 DEF OwnInv
<1>5. own'[current_tx_buffer_'] = FALSE
  BY <1>2, <1>3
<1>6. WireInv'
  BY <1>1, <1>2, <1>3, <1>5 DEF WireInv
<1> QED BY <1>4, <1>6

LEMMA WaitSends ==
  ASSUME SendInv, Wait
  PROVE  OwnInv' /\ WireInv'
<1>1. NetworkTypeOK /\ OwnInv /\ WireInv
  BY DEF SendInv, ReceiveInv
<1>2. /\ pc = "wait" /\ own[current_tx_buffer_] /\ pc' \in {"poll", "halted"}
      /\ UNCHANGED <<arrived, handled, tx_buffers_, own, wire, out>>
  BY DEF Wait
<1>3. Due' = Due /\ wire = Due /\ wire \in Seq(Outgoing)
  BY <1>1, <1>2 DEF Due, WireInv
<1>4. OwnInv'
  BY <1>1, <1>2 DEF OwnInv
<1>5. IsPrefix(wire, Due)
  BY <1>3, PrefixOfSelf
<1> QED BY <1>2, <1>3, <1>4, <1>5 DEF WireInv

LEMMA CardSendsIt ==
  ASSUME SendInv, NEW i \in TxBuffers, CardSends(i)
  PROVE  OwnInv' /\ WireInv'
<1>1. NetworkTypeOK /\ OwnInv /\ WireInv
  BY DEF SendInv, ReceiveInv
<1>2. /\ ~own[i] /\ wire' = Append(wire, tx_buffers_[i]) /\ own' = [own EXCEPT ![i] = TRUE]
      /\ UNCHANGED <<arrived, handled, tx_buffers_, current_tx_buffer_, out, pc>>
  BY DEF CardSends
<1>3. pc = "wait" /\ i = current_tx_buffer_
  BY <1>1, <1>2 DEF OwnInv
<1>4. Due' = Due /\ wire' = Due /\ tx_buffers_[i] = out
  BY <1>1, <1>2, <1>3 DEF Due, WireInv
<1>5. own \in [TxBuffers -> BOOLEAN]
  BY <1>1 DEF NetworkTypeOK
<1>6. OwnInv'
  BY <1>1, <1>2, <1>5 DEF OwnInv
<1>7. own'[i] = TRUE /\ wire' \in Seq(Outgoing)
  BY <1>1, <1>2, <1>4, <1>5, DueFacts
<1> QED BY <1>2, <1>3, <1>4, <1>6, <1>7 DEF WireInv

LEMMA NetworkKeepsSendInv ==
  ASSUME SendInv, NetworkNext
  PROVE  SendInv'
<1>1. ReceiveInv'
  BY NextReceives DEF SendInv
<1>2. OwnInv' /\ WireInv'
  <2>1. CASE Initialize
    BY <2>1, InitializeSends
  <2>2. CASE HandlePacket
    BY <2>2, HandlePacketSends
  <2>3. CASE RtlDriver
    BY <2>3, PollSends, CopyToTxBufferSends, StartSends, WaitSends DEF RtlDriver
  <2>4. CASE RtlSends
    BY <2>4, CardSendsIt DEF RtlSends
  <2>5. ASSUME NEW i \in TxBuffers, CardConfirms(i) PROVE OwnInv' /\ WireInv'
    <3>1. UNCHANGED <<arrived, handled, tx_buffers_, own, current_tx_buffer_, wire, out, pc>>
      BY <2>5 DEF CardConfirms
    <3> QED BY <3>1 DEF SendInv, OwnInv, WireInv, Due
  <2>6. ASSUME NEW p \in Packets, CardReceives(p) PROVE OwnInv' /\ WireInv'
    <3>1. /\ arrived' = Append(arrived, p)
          /\ UNCHANGED <<handled, tx_buffers_, own, current_tx_buffer_, wire, out, pc>>
      BY <2>6 DEF CardReceives, sending
    <3>2. arrived \in Seq(Packets) /\ handled \in 0 .. Len(arrived) /\ CopyInv
      BY DEF SendInv, ReceiveInv, NetworkTypeOK
    <3>3. Due' = Due
      BY <3>1, <3>2, AnswersAfterArrival DEF Due
    <3>4. pc = "handle" => Answers(arrived')[handled - 1] = Answers(arrived)[handled - 1]
      <4>1. Len(arrived) \in Nat
        BY <3>2
      <4>2. pc = "handle" => handled - 1 \in 0 .. Len(arrived)
        BY <3>2, <4>1 DEF CopyInv
      <4> QED BY <3>1, <3>2, <4>2, AnswersAfterArrival
    <3> QED BY <3>1, <3>3, <3>4 DEF SendInv, OwnInv, WireInv
  <2> QED BY <2>1, <2>2, <2>3, <2>4, <2>5, <2>6 DEF NetworkNext, Driver, Card
<1> QED BY <1>1, <1>2 DEF SendInv

LEMMA OutgoingAlways == NetworkSpec => []SendInv
<1>1. NetworkInit => SendInv
  BY InitSendInv
<1>2. SendInv /\ [NetworkNext]_networkVars => SendInv'
  <2>1. ASSUME SendInv, UNCHANGED networkVars PROVE SendInv'
    <3>1. /\ UNCHANGED <<arrived, handled, receiving, packet>>
          /\ UNCHANGED sending /\ nic_' = nic_ /\ pc' = pc /\ out' = out
      BY <2>1 DEF networkVars
    <3>2. ReceiveInv'
      BY <2>1, <3>1, ReceivingKept DEF SendInv, ReceiveInv, NetworkTypeOK, sending
    <3> QED BY <2>1, <3>1, <3>2 DEF SendInv, OwnInv, WireInv, Due, sending
  <2> QED BY <2>1, NetworkKeepsSendInv
<1> QED BY <1>1, <1>2, PTL DEF NetworkSpec

LEMMA InOrderBySendInv ==
  ASSUME SendInv
  PROVE  WireInOrder
<1>1. NetworkTypeOK /\ WireInv /\ CopyInv /\ Due \in Seq(Outgoing) /\ wire \in Seq(Outgoing)
  BY DueFacts DEF SendInv, ReceiveInv, WireInv
<1>2. CASE wire = Due
  BY <1>1, <1>2, PrefixOfSelf DEF WireInOrder, Due
<1>3. ASSUME NEW e, Due = Append(wire, e) PROVE WireInOrder
  <2>1. IsPrefix(wire, Append(wire, e))
    BY <1>1, <1>3, PrefixOfAppended
  <2> QED BY <1>3, <2>1 DEF WireInOrder, Due
<1>4. CASE pc = "init"
  <2>1. arrived \in Seq(Packets) /\ handled = 0 /\ wire = <<>>
    BY <1>1, <1>4 DEF NetworkTypeOK, WireInv
  <2>2. Due = Append(wire, SendRequest)
    BY <2>1, AnswersUnfold DEF Due
  <2> QED BY <1>3, <2>2
<1>5. CASE pc = "handle"
  <2>1. handled >= 1 /\ wire = Answers(arrived)[handled - 1]
    BY <1>1, <1>5 DEF CopyInv, WireInv
  <2>2. wire = Due \/ Due = Append(wire, SendReply(arrived[handled].frame))
    BY <1>1, <2>1, DueFacts
  <2> QED BY <1>2, <1>3, <2>2
<1>6. CASE pc \in {"halted", "undefined"}
  BY <1>1, <1>6 DEF WireInv, WireInOrder, Due
<1>7. CASE pc \in {"poll", "copy", "release", "send", "start", "wait"}
  <2>1. wire = Due \/ Due = Append(wire, out)
    BY <1>1, <1>7 DEF WireInv
  <2> QED BY <1>2, <1>3, <2>1
<1> QED BY <1>1, <1>4, <1>5, <1>6, <1>7 DEF NetworkTypeOK

\* What goes out is the request for the gateway and then one reply for each request for
\* this machine, in the order in which they came and each as it was written into its
\* buffer (Controller::SendPacket, rtl8139.cpp:159, and the loop in network::Initialize).
THEOREM WireIsInOrder == NetworkSpec => []WireInOrder
  BY OutgoingAlways, InOrderBySendInv, PTL

-----------------------------------------------------------------------------
(* The screen.                                                             *)

ScreenType == [long : [AllRows -> [Columns -> Cells]],
               frame : [FrameRows -> [Columns -> Cells \cup {Block}]],
               base : Nat, row : Nat, col : Columns, end : Nat]

\* What is on display shows the long frame, with the block at the cursor, or but for
\* the cursor's cell, or without any block.
Shows(s) ==
  \A r \in FrameRows, x \in Columns :
    s.base + r \in AllRows =>
      s.frame[r][x] = IF <<s.base + r, x>> = <<s.row, s.col>>
                      THEN Block ELSE s.long[s.base + r][x]

ShowsOthers(s) ==
  \A r \in FrameRows, x \in Columns :
    s.base + r \in AllRows /\ ~(s.base + r = s.row /\ x = s.col) =>
      s.frame[r][x] = s.long[s.base + r][x]

ShowsPlainly(s) ==
  \A r \in FrameRows, x \in Columns :
    s.base + r \in AllRows => s.frame[r][x] = s.long[s.base + r][x]

SamePlace(s, t) == t.base = s.base /\ t.row = s.row /\ t.col = s.col /\ t.end = s.end

LEMMA SizesOfScreen ==
  /\ Rows \in Nat /\ Rows > 0 /\ Cols \in Nat /\ Cols > 1 /\ LongRows \in Nat /\ Rows <= LongRows
  /\ Columns = 0 .. Cols - 1 /\ FrameRows = 0 .. Rows - 1 /\ AllRows = 0 .. LongRows - 1
BY ScreenAssumption DEF Columns, FrameRows, AllRows

LEMMA CellTypes ==
  /\ Blank \in Cells /\ Garbage \in Cells /\ NewLine \in Cells /\ "$" \in Cells
  /\ Chars \subseteq Cells
BY DEF Cells

LEMMA WriteCharStep ==
  ASSUME NEW s \in ScreenType, NEW x \in Columns, NEW y \in Nat, NEW c \in Cells
  PROVE  LET t == WriteCharToLongFrame(s, x, y, c)
         IN /\ t \in ScreenType /\ t.frame = s.frame /\ SamePlace(s, t)
            /\ \A b \in AllRows, a \in Columns :
                 t.long[b][a] = IF b = y /\ a = x THEN c ELSE s.long[b][a]
<1> DEFINE t == WriteCharToLongFrame(s, x, y, c)
<1>1. CASE y \in AllRows
  <2>1. t = [s EXCEPT !.long = [s.long EXCEPT ![y] = [s.long[y] EXCEPT ![x] = c]]]
    BY <1>1 DEF WriteCharToLongFrame, ScreenType
  <2> DEFINE l == [s.long EXCEPT ![y] = [s.long[y] EXCEPT ![x] = c]]
  <2>2. s.long \in [AllRows -> [Columns -> Cells]]
    BY DEF ScreenType
  <2>3. l \in [AllRows -> [Columns -> Cells]]
    BY <1>1, <2>2
  <2>4. \A b \in AllRows, a \in Columns :
          l[b][a] = IF b = y /\ a = x THEN c ELSE s.long[b][a]
    BY <1>1, <2>2
  <2> HIDE DEF l
  <2>5. t = [s EXCEPT !.long = l]
    BY <2>1 DEF l
  <2> HIDE DEF t
  <2>6. /\ t \in ScreenType /\ t.long = l /\ t.frame = s.frame
        /\ t.base = s.base /\ t.row = s.row /\ t.col = s.col /\ t.end = s.end
    BY <2>3, <2>5 DEF ScreenType
  <2> QED BY <2>4, <2>6 DEF SamePlace, t
<1>2. CASE y \notin AllRows
  <2>1. t = s
    BY <1>2 DEF WriteCharToLongFrame
  <2> QED BY <1>2, <2>1 DEF SamePlace
<1> QED BY <1>1, <1>2

LEMMA CopyCharStep ==
  ASSUME NEW s \in ScreenType, ShowsOthers(s)
  PROVE  LET t == CopyChar(s, s.col, s.row)
         IN t \in ScreenType /\ t.long = s.long /\ SamePlace(s, t) /\ ShowsPlainly(t)
<1> DEFINE t == CopyChar(s, s.col, s.row)
           q == s.row - s.base
<1>0. /\ s.long \in [AllRows -> [Columns -> Cells]] /\ s.base \in Nat /\ s.row \in Nat /\ s.col \in Columns
      /\ s.frame \in [FrameRows -> [Columns -> Cells \cup {Block}]]
  BY DEF ScreenType
<1>1. CASE s.row \in AllRows /\ InFrame(s, s.row)
  <2>1. q \in FrameRows /\ s.base + q = s.row
    BY <1>0, <1>1, SizesOfScreen DEF InFrame
  <2> HIDE DEF q
  <2> DEFINE f == [s.frame EXCEPT ![q] = [s.frame[q] EXCEPT ![s.col] = s.long[s.row][s.col]]]
  <2>2. t = [s EXCEPT !.frame = f]
    BY <1>1, <2>1 DEF CopyChar, ScreenType, q
  <2>3. f \in [FrameRows -> [Columns -> Cells \cup {Block}]]
    BY <1>0, <1>1, <2>1
  <2>4. \A r \in FrameRows, x \in Columns :
          f[r][x] = IF r = q /\ x = s.col THEN s.long[s.row][s.col] ELSE s.frame[r][x]
    BY <1>0, <2>1
  <2> HIDE DEF f, t
  <2>5. /\ t \in ScreenType /\ t.long = s.long /\ t.frame = f
        /\ t.base = s.base /\ t.row = s.row /\ t.col = s.col /\ t.end = s.end
    BY <2>2, <2>3 DEF ScreenType
  <2>6. ASSUME NEW r \in FrameRows, NEW x \in Columns, s.base + r \in AllRows
        PROVE  f[r][x] = s.long[s.base + r][x]
    <3>1. CASE r = q /\ x = s.col
      BY <2>1, <2>4, <3>1
    <3>2. CASE ~(r = q /\ x = s.col)
      <4>1. ~(s.base + r = s.row /\ x = s.col)
        BY <1>0, <2>1, <3>2, SizesOfScreen
      <4> QED BY <2>4, <2>6, <3>2, <4>1 DEF ShowsOthers
    <3> QED BY <3>1, <3>2
  <2>7. ShowsPlainly(t)
    BY <2>5, <2>6 DEF ShowsPlainly
  <2> QED BY <2>5, <2>7 DEF SamePlace, t
<1>2. CASE ~(s.row \in AllRows /\ InFrame(s, s.row))
  <2>1. t = s
    BY <1>2 DEF CopyChar
  <2>2. \A r \in FrameRows : s.base + r \in AllRows => s.base + r # s.row
    BY <1>0, <1>2, SizesOfScreen DEF InFrame
  <2>3. ShowsPlainly(s)
    BY <2>2 DEF ShowsOthers, ShowsPlainly
  <2> QED BY <2>1, <2>3 DEF SamePlace
<1> QED BY <1>1, <1>2

LEMMA ShowCursorStep ==
  ASSUME NEW s \in ScreenType, ShowsOthers(s)
  PROVE  LET t == CursorShow(s)
         IN t \in ScreenType /\ t.long = s.long /\ SamePlace(s, t) /\ Shows(t)
<1> DEFINE t == CursorShow(s)
           q == s.row - s.base
<1>0. /\ s.long \in [AllRows -> [Columns -> Cells]] /\ s.base \in Nat /\ s.row \in Nat /\ s.col \in Columns
      /\ s.frame \in [FrameRows -> [Columns -> Cells \cup {Block}]]
  BY DEF ScreenType
<1>1. CASE InFrame(s, s.row)
  <2>1. q \in FrameRows /\ s.base + q = s.row
    BY <1>0, <1>1, SizesOfScreen DEF InFrame
  <2> HIDE DEF q
  <2> DEFINE f == [s.frame EXCEPT ![q] = [s.frame[q] EXCEPT ![s.col] = Block]]
  <2>2. t = [s EXCEPT !.frame = f]
    BY <1>1, <2>1 DEF CursorShow, IsCursorInFrame, ScreenType, q
  <2>3. f \in [FrameRows -> [Columns -> Cells \cup {Block}]]
    BY <1>0, <1>1, <2>1
  <2>4. \A r \in FrameRows, x \in Columns :
          f[r][x] = IF r = q /\ x = s.col THEN Block ELSE s.frame[r][x]
    BY <1>0, <2>1
  <2> HIDE DEF f, t
  <2>5. /\ t \in ScreenType /\ t.long = s.long /\ t.frame = f
        /\ t.base = s.base /\ t.row = s.row /\ t.col = s.col /\ t.end = s.end
    BY <2>2, <2>3 DEF ScreenType
  <2>6. ASSUME NEW r \in FrameRows, NEW x \in Columns, s.base + r \in AllRows
        PROVE  f[r][x] = IF <<s.base + r, x>> = <<s.row, s.col>>
                         THEN Block ELSE s.long[s.base + r][x]
    <3>1. CASE r = q /\ x = s.col
      BY <2>1, <2>4, <3>1
    <3>2. CASE ~(r = q /\ x = s.col)
      <4>1. ~(s.base + r = s.row /\ x = s.col)
        BY <1>0, <2>1, <3>2, SizesOfScreen
      <4> QED BY <2>4, <2>6, <3>2, <4>1 DEF ShowsOthers
    <3> QED BY <3>1, <3>2
  <2>7. Shows(t)
    BY <2>5, <2>6 DEF Shows
  <2> QED BY <2>5, <2>7 DEF SamePlace, t
<1>2. CASE ~InFrame(s, s.row)
  <2>1. t = s
    BY <1>2 DEF CursorShow, IsCursorInFrame
  <2>2. \A r \in FrameRows : s.base + r # s.row
    BY <1>0, <1>2, SizesOfScreen DEF InFrame
  <2>3. Shows(s)
    BY <2>2 DEF ShowsOthers, Shows
  <2> QED BY <2>1, <2>3 DEF SamePlace
<1> QED BY <1>1, <1>2
\* The rows below the cursor that were filled are blank.
BelowBlank(s) ==
  \A y \in AllRows : s.row < y /\ y < s.end => \A x \in Columns : s.long[y][x] = Blank

\* What the operations of the screen keep, and what they need of a screen on which the
\* cursor has just been moved.
ScreenSound(s) ==
  /\ s \in ScreenType
  /\ s.base <= s.row /\ s.base + Rows <= s.end /\ BelowBlank(s)

ScreenInv(s) == ScreenSound(s) /\ Shows(s)

LEMMA CopyAllStep ==
  ASSUME NEW s \in ScreenType, s.base <= s.end, s.base <= s.row, BelowBlank(s)
  PROVE  LET t == CopyAll(s)
         IN /\ ScreenInv(t) /\ t.base = s.base /\ t.row = s.row /\ t.col = s.col /\ t.end >= s.end
            /\ \A y \in AllRows : y < s.end => t.long[y] = s.long[y]
            /\ \A y \in AllRows, x \in Columns : s.end <= y /\ y < t.end => t.long[y][x] = Blank
<1> DEFINE long == [y \in AllRows |-> IF InFrame(s, y) /\ s.end <= y THEN Line(Blank)
                                      ELSE s.long[y]]
           frame == [r \in FrameRows |-> IF s.base + r \in AllRows THEN long[s.base + r]
                                         ELSE s.frame[r]]
           end == IF s.end < s.base + Rows THEN s.base + Rows ELSE s.end
           u == [s EXCEPT !.long = long, !.frame = frame, !.end = end]
           t == CopyAll(s)
<1>0. /\ s.long \in [AllRows -> [Columns -> Cells]] /\ s.base \in Nat /\ s.row \in Nat /\ s.col \in Columns
      /\ s.frame \in [FrameRows -> [Columns -> Cells \cup {Block}]] /\ s.end \in Nat
  BY DEF ScreenType
<1>1. t = CursorShow(u)
  BY DEF CopyAll
<1>2. long \in [AllRows -> [Columns -> Cells]] /\ \A x \in Columns : Line(Blank)[x] = Blank
  BY <1>0, CellTypes DEF Line
<1>3. \A y \in AllRows : long[y] = IF InFrame(s, y) /\ s.end <= y THEN Line(Blank) ELSE s.long[y]
  OBVIOUS
<1> HIDE DEF long
<1>4. frame \in [FrameRows -> [Columns -> Cells \cup {Block}]]
  BY <1>0, <1>2
<1>5. \A r \in FrameRows : s.base + r \in AllRows => frame[r] = long[s.base + r]
  OBVIOUS
<1>6. end \in Nat /\ end >= s.end /\ end >= s.base + Rows /\ (end = s.end \/ end = s.base + Rows)
  BY <1>0, SizesOfScreen
<1> HIDE DEF frame, end
<1>7. /\ u \in ScreenType /\ u.long = long /\ u.frame = frame /\ u.end = end
      /\ u.base = s.base /\ u.row = s.row /\ u.col = s.col
  BY <1>0, <1>2, <1>4, <1>6 DEF ScreenType
<1> HIDE DEF u
<1>8. ShowsOthers(u)
  BY <1>5, <1>7 DEF ShowsOthers
<1>9. /\ t \in ScreenType /\ t.long = long /\ t.base = s.base /\ t.row = s.row /\ t.col = s.col
      /\ t.end = end /\ Shows(t)
  BY <1>1, <1>7, <1>8, ShowCursorStep DEF SamePlace
<1> HIDE DEF t
<1>10. ASSUME NEW y \in AllRows, y < s.end PROVE t.long[y] = s.long[y]
  BY <1>0, <1>3, <1>9, <1>10, SizesOfScreen
<1>11. ASSUME NEW y \in AllRows, NEW x \in Columns, s.end <= y, y < t.end
       PROVE  t.long[y][x] = Blank
  <2>1. InFrame(s, y)
    BY <1>0, <1>6, <1>9, <1>11, SizesOfScreen DEF InFrame
  <2> QED BY <1>2, <1>3, <1>9, <1>11, <2>1
<1>12. BelowBlank(t)
  <2>1. SUFFICES ASSUME NEW y \in AllRows, NEW x \in Columns, s.row < y, y < t.end
                 PROVE  t.long[y][x] = Blank
    BY <1>9 DEF BelowBlank
  <2>2. CASE y < s.end
    BY <1>10, <2>1, <2>2 DEF BelowBlank
  <2>3. CASE s.end <= y
    BY <1>11, <2>1, <2>3
  <2>4. y \in Nat
    BY SizesOfScreen
  <2> QED BY <1>0, <2>2, <2>3, <2>4
<1> QED BY <1>6, <1>9, <1>10, <1>11, <1>12 DEF ScreenInv, ScreenSound, t

LEMMA FactsOfScreen ==
  ASSUME NEW s, ScreenSound(s)
  PROVE  /\ s \in ScreenType /\ BelowBlank(s)
         /\ s.base \in Nat /\ s.row \in Nat /\ s.end \in Nat
         /\ s.base <= s.row /\ s.base + Rows <= s.end /\ s.base < s.end
         /\ s.col \in Columns /\ s.col \in Nat /\ s.col < Cols
         /\ s.long \in [AllRows -> [Columns -> Cells]]
<1>1. /\ s \in ScreenType /\ BelowBlank(s) /\ s.base <= s.row /\ s.base + Rows <= s.end
  BY DEF ScreenSound
<1>2. /\ s.long \in [AllRows -> [Columns -> Cells]] /\ s.base \in Nat /\ s.row \in Nat /\ s.col \in Columns
      /\ s.end \in Nat
  BY <1>1 DEF ScreenType
<1> QED BY <1>1, <1>2, SizesOfScreen

\* Scrolling; rows that were filled keep what they hold.
LEMMA ScrollStep ==
  ASSUME NEW s, ScreenSound(s), NEW t, t = ScrollUp(s) \/ t = ScrollDown(s)
  PROVE  /\ ScreenInv(t) /\ t.row = s.row /\ t.col = s.col /\ t.end >= s.end
         /\ \A y \in AllRows : y < s.end => t.long[y] = s.long[y]
<1> DEFINE Based(b) == [s EXCEPT !.base = b]
<1>1. PICK b \in Nat : t = CopyAll(Based(b)) /\ b <= s.end /\ b <= s.row
  <2>1. CASE t = ScrollUp(s)
    <3>1. CASE s.base > 0
      <4>1. t = CopyAll(Based(s.base - 1))
        BY <2>1, <3>1 DEF ScrollUp
      <4>2. s.base - 1 \in Nat /\ s.base - 1 <= s.end /\ s.base - 1 <= s.row
        BY <3>1, FactsOfScreen
      <4> QED BY <4>1, <4>2
    <3>2. CASE ~(s.base > 0)
      <4>1. Based(s.base) = s
        BY FactsOfScreen DEF ScreenType
      <4> QED BY <2>1, <3>2, <4>1, FactsOfScreen DEF ScrollUp
    <3> QED BY <3>1, <3>2
  <2>2. CASE t = ScrollDown(s)
    <3>1. CASE s.base < s.row
      <4>1. t = CopyAll(Based(s.base + 1))
        BY <2>2, <3>1 DEF ScrollDown
      <4>2. s.base + 1 \in Nat /\ s.base + 1 <= s.end /\ s.base + 1 <= s.row
        BY <3>1, FactsOfScreen
      <4> QED BY <4>1, <4>2
    <3>2. CASE ~(s.base < s.row)
      <4>1. Based(s.base) = s
        BY FactsOfScreen DEF ScreenType
      <4> QED BY <2>2, <3>2, <4>1, FactsOfScreen DEF ScrollDown
    <3> QED BY <3>1, <3>2
  <2> QED BY <2>1, <2>2
<1> DEFINE u == Based(b)
<1>2. /\ u \in ScreenType /\ u.base = b /\ u.row = s.row /\ u.col = s.col /\ u.end = s.end
      /\ u.long = s.long
  BY FactsOfScreen DEF ScreenType
<1> HIDE DEF u
<1>3. BelowBlank(u)
  BY <1>2, FactsOfScreen DEF BelowBlank
<1> QED BY <1>1, <1>2, <1>3, CopyAllStep DEF u

LEMMA MovedStep ==
  ASSUME NEW s, ScreenInv(s), NEW col \in Columns
  PROVE  LET t == Moved(s, col)
         IN /\ ScreenInv(t) /\ t.long = s.long /\ t.row = s.row /\ t.col = col /\ t.end = s.end
            /\ t.base = s.base
<1> DEFINE u == CopyChar(s, s.col, s.row)
           v == [u EXCEPT !.col = col]
           t == Moved(s, col)
<1>1. s \in ScreenType /\ ShowsOthers(s) /\ ScreenSound(s)
  BY FactsOfScreen DEF ScreenInv, Shows, ShowsOthers
<1>2. u \in ScreenType /\ u.long = s.long /\ SamePlace(s, u) /\ ShowsPlainly(u)
  BY <1>1, CopyCharStep
<1> HIDE DEF u
<1>3. /\ v \in ScreenType /\ v.long = s.long /\ v.frame = u.frame
      /\ v.base = s.base /\ v.row = s.row /\ v.col = col /\ v.end = s.end
  BY <1>2 DEF ScreenType, SamePlace
<1> HIDE DEF v
<1>4. ShowsOthers(v)
  BY <1>2, <1>3 DEF ShowsPlainly, ShowsOthers, SamePlace
<1>5. t = CursorShow(v)
  BY DEF Moved, v, u
<1>6. t \in ScreenType /\ t.long = v.long /\ SamePlace(v, t) /\ Shows(t)
  BY <1>3, <1>4, <1>5, ShowCursorStep
<1> HIDE DEF t
<1>7. ScreenSound(t)
  BY <1>1, <1>3, <1>6 DEF ScreenSound, BelowBlank, SamePlace
<1> QED BY <1>3, <1>6, <1>7 DEF ScreenInv, SamePlace, t

\* What PutChar does with a character that is put: the cursor is shown, or the screen
\* scrolled by a line.
LEMMA PutStep ==
  ASSUME NEW put, ScreenSound(put), ShowsOthers(put),
         NEW t, t = CursorShow(IF IsCursorInFrame(put) THEN put ELSE ScrollDown(put))
  PROVE  /\ ScreenInv(t) /\ t.row = put.row /\ t.col = put.col /\ t.end >= put.end
         /\ \A y \in AllRows : y < put.end => t.long[y] = put.long[y]
         /\ ~ IsCursorInFrame(put) =>
              \E b \in Nat : /\ b = IF put.base < put.row THEN put.base + 1 ELSE put.base
                             /\ t.end >= b + Rows
                             /\ \A y \in AllRows, x \in Columns :
                                  put.end <= y /\ y < t.end => t.long[y][x] = Blank
<1>0. put \in ScreenType /\ put.base \in Nat /\ put.row \in Nat /\ put.end \in Nat
  BY FactsOfScreen
<1>1. CASE IsCursorInFrame(put)
  <2>1. t = CursorShow(put)
    BY <1>1
  <2>2. t \in ScreenType /\ t.long = put.long /\ SamePlace(put, t) /\ Shows(t)
    BY <1>0, <2>1, ShowCursorStep
  <2>3. ScreenSound(t)
    BY <2>2 DEF ScreenSound, BelowBlank, SamePlace
  <2> QED BY <1>0, <1>1, <2>2, <2>3 DEF ScreenInv, SamePlace
<1>2. CASE ~ IsCursorInFrame(put)
  <2> DEFINE b == IF put.base < put.row THEN put.base + 1 ELSE put.base
             based == [put EXCEPT !.base = b]
             u == ScrollDown(put)
  <2>1. /\ based \in ScreenType /\ based.base = b /\ based.row = put.row /\ based.col = put.col
        /\ based.end = put.end /\ based.long = put.long
    BY <1>0 DEF ScreenType
  <2>2. u = CopyAll(based)
    <3>1. CASE put.base < put.row
      BY <3>1 DEF ScrollDown
    <3>2. CASE ~ (put.base < put.row)
      <4>1. based = put
        BY <1>0, <3>2 DEF ScreenType
      <4> QED BY <3>2, <4>1 DEF ScrollDown
    <3> QED BY <3>1, <3>2
  <2>3. b \in Nat /\ b <= put.row /\ b <= put.end
    BY FactsOfScreen
  <2> HIDE DEF based, u, b
  <2>4. BelowBlank(based)
    BY <2>1, FactsOfScreen DEF BelowBlank
  <2>5. /\ ScreenInv(u) /\ u.base = b /\ u.row = put.row /\ u.col = put.col /\ u.end >= put.end
        /\ \A y \in AllRows : y < put.end => u.long[y] = put.long[y]
        /\ \A y \in AllRows, x \in Columns : put.end <= y /\ y < u.end => u.long[y][x] = Blank
    BY <2>1, <2>2, <2>3, <2>4, CopyAllStep
  <2>6. u \in ScreenType /\ ShowsOthers(u) /\ u.end >= b + Rows
    BY <2>5 DEF ScreenInv, ScreenSound, Shows, ShowsOthers
  <2>7. t = CursorShow(u)
    BY <1>2 DEF u
  <2>8. t \in ScreenType /\ t.long = u.long /\ SamePlace(u, t) /\ Shows(t)
    BY <2>6, <2>7, ShowCursorStep
  <2>9. ScreenInv(t)
    BY <2>5, <2>8 DEF ScreenInv, ScreenSound, BelowBlank, SamePlace
  <2> QED BY <2>3, <2>5, <2>6, <2>8, <2>9 DEF SamePlace, b
<1> QED BY <1>1, <1>2

\* A character is written at the cursor, which goes on unless it is in the last column.
LEMMA PutCharStep ==
  ASSUME NEW s, ScreenInv(s), NEW c \in Cells, c # NewLine
  PROVE  LET t == PutChar(s, c)
         IN /\ ScreenInv(t) /\ t.row = s.row /\ t.end >= s.end
            /\ t.col = IF s.col + 1 < Cols THEN s.col + 1 ELSE s.col
            /\ s.row \in AllRows /\ s.row < s.end =>
                 \A x \in Columns : t.long[s.row][x] = IF x = s.col THEN c ELSE s.long[s.row][x]
<1> DEFINE written == WriteCharToLongFrame(s, s.col, s.row, c)
           copied == CopyChar(written, s.col, s.row)
           col == IF s.col + 1 < Cols THEN s.col + 1 ELSE s.col
           put == [copied EXCEPT !.col = IF @ + 1 < Cols THEN @ + 1 ELSE @]
           t == PutChar(s, c)
<1>1. s \in ScreenType /\ ShowsOthers(s) /\ ScreenSound(s) /\ s.col \in Columns /\ s.row \in Nat /\ s.end \in Nat
  BY FactsOfScreen DEF ScreenInv, Shows, ShowsOthers
<1>2. /\ written \in ScreenType /\ written.frame = s.frame /\ SamePlace(s, written)
      /\ \A b \in AllRows, a \in Columns :
           written.long[b][a] = IF b = s.row /\ a = s.col THEN c ELSE s.long[b][a]
  BY <1>1, WriteCharStep
<1> HIDE DEF written
<1>3. ShowsOthers(written)
  BY <1>1, <1>2 DEF ShowsOthers, SamePlace
<1>4. copied = CopyChar(written, written.col, written.row)
  BY <1>2 DEF SamePlace
<1>5. copied \in ScreenType /\ copied.long = written.long /\ SamePlace(written, copied) /\ ShowsPlainly(copied)
  BY <1>2, <1>3, <1>4, CopyCharStep
<1> HIDE DEF copied
<1>6. col \in Columns
  BY <1>1, SizesOfScreen
<1>7. /\ put \in ScreenType /\ put.long = written.long /\ put.frame = copied.frame
      /\ put.base = s.base /\ put.row = s.row /\ put.col = col /\ put.end = s.end
  <2>1. copied.col = s.col
    BY <1>2, <1>5 DEF SamePlace
  <2>2. put = [copied EXCEPT !.col = col]
    BY <1>5, <2>1 DEF ScreenType
  <2> HIDE DEF put, col
  <2> QED BY <1>2, <1>5, <1>6, <2>2 DEF ScreenType, SamePlace
<1> HIDE DEF put
<1>8. ShowsOthers(put)
  BY <1>2, <1>5, <1>7 DEF ShowsPlainly, ShowsOthers, SamePlace
<1>9. ScreenSound(put)
  <2>1. BelowBlank(put)
    <3>1. SUFFICES ASSUME NEW y \in AllRows, NEW x \in Columns, s.row < y, y < s.end
                   PROVE  put.long[y][x] = Blank
      BY <1>7 DEF BelowBlank
    <3>2. y # s.row
      BY <1>1, <3>1, SizesOfScreen
    <3> QED BY <1>1, <1>2, <1>7, <3>1, <3>2 DEF ScreenSound, BelowBlank
  <2> QED BY <1>1, <1>7, <2>1 DEF ScreenSound
<1>10. t = CursorShow(IF IsCursorInFrame(put) THEN put ELSE ScrollDown(put))
  BY DEF PutChar, put, copied, written
<1> HIDE DEF t
<1>11. /\ ScreenInv(t) /\ t.row = put.row /\ t.col = put.col /\ t.end >= put.end
       /\ \A y \in AllRows : y < put.end => t.long[y] = put.long[y]
  BY <1>8, <1>9, <1>10, PutStep
<1> QED BY <1>2, <1>7, <1>11 DEF t

\* A line feed: the cursor goes to a row that is blank, if it was in the frame and the
\* long frame has such a row.
LEMMA PutNewLineStep ==
  ASSUME NEW s, ScreenInv(s)
  PROVE  LET t == PutChar(s, NewLine)
         IN /\ ScreenInv(t) /\ t.row = s.row + 1 /\ t.end >= s.end /\ t.col = 0
            /\ IsCursorInFrame(s) /\ s.row + 1 \in AllRows =>
                 /\ t.row < t.end
                 /\ \A x \in Columns : t.long[s.row + 1][x] = Blank
<1> DEFINE copied == CopyChar(s, s.col, s.row)
           put == [copied EXCEPT !.col = 0, !.row = @ + 1]
           t == PutChar(s, NewLine)
<1>1. /\ s \in ScreenType /\ ShowsOthers(s) /\ ScreenSound(s)
      /\ s.base \in Nat /\ s.row \in Nat /\ s.end \in Nat /\ s.base <= s.row /\ s.base + Rows <= s.end
      /\ BelowBlank(s)
  BY FactsOfScreen DEF ScreenInv, Shows, ShowsOthers
<1>2. copied \in ScreenType /\ copied.long = s.long /\ SamePlace(s, copied) /\ ShowsPlainly(copied)
  BY <1>1, CopyCharStep
<1> HIDE DEF copied
<1>3. 0 \in Columns
  BY SizesOfScreen
<1>4. /\ put \in ScreenType /\ put.long = s.long /\ put.frame = copied.frame
      /\ put.base = s.base /\ put.row = s.row + 1 /\ put.col = 0 /\ put.end = s.end
  <2>1. put = [copied EXCEPT !.col = 0, !.row = s.row + 1]
    BY <1>2 DEF ScreenType, SamePlace
  <2>2. s.row + 1 \in Nat
    BY <1>1
  <2> HIDE DEF put
  <2> QED BY <1>2, <1>3, <2>1, <2>2 DEF ScreenType, SamePlace
<1> HIDE DEF put
<1>5. ShowsOthers(put)
  BY <1>2, <1>4 DEF ShowsPlainly, ShowsOthers, SamePlace
<1>6. ScreenSound(put)
  <2>1. BelowBlank(put)
    <3>1. \A y \in AllRows : s.row + 1 < y => s.row < y
      BY <1>1, SizesOfScreen
    <3> QED BY <1>1, <1>4, <3>1 DEF BelowBlank
  <2> QED BY <1>1, <1>4, <2>1 DEF ScreenSound
<1>7. t = CursorShow(IF IsCursorInFrame(put) THEN put ELSE ScrollDown(put))
  BY DEF PutChar, put, copied
<1> HIDE DEF t
<1>8. /\ ScreenInv(t) /\ t.row = put.row /\ t.col = put.col /\ t.end >= put.end
      /\ \A y \in AllRows : y < put.end => t.long[y] = put.long[y]
      /\ ~ IsCursorInFrame(put) =>
           \E b \in Nat : /\ b = IF put.base < put.row THEN put.base + 1 ELSE put.base
                          /\ t.end >= b + Rows
                          /\ \A y \in AllRows, x \in Columns :
                               put.end <= y /\ y < t.end => t.long[y][x] = Blank
  BY <1>5, <1>6, <1>7, PutStep
<1>9. ASSUME IsCursorInFrame(s), s.row + 1 \in AllRows
      PROVE  t.row < t.end /\ \A x \in Columns : t.long[s.row + 1][x] = Blank
  <2>1. s.row < s.base + Rows
    BY <1>9 DEF IsCursorInFrame, InFrame
  <2>0. t.end \in Nat
    BY <1>8, FactsOfScreen DEF ScreenInv
  <2>2. s.row + 1 < s.end => \A x \in Columns : t.long[s.row + 1][x] = Blank
    <3>1. s.row < s.row + 1
      BY <1>1
    <3> QED BY <1>1, <1>4, <1>8, <1>9, <3>1 DEF BelowBlank
  <2>3. CASE s.row + 1 < s.end
    BY <1>1, <1>4, <1>8, <2>0, <2>2, <2>3
  <2>4. CASE ~ (s.row + 1 < s.end)
    <3>1. s.row + 1 = s.end /\ s.base + Rows = s.end
      BY <1>1, <2>1, <2>4, SizesOfScreen
    <3>2. ~ IsCursorInFrame(put)
      BY <1>1, <1>4, <3>1, SizesOfScreen DEF IsCursorInFrame, InFrame
    <3>3. t.end >= s.base + 1 + Rows /\ \A x \in Columns : put.end <= s.row + 1 /\ s.row + 1 < t.end =>
            t.long[s.row + 1][x] = Blank
      <4>1. put.base < put.row
        BY <1>1, <1>4
      <4> QED BY <1>4, <1>8, <1>9, <3>2, <4>1
    <3> QED BY <1>1, <1>4, <1>8, <2>0, <3>1, <3>3, SizesOfScreen
  <2> QED BY <2>3, <2>4
<1> QED BY <1>4, <1>8, <1>9 DEF t

\* What is right of the cursor is written anew: the string, and a blank behind it.
LEMMA UpdateRightStep ==
  ASSUME NEW s, ScreenInv(s), NEW string \in Seq(Cells)
  PROVE  LET t == UpdateRightFromCursor(s, string)
         IN /\ ScreenInv(t) /\ t.row = s.row /\ t.col = s.col /\ t.end = s.end
            /\ s.row \in AllRows =>
                 \A x \in Columns :
                   t.long[s.row][x] =
                     IF s.col <= x /\ x < s.col + Len(string) THEN string[x - s.col + 1]
                     ELSE IF x = s.col + Len(string) THEN Blank
                     ELSE s.long[s.row][x]
<1> DEFINE text == Append(string, Blank)
           line == [x \in Columns |->
                      IF s.col <= x /\ x < s.col + Len(text) THEN text[x - s.col + 1]
                      ELSE s.long[s.row][x]]
           written == IF s.row \in AllRows THEN [s EXCEPT !.long[s.row] = line] ELSE s
           copied == CopyLine(written, s.row)
           t == UpdateRightFromCursor(s, string)
<1>1. /\ s \in ScreenType /\ ShowsOthers(s) /\ ScreenSound(s) /\ Shows(s)
      /\ s.base \in Nat /\ s.row \in Nat /\ s.end \in Nat /\ s.base <= s.row /\ s.base + Rows <= s.end
      /\ BelowBlank(s) /\ s.col \in Nat /\ s.col \in Columns
      /\ s.long \in [AllRows -> [Columns -> Cells]]
      /\ s.frame \in [FrameRows -> [Columns -> Cells \cup {Block}]]
  BY FactsOfScreen DEF ScreenInv, Shows, ShowsOthers, ScreenType
<1>2. t = CursorShow(copied)
  BY DEF UpdateRightFromCursor
<1>3. CASE s.row \in AllRows
  <2>1. /\ Len(string) \in Nat /\ Len(text) = Len(string) + 1
        /\ \A i \in 1 .. Len(string) : text[i] = string[i] /\ string[i] \in Cells
        /\ text[Len(string) + 1] = Blank
    BY CellTypes
  <2> HIDE DEF text
  <2>2. ASSUME NEW x \in Columns
        PROVE  /\ line[x] = IF s.col <= x /\ x < s.col + Len(string) THEN string[x - s.col + 1]
                            ELSE IF x = s.col + Len(string) THEN Blank
                            ELSE s.long[s.row][x]
               /\ line[x] \in Cells
    <3>0. x \in Nat /\ s.col \in Nat /\ Len(string) \in Nat /\ Len(text) = Len(string) + 1
      BY <1>1, <2>1, SizesOfScreen
    <3>1. CASE s.col <= x /\ x < s.col + Len(string)
      <4>1. x - s.col + 1 \in 1 .. Len(string) /\ x < s.col + Len(text)
        BY <1>1, <2>1, <3>0, <3>1
      <4> QED BY <2>1, <3>1, <4>1
    <3>2. CASE x = s.col + Len(string)
      <4>1. x - s.col + 1 = Len(string) + 1 /\ x < s.col + Len(text) /\ s.col <= x
        BY <1>1, <2>1, <3>0, <3>2
      <4>2. line[x] = Blank
        BY <2>1, <4>1
      <4> QED BY <1>1, <2>1, <3>2, <4>2, CellTypes
    <3>3. CASE ~ (s.col <= x /\ x <= s.col + Len(string))
      <4>1. ~ (s.col <= x /\ x < s.col + Len(text))
        BY <3>0, <3>3
      <4>2. ~ (s.col <= x /\ x < s.col + Len(string)) /\ x # s.col + Len(string)
        BY <3>0, <3>3
      <4> QED BY <1>1, <1>3, <4>1, <4>2
    <3>4. \/ s.col <= x /\ x < s.col + Len(string)
          \/ x = s.col + Len(string)
          \/ ~ (s.col <= x /\ x <= s.col + Len(string))
      BY <3>0
    <3> HIDE DEF line
    <3> QED BY <3>1, <3>2, <3>3, <3>4
  <2>3. line \in [Columns -> Cells]
    BY <2>2
  <2> HIDE DEF line
  <2> DEFINE long == [s.long EXCEPT ![s.row] = line]
  <2>4. written = [s EXCEPT !.long = long]
    BY <1>3, <1>1 DEF ScreenType
  <2>5. /\ long \in [AllRows -> [Columns -> Cells]] /\ long[s.row] = line
        /\ \A y \in AllRows : y # s.row => long[y] = s.long[y]
    BY <1>1, <1>3, <2>3
  <2> HIDE DEF long, written
  <2>6. /\ written \in ScreenType /\ written.long = long /\ written.frame = s.frame
        /\ SamePlace(s, written)
    BY <1>1, <2>4, <2>5 DEF ScreenType, SamePlace
  <2>7. BelowBlank(written) /\ BelowBlank(s)
    <3>1. \A y \in AllRows : s.row < y => y # s.row
      BY <1>1, SizesOfScreen
    <3> QED BY <1>1, <2>5, <2>6, <3>1 DEF BelowBlank, SamePlace
  <2>8. copied \in ScreenType /\ copied.long = long /\ SamePlace(s, copied) /\ ShowsOthers(copied)
    <3>1. CASE InFrame(s, s.row)
      <4> DEFINE q == s.row - s.base
                 f == [s.frame EXCEPT ![q] = line]
      <4>1. q \in FrameRows /\ s.base + q = s.row
        BY <1>1, <3>1, SizesOfScreen DEF InFrame
      <4>2. copied = [written EXCEPT !.frame = f]
        <5>1. InFrame(written, s.row) /\ written.base = s.base
          BY <2>6, <3>1 DEF InFrame, SamePlace
        <5> QED BY <1>3, <2>5, <2>6, <4>1, <5>1 DEF CopyLine, ScreenType
      <4> HIDE DEF q
      <4>3. /\ f \in [FrameRows -> [Columns -> Cells \cup {Block}]] /\ f[q] = line
            /\ \A r \in FrameRows : r # q => f[r] = s.frame[r]
        BY <1>1, <2>3, <4>1
      <4> HIDE DEF f, copied
      <4>4. copied \in ScreenType /\ copied.long = long /\ SamePlace(s, copied) /\ copied.frame = f
        BY <2>6, <4>2, <4>3 DEF ScreenType, SamePlace
      <4>5. ASSUME NEW r \in FrameRows, NEW x \in Columns, s.base + r \in AllRows
            PROVE  f[r][x] = long[s.base + r][x]
        <5>1. CASE r = q
          BY <2>5, <4>1, <4>3, <5>1
        <5>2. CASE r # q
          <6>1. s.base + r # s.row
            BY <1>1, <4>1, <5>2, SizesOfScreen
          <6> QED BY <1>1, <2>5, <4>3, <4>5, <5>2, <6>1 DEF ShowsOthers
        <5> QED BY <5>1, <5>2
      <4> QED BY <4>4, <4>5 DEF ShowsOthers, SamePlace
    <3>2. CASE ~ InFrame(s, s.row)
      <4>1. copied = written
        BY <2>6, <3>2 DEF CopyLine, InFrame, SamePlace
      <4>2. \A r \in FrameRows : s.base + r # s.row
        BY <1>1, <3>2, SizesOfScreen DEF InFrame
      <4>3. ShowsOthers(written)
        BY <1>1, <2>5, <2>6, <4>2 DEF ShowsOthers, SamePlace
      <4> QED BY <2>6, <4>1, <4>3
    <3> QED BY <3>1, <3>2
  <2> HIDE DEF copied, t
  <2>9. t \in ScreenType /\ t.long = copied.long /\ SamePlace(copied, t) /\ Shows(t)
    BY <1>2, <2>8, ShowCursorStep
  <2>10. ScreenInv(t)
    BY <1>1, <2>6, <2>7, <2>8, <2>9 DEF ScreenInv, ScreenSound, BelowBlank, SamePlace
  <2> QED BY <2>2, <2>5, <2>8, <2>9, <2>10 DEF SamePlace, t
<1>4. CASE s.row \notin AllRows
  <2>1. copied = s
    BY <1>4 DEF CopyLine
  <2> HIDE DEF copied, t
  <2>2. t \in ScreenType /\ t.long = s.long /\ SamePlace(s, t) /\ Shows(t)
    BY <1>1, <1>2, <2>1, ShowCursorStep
  <2>3. ScreenInv(t)
    BY <1>1, <2>2 DEF ScreenInv, ScreenSound, BelowBlank, SamePlace
  <2> QED BY <1>4, <2>2, <2>3 DEF SamePlace, t
<1> QED BY <1>3, <1>4

\* A string without line feeds is put on the row of the cursor.
LEMMA PutStringStep ==
  ASSUME NEW s, ScreenInv(s), NEW string \in Seq(Cells \ {NewLine})
  PROVE  LET t == PutString(s, string)
         IN /\ ScreenInv(t) /\ t.row = s.row /\ t.end >= s.end
            /\ t.col = IF s.col + Len(string) < Cols THEN s.col + Len(string) ELSE Cols - 1
            /\ s.row \in AllRows /\ s.row < s.end /\ s.col + Len(string) < Cols =>
                 \A x \in Columns :
                   t.long[s.row][x] =
                     IF s.col <= x /\ x < s.col + Len(string) THEN string[x - s.col + 1]
                     ELSE s.long[s.row][x]
<1> DEFINE N == Len(string)
           D == {u \in ScreenType : ScreenInv(u)}
           step == [n \in 1 .. N |-> [u \in D |-> PutChar(u, string[n])]]
           t == PutString(s, string)
<1>1. N \in Nat /\ \A n \in 1 .. N : string[n] \in Cells /\ string[n] # NewLine
  OBVIOUS
<1>2. \A u : u \in D <=> ScreenInv(u)
  BY FactsOfScreen DEF ScreenInv
<1> HIDE DEF D, N
<1>3. ASSUME NEW u \in D, NEW n \in 1 .. N PROVE PutChar(u, string[n]) \in D
  BY <1>1, <1>2, PutCharStep
<1>4. step \in [1 .. N -> [D -> D]]
  BY <1>3
<1>5. PICK f : IsStepwise(f, N, D, s, step)
  <2> HIDE DEF step
  <2> QED BY <1>1, <1>2, <1>4, StepByStep
<1>6. f \in [0 .. N -> D] /\ f[0] = s
  BY <1>5 DEF IsStepwise
<1>7. ASSUME NEW n \in 1 .. N PROVE f[n] = PutChar(f[n - 1], string[n])
  <2>1. f[n] = step[n][f[n - 1]]
    BY <1>5 DEF IsStepwise
  <2>2. f[n - 1] \in D
    BY <1>1, <1>6
  <2> QED BY <2>1, <2>2
<1>8. f = [n \in 0 .. N |-> IF n = 0 THEN s ELSE PutChar(f[n - 1], string[n])]
  <2>1. \A n \in 0 .. N : f[n] = IF n = 0 THEN s ELSE PutChar(f[n - 1], string[n])
    BY <1>1, <1>6, <1>7
  <2> QED BY <1>6, <2>1
<1> DEFINE g == CHOOSE h : h = [n \in 0 .. N |-> IF n = 0 THEN s ELSE PutChar(h[n - 1], string[n])]
<1>9. t = g[N]
  BY DEF PutString, N
<1>10. g = [n \in 0 .. N |-> IF n = 0 THEN s ELSE PutChar(g[n - 1], string[n])]
  BY <1>8
<1> HIDE DEF g
<1> DEFINE Row(u, n) ==
             \A x \in Columns :
               u.long[s.row][x] = IF s.col <= x /\ x < s.col + n THEN string[x - s.col + 1]
                                  ELSE s.long[s.row][x]
           Done(u, n) ==
             /\ ScreenInv(u) /\ u.row = s.row /\ u.end >= s.end
             /\ u.col = IF s.col + n < Cols THEN s.col + n ELSE Cols - 1
             /\ s.row \in AllRows /\ s.row < s.end /\ s.col + n < Cols => Row(u, n)
           T == {n \in 0 .. N : Done(g[n], n)}
<1>11. s.col \in Nat /\ s.col < Cols /\ Cols \in Nat /\ s.end \in Nat /\ s.row \in Nat
  BY FactsOfScreen, SizesOfScreen DEF ScreenInv
<1>12. 0 \in T
  <2>1. g[0] = s
    BY <1>1, <1>10
  <2>2. Row(s, 0)
    BY <1>11, SizesOfScreen
  <2> HIDE DEF Row
  <2>3. Done(s, 0)
    BY <1>11, <2>2
  <2> QED BY <1>1, <2>1, <2>3
<1>13. ASSUME NEW n \in 1 .. N, n - 1 \in T PROVE n \in T
  <2> DEFINE m == n - 1
             u == g[m]
             v == g[n]
  <2>1. v = PutChar(u, string[n]) /\ n \in Nat /\ m \in Nat /\ n = m + 1
    BY <1>1, <1>10
  <2>2. Done(u, m)
    BY <1>13
  <2> HIDE DEF u, v, m
  <2>3. /\ ScreenInv(v) /\ v.row = u.row /\ v.end >= u.end
        /\ v.col = IF u.col + 1 < Cols THEN u.col + 1 ELSE u.col
        /\ u.row \in AllRows /\ u.row < u.end =>
             \A x \in Columns : v.long[u.row][x] = IF x = u.col THEN string[n] ELSE u.long[u.row][x]
    BY <1>1, <2>1, <2>2, PutCharStep
  <2>4. u.end \in Nat /\ v.end \in Nat /\ u.col \in Nat
    BY <2>2, <2>3, FactsOfScreen DEF ScreenInv
  <2>5. v.end >= s.end
    BY <1>11, <2>2, <2>3, <2>4
  <2>6. v.col = IF s.col + n < Cols THEN s.col + n ELSE Cols - 1
    <3>1. u.col = IF s.col + m < Cols THEN s.col + m ELSE Cols - 1
      BY <2>2
    <3>2. v.col = IF u.col + 1 < Cols THEN u.col + 1 ELSE u.col
      BY <2>3
    <3> QED BY <1>11, <2>1, <2>4, <3>1, <3>2
  <2>7. ASSUME s.row \in AllRows, s.row < s.end, s.col + n < Cols PROVE Row(v, n)
    <3>1. s.col + m < Cols /\ u.col = s.col + m
      <4>1. s.col + m < Cols
        BY <1>11, <2>1, <2>7
      <4> QED BY <2>2, <4>1
    <3>2. Row(u, m)
      BY <2>2, <2>7, <3>1
    <3>3. u.row = s.row /\ u.row < u.end
      BY <1>11, <2>2, <2>4, <2>7
    <3>4. \A x \in Columns : v.long[s.row][x] = IF x = s.col + m THEN string[n] ELSE u.long[s.row][x]
      BY <2>3, <2>7, <3>1, <3>3
    <3>5. SUFFICES ASSUME NEW x \in Columns
                   PROVE  v.long[s.row][x] = IF s.col <= x /\ x < s.col + n THEN string[x - s.col + 1]
                                             ELSE s.long[s.row][x]
      OBVIOUS
    <3>6. x \in Nat
      BY SizesOfScreen
    <3>7. u.long[s.row][x] = IF s.col <= x /\ x < s.col + m THEN string[x - s.col + 1]
                             ELSE s.long[s.row][x]
      BY <3>2
    <3> DEFINE k == s.col
    <3>8. k \in Nat
      BY <1>11
    <3> HIDE DEF k
    <3>9. CASE x = k + m
      <4>1. k <= x /\ x < k + n /\ x - k + 1 = n
        BY <2>1, <3>6, <3>8, <3>9
      <4> QED BY <3>4, <3>9, <4>1 DEF k
    <3>10. CASE x # k + m
      <4>1. (k <= x /\ x < k + n) <=> (k <= x /\ x < k + m)
        BY <2>1, <3>6, <3>8, <3>10
      <4> QED BY <3>4, <3>7, <3>10, <4>1 DEF k
    <3> QED BY <3>9, <3>10
  <2>8. Done(v, n)
    <3> HIDE DEF Row
    <3> QED BY <2>2, <2>3, <2>5, <2>6, <2>7
  <2> QED BY <2>8 DEF v
<1>14. 0 .. N \subseteq T
  <2> HIDE DEF T
  <2> QED BY <1>1, <1>12, <1>13, UpTo
<1>15. N \in T
  <2> HIDE DEF T
  <2> QED BY <1>1, <1>14
<1>16. Done(t, N)
  BY <1>9, <1>15
<1> QED BY <1>16 DEF N

-----------------------------------------------------------------------------
(* The line of input.                                                      *)

BufferType == [Columns -> Chars \cup {Nul, Garbage, NewLine}]

\* The string in the buffer behind i ends at the first NUL.
LEMMA StringInBuffer ==
  ASSUME NEW buffer \in BufferType, NEW i \in Columns, NEW last \in Columns,
         i <= last, buffer[last] = Nul
  PROVE  /\ StringFrom(buffer, i) \in Seq(Cells)
         /\ (\A j \in Columns : i <= j /\ j < last => buffer[j] # Nul) =>
              /\ Len(StringFrom(buffer, i)) = last - i
              /\ \A x \in 1 .. last - i : StringFrom(buffer, i)[x] = buffer[i + x - 1]
<1> DEFINE ends == {j \in Columns : j >= i /\ buffer[j] = Nul}
           end == CHOOSE j \in ends : \A k \in ends : j <= k
<1>1. Cols \in Nat /\ i \in Nat /\ last \in Nat /\ Columns = 0 .. Cols - 1 /\ last \in ends /\ ends \subseteq Nat
  BY SizesOfScreen
<1> HIDE DEF ends
<1>2. \E j \in ends : \A k \in ends : j <= k
  <2>1. PICK j \in ends : \A k \in ends : ~ (<<k, j>> \in OpToRel(<, Nat))
    BY <1>1, NatLessThanWellFounded, WFMin
  <2>2. ASSUME NEW k \in ends PROVE j <= k
    <3>1. j \in Nat /\ k \in Nat
      BY <1>1
    <3>2. k < j => <<k, j>> \in OpToRel(<, Nat)
      BY <3>1 DEF OpToRel
    <3>3. ~ (k < j)
      BY <2>1, <3>2
    <3> QED BY <3>1, <3>3
  <2> QED BY <2>2
<1>3. end \in ends /\ \A k \in ends : end <= k
  BY <1>2
<1>4. StringFrom(buffer, i) = [x \in 1 .. end - i |-> buffer[i + x - 1]]
  BY DEF StringFrom, ends
<1> HIDE DEF end
<1>5. end \in Columns /\ end >= i /\ buffer[end] = Nul /\ end \in Nat /\ end <= last
  BY <1>1, <1>3 DEF ends
<1>6. \A j \in Columns : i <= j /\ j < end => buffer[j] # Nul
  <2>1. \A j \in Columns : j < end => j \notin ends
    BY <1>1, <1>3, <1>5
  <2> QED BY <1>1, <2>1 DEF ends
<1>7. ASSUME NEW x \in 1 .. end - i PROVE buffer[i + x - 1] \in Cells
  <2>1. i + x - 1 \in Columns /\ i <= i + x - 1 /\ i + x - 1 < end
    BY <1>1, <1>5
  <2>2. buffer[i + x - 1] \in Chars \cup {Garbage, NewLine}
    BY <1>6, <2>1 DEF BufferType
  <2> QED BY <2>2 DEF Cells
<1>8. end - i \in Nat
  BY <1>1, <1>5
<1>9. StringFrom(buffer, i) \in [1 .. end - i -> Cells]
  BY <1>4, <1>7
<1>10. StringFrom(buffer, i) \in Seq(Cells) /\ Len(StringFrom(buffer, i)) = end - i
  <2> DEFINE n == end - i
             s == StringFrom(buffer, i)
  <2>1. n \in Nat /\ s \in [1 .. n -> Cells]
    BY <1>8, <1>9
  <2> HIDE DEF n, s
  <2>2. s \in Seq(Cells) /\ Len(s) = n
    BY <2>1
  <2> QED BY <2>2 DEF n, s
<1>11. ASSUME \A j \in Columns : i <= j /\ j < last => buffer[j] # Nul PROVE end = last
  BY <1>1, <1>5, <1>11
<1> QED BY <1>4, <1>10, <1>11

EditInv ==
  /\ ScreenInv(screen)
  /\ ibuf_ \in BufferType
  /\ {s_len_, prompt_len_, cursor_pos_} \subseteq Columns
  /\ pending \in Chars \cup {NoChar, NewLine}
  /\ undisturbed \in BOOLEAN
  /\ cursor_pos_ = screen.col
  /\ PromptLen <= prompt_len_ /\ prompt_len_ <= cursor_pos_ /\ cursor_pos_ <= s_len_
  /\ \A j \in Columns : prompt_len_ <= j /\ j < s_len_ => ibuf_[j] \in Chars

\* The row of the cursor holds the prompt and the buffer's line.
RowInv ==
  undisturbed =>
    /\ prompt_len_ = PromptLen /\ screen.row \in AllRows /\ screen.row < screen.end
    /\ \A x \in Columns : screen.long[screen.row][x] =
         IF x < PromptLen THEN "$" ELSE IF x < s_len_ THEN ibuf_[x] ELSE Blank

TerminalInv == EditInv /\ RowInv

\* The positions.
LEMMA PlacesInLine ==
  ASSUME EditInv
  PROVE  /\ Cols \in Nat /\ Cols > 1 /\ PromptLen \in Nat /\ PromptLen < Cols
         /\ s_len_ \in Nat /\ prompt_len_ \in Nat /\ cursor_pos_ \in Nat
         /\ s_len_ < Cols /\ PromptLen <= prompt_len_ /\ prompt_len_ <= cursor_pos_ /\ cursor_pos_ <= s_len_
         /\ cursor_pos_ = screen.col
         /\ \A x : x \in Columns <=> x \in Nat /\ x < Cols
BY SizesOfScreen, TerminalAssumption DEF EditInv

LEMMA CharsAreChars ==
  /\ Nul \notin Chars /\ NewLine \notin Chars /\ NoChar \notin Chars /\ NoChar # NewLine
  /\ Garbage # Nul /\ NewLine # Nul /\ Blank # NewLine
BY DEF Nul, Chars, NewLine, NoChar, Garbage, Blank

\* The rest of the line is drawn again from the buffer, with a blank behind it.
LEMMA RedrawStep ==
  ASSUME NEW s, ScreenInv(s), NEW buffer \in BufferType, NEW k \in Columns, NEW last \in Columns,
         k <= last, buffer[last] = Nul, s.col = k
  PROVE  LET t == UpdateRightFromCursor(s, StringFrom(buffer, k))
         IN /\ ScreenInv(t) /\ t.row = s.row /\ t.col = s.col /\ t.end = s.end
            /\ (\A j \in Columns : k <= j /\ j < last => buffer[j] \in Chars) /\ s.row \in AllRows =>
                 \A x \in Columns :
                   t.long[s.row][x] = IF k <= x /\ x < last THEN buffer[x]
                                      ELSE IF x = last THEN Blank
                                      ELSE s.long[s.row][x]
<1> DEFINE string == StringFrom(buffer, k)
           t == UpdateRightFromCursor(s, string)
<1>1. k \in Nat /\ last \in Nat /\ \A x \in Columns : x \in Nat
  BY SizesOfScreen
<1>2. /\ string \in Seq(Cells)
      /\ (\A j \in Columns : k <= j /\ j < last => buffer[j] # Nul) =>
           /\ Len(string) = last - k
           /\ \A x \in 1 .. last - k : string[x] = buffer[k + x - 1]
  BY StringInBuffer
<1> HIDE DEF string
<1>3. /\ ScreenInv(t) /\ t.row = s.row /\ t.col = s.col /\ t.end = s.end
      /\ s.row \in AllRows =>
           \A x \in Columns :
             t.long[s.row][x] =
               IF s.col <= x /\ x < s.col + Len(string) THEN string[x - s.col + 1]
               ELSE IF x = s.col + Len(string) THEN Blank
               ELSE s.long[s.row][x]
  BY <1>2, UpdateRightStep
<1> HIDE DEF t
<1>4. ASSUME \A j \in Columns : k <= j /\ j < last => buffer[j] \in Chars, s.row \in AllRows,
             NEW x \in Columns
      PROVE  t.long[s.row][x] = IF k <= x /\ x < last THEN buffer[x]
                                ELSE IF x = last THEN Blank
                                ELSE s.long[s.row][x]
  <2>1. /\ Len(string) = last - k
        /\ \A i \in 1 .. last - k : string[i] = buffer[k + i - 1]
    BY <1>2, <1>4, CharsAreChars
  <2>2. k + (last - k) = last /\ x \in Nat
    BY <1>1
  <2>3. t.long[s.row][x] = IF k <= x /\ x < last THEN string[x - k + 1]
                           ELSE IF x = last THEN Blank
                           ELSE s.long[s.row][x]
    BY <1>3, <1>4, <2>1, <2>2
  <2>4. k <= x /\ x < last => x - k + 1 \in 1 .. last - k /\ k + (x - k + 1) - 1 = x
    BY <1>1, <2>2
  <2> QED BY <2>1, <2>3, <2>4
<1> QED BY <1>3, <1>4 DEF t, string

LEMMA RemovedBuffer ==
  ASSUME EditInv, NEW i \in Columns, i < s_len_, prompt_len_ <= i
  PROVE  /\ Removed(i) \in BufferType /\ s_len_ - 1 \in Columns /\ Removed(i)[s_len_ - 1] = Nul
         /\ \A j \in Columns : j < s_len_ - 1 =>
              Removed(i)[j] = IF i <= j THEN ibuf_[j + 1] ELSE ibuf_[j]
         /\ \A j \in Columns : prompt_len_ <= j /\ j < s_len_ - 1 => Removed(i)[j] \in Chars
<1>1. /\ Cols \in Nat /\ s_len_ \in Nat /\ prompt_len_ \in Nat /\ s_len_ < Cols
      /\ \A x : x \in Columns <=> x \in Nat /\ x < Cols
  BY PlacesInLine
<1>2. i \in Nat /\ s_len_ - 1 \in Columns
  BY <1>1
<1>3. \A j \in Columns :
        Removed(i)[j] = IF j = s_len_ - 1 THEN Nul
                        ELSE IF i <= j /\ j < s_len_ - 1 THEN ibuf_[j + 1] ELSE ibuf_[j]
  BY DEF Removed
<1>4. \A j \in Columns : j < s_len_ - 1 => j + 1 \in Columns /\ j + 1 < s_len_ /\ j # s_len_ - 1 /\ j < s_len_
  BY <1>1
<1>5. ibuf_ \in [Columns -> Chars \cup {Nul, Garbage, NewLine}]
      /\ \A j \in Columns : prompt_len_ <= j /\ j < s_len_ => ibuf_[j] \in Chars
  BY DEF EditInv, BufferType
<1>6. Removed(i) \in BufferType
  <2>1. \A j \in Columns : Removed(i)[j] \in Chars \cup {Nul, Garbage, NewLine}
    <3>1. SUFFICES ASSUME NEW j \in Columns PROVE Removed(i)[j] \in Chars \cup {Nul, Garbage, NewLine}
      OBVIOUS
    <3>2. i <= j /\ j < s_len_ - 1 => j + 1 \in Columns
      BY <1>4
    <3> QED BY <1>3, <1>5, <3>2
  <2> QED BY <2>1 DEF Removed, BufferType
<1>7. ASSUME NEW j \in Columns, j < s_len_ - 1
      PROVE  /\ Removed(i)[j] = IF i <= j THEN ibuf_[j + 1] ELSE ibuf_[j]
             /\ prompt_len_ <= j => Removed(i)[j] \in Chars
  <2>1. j + 1 \in Columns /\ j + 1 < s_len_ /\ j # s_len_ - 1 /\ j < s_len_
    BY <1>4, <1>7
  <2>2. Removed(i)[j] = IF i <= j THEN ibuf_[j + 1] ELSE ibuf_[j]
    BY <1>3, <1>7, <2>1
  <2>3. prompt_len_ <= j => prompt_len_ <= j + 1
    BY <1>1, <1>7
  <2> QED BY <1>5, <2>1, <2>2, <2>3
<1>8. Removed(i)[s_len_ - 1] = Nul
  BY <1>2, <1>3
<1> QED BY <1>2, <1>6, <1>7, <1>8

LEMMA InsertedBuffer ==
  ASSUME EditInv, ~ IsFull, NEW c \in Chars \cup {NewLine}
  PROVE  /\ Inserted(c) \in BufferType /\ s_len_ + 1 \in Columns /\ Inserted(c)[s_len_ + 1] = Nul
         /\ \A j \in Columns : j < s_len_ + 1 =>
              Inserted(c)[j] = IF j < cursor_pos_ THEN ibuf_[j]
                               ELSE IF j = cursor_pos_ THEN c ELSE ibuf_[j - 1]
         /\ c \in Chars => \A j \in Columns : prompt_len_ <= j /\ j < s_len_ + 1 => Inserted(c)[j] \in Chars
<1>1. /\ Cols \in Nat /\ s_len_ \in Nat /\ prompt_len_ \in Nat /\ s_len_ < Cols
      /\ cursor_pos_ \in Nat /\ prompt_len_ <= cursor_pos_ /\ cursor_pos_ <= s_len_
      /\ \A x : x \in Columns <=> x \in Nat /\ x < Cols
  BY PlacesInLine
<1>2. s_len_ + 1 \in Columns /\ s_len_ + 1 # cursor_pos_ /\ cursor_pos_ \in Columns
  BY <1>1 DEF IsFull
<1>3. \A j \in Columns :
        Inserted(c)[j] = CASE j = s_len_ + 1 -> Nul
                           [] cursor_pos_ < j /\ j <= s_len_ -> ibuf_[j - 1]
                           [] j = cursor_pos_ -> c
                           [] OTHER -> ibuf_[j]
  BY DEF Inserted
<1>4. Inserted(c)[s_len_ + 1] = Nul
  <2>1. ~ (s_len_ + 1 <= s_len_)
    BY <1>1
  <2> QED BY <1>2, <1>3, <2>1
<1>5. ibuf_ \in [Columns -> Chars \cup {Nul, Garbage, NewLine}]
      /\ \A j \in Columns : prompt_len_ <= j /\ j < s_len_ => ibuf_[j] \in Chars
  BY DEF EditInv, BufferType
<1>6. ASSUME NEW j \in Columns, j < s_len_ + 1
      PROVE  /\ Inserted(c)[j] = IF j < cursor_pos_ THEN ibuf_[j]
                                 ELSE IF j = cursor_pos_ THEN c ELSE ibuf_[j - 1]
             /\ Inserted(c)[j] \in Chars \cup {Nul, Garbage, NewLine}
             /\ c \in Chars /\ prompt_len_ <= j => Inserted(c)[j] \in Chars
  <2>0. j \in Nat /\ j # s_len_ + 1 /\ j <= s_len_
    BY <1>1, <1>6
  <2>1. CASE j < cursor_pos_
    <3>1. ~ (cursor_pos_ < j /\ j <= s_len_) /\ j # cursor_pos_ /\ j < s_len_
      BY <1>1, <2>0, <2>1
    <3>2. Inserted(c)[j] = ibuf_[j]
      BY <1>3, <2>0, <3>1
    <3> QED BY <1>5, <2>1, <3>1, <3>2
  <2>2. CASE j = cursor_pos_
    <3>1. ~ (cursor_pos_ < j /\ j <= s_len_) /\ ~ (j < cursor_pos_)
      BY <1>1, <2>0, <2>2
    <3>2. Inserted(c)[j] = c
      BY <1>3, <2>0, <2>2, <3>1
    <3> QED BY <2>2, <3>1, <3>2
  <2>3. CASE cursor_pos_ < j
    <3>1. j - 1 \in Columns /\ j - 1 < s_len_ /\ prompt_len_ <= j - 1 /\ ~ (j < cursor_pos_) /\ j # cursor_pos_
      BY <1>1, <2>0, <2>3
    <3>2. Inserted(c)[j] = ibuf_[j - 1]
      BY <1>3, <2>0, <2>3, <3>1
    <3> QED BY <1>5, <3>1, <3>2
  <2> QED BY <1>1, <2>0, <2>1, <2>2, <2>3
<1>7. ASSUME NEW j \in Columns, ~ (j < s_len_ + 1)
      PROVE  Inserted(c)[j] \in Chars \cup {Nul, Garbage, NewLine}
  <2>1. ~ (j <= s_len_) /\ j # cursor_pos_
    BY <1>1, <1>7
  <2>2. Inserted(c)[j] = IF j = s_len_ + 1 THEN Nul ELSE ibuf_[j]
    BY <1>3, <2>1
  <2> QED BY <1>5, <2>2
<1>8. Inserted(c) \in BufferType
  <2>1. \A j \in Columns : Inserted(c)[j] \in Chars \cup {Nul, Garbage, NewLine}
    BY <1>6, <1>7
  <2> QED BY <2>1 DEF Inserted, BufferType
<1> QED BY <1>2, <1>4, <1>6, <1>8

LEMMA MoveCursorStep ==
  ASSUME TerminalInv, NEW key, MoveCursor(key), UNCHANGED <<prompt_len_, undisturbed>>,
         pending' \in Chars \cup {NoChar, NewLine}
  PROVE  TerminalInv' /\ cursor_pos_' = IF key = "right" THEN cursor_pos_ + 1 ELSE cursor_pos_ - 1
<1>1. /\ Cols \in Nat /\ cursor_pos_ \in Nat /\ s_len_ \in Nat /\ prompt_len_ \in Nat /\ s_len_ < Cols
      /\ prompt_len_ <= cursor_pos_ /\ cursor_pos_ <= s_len_ /\ cursor_pos_ = screen.col
      /\ \A x : x \in Columns <=> x \in Nat /\ x < Cols
  BY PlacesInLine DEF TerminalInv
<1>2. EditInv /\ ScreenInv(screen) /\ RowInv
  BY DEF TerminalInv, EditInv
<1> DEFINE p == IF key = "right" THEN cursor_pos_ + 1 ELSE cursor_pos_ - 1
<1>3. /\ screen' = Moved(screen, p) /\ p \in Columns /\ prompt_len_ <= p /\ p <= s_len_
      /\ cursor_pos_' = screen'.col /\ UNCHANGED <<ibuf_, s_len_>>
  <2>0. cursor_pos_' = screen'.col /\ UNCHANGED <<ibuf_, s_len_>>
    BY DEF MoveCursor
  <2>1. CASE key = "right" /\ cursor_pos_ < s_len_ /\ screen' = MoveRight(screen)
    <3>1. p = screen.col + 1 /\ screen.col + 1 < Cols
      BY <1>1, <2>1
    <3> QED BY <1>1, <2>0, <2>1, <3>1 DEF MoveRight
  <2>2. CASE key = "left" /\ prompt_len_ < cursor_pos_ /\ screen' = MoveLeft(screen)
    <3>1. p = screen.col - 1 /\ screen.col > 0
      BY <1>1, <2>2
    <3> QED BY <1>1, <2>0, <2>2, <3>1 DEF MoveLeft
  <2> QED BY <2>1, <2>2 DEF MoveCursor
<1> HIDE DEF p
<1>4. /\ ScreenInv(screen') /\ screen'.long = screen.long /\ screen'.row = screen.row
      /\ screen'.col = p /\ screen'.end = screen.end
  BY <1>2, <1>3, MovedStep
<1>5. EditInv'
  BY <1>2, <1>3, <1>4 DEF EditInv
<1>6. RowInv'
  BY <1>2, <1>3, <1>4 DEF RowInv
<1> QED BY <1>3, <1>4, <1>5, <1>6 DEF TerminalInv, p

\* A character is taken out of the line, on the screen as in the buffer.
LEMMA RemoveStep ==
  ASSUME TerminalInv, NEW i \in Columns, prompt_len_ <= i, i < s_len_,
         NEW s, ScreenInv(s), s.col = i, s.row = screen.row, s.long = screen.long, s.end = screen.end,
         ibuf_' = Removed(i), s_len_' = s_len_ - 1, cursor_pos_' = i,
         screen' = UpdateRightFromCursor(s, StringFrom(Removed(i), i)),
         UNCHANGED <<prompt_len_, undisturbed>>,
         pending' \in Chars \cup {NoChar, NewLine}
  PROVE  TerminalInv'
<1>1. /\ Cols \in Nat /\ s_len_ \in Nat /\ prompt_len_ \in Nat /\ s_len_ < Cols
      /\ PromptLen \in Nat /\ PromptLen <= prompt_len_
      /\ \A x : x \in Columns <=> x \in Nat /\ x < Cols
  BY PlacesInLine DEF TerminalInv
<1>2. EditInv /\ RowInv
  BY DEF TerminalInv
<1> DEFINE last == s_len_ - 1
           B == Removed(i)
<1>3. /\ B \in BufferType /\ last \in Columns /\ B[last] = Nul
      /\ \A j \in Columns : j < last => B[j] = IF i <= j THEN ibuf_[j + 1] ELSE ibuf_[j]
      /\ \A j \in Columns : prompt_len_ <= j /\ j < last => B[j] \in Chars
  BY <1>2, RemovedBuffer
<1>4. i <= last /\ i \in Nat /\ last \in Nat
  BY <1>1
<1>5. \A j \in Columns : i <= j /\ j < last => B[j] \in Chars
  BY <1>1, <1>3, <1>4
<1> HIDE DEF B, last
<1>6. /\ ScreenInv(screen') /\ screen'.row = screen.row /\ screen'.col = i /\ screen'.end = screen.end
      /\ screen.row \in AllRows =>
           \A x \in Columns :
             screen'.long[screen.row][x] = IF i <= x /\ x < last THEN B[x]
                                           ELSE IF x = last THEN Blank
                                           ELSE screen.long[screen.row][x]
  BY <1>3, <1>4, <1>5, RedrawStep DEF B
<1>7. EditInv'
  <2>1. ibuf_' \in BufferType /\ {s_len_, prompt_len_, cursor_pos_}' \subseteq Columns
    BY <1>2, <1>3 DEF EditInv, B, last
  <2>2. \A j \in Columns : prompt_len_' <= j /\ j < s_len_' => ibuf_'[j] \in Chars
    BY <1>3 DEF B, last
  <2>3. /\ PromptLen <= prompt_len_' /\ prompt_len_' <= cursor_pos_' /\ cursor_pos_' <= s_len_'
    BY <1>1, <1>4 DEF last
  <2> QED BY <1>2, <1>6, <2>1, <2>2, <2>3 DEF EditInv
<1>8. RowInv'
  <2>1. SUFFICES ASSUME undisturbed
                 PROVE  /\ prompt_len_ = PromptLen /\ screen.row \in AllRows /\ screen.row < screen.end
                        /\ \A x \in Columns : screen'.long[screen.row][x] =
                             IF x < PromptLen THEN "$" ELSE IF x < last THEN B[x] ELSE Blank
    BY <1>6 DEF RowInv, B, last
  <2>2. /\ prompt_len_ = PromptLen /\ screen.row \in AllRows /\ screen.row < screen.end
        /\ \A x \in Columns : screen.long[screen.row][x] =
             IF x < PromptLen THEN "$" ELSE IF x < s_len_ THEN ibuf_[x] ELSE Blank
    BY <1>2, <2>1 DEF RowInv
  <2>3. ASSUME NEW x \in Columns
        PROVE  screen'.long[screen.row][x] =
                 IF x < PromptLen THEN "$" ELSE IF x < last THEN B[x] ELSE Blank
    <3>0. x \in Nat /\ last = s_len_ - 1
      BY <1>1 DEF last
    <3>1. CASE x < i
      <4>1. x < last /\ ~ (i <= x) /\ x # last /\ x < s_len_
        BY <1>1, <1>4, <3>0, <3>1
      <4>2. B[x] = ibuf_[x]
        BY <1>3, <4>1
      <4> QED BY <1>6, <2>2, <4>1, <4>2
    <3>2. CASE i <= x /\ x < last
      <4>1. ~ (x < PromptLen)
        BY <1>1, <1>4, <3>0, <3>2
      <4> QED BY <1>6, <2>2, <3>2, <4>1
    <3>3. CASE x = last
      <4>1. ~ (x < PromptLen) /\ ~ (x < last)
        BY <1>1, <1>4, <3>0, <3>3
      <4> QED BY <1>6, <2>2, <3>3, <4>1
    <3>4. CASE last < x
      <4>1. ~ (x < PromptLen) /\ ~ (x < last) /\ x # last /\ ~ (x < s_len_)
        BY <1>1, <1>4, <3>0, <3>4
      <4> QED BY <1>6, <2>2, <4>1
    <3> QED BY <1>4, <3>0, <3>1, <3>2, <3>3, <3>4
  <2> QED BY <2>2, <2>3
<1> QED BY <1>7, <1>8 DEF TerminalInv

LEMMA HandleBackSpaceStep ==
  ASSUME TerminalInv, HandleBackSpace, UNCHANGED <<prompt_len_, undisturbed>>,
         pending' \in Chars \cup {NoChar, NewLine}
  PROVE  TerminalInv'
<1> DEFINE p == cursor_pos_ - 1
           s == MoveLeft(screen)
<1>1. /\ p \in Columns /\ prompt_len_ <= p /\ p < s_len_ /\ cursor_pos_ = screen.col /\ cursor_pos_ > 0
  BY PlacesInLine DEF TerminalInv, HandleBackSpace
<1>2. s = Moved(screen, p)
  BY <1>1 DEF MoveLeft
<1>3. ScreenInv(screen)
  BY DEF TerminalInv, EditInv
<1>4. /\ ibuf_' = Removed(p) /\ s_len_' = s_len_ - 1 /\ cursor_pos_' = p
      /\ screen' = UpdateRightFromCursor(s, StringFrom(Removed(p), p))
  BY DEF HandleBackSpace
<1> HIDE DEF p, s
<1>5. ScreenInv(s) /\ s.col = p /\ s.row = screen.row /\ s.long = screen.long /\ s.end = screen.end
  BY <1>1, <1>2, <1>3, MovedStep
<1> QED BY <1>1, <1>4, <1>5, RemoveStep

LEMMA HandleDeleteStep ==
  ASSUME TerminalInv, HandleDelete, UNCHANGED <<prompt_len_, undisturbed>>,
         pending' \in Chars \cup {NoChar, NewLine}
  PROVE  TerminalInv'
<1>1. /\ cursor_pos_ \in Columns /\ prompt_len_ <= cursor_pos_ /\ cursor_pos_ < s_len_
      /\ cursor_pos_ = screen.col
  BY PlacesInLine DEF TerminalInv, HandleDelete
<1>2. ScreenInv(screen)
  BY DEF TerminalInv, EditInv
<1>3. /\ ibuf_' = Removed(cursor_pos_) /\ s_len_' = s_len_ - 1 /\ cursor_pos_' = cursor_pos_
      /\ screen' = UpdateRightFromCursor(screen, StringFrom(Removed(cursor_pos_), cursor_pos_))
  BY DEF HandleDelete
<1> QED BY <1>1, <1>2, <1>3, RemoveStep

\* A character goes into the line, on the screen as in the buffer.
LEMMA PutCharacterStep ==
  ASSUME TerminalInv, PutCharacter
  PROVE  /\ TerminalInv'
         /\ ~ IsFull => /\ cursor_pos_' = cursor_pos_ + 1 /\ s_len_' = s_len_ + 1
                        /\ ibuf_' = Inserted(pending) /\ pending \in Chars
<1>1. /\ Cols \in Nat /\ s_len_ \in Nat /\ prompt_len_ \in Nat /\ s_len_ < Cols
      /\ cursor_pos_ \in Nat /\ prompt_len_ <= cursor_pos_ /\ cursor_pos_ <= s_len_ /\ cursor_pos_ = screen.col
      /\ PromptLen \in Nat /\ PromptLen <= prompt_len_
      /\ \A x : x \in Columns <=> x \in Nat /\ x < Cols
  BY PlacesInLine DEF TerminalInv
<1>2. EditInv /\ RowInv /\ ScreenInv(screen)
  BY DEF TerminalInv, EditInv
<1>3. pending \in Chars /\ pending' = NoChar /\ prompt_len_' = prompt_len_ /\ undisturbed' = undisturbed
  BY DEF PutCharacter
<1>4. CASE IsFull
  <2>1. UNCHANGED <<screen, ibuf_, s_len_, cursor_pos_>>
    BY <1>4 DEF PutCharacter
  <2>2. EditInv'
    BY <1>2, <1>3, <2>1 DEF EditInv
  <2>3. RowInv'
    BY <1>2, <1>3, <2>1 DEF RowInv
  <2> QED BY <1>4, <2>2, <2>3 DEF TerminalInv
<1>5. CASE ~ IsFull
  <2> DEFINE c == pending
             B == Inserted(c)
             put == PutChar(screen, c)
             p == cursor_pos_ + 1
             last == s_len_ + 1
  <2>1. /\ ibuf_' = B /\ s_len_' = last /\ cursor_pos_' = screen'.col
        /\ screen' = IF cursor_pos_ = s_len_ THEN put
                     ELSE UpdateRightFromCursor(put, StringFrom(B, put.col))
    BY <1>5 DEF PutCharacter, PutOnScreen
  <2>2. c \in Cells /\ c # NewLine
    BY <1>3, CharsAreChars DEF Cells
  <2>3. p \in Columns /\ last \in Columns /\ p <= last /\ screen.col + 1 < Cols /\ p = screen.col + 1
    BY <1>1, <1>5 DEF IsFull
  <2>4. /\ ScreenInv(put) /\ put.row = screen.row /\ put.end >= screen.end /\ put.col = p
        /\ screen.row \in AllRows /\ screen.row < screen.end =>
             \A x \in Columns : put.long[screen.row][x] =
               IF x = screen.col THEN c ELSE screen.long[screen.row][x]
    BY <1>2, <2>2, <2>3, PutCharStep
  <2>5. /\ B \in BufferType /\ B[last] = Nul
        /\ \A j \in Columns : j < last =>
             B[j] = IF j < cursor_pos_ THEN ibuf_[j] ELSE IF j = cursor_pos_ THEN c ELSE ibuf_[j - 1]
        /\ \A j \in Columns : prompt_len_ <= j /\ j < last => B[j] \in Chars
    BY <1>2, <1>3, <1>5, InsertedBuffer
  <2>6. \A j \in Columns : p <= j /\ j < last => B[j] \in Chars
    BY <1>1, <2>5
  <2>7. \A x \in Columns : x \in Nat
    BY <1>1
  <2> HIDE DEF B, put, p, last
  \* At the end of the line nothing is drawn again.
  <2>8. /\ ScreenInv(screen') /\ screen'.row = screen.row /\ screen'.col = p /\ screen'.end >= screen.end
        /\ screen.row \in AllRows /\ screen.row < screen.end =>
             \A x \in Columns : screen'.long[screen.row][x] =
               IF p <= x /\ x < last THEN B[x]
               ELSE IF x = last /\ cursor_pos_ # s_len_ THEN Blank
               ELSE IF x = screen.col THEN c ELSE screen.long[screen.row][x]
    <3>1. CASE cursor_pos_ = s_len_
      <4>1. p = last /\ screen' = put
        BY <2>1, <3>1 DEF p, last
      <4>2. \A x \in Columns : ~ (p <= x /\ x < last)
        BY <1>1, <2>3, <2>7, <4>1
      <4> QED BY <2>4, <3>1, <4>1, <4>2
    <3>2. CASE cursor_pos_ # s_len_
      <4>1. screen' = UpdateRightFromCursor(put, StringFrom(B, p))
        BY <2>1, <2>4, <3>2
      <4>2. /\ ScreenInv(screen') /\ screen'.row = put.row /\ screen'.col = put.col /\ screen'.end = put.end
            /\ put.row \in AllRows =>
                 \A x \in Columns : screen'.long[put.row][x] =
                   IF p <= x /\ x < last THEN B[x] ELSE IF x = last THEN Blank ELSE put.long[put.row][x]
        BY <2>3, <2>4, <2>5, <2>6, <4>1, RedrawStep
      <4> QED BY <2>4, <3>2, <4>2
    <3> QED BY <3>1, <3>2
  <2>9. screen'.end \in Nat /\ screen.end \in Nat /\ screen.row \in Nat
    BY <1>2, <2>8, FactsOfScreen DEF ScreenInv
  <2>10. EditInv'
    <3>1. prompt_len_ <= p /\ p <= last
      BY <1>1 DEF p, last
    <3>2. {s_len_, prompt_len_, cursor_pos_}' \subseteq Columns
      BY <1>2, <1>3, <2>1, <2>3, <2>8 DEF EditInv
    <3>3. NoChar \in Chars \cup {NoChar, NewLine}
      OBVIOUS
    <3> QED BY <1>1, <1>2, <1>3, <2>1, <2>5, <2>8, <3>1, <3>2, <3>3 DEF EditInv
  <2>11. RowInv'
    <3>1. SUFFICES ASSUME undisturbed
                   PROVE  /\ prompt_len_ = PromptLen /\ screen.row \in AllRows /\ screen.row < screen'.end
                          /\ \A x \in Columns : screen'.long[screen.row][x] =
                               IF x < PromptLen THEN "$" ELSE IF x < last THEN B[x] ELSE Blank
      BY <1>3, <2>1, <2>8 DEF RowInv
    <3>2. /\ prompt_len_ = PromptLen /\ screen.row \in AllRows /\ screen.row < screen.end
          /\ \A x \in Columns : screen.long[screen.row][x] =
               IF x < PromptLen THEN "$" ELSE IF x < s_len_ THEN ibuf_[x] ELSE Blank
      BY <1>2, <3>1 DEF RowInv
    <3>3. screen.row < screen'.end
      BY <2>8, <2>9, <3>2
    <3>4. ASSUME NEW x \in Columns
          PROVE  screen'.long[screen.row][x] =
                   IF x < PromptLen THEN "$" ELSE IF x < last THEN B[x] ELSE Blank
      <4>0. /\ x \in Nat /\ last = s_len_ + 1 /\ p = cursor_pos_ + 1 /\ last \in Nat /\ p \in Nat
        BY <1>1 DEF last, p
      <4>1. CASE x < cursor_pos_
        <5>1. ~ (p <= x) /\ x # last /\ x # screen.col /\ x < last /\ x < s_len_
          BY <1>1, <4>0, <4>1
        <5> QED BY <2>5, <2>8, <3>2, <4>1, <5>1
      <4>2. CASE x = cursor_pos_
        <5>1. ~ (p <= x) /\ x # last /\ x = screen.col /\ x < last /\ ~ (x < PromptLen) /\ ~ (x < cursor_pos_)
          BY <1>1, <4>0, <4>2
        <5> QED BY <2>5, <2>8, <3>2, <4>2, <5>1
      <4>3. CASE p <= x /\ x < last
        <5>1. ~ (x < PromptLen)
          BY <1>1, <4>0, <4>3
        <5> QED BY <2>8, <3>2, <4>3, <5>1
      <4>4. CASE last <= x
        <5>1. ~ (x < PromptLen) /\ ~ (x < last) /\ ~ (x < s_len_) /\ x # screen.col
          BY <1>1, <4>0, <4>4
        <5> QED BY <2>8, <3>2, <5>1
      <4> QED BY <1>1, <4>0, <4>1, <4>2, <4>3, <4>4
    <3> QED BY <3>2, <3>3, <3>4
  <2> QED BY <1>3, <2>1, <2>8, <2>10, <2>11 DEF TerminalInv, B, p, last
<1> QED BY <1>4, <1>5

LEMMA PromptIsString ==
  /\ Prompt \in Seq(Cells \ {NewLine}) /\ Len(Prompt) = PromptLen
  /\ \A i \in 1 .. PromptLen : Prompt[i] = "$"
<1>1. "$" \in Cells \ {NewLine}
  BY DEF Cells, NewLine
<1>2. PromptLen \in Nat
  BY TerminalAssumption
<1>3. Prompt \in [1 .. PromptLen -> Cells \ {NewLine}]
  BY <1>1 DEF Prompt
<1>4. Prompt \in Seq(Cells \ {NewLine}) /\ Len(Prompt) = PromptLen
  <2> DEFINE s == Prompt
             S == Cells \ {NewLine}
  <2>1. s \in [1 .. PromptLen -> S]
    BY <1>3
  <2> HIDE DEF s, S
  <2>2. s \in Seq(S) /\ Len(s) = PromptLen
    BY <1>2, <2>1
  <2> QED BY <2>2 DEF s, S
<1>5. \A i \in 1 .. PromptLen : Prompt[i] = "$"
  BY DEF Prompt
<1> QED BY <1>4, <1>5

\* The prompt, where it is put.
LEMMA PromptStep ==
  ASSUME NEW s, ScreenInv(s)
  PROVE  LET t == PutString(s, Prompt)
         IN /\ ScreenInv(t) /\ t.row = s.row /\ t.end >= s.end /\ t.col \in Columns /\ PromptLen <= t.col
            /\ s.row \in AllRows /\ s.row < s.end /\ s.col = 0 =>
                 /\ t.col = PromptLen
                 /\ \A x \in Columns :
                      t.long[s.row][x] = IF x < PromptLen THEN "$" ELSE s.long[s.row][x]
<1> DEFINE t == PutString(s, Prompt)
<1>1. /\ s.col \in Nat /\ s.col < Cols /\ PromptLen \in Nat /\ PromptLen < Cols /\ Cols \in Nat
      /\ \A x \in Columns : x \in Nat
  BY FactsOfScreen, SizesOfScreen, TerminalAssumption DEF ScreenInv
<1>2. /\ ScreenInv(t) /\ t.row = s.row /\ t.end >= s.end
      /\ t.col = IF s.col + PromptLen < Cols THEN s.col + PromptLen ELSE Cols - 1
      /\ s.row \in AllRows /\ s.row < s.end /\ s.col + PromptLen < Cols =>
           \A x \in Columns :
             t.long[s.row][x] = IF s.col <= x /\ x < s.col + PromptLen THEN Prompt[x - s.col + 1]
                                ELSE s.long[s.row][x]
  BY PromptIsString, PutStringStep
<1> HIDE DEF t
<1>3. t.col \in Columns
  BY <1>2, FactsOfScreen DEF ScreenInv
<1>4. PromptLen <= t.col
  BY <1>1, <1>2
<1>5. ASSUME s.row \in AllRows, s.row < s.end, s.col = 0, NEW x \in Columns
      PROVE  t.long[s.row][x] = IF x < PromptLen THEN "$" ELSE s.long[s.row][x]
  <2>1. 0 + PromptLen < Cols /\ 0 <= x /\ 0 + PromptLen = PromptLen /\ x - 0 + 1 = x + 1
    BY <1>1
  <2>2. t.long[s.row][x] = IF x < PromptLen THEN Prompt[x + 1] ELSE s.long[s.row][x]
    BY <1>2, <1>5, <2>1
  <2>3. x < PromptLen => x + 1 \in 1 .. PromptLen
    BY <1>1
  <2> QED BY <2>2, <2>3, PromptIsString
<1>6. s.col = 0 => t.col = PromptLen
  BY <1>1, <1>2
<1> QED BY <1>2, <1>3, <1>4, <1>5, <1>6 DEF t

LEMMA PutNewLineTerminalStep ==
  ASSUME TerminalInv, PutNewLine
  PROVE  /\ TerminalInv'
         /\ prompt_len_' = s_len_' /\ cursor_pos_' = s_len_'
<1>1. /\ Cols \in Nat /\ s_len_ \in Nat /\ s_len_ < Cols /\ cursor_pos_ \in Nat /\ cursor_pos_ <= s_len_
      /\ \A x : x \in Columns <=> x \in Nat /\ x < Cols
  BY PlacesInLine DEF TerminalInv
<1>2. EditInv /\ ScreenInv(screen) /\ ibuf_ \in BufferType
  BY DEF TerminalInv, EditInv
<1> DEFINE fed == PutChar(screen, NewLine)
           put == IF IsFull THEN screen ELSE PutOnScreen(NewLine)
<1>3. /\ screen' = PutString(put, Prompt)
      /\ ibuf_' = IF IsFull THEN ibuf_ ELSE Inserted(NewLine)
      /\ cursor_pos_' = screen'.col /\ prompt_len_' = cursor_pos_' /\ s_len_' = cursor_pos_'
      /\ pending' = NoChar
      /\ undisturbed' = /\ ~ IsFull
                        /\ cursor_pos_ = s_len_
                        /\ IsCursorInFrame(screen)
                        /\ screen.row + 1 \in AllRows
  BY DEF PutNewLine
<1>4. /\ ScreenInv(fed) /\ fed.row = screen.row + 1 /\ fed.end >= screen.end /\ fed.col = 0
      /\ IsCursorInFrame(screen) /\ screen.row + 1 \in AllRows =>
           /\ fed.row < fed.end
           /\ \A x \in Columns : fed.long[screen.row + 1][x] = Blank
  BY <1>2, PutNewLineStep
<1>5. NewLine \in Chars \cup {NewLine}
  OBVIOUS
<1> HIDE DEF fed
<1>6. ScreenInv(put) /\ ibuf_' \in BufferType
  <2>1. CASE IsFull
    BY <1>2, <1>3, <2>1
  <2>2. CASE ~ IsFull
    <3>1. Inserted(NewLine) \in BufferType /\ s_len_ + 1 \in Columns /\ Inserted(NewLine)[s_len_ + 1] = Nul
      BY <1>2, <1>5, <2>2, InsertedBuffer
    <3>2. put = IF cursor_pos_ = s_len_ THEN fed
                ELSE UpdateRightFromCursor(fed, StringFrom(Inserted(NewLine), fed.col))
      BY <2>2 DEF PutOnScreen, fed
    <3>3. 0 \in Columns /\ 0 <= s_len_ + 1
      BY <1>1
    <3> QED BY <1>3, <1>4, <2>2, <3>1, <3>2, <3>3, RedrawStep
  <2> QED BY <2>1, <2>2
<1>7. undisturbed' => put = fed
  BY <1>3 DEF PutOnScreen, fed
<1> HIDE DEF put
<1>8. /\ ScreenInv(screen') /\ screen'.row = put.row /\ screen'.end >= put.end
      /\ screen'.col \in Columns /\ PromptLen <= screen'.col
      /\ put.row \in AllRows /\ put.row < put.end /\ put.col = 0 =>
           /\ screen'.col = PromptLen
           /\ \A x \in Columns :
                screen'.long[put.row][x] = IF x < PromptLen THEN "$" ELSE put.long[put.row][x]
  BY <1>3, <1>6, PromptStep
<1>9. EditInv'
  <2>1. screen'.col \in Nat
    BY <1>1, <1>8
  <2>2. undisturbed' \in BOOLEAN
    BY <1>3
  <2>3. {s_len_, prompt_len_, cursor_pos_}' \subseteq Columns
    BY <1>3, <1>8
  <2>4. /\ PromptLen <= prompt_len_' /\ prompt_len_' <= cursor_pos_' /\ cursor_pos_' <= s_len_'
        /\ cursor_pos_' = screen'.col
    BY <1>3, <1>8, <2>1
  <2>5. \A j \in Columns : ~ (prompt_len_' <= j /\ j < s_len_')
    BY <1>1, <1>3, <2>1
  <2>6. pending' \in Chars \cup {NoChar, NewLine}
    BY <1>3
  <2> QED BY <1>6, <1>8, <2>2, <2>3, <2>4, <2>5, <2>6 DEF EditInv
<1>10. RowInv'
  <2>1. SUFFICES ASSUME undisturbed'
                 PROVE  /\ prompt_len_' = PromptLen /\ screen'.row \in AllRows /\ screen'.row < screen'.end
                        /\ \A x \in Columns : screen'.long[screen'.row][x] =
                             IF x < PromptLen THEN "$" ELSE IF x < s_len_' THEN ibuf_'[x] ELSE Blank
    BY DEF RowInv
  <2>2. /\ put.row = screen.row + 1 /\ put.row \in AllRows /\ put.row < put.end /\ put.col = 0
        /\ \A x \in Columns : put.long[put.row][x] = Blank
    BY <1>3, <1>4, <1>7, <2>1
  <2>3. /\ screen'.col = PromptLen
        /\ \A x \in Columns : screen'.long[put.row][x] = IF x < PromptLen THEN "$" ELSE Blank
    BY <1>8, <2>2
  <2>4. screen'.row < screen'.end
    <3>1. put.row \in Nat /\ put.end \in Nat /\ screen'.end \in Nat
      BY <1>6, <1>8, FactsOfScreen DEF ScreenInv
    <3> QED BY <1>8, <2>2, <3>1
  <2>5. s_len_' = PromptLen /\ prompt_len_' = PromptLen
    BY <1>3, <2>3
  <2> QED BY <1>8, <2>2, <2>3, <2>4, <2>5
<1> QED BY <1>3, <1>9, <1>10 DEF TerminalInv

LEMMA CtrlStep ==
  ASSUME TerminalInv, NEW key, ProcessKeyStrokeWithCtrl(key)
  PROVE  TerminalInv' /\ UNCHANGED <<ibuf_, s_len_, prompt_len_, cursor_pos_>>
<1>1. EditInv /\ RowInv /\ ScreenInv(screen) /\ ScreenSound(screen)
  BY DEF TerminalInv, EditInv, ScreenInv
<1>2. /\ screen' = ScrollUp(screen) \/ screen' = ScrollDown(screen)
      /\ UNCHANGED <<ibuf_, s_len_, prompt_len_, cursor_pos_, pending, undisturbed>>
  BY DEF ProcessKeyStrokeWithCtrl
<1>3. /\ ScreenInv(screen') /\ screen'.row = screen.row /\ screen'.col = screen.col
      /\ screen'.end >= screen.end
      /\ \A y \in AllRows : y < screen.end => screen'.long[y] = screen.long[y]
  BY <1>1, <1>2, ScrollStep
<1>4. screen.end \in Nat /\ screen'.end \in Nat /\ screen.row \in Nat
  BY <1>1, <1>3, FactsOfScreen DEF ScreenInv
<1>5. EditInv'
  BY <1>1, <1>2, <1>3 DEF EditInv
<1>6. RowInv'
  <2>1. screen.row < screen.end => screen.row < screen'.end
    BY <1>3, <1>4
  <2> QED BY <1>1, <1>2, <1>3, <2>1 DEF RowInv
<1> QED BY <1>2, <1>5, <1>6 DEF TerminalInv

LEMMA CharTypes ==
  ASSUME NEW key \in Keys, NEW shift \in BOOLEAN
  PROVE  Char(key, shift) \in Chars \cup {NoChar, NewLine}
BY DEF Char, Chars

LEMMA OnKeyStrokeStep ==
  ASSUME TerminalInv, NEW stroke \in Strokes, OnKeyStroke(stroke[1], stroke[2])
  PROVE  TerminalInv'
<1>1. stroke[1] \in Keys /\ stroke[2] \in BOOLEAN
  BY TerminalAssumption
<1>2. /\ pending' \in Chars \cup {NoChar, NewLine} /\ UNCHANGED <<prompt_len_, undisturbed>>
      /\ Edit(stroke[1]) \/ UNCHANGED <<screen, ibuf_, s_len_, cursor_pos_>>
  BY <1>1, CharTypes DEF OnKeyStroke
<1>3. CASE Edit(stroke[1])
  BY <1>2, <1>3, MoveCursorStep, HandleBackSpaceStep, HandleDeleteStep DEF Edit
<1>4. CASE UNCHANGED <<screen, ibuf_, s_len_, cursor_pos_>>
  <2>1. EditInv'
    BY <1>2, <1>4 DEF TerminalInv, EditInv
  <2>2. RowInv'
    BY <1>2, <1>4 DEF TerminalInv, RowInv
  <2> QED BY <2>1, <2>2 DEF TerminalInv
<1> QED BY <1>2, <1>3, <1>4

LEMMA NewScreenIsSound ==
  /\ ScreenInv(NewScreen) /\ NewScreen.row = 0 /\ NewScreen.col = 0 /\ NewScreen.end >= Rows
  /\ 0 \in AllRows /\ \A x \in Columns : NewScreen.long[0][x] = Blank
<1> DEFINE long == [y \in AllRows |-> Line(IF y < Rows THEN Blank ELSE Garbage)]
           s == [long |-> long, frame |-> [r \in FrameRows |-> Line(Blank)],
                 base |-> 0, row |-> 0, col |-> 0, end |-> Rows]
<1>1. /\ Rows \in Nat /\ Rows > 0 /\ 0 \in AllRows /\ 0 \in Columns /\ Rows <= LongRows
      /\ \A y \in AllRows : y \in Nat
  BY SizesOfScreen
<1>2. \A c \in Cells : Line(c) \in [Columns -> Cells] /\ \A x \in Columns : Line(c)[x] = c
  BY DEF Line
<1>3. s \in ScreenType
  BY <1>1, <1>2, CellTypes DEF ScreenType
<1>4. \A y \in AllRows, x \in Columns : y < Rows => long[y][x] = Blank
  BY <1>2, CellTypes
<1> HIDE DEF long
<1>5. s.base = 0 /\ s.row = 0 /\ s.col = 0 /\ s.end = Rows /\ s.long = long
  OBVIOUS
<1> HIDE DEF s
<1>6. BelowBlank(s)
  BY <1>4, <1>5 DEF BelowBlank
<1>7. NewScreen = CopyAll(s)
  BY DEF NewScreen, s, long
<1>8. /\ ScreenInv(NewScreen) /\ NewScreen.row = 0 /\ NewScreen.col = 0 /\ NewScreen.end >= Rows
      /\ \A y \in AllRows : y < Rows => NewScreen.long[y] = long[y]
  BY <1>1, <1>3, <1>5, <1>6, <1>7, CopyAllStep
<1> QED BY <1>1, <1>4, <1>8

LEMMA InitTerminalInv ==
  ASSUME TerminalInit
  PROVE  TerminalInv /\ s_len_ = prompt_len_ /\ cursor_pos_ = prompt_len_
<1>1. /\ ibuf_ \in {[i \in Columns |-> c] : c \in {Nul, Garbage}}
      /\ screen = PutString(NewScreen, Prompt)
      /\ prompt_len_ = screen.col /\ s_len_ = screen.col /\ cursor_pos_ = screen.col
      /\ pending = NoChar /\ undisturbed = TRUE
  BY DEF TerminalInit
<1>2. Rows \in Nat /\ Rows > 0 /\ \A x \in Columns : x \in Nat
  BY SizesOfScreen
<1>3. NewScreen.end \in Nat /\ NewScreen.row < NewScreen.end
  <2>1. NewScreen.end \in Nat
    BY NewScreenIsSound, FactsOfScreen DEF ScreenInv
  <2> QED BY <1>2, <2>1, NewScreenIsSound
<1>4. /\ ScreenInv(screen) /\ screen.row = 0 /\ screen.end >= NewScreen.end
      /\ screen.col \in Columns /\ screen.col = PromptLen
      /\ \A x \in Columns : screen.long[0][x] = IF x < PromptLen THEN "$" ELSE NewScreen.long[0][x]
  BY <1>1, <1>3, NewScreenIsSound, PromptStep
<1>5. EditInv
  <2>1. ibuf_ \in BufferType
    BY <1>1 DEF BufferType
  <2>2. PromptLen \in Nat /\ \A j \in Columns : ~ (PromptLen <= j /\ j < PromptLen)
    BY <1>2, TerminalAssumption
  <2> QED BY <1>1, <1>4, <2>1, <2>2 DEF EditInv
<1>6. RowInv
  <2>1. screen.row < screen.end
    <3>1. screen.end \in Nat
      BY <1>4, FactsOfScreen DEF ScreenInv
    <3> QED BY <1>3, <1>4, <3>1, NewScreenIsSound
  <2> QED BY <1>1, <1>4, <2>1, NewScreenIsSound DEF RowInv
<1> QED BY <1>1, <1>5, <1>6 DEF TerminalInv

LEMMA TerminalKeepsInv ==
  ASSUME TerminalInv, TerminalNext
  PROVE  TerminalInv'
<1>1. ASSUME NEW stroke \in Strokes, OnKeyStroke(stroke[1], stroke[2]) PROVE TerminalInv'
  BY <1>1, OnKeyStrokeStep
<1>2. CASE PutCharacter
  BY <1>2, PutCharacterStep
<1>3. CASE PutNewLine
  BY <1>3, PutNewLineTerminalStep
<1>4. ASSUME NEW key \in Keys, ProcessKeyStrokeWithCtrl(key) PROVE TerminalInv'
  BY <1>4, CtrlStep
<1> QED BY <1>1, <1>2, <1>3, <1>4 DEF TerminalNext

LEMMA TerminalInvUnchanged ==
  ASSUME TerminalInv, UNCHANGED terminalVars
  PROVE  TerminalInv'
<1>1. UNCHANGED <<screen, ibuf_, s_len_, prompt_len_, cursor_pos_, pending, undisturbed>>
  BY DEF terminalVars
<1>2. EditInv'
  BY <1>1 DEF TerminalInv, EditInv
<1>3. RowInv'
  BY <1>1 DEF TerminalInv, RowInv
<1> QED BY <1>2, <1>3 DEF TerminalInv

LEMMA TerminalInvAlways == TerminalSpec => []TerminalInv
<1>1. TerminalInit => TerminalInv
  BY InitTerminalInv
<1>2. TerminalInv /\ [TerminalNext]_terminalVars => TerminalInv'
  BY TerminalKeepsInv, TerminalInvUnchanged
<1> QED BY <1>1, <1>2, PTL DEF TerminalSpec

LEMMA KeptByTerminalInv ==
  ASSUME TerminalInv
  PROVE  DisplayKept
<1>1. EditInv /\ ScreenInv(screen)
  BY DEF TerminalInv, EditInv
<1>2. screen \in ScreenType /\ Shows(screen) /\ screen.base <= screen.row
  BY <1>1 DEF ScreenInv, ScreenSound
<1>3. TerminalTypeOK
  BY <1>1, <1>2 DEF EditInv, TerminalTypeOK, ScreenType, BufferType
<1>4. ScreenShowsWindow
  BY <1>2 DEF Shows, ScreenShowsWindow
<1>5. CursorsAgree
  BY <1>1, <1>2 DEF EditInv, CursorsAgree
<1> QED BY <1>3, <1>4, <1>5 DEF DisplayKept

LEMMA ShownByTerminalInv ==
  ASSUME TerminalInv
  PROVE  LineShown
<1>1. /\ Cols \in Nat /\ s_len_ \in Nat /\ prompt_len_ \in Nat /\ PromptLen \in Nat /\ prompt_len_ <= s_len_
      /\ \A x \in Columns : x \in Nat
  BY PlacesInLine, SizesOfScreen DEF TerminalInv
<1>2. SUFFICES ASSUME undisturbed
               PROVE  /\ prompt_len_ = PromptLen
                      /\ \A x \in Columns : screen.long[screen.row][x] =
                           IF x < Len(Prompt \o Input) THEN (Prompt \o Input)[x + 1] ELSE Blank
  BY DEF LineShown
<1>3. /\ prompt_len_ = PromptLen
      /\ \A x \in Columns : screen.long[screen.row][x] =
           IF x < PromptLen THEN "$" ELSE IF x < s_len_ THEN ibuf_[x] ELSE Blank
  BY <1>2 DEF TerminalInv, RowInv
<1> DEFINE n == s_len_ - PromptLen
<1>4. n \in Nat /\ Input = [i \in 1 .. n |-> ibuf_[PromptLen + i - 1]]
  BY <1>1, <1>3 DEF Input
<1>5. \A i \in 1 .. n : ibuf_[PromptLen + i - 1] \in Chars
  <2>1. ASSUME NEW i \in 1 .. n PROVE ibuf_[PromptLen + i - 1] \in Chars
    <3> DEFINE j == PromptLen + i - 1
    <3>1. j \in Nat /\ PromptLen <= j /\ j < s_len_
      BY <1>1, <1>3
    <3>2. j \in Columns
      BY <3>1, PlacesInLine DEF TerminalInv
    <3> QED BY <1>3, <3>1, <3>2 DEF TerminalInv, EditInv
  <2> QED BY <2>1
<1>6. Input \in Seq(Cells) /\ Len(Input) = n /\ \A i \in 1 .. n : Input[i] = ibuf_[PromptLen + i - 1]
  <2>0. \A i \in 1 .. n : Input[i] = ibuf_[PromptLen + i - 1]
    BY <1>4
  <2> DEFINE s == Input
  <2>1. s \in [1 .. n -> Cells]
    BY <1>4, <1>5, CellTypes
  <2>2. n \in Nat
    BY <1>4
  <2> HIDE DEF s, n
  <2>3. s \in Seq(Cells) /\ Len(s) = n
    BY <2>1, <2>2
  <2> QED BY <2>0, <2>3 DEF s
<1>7. Prompt \in Seq(Cells) /\ Len(Prompt) = PromptLen /\ \A i \in 1 .. PromptLen : Prompt[i] = "$"
  BY PromptIsString
<1>8. /\ Len(Prompt \o Input) = Len(Prompt) + Len(Input)
      /\ \A i \in 1 .. Len(Prompt) + Len(Input) :
           (Prompt \o Input)[i] = IF i <= Len(Prompt) THEN Prompt[i] ELSE Input[i - Len(Prompt)]
  BY <1>6, <1>7, ConcatProperties
<1>9. Len(Prompt \o Input) = s_len_
  BY <1>1, <1>6, <1>7, <1>8
<1>10. ASSUME NEW x \in Columns
       PROVE  screen.long[screen.row][x] =
                IF x < s_len_ THEN (Prompt \o Input)[x + 1] ELSE Blank
  <2>0. x \in Nat
    BY <1>1
  <2>1. CASE x < PromptLen
    <3>1. x + 1 \in 1 .. PromptLen /\ x + 1 \in 1 .. PromptLen + n /\ x + 1 <= PromptLen /\ x < s_len_
      BY <1>1, <1>3, <2>0, <2>1
    <3>2. (Prompt \o Input)[x + 1] = Prompt[x + 1]
      BY <1>6, <1>7, <1>8, <3>1
    <3> QED BY <1>3, <1>7, <2>1, <3>1, <3>2
  <2>2. CASE ~ (x < PromptLen) /\ x < s_len_
    <3>1. /\ x + 1 \in 1 .. PromptLen + n /\ ~ (x + 1 <= PromptLen) /\ x + 1 - PromptLen \in 1 .. n
          /\ PromptLen + (x + 1 - PromptLen) - 1 = x
      BY <1>1, <2>0, <2>2
    <3>2. (Prompt \o Input)[x + 1] = Input[x + 1 - PromptLen]
      BY <1>6, <1>7, <1>8, <3>1
    <3> QED BY <1>3, <1>6, <2>2, <3>1, <3>2
  <2>3. CASE ~ (x < s_len_)
    <3>1. ~ (x < PromptLen)
      BY <1>1, <1>3, <2>0, <2>3
    <3> QED BY <1>3, <2>3, <3>1
  <2> QED BY <2>1, <2>2, <2>3
<1> QED BY <1>3, <1>9, <1>10

\* What is on display is the window of what was written, with the block at the cursor and
\* nowhere else, and the terminal and the screen agree on where that is: for every size of
\* the screen and prompt, through every key (screen.cpp:303, terminal.cpp:75).
THEOREM DisplayIsKept == TerminalSpec => []DisplayKept
  BY TerminalInvAlways, KeptByTerminalInv, PTL

\* The row of the cursor shows the prompt, the line that was typed and blanks, while the
\* line before was ended undisturbed (Terminal::PutChar, terminal.cpp:156).
THEOREM LineIsShown == TerminalSpec => []LineShown
  BY TerminalInvAlways, ShownByTerminalInv, PTL

-----------------------------------------------------------------------------
(* The line.                                                               *)

\* Where the elements go that are behind one which is put into a sequence or taken out.
With(s, p, c) == SubSeq(s, 1, p) \o <<c>> \o SubSeq(s, p + 1, Len(s))
Without(s, p) == SubSeq(s, 1, p - 1) \o SubSeq(s, p + 1, Len(s))

LEMMA InsertIntoSequence ==
  ASSUME NEW S, NEW s \in Seq(S), NEW p \in 0 .. Len(s), NEW c \in S
  PROVE  /\ With(s, p, c) \in Seq(S) /\ Len(With(s, p, c)) = Len(s) + 1
         /\ \A i \in 1 .. Len(s) + 1 :
              With(s, p, c)[i] = IF i <= p THEN s[i] ELSE IF i = p + 1 THEN c ELSE s[i - 1]
<1> DEFINE n == Len(s)
           a == SubSeq(s, 1, p)
           b == SubSeq(s, p + 1, n)
           m == <<c>>
           am == a \o m
           t == am \o b
<1>1. n \in Nat /\ p \in Nat /\ p <= n /\ \A i \in 1 .. n : s[i] \in S
  BY ElementOfSeq
<1>2. /\ a \in Seq(S) /\ Len(a) = (IF 1 <= p THEN p - 1 + 1 ELSE 0)
      /\ \A i \in 1 .. p - 1 + 1 : a[i] = s[1 + i - 1]
  <2>1. \A i \in 1 .. p : s[i] \in S
    BY <1>1
  <2> QED BY <1>1, <2>1, SubSeqProperties
<1>3. /\ b \in Seq(S) /\ Len(b) = (IF p + 1 <= n THEN n - (p + 1) + 1 ELSE 0)
      /\ \A i \in 1 .. n - (p + 1) + 1 : b[i] = s[p + 1 + i - 1]
  <2>1. \A i \in p + 1 .. n : s[i] \in S
    BY <1>1
  <2>2. p + 1 \in Int /\ n \in Int
    BY <1>1
  <2> HIDE DEF n
  <2> QED BY <2>1, <2>2, SubSeqProperties
<1>4. m \in Seq(S) /\ Len(m) = 1 /\ m[1] = c
  OBVIOUS
<1> HIDE DEF n, a, b, m
<1>5. Len(a) = p /\ Len(b) = n - p
  BY <1>1, <1>2, <1>3
<1>6. /\ am \in Seq(S) /\ Len(am) = Len(a) + Len(m)
      /\ \A i \in 1 .. Len(a) + Len(m) : am[i] = IF i <= Len(a) THEN a[i] ELSE m[i - Len(a)]
  BY <1>2, <1>4, ConcatProperties
<1> HIDE DEF am
<1>7. /\ t \in Seq(S) /\ Len(t) = Len(am) + Len(b)
      /\ \A i \in 1 .. Len(am) + Len(b) : t[i] = IF i <= Len(am) THEN am[i] ELSE b[i - Len(am)]
  <2>1. am \in Seq(S) /\ b \in Seq(S)
    BY <1>3, <1>6
  <2> QED BY ONLY <2>1, ConcatProperties
<1> HIDE DEF t
<1>8. Len(am) = p + 1 /\ Len(t) = n + 1 /\ Len(am) + Len(b) = n + 1
  BY <1>1, <1>4, <1>5, <1>6, <1>7
<1>9. ASSUME NEW i \in 1 .. n + 1
      PROVE  t[i] = IF i <= p THEN s[i] ELSE IF i = p + 1 THEN c ELSE s[i - 1]
  <2>0. i \in Nat /\ i >= 1 /\ i <= n + 1
    BY <1>1
  <2>1. t[i] = IF i <= p + 1 THEN am[i] ELSE b[i - (p + 1)]
    BY <1>7, <1>8
  <2>2. CASE i <= p
    <3>1. i \in 1 .. p + 1 /\ i <= p + 1 /\ i \in 1 .. p - 1 + 1 /\ 1 + i - 1 = i
      BY <1>1, <2>0, <2>2
    <3>2. am[i] = a[i]
      BY <1>4, <1>5, <1>6, <2>2, <3>1
    <3>3. a[i] = s[i]
      BY <1>2, <3>1
    <3> QED BY <2>1, <2>2, <3>1, <3>2, <3>3
  <2>3. CASE i = p + 1
    <3>1. i \in 1 .. p + 1 /\ i <= p + 1 /\ ~ (i <= p) /\ i - p = 1
      BY <1>1, <2>0, <2>3
    <3>2. am[i] = m[i - p]
      BY <1>4, <1>5, <1>6, <3>1
    <3> QED BY <1>4, <2>1, <2>3, <3>1, <3>2
  <2>4. CASE i > p + 1
    <3>1. /\ ~ (i <= p + 1) /\ ~ (i <= p) /\ i # p + 1
          /\ i - (p + 1) \in 1 .. n - (p + 1) + 1 /\ p + 1 + (i - (p + 1)) - 1 = i - 1
      BY <1>1, <2>0, <2>4
    <3>2. b[i - (p + 1)] = s[i - 1]
      BY <1>3, <3>1
    <3> QED BY <2>1, <3>1, <3>2
  <2> QED BY <1>1, <2>0, <2>2, <2>3, <2>4
<1> QED BY <1>7, <1>8, <1>9 DEF With, t, am, a, b, m, n

LEMMA RemoveFromSequence ==
  ASSUME NEW S, NEW s \in Seq(S), NEW p \in 1 .. Len(s)
  PROVE  /\ Without(s, p) \in Seq(S) /\ Len(Without(s, p)) = Len(s) - 1
         /\ \A i \in 1 .. Len(s) - 1 : Without(s, p)[i] = IF i < p THEN s[i] ELSE s[i + 1]
<1> DEFINE n == Len(s)
           a == SubSeq(s, 1, p - 1)
           b == SubSeq(s, p + 1, n)
           t == a \o b
<1>1. n \in Nat /\ p \in Nat /\ p <= n /\ p >= 1 /\ \A i \in 1 .. n : s[i] \in S
  BY ElementOfSeq
<1>2. /\ a \in Seq(S) /\ Len(a) = (IF 1 <= p - 1 THEN p - 1 - 1 + 1 ELSE 0)
      /\ \A i \in 1 .. p - 1 - 1 + 1 : a[i] = s[1 + i - 1]
  <2>1. \A i \in 1 .. p - 1 : s[i] \in S
    BY <1>1
  <2>2. p - 1 \in Int /\ 1 \in Int
    BY <1>1
  <2> QED BY <2>1, <2>2, SubSeqProperties
<1>3. /\ b \in Seq(S) /\ Len(b) = (IF p + 1 <= n THEN n - (p + 1) + 1 ELSE 0)
      /\ \A i \in 1 .. n - (p + 1) + 1 : b[i] = s[p + 1 + i - 1]
  <2>1. \A i \in p + 1 .. n : s[i] \in S
    BY <1>1
  <2>2. p + 1 \in Int /\ n \in Int
    BY <1>1
  <2> HIDE DEF n
  <2> QED BY <2>1, <2>2, SubSeqProperties
<1> HIDE DEF n, a, b
<1>4. Len(a) = p - 1 /\ Len(b) = n - p
  BY <1>1, <1>2, <1>3
<1>5. /\ t \in Seq(S) /\ Len(t) = Len(a) + Len(b)
      /\ \A i \in 1 .. Len(a) + Len(b) : t[i] = IF i <= Len(a) THEN a[i] ELSE b[i - Len(a)]
  BY <1>2, <1>3, ConcatProperties
<1> HIDE DEF t
<1>6. Len(t) = n - 1 /\ Len(a) + Len(b) = n - 1
  BY <1>1, <1>4, <1>5
<1>7. ASSUME NEW i \in 1 .. n - 1
      PROVE  t[i] = IF i < p THEN s[i] ELSE s[i + 1]
  <2>0. i \in Nat /\ i >= 1 /\ i <= n - 1
    BY <1>1
  <2>1. t[i] = IF i <= p - 1 THEN a[i] ELSE b[i - (p - 1)]
    BY <1>4, <1>5, <1>6
  <2>2. CASE i < p
    <3>1. i <= p - 1 /\ i \in 1 .. p - 1 - 1 + 1 /\ 1 + i - 1 = i
      BY <1>1, <2>0, <2>2
    <3> QED BY <1>2, <2>1, <2>2, <3>1
  <2>3. CASE ~ (i < p)
    <3>1. /\ ~ (i <= p - 1)
          /\ i - (p - 1) \in 1 .. n - (p + 1) + 1 /\ p + 1 + (i - (p - 1)) - 1 = i + 1
      BY <1>1, <2>0, <2>3
    <3>2. b[i - (p - 1)] = s[i + 1]
      BY <1>3, <3>1
    <3> QED BY <2>1, <2>3, <3>1, <3>2
  <2> QED BY <2>2, <2>3
<1> QED BY <1>5, <1>6, <1>7 DEF Without, t, a, b, n

\* The line that the buffer holds.
LineOf(buffer, first, last) == [i \in 1 .. last - first |-> buffer[first + i - 1]]

LEMMA LineInBuffer ==
  ASSUME NEW buffer, NEW first \in Nat, NEW last \in Nat, first <= last,
         \A j \in first .. last - 1 : buffer[j] \in Chars
  PROVE  /\ LineOf(buffer, first, last) \in Seq(Chars)
         /\ Len(LineOf(buffer, first, last)) = last - first
         /\ \A i \in 1 .. last - first : LineOf(buffer, first, last)[i] = buffer[first + i - 1]
<1> DEFINE n == last - first
           s == LineOf(buffer, first, last)
<1>1. n \in Nat /\ \A i \in 1 .. n : first + i - 1 \in first .. last - 1
  OBVIOUS
<1>2. s \in [1 .. n -> Chars] /\ \A i \in 1 .. n : s[i] = buffer[first + i - 1]
  BY <1>1 DEF LineOf
<1> HIDE DEF s, n
<1>3. s \in Seq(Chars) /\ Len(s) = n
  BY <1>1, <1>2
<1> QED BY <1>2, <1>3 DEF s, n

LEMMA InputIsLine ==
  ASSUME EditInv
  PROVE  /\ Input = LineOf(ibuf_, prompt_len_, s_len_)
         /\ Input \in Seq(Chars) /\ Len(Input) = s_len_ - prompt_len_
         /\ \A i \in 1 .. s_len_ - prompt_len_ : Input[i] = ibuf_[prompt_len_ + i - 1]
         /\ cursor_pos_ - prompt_len_ \in 0 .. Len(Input)
<1>1. /\ prompt_len_ \in Nat /\ s_len_ \in Nat /\ prompt_len_ <= s_len_
      /\ cursor_pos_ \in Nat /\ prompt_len_ <= cursor_pos_ /\ cursor_pos_ <= s_len_
      /\ \A j \in prompt_len_ .. s_len_ - 1 : j \in Columns /\ j < s_len_ /\ prompt_len_ <= j
  BY PlacesInLine
<1>2. \A j \in prompt_len_ .. s_len_ - 1 : ibuf_[j] \in Chars
  BY <1>1 DEF EditInv
<1>3. Input = LineOf(ibuf_, prompt_len_, s_len_)
  BY DEF Input, LineOf
<1>4. /\ Input \in Seq(Chars) /\ Len(Input) = s_len_ - prompt_len_
      /\ \A i \in 1 .. s_len_ - prompt_len_ : Input[i] = ibuf_[prompt_len_ + i - 1]
  BY <1>1, <1>2, <1>3, LineInBuffer
<1>5. cursor_pos_ - prompt_len_ \in 0 .. s_len_ - prompt_len_
  BY <1>1
<1> QED BY <1>3, <1>4, <1>5

\* A character that is put into the buffer is put into the line.
LEMMA InsertedLine ==
  ASSUME EditInv, ~ IsFull, NEW c \in Chars
  PROVE  LineOf(Inserted(c), prompt_len_, s_len_ + 1) = With(Input, cursor_pos_ - prompt_len_, c)
<1> DEFINE p == cursor_pos_ - prompt_len_
           n == s_len_ - prompt_len_
           B == Inserted(c)
           last == s_len_ + 1
           s == LineOf(B, prompt_len_, last)
           t == With(Input, p, c)
<1>1. /\ prompt_len_ \in Nat /\ s_len_ \in Nat /\ prompt_len_ <= s_len_
      /\ cursor_pos_ \in Nat /\ prompt_len_ <= cursor_pos_ /\ cursor_pos_ <= s_len_ /\ s_len_ < Cols
      /\ Cols \in Nat /\ \A x : x \in Columns <=> x \in Nat /\ x < Cols
  BY PlacesInLine
<1>2. /\ Input \in Seq(Chars) /\ Len(Input) = n
      /\ \A i \in 1 .. n : Input[i] = ibuf_[prompt_len_ + i - 1]
      /\ p \in 0 .. Len(Input)
  BY InputIsLine
<1>3. /\ t \in Seq(Chars) /\ Len(t) = Len(Input) + 1
      /\ \A i \in 1 .. Len(Input) + 1 : t[i] = IF i <= p THEN Input[i] ELSE IF i = p + 1 THEN c ELSE Input[i - 1]
  <2>1. Input \in Seq(Chars) /\ p \in 0 .. Len(Input) /\ c \in Chars
    BY <1>2
  <2> HIDE DEF p
  <2> QED BY ONLY <2>1, InsertIntoSequence
<1>4. /\ \A j \in Columns : j < s_len_ + 1 =>
           B[j] = IF j < cursor_pos_ THEN ibuf_[j] ELSE IF j = cursor_pos_ THEN c ELSE ibuf_[j - 1]
      /\ \A j \in Columns : prompt_len_ <= j /\ j < s_len_ + 1 => B[j] \in Chars
  BY InsertedBuffer
<1> HIDE DEF B, t
<1>5. /\ last \in Nat /\ prompt_len_ <= last /\ last - prompt_len_ = n + 1 /\ n \in Nat
      /\ \A j \in prompt_len_ .. last - 1 : j \in Columns /\ prompt_len_ <= j /\ j < last
  BY <1>1
<1>6. \A j \in prompt_len_ .. last - 1 : B[j] \in Chars
  BY <1>4, <1>5
<1> HIDE DEF last
<1>7. s \in Seq(Chars) /\ Len(s) = n + 1 /\ \A i \in 1 .. n + 1 : s[i] = B[prompt_len_ + i - 1]
  <2>1. /\ s \in Seq(Chars) /\ Len(s) = last - prompt_len_
        /\ \A i \in 1 .. last - prompt_len_ : s[i] = B[prompt_len_ + i - 1]
    BY <1>1, <1>5, <1>6, LineInBuffer
  <2> HIDE DEF s, n
  <2> QED BY <1>5, <2>1
<1> HIDE DEF s
<1>8. ASSUME NEW i \in 1 .. n + 1 PROVE s[i] = t[i]
  <2> DEFINE j == prompt_len_ + i - 1
  <2>0. i \in Nat /\ i >= 1 /\ i <= n + 1 /\ j \in Nat /\ j < s_len_ + 1 /\ j < Cols /\ prompt_len_ <= j
    BY <1>1, <1>5 DEF IsFull
  <2>1. s[i] = IF j < cursor_pos_ THEN ibuf_[j] ELSE IF j = cursor_pos_ THEN c ELSE ibuf_[j - 1]
    BY <1>1, <1>4, <1>7, <2>0
  <2>2. t[i] = IF i <= p THEN Input[i] ELSE IF i = p + 1 THEN c ELSE Input[i - 1]
    BY <1>2, <1>3
  <2>3. CASE i <= p
    <3>1. i \in 1 .. n /\ j < cursor_pos_
      BY <1>1, <2>0, <2>3
    <3> QED BY <1>2, <2>1, <2>2, <2>3, <3>1
  <2>4. CASE i = p + 1
    <3>1. j = cursor_pos_ /\ ~ (j < cursor_pos_) /\ ~ (i <= p)
      BY <1>1, <2>0, <2>4
    <3> QED BY <2>1, <2>2, <2>4, <3>1
  <2>5. CASE i > p + 1
    <3>1. i - 1 \in 1 .. n /\ prompt_len_ + (i - 1) - 1 = j - 1 /\ ~ (j < cursor_pos_) /\ j # cursor_pos_
          /\ ~ (i <= p) /\ i # p + 1
      BY <1>1, <2>0, <2>5
    <3>2. Input[i - 1] = ibuf_[j - 1]
      <4> HIDE DEF j
      <4> QED BY <1>2, <3>1
    <3> QED BY <2>1, <2>2, <3>1, <3>2
  <2>6. p \in Int
    BY <1>1
  <2> QED BY <2>0, <2>3, <2>4, <2>5, <2>6
<1> HIDE DEF n
<1>9. s = t
  <2>1. Len(t) = Len(s) /\ Len(s) = n + 1
    BY <1>2, <1>3, <1>7
  <2> QED BY <1>3, <1>7, <1>8, <2>1, SeqEqual
<1> QED BY <1>9 DEF s, t, B, last

\* A character that is taken out of the buffer is taken out of the line.
LEMMA RemovedLine ==
  ASSUME EditInv, NEW k \in Columns, prompt_len_ <= k, k < s_len_
  PROVE  LineOf(Removed(k), prompt_len_, s_len_ - 1) = Without(Input, k - prompt_len_ + 1)
<1> DEFINE p == k - prompt_len_ + 1
           n == s_len_ - prompt_len_
           B == Removed(k)
           s == LineOf(B, prompt_len_, s_len_ - 1)
           t == Without(Input, p)
<1>1. /\ prompt_len_ \in Nat /\ s_len_ \in Nat /\ prompt_len_ <= s_len_ /\ k \in Nat
      /\ s_len_ < Cols /\ Cols \in Nat /\ \A x : x \in Columns <=> x \in Nat /\ x < Cols
  BY PlacesInLine
<1>2. /\ Input \in Seq(Chars) /\ Len(Input) = n
      /\ \A i \in 1 .. n : Input[i] = ibuf_[prompt_len_ + i - 1]
  BY InputIsLine
<1>3. /\ t \in Seq(Chars) /\ Len(t) = Len(Input) - 1
      /\ \A i \in 1 .. Len(Input) - 1 : t[i] = IF i < p THEN Input[i] ELSE Input[i + 1]
  <2>1. p \in 1 .. Len(Input)
    BY <1>1, <1>2
  <2> QED BY <1>2, <2>1, RemoveFromSequence
<1>4. /\ \A j \in Columns : j < s_len_ - 1 => B[j] = IF k <= j THEN ibuf_[j + 1] ELSE ibuf_[j]
      /\ \A j \in Columns : prompt_len_ <= j /\ j < s_len_ - 1 => B[j] \in Chars
  BY RemovedBuffer
<1> HIDE DEF B, t
<1>5. /\ s_len_ - 1 \in Nat /\ prompt_len_ <= s_len_ - 1 /\ s_len_ - 1 - prompt_len_ = n - 1 /\ n \in Nat
      /\ \A j \in prompt_len_ .. s_len_ - 1 - 1 : j \in Columns /\ prompt_len_ <= j /\ j < s_len_ - 1
  BY <1>1
<1>6. \A j \in prompt_len_ .. s_len_ - 1 - 1 : B[j] \in Chars
  BY <1>4, <1>5
<1>7. s \in Seq(Chars) /\ Len(s) = n - 1 /\ \A i \in 1 .. n - 1 : s[i] = B[prompt_len_ + i - 1]
  <2>1. /\ s \in Seq(Chars) /\ Len(s) = s_len_ - 1 - prompt_len_
        /\ \A i \in 1 .. s_len_ - 1 - prompt_len_ : s[i] = B[prompt_len_ + i - 1]
    <3>1. prompt_len_ \in Nat /\ s_len_ - 1 \in Nat /\ prompt_len_ <= s_len_ - 1
      BY <1>1, <1>5
    <3> QED BY ONLY <3>1, <1>6, LineInBuffer
  <2> HIDE DEF s, n
  <2> QED BY <1>5, <2>1
<1> HIDE DEF s
<1>8. ASSUME NEW i \in 1 .. n - 1 PROVE s[i] = t[i]
  <2> DEFINE j == prompt_len_ + i - 1
  <2>0. i \in Nat /\ i >= 1 /\ i <= n - 1 /\ j \in Nat /\ j < s_len_ - 1 /\ j < Cols /\ prompt_len_ <= j
    BY <1>1, <1>5
  <2>1. s[i] = IF k <= j THEN ibuf_[j + 1] ELSE ibuf_[j]
    BY <1>1, <1>4, <1>7, <2>0
  <2>2. t[i] = IF i < p THEN Input[i] ELSE Input[i + 1]
    BY <1>2, <1>3
  <2>3. CASE i < p
    <3>1. i \in 1 .. n /\ ~ (k <= j)
      BY <1>1, <2>0, <2>3
    <3> QED BY <1>2, <2>1, <2>2, <2>3, <3>1
  <2>4. CASE ~ (i < p)
    <3>1. i + 1 \in 1 .. n /\ prompt_len_ + (i + 1) - 1 = j + 1 /\ k <= j
      BY <1>1, <2>0, <2>4
    <3>2. Input[i + 1] = ibuf_[j + 1]
      <4> HIDE DEF j
      <4> QED BY <1>2, <3>1
    <3> QED BY <2>1, <2>2, <2>4, <3>1, <3>2
  <2> QED BY <2>3, <2>4
<1> HIDE DEF n
<1>9. s = t
  <2>1. Len(t) = Len(s) /\ Len(s) = n - 1
    BY <1>2, <1>3, <1>7
  <2> QED BY <1>3, <1>7, <1>8, <2>1, SeqEqual
<1> QED BY <1>9 DEF s, t, B

\* Each operation of the terminal does to the line what it is for, or nothing.
LEMMA PutCharacterEdits ==
  ASSUME TerminalInv, PutCharacter
  PROVE  [Editor!Next]_<<Input, cursor_pos_ - prompt_len_>>
<1>1. EditInv /\ UNCHANGED prompt_len_
  BY DEF TerminalInv, PutCharacter
<1>2. CASE IsFull
  <2>1. UNCHANGED <<ibuf_, s_len_, cursor_pos_, prompt_len_>>
    BY <1>2 DEF PutCharacter
  <2> QED BY <2>1 DEF Input
<1>3. CASE ~ IsFull
  <2>1. /\ cursor_pos_' = cursor_pos_ + 1 /\ s_len_' = s_len_ + 1
        /\ ibuf_' = Inserted(pending) /\ pending \in Chars
    BY <1>3, PutCharacterStep
  <2>2. Input' = LineOf(Inserted(pending), prompt_len_, s_len_ + 1)
    BY <1>1, <2>1 DEF Input, LineOf
  <2>3. Input' = With(Input, cursor_pos_ - prompt_len_, pending)
    BY <1>1, <1>3, <2>1, <2>2, InsertedLine
  <2>4. /\ cursor_pos_ \in Nat /\ prompt_len_ \in Nat /\ s_len_ \in Nat
        /\ Cols \in Nat /\ s_len_ < Cols /\ PromptLen \in Nat /\ PromptLen <= prompt_len_
    BY <1>1, PlacesInLine
  <2>5. (cursor_pos_ - prompt_len_)' = cursor_pos_ - prompt_len_ + 1
    BY <1>1, <2>1, <2>4
  <2>6. s_len_ - prompt_len_ < Cols - 1 - PromptLen
    BY <1>3, <2>4 DEF IsFull
  <2>7. Len(Input) < Cols - 1 - PromptLen
    BY <1>1, <2>6, InputIsLine
  <2>8. Editor!Insert(pending)
    BY <2>3, <2>5, <2>7 DEF Editor!Insert, Editor!Before, Editor!Behind, With
  <2> QED BY <2>1, <2>8 DEF Editor!Next
<1> QED BY <1>2, <1>3

LEMMA PutNewLineEdits ==
  ASSUME TerminalInv, PutNewLine
  PROVE  [Editor!Next]_<<Input, cursor_pos_ - prompt_len_>>
<1>1. TerminalInv' /\ prompt_len_' = s_len_' /\ cursor_pos_' = s_len_'
  BY PutNewLineTerminalStep
<1>2. s_len_' \in Nat
  BY <1>1, SizesOfScreen DEF TerminalInv, EditInv
<1>3. s_len_' - prompt_len_' = 0 /\ (cursor_pos_ - prompt_len_)' = 0
  <2>1. \A i \in Nat : i - i = 0
    OBVIOUS
  <2>2. s_len_' - s_len_' = 0
    BY <1>2, <2>1
  <2> QED BY <1>1, <2>2, Zenon
<1>4. Input' = <<>>
  BY <1>3 DEF Input
<1> QED BY <1>3, <1>4 DEF Editor!Next, Editor!Enter

LEMMA RemoveEdits ==
  ASSUME TerminalInv, NEW k \in Columns, prompt_len_ <= k, k < s_len_,
         ibuf_' = Removed(k), s_len_' = s_len_ - 1, UNCHANGED prompt_len_
  PROVE  Input' = Without(Input, k - prompt_len_ + 1)
<1>1. Input' = LineOf(Removed(k), prompt_len_, s_len_ - 1)
  BY DEF Input, LineOf
<1> QED BY <1>1, RemovedLine DEF TerminalInv

LEMMA HandleBackSpaceEdits ==
  ASSUME TerminalInv, HandleBackSpace, UNCHANGED prompt_len_
  PROVE  Editor!Backspace
<1> DEFINE p == cursor_pos_ - prompt_len_
<1>1. /\ cursor_pos_ \in Nat /\ prompt_len_ \in Nat /\ s_len_ \in Nat
      /\ prompt_len_ <= cursor_pos_ /\ cursor_pos_ <= s_len_
      /\ cursor_pos_ # prompt_len_ /\ cursor_pos_ - 1 \in Columns
      /\ cursor_pos_' = cursor_pos_ - 1
      /\ ibuf_' = Removed(cursor_pos_ - 1) /\ s_len_' = s_len_ - 1
  BY PlacesInLine DEF TerminalInv, HandleBackSpace
<1>2. prompt_len_ <= cursor_pos_ - 1 /\ cursor_pos_ - 1 < s_len_
  BY <1>1
<1>3. Input' = Without(Input, cursor_pos_ - 1 - prompt_len_ + 1)
  BY <1>1, <1>2, RemoveEdits
<1>4. cursor_pos_ - 1 - prompt_len_ + 1 = p /\ p > 0 /\ (cursor_pos_ - prompt_len_)' = p - 1
  BY <1>1
<1>5. Input' = Without(Input, p)
  BY <1>3, <1>4
<1> QED BY <1>4, <1>5 DEF Editor!Backspace, Editor!Behind, Without

LEMMA HandleDeleteEdits ==
  ASSUME TerminalInv, HandleDelete, UNCHANGED prompt_len_
  PROVE  Editor!Delete
<1> DEFINE p == cursor_pos_ - prompt_len_
           n == Len(Input)
           b == SubSeq(Input, p + 1, n)
           c == SubSeq(Input, p + 2, n)
<1>1. /\ cursor_pos_ \in Nat /\ prompt_len_ \in Nat /\ s_len_ \in Nat
      /\ prompt_len_ <= cursor_pos_ /\ cursor_pos_ <= s_len_
      /\ cursor_pos_ # s_len_ /\ cursor_pos_ \in Columns /\ cursor_pos_ < s_len_
      /\ cursor_pos_' = cursor_pos_
      /\ ibuf_' = Removed(cursor_pos_) /\ s_len_' = s_len_ - 1
  BY PlacesInLine DEF TerminalInv, HandleDelete
<1>2. Input' = Without(Input, p + 1)
  BY <1>1, RemoveEdits
<1>3. Input \in Seq(Chars) /\ n = s_len_ - prompt_len_
  BY InputIsLine DEF TerminalInv
<1>4. p \in Nat /\ p < n /\ n \in Nat /\ (cursor_pos_ - prompt_len_)' = p
  BY <1>1, <1>3
<1>5. Tail(b) = c
  <2>1. \A i \in 1 .. n : Input[i] \in Chars
    BY <1>3, ElementOfSeq
  <2> HIDE DEF n, p
  <2>2. /\ b \in Seq(Chars) /\ Len(b) = (IF p + 1 <= n THEN n - (p + 1) + 1 ELSE 0)
        /\ \A i \in 1 .. n - (p + 1) + 1 : b[i] = Input[p + 1 + i - 1]
    <3>1. p + 1 \in Int /\ n \in Int /\ \A i \in p + 1 .. n : Input[i] \in Chars
      BY <1>4, <2>1
    <3> QED BY <3>1, SubSeqProperties
  <2>3. /\ c \in Seq(Chars) /\ Len(c) = (IF p + 2 <= n THEN n - (p + 2) + 1 ELSE 0)
        /\ \A i \in 1 .. n - (p + 2) + 1 : c[i] = Input[p + 2 + i - 1]
    <3>1. p + 2 \in Int /\ n \in Int /\ \A i \in p + 2 .. n : Input[i] \in Chars
      BY <1>4, <2>1
    <3> QED BY <3>1, SubSeqProperties
  <2> HIDE DEF b, c
  <2>4. Len(b) = n - p /\ Len(c) = n - p - 1 /\ Len(b) # 0
    BY <1>4, <2>2, <2>3
  <2>5. b # <<>>
    BY <2>4
  <2> DEFINE t == Tail(b)
  <2>6. t \in Seq(Chars) /\ Len(t) = Len(b) - 1 /\ \A i \in 1 .. Len(t) : t[i] = b[i + 1]
    BY <2>2, <2>5, HeadTailProperties
  <2> HIDE DEF t
  <2>7. Len(t) = Len(c)
    BY <1>4, <2>4, <2>6
  <2>8. ASSUME NEW i \in 1 .. Len(t) PROVE t[i] = c[i]
    <3>1. /\ i \in 1 .. n - (p + 2) + 1 /\ i + 1 \in 1 .. n - (p + 1) + 1
          /\ p + 1 + (i + 1) - 1 = p + 2 + i - 1
      BY <1>4, <2>4, <2>7
    <3>2. t[i] = b[i + 1]
      BY <2>6
    <3> QED BY <2>2, <2>3, <3>1, <3>2
  <2>9. t = c
    BY <2>3, <2>6, <2>7, <2>8, SeqEqual
  <2> QED BY <2>9 DEF t
<1>6. (p + 1) - 1 = p /\ p + 1 + 1 = p + 2
  BY <1>4
<1>7. Input' = SubSeq(Input, 1, p) \o Tail(b)
  <2> HIDE DEF b, p
  <2>1. Input' = SubSeq(Input, 1, (p + 1) - 1) \o SubSeq(Input, (p + 1) + 1, Len(Input))
    BY ONLY <1>2 DEF Without
  <2> QED BY <1>5, <1>6, <2>1
<1> QED BY <1>4, <1>7 DEF Editor!Delete, Editor!Before, Editor!Behind

LEMMA OnKeyStrokeEdits ==
  ASSUME TerminalInv, NEW key \in Keys, NEW shift, OnKeyStroke(key, shift)
  PROVE  [Editor!Next]_<<Input, cursor_pos_ - prompt_len_>>
<1>1. /\ UNCHANGED <<prompt_len_, undisturbed>>
      /\ Edit(key) \/ UNCHANGED <<ibuf_, s_len_, cursor_pos_>>
  BY DEF OnKeyStroke
<1>2. /\ cursor_pos_ \in Nat /\ prompt_len_ \in Nat /\ s_len_ \in Nat /\ EditInv
  BY PlacesInLine DEF TerminalInv
<1>3. CASE UNCHANGED <<ibuf_, s_len_, cursor_pos_>>
  BY <1>1, <1>3 DEF Input
<1>4. CASE MoveCursor(key)
  <2>1. pending' \in Chars \cup {NoChar, NewLine}
    <3>1. pending' = Char(key, shift) /\ Char(key, shift) \in Chars \cup {NoChar, NewLine}
      BY DEF OnKeyStroke, Char, Chars
    <3> QED BY <3>1
  <2>2. cursor_pos_' = IF key = "right" THEN cursor_pos_ + 1 ELSE cursor_pos_ - 1
    BY <1>1, <1>4, <2>1, MoveCursorStep
  <2>3. /\ Input' = Input
        /\ \/ key = "right" /\ cursor_pos_ < s_len_
           \/ key = "left" /\ prompt_len_ < cursor_pos_
    BY <1>1, <1>4 DEF MoveCursor, Input
  <2>4. CASE key = "right" /\ cursor_pos_ < s_len_
    <3>1. cursor_pos_' = cursor_pos_ + 1 /\ Len(Input) = s_len_ - prompt_len_
      BY <1>2, <2>2, <2>4, InputIsLine
    <3>2. /\ (cursor_pos_ - prompt_len_)' = cursor_pos_ - prompt_len_ + 1
          /\ cursor_pos_ - prompt_len_ < s_len_ - prompt_len_
      BY <1>1, <1>2, <2>4, <3>1
    <3>3. Editor!Right
      BY <2>3, <3>1, <3>2 DEF Editor!Right
    <3> QED BY <3>3 DEF Editor!Next
  <2>5. CASE key = "left" /\ prompt_len_ < cursor_pos_
    <3>1. (cursor_pos_ - prompt_len_)' = cursor_pos_ - prompt_len_ - 1 /\ cursor_pos_ - prompt_len_ > 0
      BY <1>1, <1>2, <2>2, <2>5
    <3>2. Editor!Left
      BY <2>3, <3>1 DEF Editor!Left
    <3> QED BY <3>2 DEF Editor!Next
  <2> QED BY <2>3, <2>4, <2>5
<1>5. CASE HandleBackSpace
  BY <1>1, <1>5, HandleBackSpaceEdits DEF Editor!Next
<1>6. CASE HandleDelete
  BY <1>1, <1>6, HandleDeleteEdits DEF Editor!Next
<1> QED BY <1>1, <1>3, <1>4, <1>5, <1>6 DEF Edit

LEMMA CtrlEdits ==
  ASSUME TerminalInv, NEW key, ProcessKeyStrokeWithCtrl(key)
  PROVE  [Editor!Next]_<<Input, cursor_pos_ - prompt_len_>>
BY CtrlStep DEF Input

LEMMA TerminalStepEdits ==
  ASSUME TerminalInv, [TerminalNext]_terminalVars
  PROVE  [Editor!Next]_<<Input, cursor_pos_ - prompt_len_>>
<1>1. ASSUME NEW stroke \in Strokes, OnKeyStroke(stroke[1], stroke[2])
      PROVE  [Editor!Next]_<<Input, cursor_pos_ - prompt_len_>>
  <2>1. stroke[1] \in Keys
    BY TerminalAssumption
  <2> QED BY <1>1, <2>1, OnKeyStrokeEdits
<1>2. ASSUME NEW key \in Keys, ProcessKeyStrokeWithCtrl(key)
      PROVE  [Editor!Next]_<<Input, cursor_pos_ - prompt_len_>>
  BY <1>2, CtrlEdits
<1>3. CASE UNCHANGED terminalVars
  BY <1>3 DEF terminalVars, Input
<1>4. CASE PutCharacter
  BY <1>4, PutCharacterEdits
<1>5. CASE PutNewLine
  BY <1>5, PutNewLineEdits
<1> QED BY <1>1, <1>2, <1>3, <1>4, <1>5 DEF TerminalNext

LEMMA TerminalInitEdits ==
  ASSUME TerminalInit
  PROVE  Editor!Init
<1>1. TerminalInv /\ s_len_ = prompt_len_ /\ cursor_pos_ = prompt_len_
  BY InitTerminalInv
<1>2. prompt_len_ \in Nat
  BY <1>1, PlacesInLine DEF TerminalInv
<1>3. s_len_ - prompt_len_ = 0 /\ cursor_pos_ - prompt_len_ = 0
  BY <1>1, <1>2
<1>4. Input = <<>>
  BY <1>3 DEF Input
<1> QED BY <1>3, <1>4 DEF Editor!Init

\* The buffer, its length and the two positions in it implement the editing of a line: a key
\* inserts or removes one character where the cursor is, moves the cursor, ends the line, or
\* does nothing, whatever is redrawn or scrolled meanwhile (terminal.cpp:75-199).
THEOREM TerminalEditsLine == TerminalSpec => ImplementsLineEditor
<1>1. TerminalInit => Editor!Init
  BY TerminalInitEdits
<1>2. TerminalInv /\ [TerminalNext]_terminalVars => [Editor!Next]_<<Input, cursor_pos_ - prompt_len_>>
  BY TerminalStepEdits
<1> QED BY <1>1, <1>2, TerminalInvAlways, PTL DEF TerminalSpec, ImplementsLineEditor, Editor!Spec

=============================================================================
