------------------------- MODULE TaskManagerProofs -------------------------
(***************************************************************************)
(* Proofs about TaskManager for every number of levels and tasks and every *)
(* set of messages: type correctness, the agreement of flags, levels and   *)
(* queues, the current task, the saved contexts, and no lost wakeup.  The  *)
(* lemmas before them are about naturals and about what the operations on  *)
(* a run queue return; induction is done on sets, with the                 *)
(* well-foundedness of < on Nat.                                           *)
(***************************************************************************)
EXTENDS TaskManager, NaturalsInduction, WellFoundedInduction, SequenceTheorems, TLAPS

-----------------------------------------------------------------------------
(* Naturals and run queues.                                                *)

\* Induction on the naturals, for a set in the place of a predicate.
LEMMA NatSetInduction ==
  ASSUME NEW S, S \subseteq Nat, 0 \in S, \A n \in S : n + 1 \in S
  PROVE  S = Nat
<1> DEFINE T == Nat \ S
<1> SUFFICES ASSUME T # {} PROVE FALSE
  OBVIOUS
<1>1. PICK x \in T : \A y \in T : ~ (<<y, x>> \in OpToRel(<, Nat))
  <2> T \subseteq Nat
    OBVIOUS
  <2> QED BY NatLessThanWellFounded, WFMin
<1>2. x \in Nat /\ x # 0
  OBVIOUS
<1>3. x - 1 \in T
  OBVIOUS
<1>4. <<x - 1, x>> \in OpToRel(<, Nat)
  BY <1>2 DEF OpToRel
<1> QED BY <1>1, <1>3, <1>4

LEMMA LeastElement ==
  ASSUME NEW T, T \subseteq Nat, T # {}
  PROVE  \E x \in T : \A y \in T : x <= y
<1>1. PICK x \in T : \A y \in T : ~ (<<y, x>> \in OpToRel(<, Nat))
  BY NatLessThanWellFounded, WFMin
<1>2. \A y \in T : ~ (y < x)
  BY <1>1 DEF OpToRel
<1> QED BY <1>2

LEMMA GreatestElement ==
  ASSUME NEW N \in Nat, NEW T, T \subseteq 0 .. N, T # {}
  PROVE  \E x \in T : \A y \in T : y <= x
<1> DEFINE R == {n \in Nat : N - n \in T}
<1>1. R # {}
  <2>1. PICK y \in T : TRUE
    OBVIOUS
  <2>2. N - y \in Nat /\ N - (N - y) = y
    OBVIOUS
  <2> QED BY <2>1, <2>2
<1>2. PICK r \in R : \A y \in R : r <= y
  BY <1>1, LeastElement
<1>3. \A y \in T : N - y \in R
  OBVIOUS
<1>4. \A y \in T : r <= N - y
  BY <1>2, <1>3
<1>5. r \in Nat /\ N - r \in T /\ \A y \in T : y \in Nat
  OBVIOUS
<1>6. \A y \in T : y <= N - r
  BY <1>4, <1>5
<1> QED BY <1>5, <1>6

NoDuplicates(s) == \A i, j \in DOMAIN s : s[i] = s[j] => i = j

Occurs(x, s) == \E i \in DOMAIN s : s[i] = x

LEMMA AppendOccurs ==
  ASSUME NEW T, NEW s \in Seq(T), NEW e \in T
  PROVE  /\ Append(s, e) \in Seq(T)
         /\ \A x : Occurs(x, Append(s, e)) <=> Occurs(x, s) \/ x = e
         /\ NoDuplicates(s) /\ ~ Occurs(e, s) => NoDuplicates(Append(s, e))
<1> DEFINE r == Append(s, e)
<1>1. /\ r \in Seq(T) /\ Len(r) = Len(s) + 1 /\ Len(s) \in Nat
      /\ DOMAIN r = 1 .. Len(s) + 1 /\ DOMAIN s = 1 .. Len(s)
      /\ \A j \in 1 .. Len(s) : r[j] = s[j]
      /\ r[Len(s) + 1] = e
  BY AppendProperties
<1> HIDE DEF r
<1>2. \A x : Occurs(x, r) <=> Occurs(x, s) \/ x = e
  BY <1>1 DEF Occurs
<1>3. NoDuplicates(s) /\ ~ Occurs(e, s) => NoDuplicates(r)
  BY <1>1 DEF NoDuplicates, Occurs
<1> QED BY <1>1, <1>2, <1>3 DEF r

LEMMA TailOccurs ==
  ASSUME NEW T, NEW s \in Seq(T), s # <<>>, NoDuplicates(s)
  PROVE  /\ Tail(s) \in Seq(T) /\ Head(s) \in T /\ Occurs(Head(s), s)
         /\ \A x : Occurs(x, Tail(s)) <=> Occurs(x, s) /\ x # Head(s)
         /\ NoDuplicates(Tail(s))
<1> DEFINE r == Tail(s)
<1>1. /\ Len(s) \in Nat /\ Len(s) > 0 /\ DOMAIN s = 1 .. Len(s)
      /\ \A i \in 1 .. Len(s) : s[i] \in T
      /\ Head(s) = s[1]
      /\ r \in Seq(T) /\ Len(r) = Len(s) - 1 /\ DOMAIN r = 1 .. Len(s) - 1
      /\ \A i \in 1 .. Len(s) - 1 : r[i] = s[i + 1]
  OBVIOUS
<1> HIDE DEF r
<1>2. ASSUME NEW x, Occurs(x, r) PROVE Occurs(x, s) /\ x # Head(s)
  <2>1. PICK i \in 1 .. Len(s) - 1 : r[i] = x
    BY <1>1, <1>2 DEF Occurs
  <2>2. i + 1 \in DOMAIN s /\ 1 \in DOMAIN s /\ i + 1 # 1 /\ s[i + 1] = x
    BY <1>1, <2>1
  <2>3. s[i + 1] # s[1]
    BY <2>2 DEF NoDuplicates
  <2> QED  BY <1>1, <2>2, <2>3 DEF Occurs
<1>3. ASSUME NEW x, Occurs(x, s), x # Head(s) PROVE Occurs(x, r)
  <2>1. PICK i \in DOMAIN s : s[i] = x
    BY <1>3 DEF Occurs
  <2>2. i - 1 \in DOMAIN r /\ r[i - 1] = x
    BY <2>1, <1>1, <1>3
  <2> QED BY <2>2 DEF Occurs
<1>4. NoDuplicates(r)
  <2>1. ASSUME NEW i \in 1 .. Len(s) - 1, NEW j \in 1 .. Len(s) - 1, i # j
        PROVE  r[i] # r[j]
    <3>1. i + 1 \in DOMAIN s /\ j + 1 \in DOMAIN s /\ i + 1 # j + 1
      BY <1>1, <2>1
    <3>2. s[i + 1] # s[j + 1]
      BY <3>1 DEF NoDuplicates
    <3> QED  BY <1>1, <3>2
  <2> QED  BY <1>1, <2>1 DEF NoDuplicates
<1>5. Occurs(Head(s), s)
  BY <1>1 DEF Occurs
<1> QED BY <1>1, <1>2, <1>3, <1>4, <1>5 DEF r

LEMMA ConsOccurs ==
  ASSUME NEW T, NEW s \in Seq(T), NEW e \in T
  PROVE  /\ <<e>> \o s \in Seq(T) /\ <<e>> \o s # <<>> /\ Head(<<e>> \o s) = e
         /\ \A x : Occurs(x, <<e>> \o s) <=> Occurs(x, s) \/ x = e
         /\ NoDuplicates(s) /\ ~ Occurs(e, s) => NoDuplicates(<<e>> \o s)
<1> DEFINE r == <<e>> \o s
<1>1. /\ Len(s) \in Nat /\ DOMAIN s = 1 .. Len(s)
      /\ r \in Seq(T) /\ Len(r) = Len(s) + 1 /\ DOMAIN r = 1 .. Len(s) + 1
      /\ r[1] = e /\ Head(r) = e /\ r # <<>>
      /\ \A i \in 1 .. Len(s) : r[i + 1] = s[i]
  OBVIOUS
<1> HIDE DEF r
<1>2. ASSUME NEW x, Occurs(x, r) PROVE Occurs(x, s) \/ x = e
  <2>1. PICK i \in DOMAIN r : r[i] = x
    BY <1>2 DEF Occurs
  <2>2. i # 1 => i - 1 \in DOMAIN s /\ s[i - 1] = x
    BY <2>1, <1>1
  <2> QED BY <2>1, <2>2, <1>1 DEF Occurs
<1>3. ASSUME NEW x, Occurs(x, s) \/ x = e PROVE Occurs(x, r)
  <2>1. CASE x = e
    BY <1>1, <2>1 DEF Occurs
  <2>2. CASE Occurs(x, s)
    <3>1. PICK i \in DOMAIN s : s[i] = x
      BY <2>2 DEF Occurs
    <3>2. i + 1 \in DOMAIN r /\ r[i + 1] = x
      BY <3>1, <1>1
    <3> QED BY <3>2 DEF Occurs
  <2> QED BY <1>3, <2>1, <2>2
<1>4. ASSUME NoDuplicates(s), ~ Occurs(e, s) PROVE NoDuplicates(r)
  <2> SUFFICES ASSUME NEW i \in DOMAIN r, NEW j \in DOMAIN r, r[i] = r[j] PROVE i = j
    BY DEF NoDuplicates
  <2>1. i # 1 => i - 1 \in DOMAIN s /\ s[i - 1] = r[i]
    BY <1>1
  <2>2. j # 1 => j - 1 \in DOMAIN s /\ s[j - 1] = r[j]
    BY <1>1
  <2> QED BY <2>1, <2>2, <1>1, <1>4 DEF NoDuplicates, Occurs
<1> QED BY <1>1, <1>2, <1>3, <1>4 DEF r

LEMMA EmptyOccurs ==
  ASSUME NEW T, NEW s \in Seq(T)
  PROVE  s = <<>> <=> ~ \E x : Occurs(x, s)
<1>1. DOMAIN s = 1 .. Len(s) /\ Len(s) \in Nat
  OBVIOUS
<1>2. ASSUME s # <<>> PROVE Occurs(s[1], s)
  BY <1>1, <1>2 DEF Occurs
<1> QED BY <1>1, <1>2 DEF Occurs

\* The recursion in Erase, for a function f that is known on 0 .. i - 1.
KeptStep(q, t, f, i) ==
  IF i = 0 THEN <<>> ELSE IF q[i] = t THEN f[i - 1] ELSE Append(f[i - 1], q[i])

IsKept(T, q, t, f, n) ==
  /\ f \in [0 .. n -> Seq(T)]
  /\ \A i \in 0 .. n : f[i] = KeptStep(q, t, f, i)

\* The recursion in Erase has a solution on every prefix of the queue.
LEMMA KeptExists ==
  ASSUME NEW T, NEW q \in Seq(T), NEW t
  PROVE  \E f : IsKept(T, q, t, f, Len(q))
<1> DEFINE Has == {n \in Nat : n <= Len(q) => \E f : IsKept(T, q, t, f, n)}
<1>1. 0 \in Has
  <2>1. IsKept(T, q, t, [i \in 0 .. 0 |-> <<>>], 0)
    BY DEF IsKept, KeptStep
  <2> QED BY <2>1
<1>2. ASSUME NEW n \in Has PROVE n + 1 \in Has
  <2> SUFFICES ASSUME n + 1 <= Len(q) PROVE \E f : IsKept(T, q, t, f, n + 1)
    OBVIOUS
  <2>0. n \in Nat /\ n <= Len(q) /\ Len(q) \in Nat
    OBVIOUS
  <2>1. PICK f : IsKept(T, q, t, f, n)
    BY <2>0
  <2> DEFINE v == KeptStep(q, t, f, n + 1)
             g == [i \in 0 .. n + 1 |-> IF i = n + 1 THEN v ELSE f[i]]
  <2>2. q[n + 1] \in T /\ f[n] \in Seq(T)
    BY <2>0, <2>1 DEF IsKept
  <2>3. v \in Seq(T)
    BY <2>0, <2>2, AppendProperties DEF KeptStep
  <2> HIDE DEF v
  <2>4. g \in [0 .. n + 1 -> Seq(T)]
    BY <2>0, <2>1, <2>3 DEF IsKept
  <2>5. ASSUME NEW i \in 0 .. n + 1 PROVE g[i] = KeptStep(q, t, g, i)
    <3>1. i # 0 => g[i - 1] = f[i - 1]
      BY <2>0
    <3>2. KeptStep(q, t, g, i) = KeptStep(q, t, f, i)
      BY <3>1 DEF KeptStep
    <3>3. CASE i = n + 1
      BY <3>2, <3>3 DEF v
    <3>4. CASE i # n + 1
      <4>1. i \in 0 .. n
        BY <3>4, <2>0
      <4> QED BY <4>1, <3>2, <3>4, <2>1 DEF IsKept
    <3> QED BY <3>3, <3>4
  <2>6. IsKept(T, q, t, g, n + 1)
    BY <2>4, <2>5 DEF IsKept
  <2> QED BY <2>6
<1>3. Has \subseteq Nat
  OBVIOUS
<1> HIDE DEF Has
<1>4. Has = Nat
  BY <1>1, <1>2, <1>3, NatSetInduction
<1>5. Len(q) \in Nat
  OBVIOUS
<1> QED BY <1>4, <1>5 DEF Has

\* What a solution of the recursion has at position i.
KeptGood(T, q, t, f, i) ==
  /\ f[i] \in Seq(T)
  /\ \A x : Occurs(x, f[i]) <=> \E j \in 1 .. i : q[j] = x /\ x # t
  /\ NoDuplicates(q) => NoDuplicates(f[i])
  /\ i > 0 /\ q[1] # t => f[i] # <<>> /\ Head(f[i]) = q[1]

LEMMA KeptProperties ==
  ASSUME NEW T, NEW q \in Seq(T), NEW t, NEW f, IsKept(T, q, t, f, Len(q))
  PROVE  KeptGood(T, q, t, f, Len(q))
<1> DEFINE Good == {i \in Nat : i <= Len(q) => KeptGood(T, q, t, f, i)}
<1>1. 0 \in Good
  <2>1. f[0] = <<>>
    BY DEF IsKept, KeptStep
  <2>2. ~ \E j \in 1 .. 0 : TRUE
    OBVIOUS
  <2>3. DOMAIN <<>> = {}
    OBVIOUS
  <2>4. KeptGood(T, q, t, f, 0)
    BY <2>1, <2>2, <2>3 DEF KeptGood, Occurs, NoDuplicates
  <2> QED BY <2>4
<1>2. ASSUME NEW i \in Good PROVE i + 1 \in Good
  <2> SUFFICES ASSUME i + 1 <= Len(q) PROVE KeptGood(T, q, t, f, i + 1)
    OBVIOUS
  <2>0. i \in Nat /\ i <= Len(q) /\ Len(q) \in Nat /\ q[i + 1] \in T
    OBVIOUS
  <2>1. KeptGood(T, q, t, f, i)
    BY <2>0
  <2>2. f[i + 1] = IF q[i + 1] = t THEN f[i] ELSE Append(f[i], q[i + 1])
    <3>1. i + 1 \in 0 .. Len(q) /\ i + 1 # 0 /\ (i + 1) - 1 = i
      BY <2>0
    <3>2. f[i + 1] = KeptStep(q, t, f, i + 1)
      BY <3>1 DEF IsKept
    <3> QED BY <3>1, <3>2 DEF KeptStep
  <2>3. \A x : (\E j \in 1 .. i + 1 : q[j] = x /\ x # t)
               <=> (\E j \in 1 .. i : q[j] = x /\ x # t) \/ (x = q[i + 1] /\ x # t)
    BY <2>0
  <2>4. CASE q[i + 1] = t
    BY <2>1, <2>2, <2>3, <2>4 DEF KeptGood
  <2>5. CASE q[i + 1] # t
    <3>1. f[i + 1] = Append(f[i], q[i + 1])
      BY <2>2, <2>5
    <3>2. f[i + 1] \in Seq(T)
      BY <2>0, <2>1, <3>1, AppendOccurs DEF KeptGood
    <3>3. \A x : Occurs(x, f[i + 1]) <=> \E j \in 1 .. i + 1 : q[j] = x /\ x # t
      <4>1. \A x : Occurs(x, f[i + 1]) <=> Occurs(x, f[i]) \/ x = q[i + 1]
        BY <2>0, <2>1, <3>1, AppendOccurs DEF KeptGood
      <4> QED BY <4>1, <2>1, <2>3, <2>5 DEF KeptGood
    <3>4. NoDuplicates(q) => NoDuplicates(f[i + 1])
      <4> SUFFICES ASSUME NoDuplicates(q) PROVE NoDuplicates(f[i + 1])
        OBVIOUS
      <4>1. ~ \E j \in 1 .. i : q[j] = q[i + 1]
        BY <2>0 DEF NoDuplicates
      <4>2. ~ Occurs(q[i + 1], f[i])
        BY <4>1, <2>1 DEF KeptGood
      <4> QED BY <4>2, <2>0, <2>1, <3>1, AppendOccurs DEF KeptGood
    <3>5. ASSUME q[1] # t PROVE f[i + 1] # <<>> /\ Head(f[i + 1]) = q[1]
      <4>1. f[i] \in Seq(T)
        BY <2>1 DEF KeptGood
      <4>2. CASE i = 0
        <5>1. f[i] = <<>>
          BY <4>1, <4>2, <2>1, EmptyOccurs DEF KeptGood
        <5> QED BY <3>1, <4>2, <5>1
      <4>3. CASE i > 0
        <5>1. f[i] # <<>> /\ Head(f[i]) = q[1]
          BY <3>5, <4>3, <2>1 DEF KeptGood
        <5> QED BY <3>1, <4>1, <5>1, <2>0, HeadTailAppend, AppendProperties
      <4> QED BY <2>0, <4>2, <4>3
    <3> QED BY <2>0, <3>2, <3>3, <3>4, <3>5 DEF KeptGood
  <2> QED BY <2>4, <2>5
<1>3. Good \subseteq Nat
  OBVIOUS
<1> HIDE DEF Good
<1>4. Good = Nat
  BY <1>1, <1>2, <1>3, NatSetInduction
<1>5. Len(q) \in Nat
  OBVIOUS
<1> QED BY <1>4, <1>5 DEF Good

\* Erase returns a sequence with the elements of the queue other than t, and
\* does not introduce a second copy of any of them; an element that is not t
\* stays at the front.
LEMMA EraseProperties ==
  ASSUME NEW T, NEW q \in Seq(T), NEW t
  PROVE  /\ Erase(q, t) \in Seq(T)
         /\ \A x : Occurs(x, Erase(q, t)) <=> Occurs(x, q) /\ x # t
         /\ NoDuplicates(q) => NoDuplicates(Erase(q, t))
         /\ q # <<>> /\ Head(q) # t => /\ Erase(q, t) # <<>>
                                      /\ Head(Erase(q, t)) = Head(q)
<1> DEFINE Solves(f) ==
             f = [i \in 0 .. Len(q) |->
                    IF i = 0 THEN <<>>
                    ELSE IF q[i] = t THEN f[i - 1] ELSE Append(f[i - 1], q[i])]
           kept == CHOOSE f : Solves(f)
<1>1. PICK f : IsKept(T, q, t, f, Len(q))
  BY KeptExists
<1>2. Solves(f)
  BY <1>1 DEF IsKept, KeptStep
<1>3. Solves(kept)
  BY <1>2
<1>4. Erase(q, t) = kept[Len(q)]
  BY DEF Erase
<1> HIDE DEF kept
<1>8. \A i \in 0 .. Len(q) :
        f[i] = KeptStep(q, t, f, i) /\ kept[i] = KeptStep(q, t, kept, i)
  BY <1>2, <1>3 DEF KeptStep
<1>5. kept = f
  <2> DEFINE Same == {n \in Nat : n <= Len(q) => kept[n] = f[n]}
  <2>1. 0 \in Same
    BY <1>2, <1>3
  <2>2. ASSUME NEW n \in Same PROVE n + 1 \in Same
    <3> SUFFICES ASSUME n + 1 <= Len(q) PROVE kept[n + 1] = f[n + 1]
      OBVIOUS
    <3>1. n \in Nat /\ n + 1 \in 0 .. Len(q) /\ n + 1 # 0 /\ (n + 1) - 1 = n
      OBVIOUS
    <3>2. kept[n] = f[n]
      BY <3>1
    <3>3. KeptStep(q, t, f, n + 1) = KeptStep(q, t, kept, n + 1)
      BY <3>1, <3>2 DEF KeptStep
    <3> QED BY <1>8, <3>1, <3>3
  <2>3. Same \subseteq Nat
    OBVIOUS
  <2> HIDE DEF Same
  <2>4. Same = Nat
    BY <2>1, <2>2, <2>3, NatSetInduction
  <2>5. \A n \in 0 .. Len(q) : kept[n] = f[n]
    BY <2>4 DEF Same
  <2> QED BY <1>2, <1>3, <2>5
<1>6. KeptGood(T, q, t, f, Len(q))
  BY <1>1, KeptProperties
<1>7. \A x : Occurs(x, q) /\ x # t <=> \E j \in 1 .. Len(q) : q[j] = x /\ x # t
  BY DEF Occurs
<1>9. q # <<>> => Len(q) > 0 /\ Head(q) = q[1]
  OBVIOUS
<1> QED BY <1>4, <1>5, <1>6, <1>7, <1>9 DEF KeptGood

-----------------------------------------------------------------------------
(* The inductive invariant.                                                *)

USE TaskManagerAssumption

\* RunQueuesMatchTasks in terms of membership, with no copy anywhere.
QueueInv ==
  \A l \in Levels :
    /\ NoDuplicates(running_[l])
    /\ \A t \in Tasks : Occurs(t, running_[l]) <=> awake[t] /\ level_[t] = l

\* The idle task is always ready: RotateCurrentRunQueue always finds a queue.
IdleIsReady == awake[Idle]

\* The conjuncts depend on each other: the front of a queue is an awake task only
\* because queues match tasks, and Sleep of the current task finds another one
\* only because the idle task is ready.
IInv ==
  /\ TypeOK
  /\ QueueInv
  /\ IdleIsReady
  /\ ExecutesCurrentTask
  /\ ContextsResumeTheirTask
  /\ NoLostWakeup

-----------------------------------------------------------------------------
LEMMA Constants1 ==
  /\ Main \in Tasks /\ Idle \in Tasks /\ Main # Idle
  /\ 0 \in Levels /\ DefaultLevel \in Levels /\ MaxLevel \in Levels /\ MaxLevel # 0
  /\ NoContext \notin Tasks
  /\ Levels \subseteq Nat
BY DEF Tasks, Levels, Main, Idle, DefaultLevel, NoContext

\* RotateCurrentRunQueue finds the highest level whose queue is not empty.
LEMMA HighestLevelProperties ==
  ASSUME NEW queues, NEW k \in Levels, queues[k] # <<>>
  PROVE  /\ HighestLevel(queues) \in Levels
         /\ queues[HighestLevel(queues)] # <<>>
         /\ \A l \in Levels : queues[l] # <<>> => l <= HighestLevel(queues)
<1> DEFINE T == {l \in Levels : queues[l] # <<>>}
<1>1. \E x \in T : \A y \in T : y <= x
  <2>1. T \subseteq 0 .. MaxLevel /\ T # {} /\ MaxLevel \in Nat
    BY DEF Levels
  <2> HIDE DEF T
  <2> QED BY <2>1, GreatestElement
<1> QED BY <1>1 DEF HighestLevel

LEMMA InitIInv == Init => IInv
<1> SUFFICES ASSUME Init PROVE IInv
  OBVIOUS
<1> USE Constants1
<1>1. TypeOK
  <2>1. awake \in [Tasks -> BOOLEAN]
    BY DEF Init
  <2>2. level_ \in [Tasks -> Levels]
    BY DEF Init
  <2>3. running_ \in [Levels -> Seq(Tasks)]
    BY DEF Init
  <2> QED BY <2>1, <2>2, <2>3 DEF Init, TypeOK
<1>2. QueueInv
  <2> SUFFICES ASSUME NEW l \in Levels
               PROVE  /\ NoDuplicates(running_[l])
                      /\ \A t \in Tasks :
                           Occurs(t, running_[l]) <=> awake[t] /\ level_[t] = l
    BY DEF QueueInv
  <2>1. running_[l] = CASE l = MaxLevel -> <<Main>> [] l = 0 -> <<Idle>> [] OTHER -> <<>>
    BY DEF Init
  <2>2. \A t \in Tasks : awake[t] <=> t \in {Main, Idle}
    BY DEF Init
  <2>3. level_[Main] = MaxLevel /\ level_[Idle] = 0
    BY DEF Init
  <2>4. CASE l = MaxLevel
    BY <2>1, <2>2, <2>3, <2>4 DEF NoDuplicates, Occurs
  <2>5. CASE l = 0
    BY <2>1, <2>2, <2>3, <2>5 DEF NoDuplicates, Occurs
  <2>6. CASE l # 0 /\ l # MaxLevel
    <3>1. running_[l] = <<>>
      BY <2>1, <2>6
    <3> QED BY <3>1, <2>2, <2>3, <2>6 DEF NoDuplicates, Occurs
  <2> QED BY <2>4, <2>5, <2>6
<1>3. IdleIsReady
  BY DEF Init, IdleIsReady
<1>4. ExecutesCurrentTask
  BY DEF Init, ExecutesCurrentTask, CurrentTask
<1>5. ContextsResumeTheirTask
  BY DEF Init, ContextsResumeTheirTask
<1>6. NoLostWakeup
  BY DEF Init, NoLostWakeup
<1> QED BY <1>1, <1>2, <1>3, <1>4, <1>5, <1>6 DEF IInv

-----------------------------------------------------------------------------
\* The current task is awake, and its level is that of its queue.
LEMMA CurrentTaskFacts ==
  ASSUME IInv
  PROVE  /\ cpu = CurrentTask /\ cpu \in Tasks
         /\ current_level_ \in Levels
         /\ running_[current_level_] \in Seq(Tasks) /\ running_[current_level_] # <<>>
         /\ awake[cpu] /\ level_[cpu] = current_level_
<1>1. Occurs(CurrentTask, running_[current_level_])
  BY TailOccurs DEF IInv, TypeOK, QueueInv, ExecutesCurrentTask, CurrentTask
<1> QED BY <1>1 DEF IInv, TypeOK, QueueInv, ExecutesCurrentTask, CurrentTask

\* What a rotation leaves in the queues: the task at the front is gone from its
\* queue (it sleeps) or is at its back.
LEMMA RotatedQueues ==
  ASSUME IInv, NEW sleep \in BOOLEAN
  PROVE  /\ Rotated(sleep) \in [Levels -> Seq(Tasks)]
         /\ \A l \in Levels :
              /\ NoDuplicates(Rotated(sleep)[l])
              /\ \A t \in Tasks :
                   Occurs(t, Rotated(sleep)[l])
                     <=> awake[t] /\ level_[t] = l /\ ~ (sleep /\ t = cpu)
<1> DEFINE q == running_[current_level_]
           n == IF sleep THEN Tail(q) ELSE Append(Tail(q), Head(q))
<1>1. /\ q \in Seq(Tasks) /\ q # <<>> /\ NoDuplicates(q) /\ cpu = Head(q)
      /\ current_level_ \in Levels /\ running_ \in [Levels -> Seq(Tasks)]
      /\ awake[cpu] /\ level_[cpu] = current_level_ /\ cpu \in Tasks
  BY CurrentTaskFacts DEF IInv, QueueInv, TypeOK, CurrentTask
<1>2. Rotated(sleep) = [running_ EXCEPT ![current_level_] = n]
  BY DEF Rotated
<1> HIDE DEF q
<1>3. /\ Tail(q) \in Seq(Tasks) /\ NoDuplicates(Tail(q))
      /\ \A x : Occurs(x, Tail(q)) <=> Occurs(x, q) /\ x # cpu
      /\ Occurs(cpu, q)
  BY <1>1, TailOccurs
<1>4. /\ n \in Seq(Tasks) /\ NoDuplicates(n)
      /\ \A x : Occurs(x, n) <=> Occurs(x, q) /\ ~ (sleep /\ x = cpu)
  <2>1. CASE sleep
    BY <2>1, <1>3
  <2>2. CASE ~ sleep
    <3>1. n = Append(Tail(q), cpu)
      BY <2>2, <1>1
    <3> DEFINE tl == Tail(q)
               a == Append(tl, cpu)
    <3>2. /\ tl \in Seq(Tasks) /\ cpu \in Tasks /\ NoDuplicates(tl)
          /\ \A x : Occurs(x, tl) <=> Occurs(x, q) /\ x # cpu
      BY <1>1, <1>3
    <3>3. n = a
      BY <3>1
    <3> HIDE DEF tl, n
    <3>4. ~ Occurs(cpu, tl)
      BY <3>2
    <3>5. a \in Seq(Tasks) /\ NoDuplicates(a)
      BY <3>2, <3>4, AppendOccurs
    <3>6. \A x : Occurs(x, a) <=> Occurs(x, tl) \/ x = cpu
      BY <3>2, AppendOccurs
    <3> HIDE DEF a
    <3>7. \A x : Occurs(x, a) <=> Occurs(x, q)
      BY <3>2, <3>6, <1>3
    <3> QED BY <2>2, <3>3, <3>5, <3>7
  <2> QED BY <2>1, <2>2
<1> HIDE DEF n
<1>5. Rotated(sleep) \in [Levels -> Seq(Tasks)]
  BY <1>1, <1>2, <1>4
<1>6. ASSUME NEW l \in Levels
      PROVE  /\ NoDuplicates(Rotated(sleep)[l])
             /\ \A t \in Tasks :
                  Occurs(t, Rotated(sleep)[l])
                    <=> awake[t] /\ level_[t] = l /\ ~ (sleep /\ t = cpu)
  <2>1. CASE l = current_level_
    <3>1. Rotated(sleep)[l] = n
      BY <1>1, <1>2, <2>1
    <3>2. \A t \in Tasks : Occurs(t, q) <=> awake[t] /\ level_[t] = l
      BY <2>1 DEF IInv, QueueInv, q
    <3> QED BY <3>1, <3>2, <1>4
  <2>2. CASE l # current_level_
    <3>1. Rotated(sleep)[l] = running_[l]
      BY <1>1, <1>2, <2>2
    <3>2. \A t \in Tasks : ~ (t = cpu /\ level_[t] = l)
      BY <1>1, <2>2
    <3> QED BY <3>1, <3>2 DEF IInv, QueueInv
  <2> QED BY <2>1, <2>2
<1> QED BY <1>5, <1>6

\* After a rotation the current task is a ready one, of the highest ready level.
LEMMA RotationFindsTask ==
  ASSUME IInv, NEW sleep \in BOOLEAN, RotateCurrentRunQueue(sleep),
         sleep => cpu # Idle
  PROVE  /\ running_' \in [Levels -> Seq(Tasks)]
         /\ current_level_' \in Levels
         /\ running_'[current_level_'] # <<>>
         /\ CurrentTask' \in Tasks
         /\ awake[CurrentTask'] /\ ~ (sleep /\ CurrentTask' = cpu)
         /\ level_[CurrentTask'] = current_level_'
         /\ \A t \in Tasks : awake[t] /\ ~ (sleep /\ t = cpu) => level_[t] <= current_level_'
<1> DEFINE r == Rotated(sleep)
<1>1. running_' = r /\ current_level_' = HighestLevel(r)
  BY DEF RotateCurrentRunQueue
<1>2. r \in [Levels -> Seq(Tasks)]
  BY RotatedQueues
<1>3. \A l \in Levels : r[l] # <<>> <=> \E x : Occurs(x, r[l])
  BY <1>2, EmptyOccurs
<1>4. \A l \in Levels, t \in Tasks :
        Occurs(t, r[l]) <=> awake[t] /\ level_[t] = l /\ ~ (sleep /\ t = cpu)
  BY RotatedQueues
<1>5. level_ \in [Tasks -> Levels] /\ awake[Idle] /\ Idle \in Tasks
  BY Constants1 DEF IInv, TypeOK, IdleIsReady
<1> HIDE DEF r
<1>6. r[level_[Idle]] # <<>>
  BY <1>3, <1>4, <1>5
<1>7. /\ HighestLevel(r) \in Levels
      /\ r[HighestLevel(r)] # <<>>
      /\ \A l \in Levels : r[l] # <<>> => l <= HighestLevel(r)
  BY <1>5, <1>6, HighestLevelProperties
<1>8. CurrentTask' = Head(r[HighestLevel(r)])
  BY <1>1 DEF CurrentTask
<1>9. NoDuplicates(r[HighestLevel(r)])
  BY <1>7, RotatedQueues DEF r
<1>10. CurrentTask' \in Tasks /\ Occurs(CurrentTask', r[HighestLevel(r)])
  BY <1>2, <1>7, <1>8, <1>9, TailOccurs
<1>11. \A t \in Tasks : awake[t] /\ ~ (sleep /\ t = cpu) => r[level_[t]] # <<>>
  BY <1>3, <1>4, <1>5
<1>12. \A t \in Tasks : awake[t] /\ ~ (sleep /\ t = cpu) => level_[t] <= HighestLevel(r)
  BY <1>5, <1>7, <1>11
<1> QED BY <1>1, <1>2, <1>4, <1>7, <1>10, <1>12

-----------------------------------------------------------------------------
(* One lemma for each action.                                              *)

LEMMA SwitchTaskIInv ==
  ASSUME IInv, SwitchTask
  PROVE  IInv'
<1> DEFINE next == CurrentTask'
<1>0. /\ cpu = CurrentTask /\ cpu \in Tasks /\ awake[cpu]
  BY CurrentTaskFacts
<1>1. /\ running_' \in [Levels -> Seq(Tasks)] /\ current_level_' \in Levels
      /\ running_'[current_level_'] # <<>>
      /\ next \in Tasks /\ awake[next]
  BY RotationFindsTask DEF SwitchTask
<1>2. /\ context_' = [context_ EXCEPT ![cpu] = cpu]
      /\ UNCHANGED <<latest_id_, level_, awake, msgs_>>
  BY <1>0 DEF SwitchTask
<1>3. cpu' = next
  <2>1. CASE next = cpu
    BY <2>1, <1>0 DEF SwitchTask
  <2>2. CASE next # cpu
    <3>1. context_[next] = next
      BY <2>2, <1>1 DEF IInv, ContextsResumeTheirTask
    <3> QED BY <2>2, <3>1, <1>0, <1>1, <1>2 DEF SwitchTask, IInv, TypeOK
  <2> QED BY <2>1, <2>2
<1> HIDE DEF next
<1>4. TypeOK'
  BY <1>0, <1>1, <1>2, <1>3 DEF IInv, TypeOK
<1>5. QueueInv'
  <2>1. running_' = Rotated(FALSE)
    BY DEF SwitchTask, RotateCurrentRunQueue
  <2> QED BY <1>2, <2>1, RotatedQueues DEF QueueInv
<1>6. ExecutesCurrentTask'
  BY <1>1, <1>3 DEF ExecutesCurrentTask, next
<1>7. ContextsResumeTheirTask'
  BY <1>0, <1>2, <1>3 DEF IInv, TypeOK, ContextsResumeTheirTask
<1>8. IdleIsReady' /\ NoLostWakeup'
  BY <1>2 DEF IInv, IdleIsReady, NoLostWakeup
<1> QED BY <1>4, <1>5, <1>6, <1>7, <1>8 DEF IInv

LEMMA SleepIInv ==
  ASSUME IInv, NEW t \in Tasks, t # Idle, t = Main => msgs_[Main] = <<>>,
         Sleep(t)
  PROVE  IInv'
<1>0. /\ cpu = CurrentTask /\ cpu \in Tasks /\ awake[cpu] /\ level_[cpu] = current_level_
      /\ current_level_ \in Levels
      /\ running_[current_level_] \in Seq(Tasks) /\ running_[current_level_] # <<>>
  BY CurrentTaskFacts
<1>1. /\ awake[t] /\ awake' = [awake EXCEPT ![t] = FALSE]
      /\ UNCHANGED <<latest_id_, level_, msgs_>>
  BY DEF Sleep
<1>2. IdleIsReady' /\ NoLostWakeup'
  BY <1>1 DEF IInv, TypeOK, IdleIsReady, NoLostWakeup
<1>3. CASE SleepExecuting(t)
  <2>1. t = cpu /\ RotateCurrentRunQueue(TRUE)
    BY <1>0, <1>3 DEF SleepExecuting
  <2> DEFINE next == CurrentTask'
  <2>2. /\ running_' \in [Levels -> Seq(Tasks)] /\ current_level_' \in Levels
        /\ running_'[current_level_'] # <<>>
        /\ next \in Tasks /\ awake[next] /\ next # cpu
    BY <2>1, RotationFindsTask
  <2>3. context_' = [context_ EXCEPT ![cpu] = cpu] /\ cpu' = context_'[next]
    BY <1>3, <2>1 DEF SleepExecuting
  <2>4. cpu' = next
    BY <2>2, <2>3 DEF IInv, TypeOK, ContextsResumeTheirTask
  <2> HIDE DEF next
  <2>5. TypeOK'
    BY <1>0, <1>1, <2>2, <2>3, <2>4 DEF IInv, TypeOK
  <2>6. QueueInv'
    <3>1. running_' = Rotated(TRUE)
      BY <2>1 DEF RotateCurrentRunQueue
    <3>2. \A l \in Levels : NoDuplicates(running_'[l])
      BY <3>1, RotatedQueues
    <3>3. \A l \in Levels, x \in Tasks :
            Occurs(x, running_'[l]) <=> awake[x] /\ level_[x] = l /\ x # cpu
      BY <3>1, RotatedQueues
    <3>4. \A x \in Tasks : awake'[x] <=> awake[x] /\ x # cpu
      BY <1>1, <2>1 DEF IInv, TypeOK
    <3> QED BY <1>1, <3>2, <3>3, <3>4 DEF QueueInv
  <2>7. ExecutesCurrentTask'
    BY <2>2, <2>4 DEF ExecutesCurrentTask, next
  <2>8. ContextsResumeTheirTask'
    BY <1>0, <1>1, <2>1, <2>3, <2>4 DEF IInv, TypeOK, ContextsResumeTheirTask
  <2> QED BY <1>2, <2>5, <2>6, <2>7, <2>8 DEF IInv
<1>4. CASE SleepWaiting(t)
  <2> DEFINE q == running_[level_[t]]
             e == Erase(q, t)
  <2>1. /\ t # cpu /\ running_' = [running_ EXCEPT ![level_[t]] = e]
        /\ UNCHANGED <<current_level_, context_, cpu>>
    BY <1>0, <1>4 DEF SleepWaiting
  <2>2. q \in Seq(Tasks) /\ NoDuplicates(q) /\ level_[t] \in Levels
    BY DEF IInv, TypeOK, QueueInv
  <2>3. /\ e \in Seq(Tasks) /\ NoDuplicates(e)
        /\ \A x : Occurs(x, e) <=> Occurs(x, q) /\ x # t
        /\ q # <<>> /\ Head(q) # t => e # <<>> /\ Head(e) = Head(q)
    BY <2>2, EraseProperties
  <2> HIDE DEF e
  <2>4. TypeOK'
    BY <1>1, <2>1, <2>2, <2>3 DEF IInv, TypeOK
  <2>5. QueueInv'
    <3>1. \A x \in Tasks : awake'[x] <=> awake[x] /\ x # t
      BY <1>1 DEF IInv, TypeOK
    <3>2. ASSUME NEW l \in Levels
          PROVE  /\ NoDuplicates(running_'[l])
                 /\ \A x \in Tasks :
                      Occurs(x, running_'[l]) <=> awake'[x] /\ level_[x] = l
      <4>1. CASE l = level_[t]
        <5>1. running_'[l] = e
          BY <2>1, <2>2, <4>1 DEF IInv, TypeOK
        <5>2. \A x \in Tasks : Occurs(x, q) <=> awake[x] /\ level_[x] = l
          BY <4>1 DEF IInv, QueueInv
        <5> HIDE DEF q
        <5> QED BY <2>3, <3>1, <5>1, <5>2
      <4>2. CASE l # level_[t]
        <5>1. running_'[l] = running_[l]
          BY <2>1, <2>2, <4>2 DEF IInv, TypeOK
        <5> QED BY <3>1, <4>2, <5>1 DEF IInv, QueueInv
      <4> QED BY <4>1, <4>2
    <3> QED BY <1>1, <3>2 DEF QueueInv
  <2>6. ExecutesCurrentTask'
    <3>1. CASE level_[t] = current_level_
      <4>1. running_'[current_level_'] = e
        BY <2>1, <2>2, <3>1 DEF IInv, TypeOK
      <4>2. Head(q) # t /\ q # <<>> /\ Head(q) = cpu
        BY <1>0, <2>1, <3>1 DEF CurrentTask
      <4> QED BY <2>1, <2>3, <4>1, <4>2 DEF ExecutesCurrentTask, CurrentTask
    <3>2. CASE level_[t] # current_level_
      <4>1. running_'[current_level_'] = running_[current_level_]
        BY <2>1, <2>2, <3>2, <1>0 DEF IInv, TypeOK
      <4> QED BY <1>0, <2>1, <4>1 DEF ExecutesCurrentTask, CurrentTask
    <3> QED BY <3>1, <3>2
  <2>7. ContextsResumeTheirTask'
    BY <1>1, <2>1 DEF IInv, TypeOK, ContextsResumeTheirTask
  <2> QED BY <1>2, <2>4, <2>5, <2>6, <2>7 DEF IInv
<1> QED BY <1>3, <1>4 DEF Sleep

\* A sleeper enters the queue of the level l behind everyone who is there.
LEMMA WakeSleeperProperties ==
  ASSUME IInv, NEW t \in Tasks, NEW l \in Levels \cup {-1}, ~ awake[t],
         WakeSleeper(t, l)
  PROVE  /\ level_' \in [Tasks -> Levels] /\ awake' \in [Tasks -> BOOLEAN]
         /\ running_' \in [Levels -> Seq(Tasks)]
         /\ current_level_' = current_level_
         /\ awake' = [awake EXCEPT ![t] = TRUE]
         /\ QueueInv'
         /\ running_'[current_level_] # <<>>
         /\ Head(running_'[current_level_]) = cpu
<1> DEFINE k == IF l < 0 THEN level_[t] ELSE l
           q == running_[k]
           e == Append(q, t)
<1>0. /\ cpu = CurrentTask /\ cpu \in Tasks /\ current_level_ \in Levels
      /\ running_[current_level_] \in Seq(Tasks) /\ running_[current_level_] # <<>>
  BY CurrentTaskFacts
<1>1. k \in Levels
  BY DEF Levels, IInv, TypeOK
<1>2. /\ level_' = [level_ EXCEPT ![t] = k]
      /\ awake' = [awake EXCEPT ![t] = TRUE]
      /\ running_' = [running_ EXCEPT ![k] = e]
      /\ UNCHANGED current_level_
  BY DEF WakeSleeper
<1> HIDE DEF k
<1>3. q \in Seq(Tasks) /\ NoDuplicates(q)
  BY <1>1 DEF IInv, TypeOK, QueueInv
<1>4. ~ Occurs(t, q)
  BY <1>1 DEF IInv, QueueInv
<1>5. /\ e \in Seq(Tasks) /\ NoDuplicates(e)
      /\ \A x : Occurs(x, e) <=> Occurs(x, q) \/ x = t
  <2> HIDE DEF q
  <2> QED BY <1>3, <1>4, AppendOccurs
<1> HIDE DEF e
<1>6. QueueInv'
  <2>1. ASSUME NEW m \in Levels
        PROVE  /\ NoDuplicates(running_'[m])
               /\ \A x \in Tasks : Occurs(x, running_'[m]) <=> awake'[x] /\ level_'[x] = m
    <3>1. \A x \in Tasks : awake'[x] /\ level_'[x] = m
            <=> (awake[x] /\ level_[x] = m) \/ (x = t /\ k = m)
      BY <1>1, <1>2 DEF IInv, TypeOK
    <3>2. CASE m = k
      <4>1. running_'[m] = e
        BY <1>1, <1>2, <3>2 DEF IInv, TypeOK
      <4>2. \A x \in Tasks : Occurs(x, q) <=> awake[x] /\ level_[x] = m
        BY <3>2, <1>1 DEF IInv, QueueInv
      <4> HIDE DEF q
      <4> QED BY <1>5, <3>1, <3>2, <4>1, <4>2
    <3>3. CASE m # k
      <4>1. running_'[m] = running_[m]
        BY <1>1, <1>2, <3>3 DEF IInv, TypeOK
      <4> QED BY <3>1, <3>3, <4>1 DEF IInv, QueueInv
    <3> QED BY <3>2, <3>3
  <2> QED BY <2>1 DEF QueueInv
<1>7. running_'[current_level_] # <<>> /\ Head(running_'[current_level_]) = cpu
  <2>1. CASE k = current_level_
    <3>1. running_'[current_level_] = e
      BY <1>1, <1>2, <2>1 DEF IInv, TypeOK
    <3>2. q # <<>> /\ Head(q) = cpu
      BY <1>0, <2>1 DEF CurrentTask
    <3>3. e # <<>> /\ Head(e) = Head(q)
      BY <1>3, <3>2, HeadTailAppend, AppendProperties DEF e
    <3> QED BY <3>1, <3>2, <3>3
  <2>2. CASE k # current_level_
    BY <1>0, <1>1, <1>2, <2>2 DEF IInv, TypeOK, CurrentTask
  <2> QED BY <2>1, <2>2
<1> QED BY <1>1, <1>2, <1>5, <1>6, <1>7 DEF IInv, TypeOK

LEMMA SendMessageIInv ==
  ASSUME IInv, NEW t \in Tasks, NEW m \in Messages, Started(t), SendMessage(t, m)
  PROVE  IInv'
<1>0. /\ cpu = CurrentTask /\ cpu \in Tasks /\ awake[cpu] /\ current_level_ \in Levels
  BY CurrentTaskFacts
<1>1. /\ msgs_' = [msgs_ EXCEPT ![t] = Append(@, m)]
      /\ UNCHANGED <<latest_id_, context_, cpu>>
  BY DEF SendMessage
<1>2. msgs_' \in [Tasks -> Seq(Messages)]
  BY <1>1 DEF IInv, TypeOK
<1>3. CASE awake[t]
  <2>1. UNCHANGED <<level_, awake, running_, current_level_>>
    BY <1>3 DEF SendMessage
  <2>2. NoLostWakeup'
    BY <1>1, <1>3, <2>1 DEF IInv, TypeOK, NoLostWakeup
  <2> QED BY <1>1, <1>2, <2>1, <2>2
          DEF IInv, TypeOK, QueueInv, IdleIsReady, ExecutesCurrentTask, CurrentTask,
              ContextsResumeTheirTask
<1>4. CASE ~ awake[t]
  <2>1. WakeSleeper(t, -1)
    BY <1>4 DEF SendMessage
  <2>2. /\ level_' \in [Tasks -> Levels] /\ awake' \in [Tasks -> BOOLEAN]
        /\ running_' \in [Levels -> Seq(Tasks)]
        /\ current_level_' = current_level_
        /\ awake' = [awake EXCEPT ![t] = TRUE]
        /\ QueueInv'
        /\ running_'[current_level_] # <<>>
        /\ Head(running_'[current_level_]) = cpu
    BY <1>4, <2>1, WakeSleeperProperties
  <2>3. TypeOK'
    BY <1>1, <1>2, <2>2 DEF IInv, TypeOK
  <2>4. ExecutesCurrentTask'
    BY <1>1, <2>2 DEF ExecutesCurrentTask, CurrentTask
  <2>5. ContextsResumeTheirTask'
    BY <1>1, <2>2 DEF IInv, TypeOK, ContextsResumeTheirTask, Started
  <2>6. IdleIsReady' /\ NoLostWakeup'
    BY <1>1, <1>4, <2>2, Constants1 DEF IInv, TypeOK, IdleIsReady, NoLostWakeup
  <2> QED BY <2>2, <2>3, <2>4, <2>5, <2>6 DEF IInv
<1> QED BY <1>3, <1>4

\* A ready task that is not executing moves to the back of its new level's queue.
LEMMA ChangeLevelWaiting ==
  ASSUME IInv, NEW t \in Tasks, NEW level \in Levels, awake[t], t # CurrentTask,
         level # level_[t], ChangeLevelRunning(t, level)
  PROVE  /\ running_' \in [Levels -> Seq(Tasks)] /\ QueueInv'
         /\ current_level_' = current_level_
         /\ running_'[current_level_] # <<>>
         /\ Head(running_'[current_level_]) = cpu
<1> DEFINE old == level_[t]
           p == running_[old]
           q == running_[level]
           d == Erase(p, t)
           e == Append(q, t)
<1>0. /\ cpu = CurrentTask /\ cpu \in Tasks /\ current_level_ \in Levels
      /\ running_[current_level_] \in Seq(Tasks) /\ running_[current_level_] # <<>>
      /\ Head(running_[current_level_]) = cpu
  BY CurrentTaskFacts DEF CurrentTask
<1>1. /\ level_' = [level_ EXCEPT ![t] = level]
      /\ running_' = [running_ EXCEPT ![old] = d, ![level] = e]
      /\ UNCHANGED <<awake, current_level_>>
  BY DEF ChangeLevelRunning
<1>2. old \in Levels /\ old # level /\ level_ \in [Tasks -> Levels]
  BY DEF IInv, TypeOK
<1>3. /\ p \in Seq(Tasks) /\ NoDuplicates(p) /\ q \in Seq(Tasks) /\ NoDuplicates(q)
      /\ ~ Occurs(t, q)
  BY <1>2 DEF IInv, TypeOK, QueueInv
<1>4. /\ \A x \in Tasks : Occurs(x, p) <=> awake[x] /\ level_[x] = old
      /\ \A x \in Tasks : Occurs(x, q) <=> awake[x] /\ level_[x] = level
  BY <1>2 DEF IInv, QueueInv
<1>5. running_' = [k \in Levels |-> IF k = level THEN e ELSE IF k = old THEN d ELSE running_[k]]
  BY <1>1, <1>2 DEF IInv, TypeOK
<1> HIDE DEF p, q
<1>6. /\ d \in Seq(Tasks) /\ NoDuplicates(d)
      /\ \A x : Occurs(x, d) <=> Occurs(x, p) /\ x # t
      /\ p # <<>> /\ Head(p) # t => d # <<>> /\ Head(d) = Head(p)
  BY <1>3, EraseProperties
<1>7. /\ e \in Seq(Tasks) /\ NoDuplicates(e)
      /\ \A x : Occurs(x, e) <=> Occurs(x, q) \/ x = t
      /\ e # <<>> /\ (q # <<>> => Head(e) = Head(q))
  BY <1>3, AppendOccurs, HeadTailAppend, AppendProperties
<1> HIDE DEF d, e
<1>8. running_' \in [Levels -> Seq(Tasks)]
  BY <1>5, <1>6, <1>7 DEF IInv, TypeOK
<1>9. QueueInv'
  <2>1. ASSUME NEW m \in Levels
        PROVE  /\ NoDuplicates(running_'[m])
               /\ \A x \in Tasks : Occurs(x, running_'[m]) <=> awake[x] /\ level_'[x] = m
    <3>1. \A x \in Tasks : level_'[x] = m <=> IF x = t THEN m = level ELSE level_[x] = m
      BY <1>1, <1>2
    <3>2. CASE m = level
      BY <1>4, <1>5, <1>7, <3>1, <3>2
    <3>3. CASE m = old
      BY <1>2, <1>4, <1>5, <1>6, <3>1, <3>3
    <3>4. CASE m # level /\ m # old
      BY <1>5, <3>1, <3>4 DEF IInv, QueueInv
    <3> QED BY <3>2, <3>3, <3>4
  <2> QED BY <2>1, <1>1 DEF QueueInv
<1>10. running_'[current_level_] # <<>> /\ Head(running_'[current_level_]) = cpu
  <2>1. CASE current_level_ = level
    BY <1>0, <1>5, <1>7, <2>1 DEF q
  <2>2. CASE current_level_ = old
    BY <1>0, <1>2, <1>5, <1>6, <2>2 DEF p
  <2>3. CASE current_level_ # level /\ current_level_ # old
    BY <1>0, <1>5, <2>3
  <2> QED BY <2>1, <2>2, <2>3
<1> QED BY <1>1, <1>8, <1>9, <1>10

\* The executing task moves to the front of its new level's queue, which becomes
\* the current one.
LEMMA ChangeLevelExecuting ==
  ASSUME IInv, NEW level \in Levels, level # level_[cpu],
         ChangeLevelRunning(cpu, level)
  PROVE  /\ running_' \in [Levels -> Seq(Tasks)] /\ QueueInv'
         /\ current_level_' = level
         /\ running_'[level] # <<>>
         /\ Head(running_'[level]) = cpu
<1> DEFINE old == current_level_
           p == running_[old]
           q == running_[level]
           d == Tail(p)
           e == <<cpu>> \o q
<1>0. /\ cpu = CurrentTask /\ cpu \in Tasks /\ current_level_ \in Levels /\ awake[cpu]
      /\ p \in Seq(Tasks) /\ p # <<>> /\ Head(p) = cpu /\ level_[cpu] = old
  BY CurrentTaskFacts DEF CurrentTask
<1>1. /\ level_' = [level_ EXCEPT ![cpu] = level]
      /\ running_' = [running_ EXCEPT ![old] = d, ![level] = e]
      /\ current_level_' = level
      /\ UNCHANGED awake
  BY <1>0 DEF ChangeLevelRunning
<1>2. old # level /\ level_ \in [Tasks -> Levels]
  BY <1>0 DEF IInv, TypeOK
<1>3. /\ NoDuplicates(p) /\ q \in Seq(Tasks) /\ NoDuplicates(q) /\ ~ Occurs(cpu, q)
  BY <1>0, <1>2 DEF IInv, TypeOK, QueueInv
<1>4. /\ \A x \in Tasks : Occurs(x, p) <=> awake[x] /\ level_[x] = old
      /\ \A x \in Tasks : Occurs(x, q) <=> awake[x] /\ level_[x] = level
  BY <1>0, <1>2 DEF IInv, QueueInv
<1>5. running_' = [k \in Levels |-> IF k = level THEN e ELSE IF k = old THEN d ELSE running_[k]]
  BY <1>0, <1>1, <1>2 DEF IInv, TypeOK
<1> HIDE DEF p, q
<1>6. /\ d \in Seq(Tasks) /\ NoDuplicates(d)
      /\ \A x : Occurs(x, d) <=> Occurs(x, p) /\ x # cpu
  BY <1>0, <1>3, TailOccurs
<1>7. /\ e \in Seq(Tasks) /\ NoDuplicates(e)
      /\ \A x : Occurs(x, e) <=> Occurs(x, q) \/ x = cpu
      /\ e # <<>> /\ Head(e) = cpu
  BY <1>0, <1>3, ConsOccurs
<1> HIDE DEF d, e
<1>8. running_' \in [Levels -> Seq(Tasks)]
  BY <1>5, <1>6, <1>7 DEF IInv, TypeOK
<1>9. QueueInv'
  <2>1. ASSUME NEW m \in Levels
        PROVE  /\ NoDuplicates(running_'[m])
               /\ \A x \in Tasks : Occurs(x, running_'[m]) <=> awake[x] /\ level_'[x] = m
    <3>1. \A x \in Tasks : level_'[x] = m <=> IF x = cpu THEN m = level ELSE level_[x] = m
      BY <1>1, <1>2
    <3>2. CASE m = level
      BY <1>0, <1>4, <1>5, <1>7, <3>1, <3>2
    <3>3. CASE m = old
      BY <1>2, <1>4, <1>5, <1>6, <3>1, <3>3
    <3>4. CASE m # level /\ m # old
      <4>1. level_[cpu] # m
        BY <1>0, <3>4
      <4> QED BY <1>5, <3>1, <3>4, <4>1 DEF IInv, QueueInv
    <3> QED BY <3>2, <3>3, <3>4
  <2> QED BY <2>1, <1>1 DEF QueueInv
<1> QED BY <1>1, <1>5, <1>7, <1>8, <1>9

LEMMA WakeupIInv ==
  ASSUME IInv, NEW t \in Tasks, NEW l \in WakeLevels, Started(t), Wakeup(t, l)
  PROVE  IInv'
<1>0. /\ cpu = CurrentTask /\ cpu \in Tasks /\ awake[cpu] /\ current_level_ \in Levels
  BY CurrentTaskFacts
<1>1. UNCHANGED <<latest_id_, msgs_, context_, cpu>>
  BY DEF Wakeup
<1>2. l \in Levels \cup {-1}
  OBVIOUS
<1>3. CASE ~ awake[t]
  <2>1. WakeSleeper(t, l)
    BY <1>3 DEF Wakeup
  <2>2. /\ level_' \in [Tasks -> Levels] /\ awake' \in [Tasks -> BOOLEAN]
        /\ running_' \in [Levels -> Seq(Tasks)]
        /\ current_level_' = current_level_
        /\ awake' = [awake EXCEPT ![t] = TRUE]
        /\ QueueInv'
        /\ running_'[current_level_] # <<>>
        /\ Head(running_'[current_level_]) = cpu
    BY <1>2, <1>3, <2>1, WakeSleeperProperties
  <2>3. TypeOK'
    BY <1>1, <2>2 DEF IInv, TypeOK
  <2>4. ExecutesCurrentTask'
    BY <1>1, <2>2 DEF ExecutesCurrentTask, CurrentTask
  <2>5. ContextsResumeTheirTask'
    BY <1>1, <2>2 DEF IInv, TypeOK, ContextsResumeTheirTask, Started
  <2>6. IdleIsReady' /\ NoLostWakeup'
    BY <1>1, <1>3, <2>2, Constants1 DEF IInv, TypeOK, IdleIsReady, NoLostWakeup
  <2> QED BY <2>2, <2>3, <2>4, <2>5, <2>6 DEF IInv
<1>4. CASE awake[t]
  <2>1. /\ ChangeLevelRunning(t, l) /\ l \in Levels /\ l # level_[t]
        /\ level_' = [level_ EXCEPT ![t] = l] /\ UNCHANGED awake
    BY <1>2, <1>4 DEF Wakeup, ChangeLevelRunning
  <2>2. /\ running_' \in [Levels -> Seq(Tasks)] /\ QueueInv'
        /\ current_level_' \in Levels
        /\ running_'[current_level_'] # <<>>
        /\ Head(running_'[current_level_']) = cpu
    <3>1. CASE t = cpu
      BY <2>1, <3>1, ChangeLevelExecuting
    <3>2. CASE t # cpu
      BY <1>0, <1>4, <2>1, <3>2, ChangeLevelWaiting
    <3> QED BY <3>1, <3>2
  <2>3. TypeOK'
    BY <1>1, <2>1, <2>2 DEF IInv, TypeOK
  <2>4. ExecutesCurrentTask'
    BY <1>1, <2>2 DEF ExecutesCurrentTask, CurrentTask
  <2>5. ContextsResumeTheirTask' /\ IdleIsReady' /\ NoLostWakeup'
    BY <1>1, <2>1 DEF IInv, ContextsResumeTheirTask, IdleIsReady, NoLostWakeup
  <2> QED BY <2>2, <2>3, <2>4, <2>5 DEF IInv
<1> QED BY <1>3, <1>4

LEMMA ReceiveMessageIInv ==
  ASSUME IInv, NEW t \in Tasks, ReceiveMessage(t)
  PROVE  IInv'
<1>1. /\ msgs_[t] # <<>> /\ msgs_' = [msgs_ EXCEPT ![t] = Tail(@)]
      /\ UNCHANGED taskVars
  BY DEF ReceiveMessage
<1>2. TypeOK'
  BY <1>1 DEF IInv, TypeOK, taskVars
<1>3. NoLostWakeup'
  BY <1>1, Constants1 DEF IInv, TypeOK, NoLostWakeup, taskVars
<1> QED BY <1>1, <1>2, <1>3
        DEF IInv, taskVars, QueueInv, IdleIsReady, ExecutesCurrentTask, CurrentTask,
            ContextsResumeTheirTask

LEMMA NewTaskIInv ==
  ASSUME IInv, NewTask
  PROVE  IInv'
BY DEF IInv, TypeOK, NewTask, QueueInv, IdleIsReady, ExecutesCurrentTask, CurrentTask,
       ContextsResumeTheirTask, NoLostWakeup

LEMMA InitContextIInv ==
  ASSUME IInv, NEW t \in Tasks, InitContext(t)
  PROVE  IInv'
BY DEF IInv, TypeOK, InitContext, QueueInv, IdleIsReady, ExecutesCurrentTask, CurrentTask,
       ContextsResumeTheirTask, NoLostWakeup

LEMMA MainLoopIInv ==
  ASSUME IInv, MainLoop
  PROVE  IInv'
BY Constants1, ReceiveMessageIInv, SleepIInv DEF MainLoop

LEMMA NextIInv == IInv /\ [Next]_vars => IInv'
<1> SUFFICES ASSUME IInv, [Next]_vars PROVE IInv'
  OBVIOUS
<1>1. CASE NewTask
  BY <1>1, NewTaskIInv
<1>2. ASSUME NEW t \in Tasks, InitContext(t) PROVE IInv'
  BY <1>2, InitContextIInv
<1>3. CASE SwitchTask
  BY <1>3, SwitchTaskIInv
<1>4. ASSUME NEW t \in Tasks \ {Main, Idle}, Sleep(t) PROVE IInv'
  BY <1>4, SleepIInv
<1>5. ASSUME NEW t \in Tasks, NEW l \in WakeLevels, Started(t), Wakeup(t, l) PROVE IInv'
  BY <1>5, WakeupIInv
<1>6. ASSUME NEW t \in Tasks, NEW m \in Messages, Started(t), SendMessage(t, m)
      PROVE  IInv'
  BY <1>6, SendMessageIInv
<1>7. ASSUME NEW t \in Tasks, ReceiveMessage(t) PROVE IInv'
  BY <1>7, ReceiveMessageIInv
<1>8. CASE MainLoop
  BY <1>8, MainLoopIInv
<1>9. CASE UNCHANGED vars
  BY <1>9 DEF vars, IInv, TypeOK, QueueInv, IdleIsReady, ExecutesCurrentTask, CurrentTask,
              ContextsResumeTheirTask, NoLostWakeup
<1> QED BY <1>1, <1>2, <1>3, <1>4, <1>5, <1>6, <1>7, <1>8, <1>9 DEF Next

LEMMA InvariantHolds == Spec => []IInv
BY InitIInv, NextIInv, PTL DEF Spec

-----------------------------------------------------------------------------
(* The results.                                                            *)

\* Every variable keeps its type, whatever the tasks and interrupts do.
THEOREM TypeCorrectness == Spec => []TypeOK
<1>1. IInv => TypeOK
  BY DEF IInv
<1> QED BY <1>1, InvariantHolds, PTL

\* Sleep, Wakeup, the level changes and the rotations keep the running_ flag and
\* the level of every task in agreement with its one place in the run queues.
THEOREM QueuesMatch == Spec => []RunQueuesMatchTasks
<1>1. IInv => RunQueuesMatchTasks
  <2> SUFFICES ASSUME IInv, NEW t \in Tasks, NEW l \in Levels
               PROVE  IF awake[t] /\ level_[t] = l
                      THEN QueuedOnce(t, l) ELSE Positions(t, l) = {}
    BY DEF RunQueuesMatchTasks
  <2>1. /\ NoDuplicates(running_[l])
        /\ Occurs(t, running_[l]) <=> awake[t] /\ level_[t] = l
    BY DEF IInv, QueueInv
  <2> QED BY <2>1 DEF NoDuplicates, Occurs, QueuedOnce, Positions
<1> QED BY <1>1, InvariantHolds, PTL

\* The processor executes the front of the queue of current_level_, and a switch
\* resumes the task it chose.
THEOREM CurrentTaskExecutes == Spec => []ProcessorFollowsQueues
<1>1. IInv => ProcessorFollowsQueues
  BY DEF IInv, ProcessorFollowsQueues
<1> QED BY <1>1, InvariantHolds, PTL

\* The message loop of main.cpp loses no wakeup.
THEOREM MainLosesNoWakeup == Spec => []NoLostWakeup
<1>1. IInv => NoLostWakeup
  BY DEF IInv
<1> QED BY <1>1, InvariantHolds, PTL

\* SwitchTask always leaves the processor to a task of the highest ready level.
THEOREM TimerSchedulesByLevel == Spec => TimerPicksHighestLevel
<1>1. IInv /\ [Next]_vars
        => [SwitchTask => \A t \in Tasks : awake[t] => level_[t] <= level_[cpu']]_vars
  <2> SUFFICES ASSUME IInv, SwitchTask, NEW t \in Tasks, awake[t]
               PROVE  level_[t] <= level_[cpu']
    OBVIOUS
  <2>1. IInv'
    BY SwitchTaskIInv
  <2>2. cpu' = CurrentTask'
    BY <2>1 DEF IInv, ExecutesCurrentTask
  <2> QED BY <2>2, RotationFindsTask DEF SwitchTask
<1> QED BY <1>1, InvariantHolds, PTL DEF Spec, TimerPicksHighestLevel
=============================================================================
