-------------------------- MODULE InterruptProofs --------------------------
(***************************************************************************)
(* What interrupts leave intact of the operations they come between: the   *)
(* calibration and the ticks of Timer, and Sleep and Wakeup step by step,  *)
(* as PreemptiveSwitch has them.                                           *)
(*                                                                         *)
(* Timer, for timers, counts and ticks of any width, any period and any    *)
(* values: how wrong the calibration can be and how long its wait takes,   *)
(* that tasks are switched every kTaskTimerPeriod ticks until Tick hangs,  *)
(* and that the message of a timer is sent once, at the tick it is due.    *)
(* The inductive invariant TimerInv has two halves.  CalibrationInv ties   *)
(* what the locals of InitializeLocalAPICTimer hold to the time: the time  *)
(* is tick_ periods, one more for the interrupt that is pending, and what  *)
(* the count has gone down; each count read is that of some period; and    *)
(* what the last poll of the PM timer has seen bounds how late the next    *)
(* one can be.  TimersInv says what is in the queue and what has left it.  *)
(*                                                                         *)
(* PreemptiveSwitch, for any number of workers and messages: the flags,    *)
(* the queues and the contexts that Sleep, Wakeup and the interrupts leave *)
(* to each other.  PreemptionInv says where a context may resume           *)
(* (ContextInv), that the executing task is the front of the queue of its  *)
(* level until Sleep takes it out (FrontInv), that the idle task is alone  *)
(* at level 0 (LevelInv), that the task Wakeup is about to wake is still   *)
(* asleep (WakeInv), and how often each task is queued.                    *)
(***************************************************************************)
EXTENDS Timer, PreemptiveSwitch, FiniteSetTheorems, SequenceTheorems, FunctionTheorems, TLAPS

-----------------------------------------------------------------------------
(* The timers.                                                             *)

Measuring ==
  {"count", "tick", "wait", "wrap", "end", "recount", "retick"}
Measured == {"wait", "wrap", "end", "recount", "retick"}
Waited == {"wrap", "end", "recount", "retick"}

\* The interrupts that have not come in yet.
Interrupts(due) == IF due THEN 1 ELSE 0

LocalsInv ==
  /\ TypeOK /\ gap <= now
  /\ current_count \in Nat /\ count_time \in Nat /\ total_time \in Nat
  /\ start \in Nat /\ wait_time \in Nat /\ total \in Int

\* The period in which the count runs down, and how far it has come.
CountInv ==
  /\ at # "run" => count > 0
  /\ at \in Measuring =>
       /\ counts_per_loop_ = BootCounts
       /\ now = (tick_ + Interrupts(pending)) * BootCounts + BootCounts - count
  /\ at = "calibrated" => (tick_ + Interrupts(pending) - gap) * BootCounts <= now - gap

\* The count that was read belongs to the period k.
ReadInv ==
  at \in {"tick", "retick"} =>
    /\ current_count \in 1 .. BootCounts /\ count_time = now - gap
    /\ \E k \in Nat : count_time = k * BootCounts + BootCounts - current_count

TotalInv ==
  /\ at \in Measured =>
       total - total_time \in {- BootCounts, 0, BootCounts} /\ total_time <= now - gap
  /\ at \in Waited => total_time <= wait_time /\ wait_time <= now - gap
  /\ at = "recount" => now - gap - wait_time >= WaitCounts
  /\ at = "retick" => count_time - wait_time >= WaitCounts

\* What had gone by of the wait at the last poll.
Polled == now - gap - wait_time

WaitInv ==
  at \in {"wrap", "end"} =>
    /\ start = (pm0 + wait_time) % PMMod /\ end = (start + WaitCounts) % PMMod
    /\ at = "wrap" => end < start /\ Polled < PMMod - start
    /\ at = "end" =>
         /\ end < start => Polled >= PMMod - start
         /\ end <= PMMod - MaxGap =>
              Polled < WaitCounts \/ (end < start /\ Polled < PMMod - start + MaxGap)

CalibrationInv ==
  /\ LocalsInv /\ CountInv /\ ReadInv /\ TotalInv /\ WaitInv
  /\ CalibratedWithinTwoPeriods

\* The one task timer, and the timer that is popped last.
SwitchInv ==
  /\ IsFiniteSet(timers_)
  /\ \A x \in timers_ : x.value = Largest => x.timeout = TickMod - 1
  /\ at # "run" =>
       /\ timers_ = {Timer(TickMod - 1, Largest)} /\ ~ hung
       /\ DOMAIN added = {} /\ sent = <<>>
  /\ at = "run" =>
       /\ switched <= tick_ /\ switched + Period < TickMod
       /\ {x \in timers_ : x.value = TaskTimer} = {Timer(switched + Period, TaskTimer)}
       /\ ~ hung => tick_ < switched + Period
       /\ hung => tick_ + Period >= TickMod

\* When the message of x is due.
SendTick(x) == IF x.timeout > added[x.value] THEN x.timeout ELSE added[x.value] + 1

Messages == [timer : [timeout : Nat, value : Values], tick : Nat]

\* a is sent before b.
Before(a, b) ==
  /\ a.timer.value # b.timer.value
  /\ \/ a.tick < b.tick
     \/ a.tick = b.tick /\ a.timer.timeout <= b.timer.timeout

MessageInv ==
  /\ DOMAIN added \subseteq Values
  /\ \A v \in DOMAIN added : added[v] \in Nat /\ added[v] <= tick_
  /\ \A x \in timers_ : x.value \in Values => x.value \in DOMAIN added
  /\ \A x, y \in timers_ : x.value = y.value => x = y
  /\ ~ hung => \A x \in timers_ : x.timeout <= tick_ => x.value \in Values /\ added[x.value] = tick_
  /\ sent \in Seq(Messages)
  /\ \A i \in DOMAIN sent :
       /\ sent[i].timer.value \in DOMAIN added
       /\ \A y \in timers_ : y.value # sent[i].timer.value
       /\ sent[i].tick = SendTick(sent[i].timer)
       /\ sent[i].tick <= tick_
  /\ \A i, j \in DOMAIN sent : i < j => Before(sent[i], sent[j])

TimersInv == SwitchInv /\ MessageInv

TimerInv == CalibrationInv /\ TimersInv

-----------------------------------------------------------------------------
(* Arithmetic.                                                             *)

\* The constants, one by one.
LEMMA Bounds ==
  /\ TickMod \in Nat /\ CountMod \in Nat /\ Period \in Nat /\ BootCounts \in Nat
  /\ PMMod \in Nat /\ WaitCounts \in Nat /\ WaitMs \in Nat /\ MaxGap \in Nat /\ MaxTime \in Nat
  /\ TickMod > 0 /\ CountMod > 0 /\ Period > 0 /\ BootCounts > 0 /\ PMMod > 0
  /\ WaitCounts > 0 /\ WaitMs > 0 /\ MaxGap > 0 /\ MaxTime > 0
  /\ 2 * Period < TickMod /\ MaxGap < BootCounts
  /\ 2 * BootCounts + WaitMs <= WaitCounts /\ WaitCounts + MaxGap <= PMMod
  /\ MaxTime < BootCounts * (TickMod - Period - MaxGap)
  /\ MaxTime + 2 * BootCounts < CountMod
  /\ TaskTimer \notin Values /\ Largest \notin Values
BY TimerAssumption

\* A multiple of b strictly between -b and 2b.
LEMMA SmallMultiple ==
  ASSUME NEW b \in Nat, b > 0, NEW k \in Int, - b < k * b, k * b < 2 * b
  PROVE  k \in {0, 1}
<1>1. k < 0 => k * b <= - b
  OBVIOUS
<1>2. k > 1 => k * b >= 2 * b
  OBVIOUS
<1> QED BY <1>1, <1>2

\* A remainder is the one its bounds allow.
LEMMA Remainder ==
  ASSUME NEW m \in Nat, m > 0, NEW q \in Int, NEW r \in 0 .. m - 1
  PROVE  (q * m + r) % m = r
<1> DEFINE x == q * m + r
           p == x \div m
           s == x % m
<1>1. q * m \in Int /\ x \in Int
  OBVIOUS
<1>2. p \in Int /\ s \in 0 .. m - 1 /\ x = p * m + s
  BY <1>1
<1> HIDE DEF p, s
<1>3. (q - p) * m = s - r
  BY <1>2
<1>4. q - p >= 1 => (q - p) * m >= m
  BY <1>2
<1>5. q - p <= -1 => (q - p) * m <= - m
  BY <1>2
<1>6. q - p = 0
  BY <1>2, <1>3, <1>4, <1>5
<1>7. s = r
  BY <1>2, <1>3, <1>6
<1> QED BY <1>7 DEF s

\* A counter that wraps at m, d steps after it stood at s.
LEMMA WrappedOnce ==
  ASSUME NEW m \in Nat, m > 0, NEW x \in Int, NEW d \in Nat, (x % m) + d < 2 * m
  PROVE  /\ x % m \in 0 .. m - 1
         /\ (x + d) % m = IF (x % m) + d < m THEN (x % m) + d ELSE (x % m) + d - m
<1> DEFINE q == x \div m
           s == x % m
<1>1. q \in Int /\ s \in 0 .. m - 1 /\ x = q * m + s
  OBVIOUS
<1> HIDE DEF q, s
<1>2. CASE s + d < m
  <2>1. s + d \in 0 .. m - 1 /\ x + d = q * m + (s + d)
    BY <1>1, <1>2
  <2>2. (q * m + (s + d)) % m = s + d
    BY <2>1, <1>1, Remainder
  <2> QED BY <2>1, <2>2, <1>1, <1>2 DEF s
<1>3. CASE ~ (s + d < m)
  <2>1. s + d - m \in 0 .. m - 1
    BY <1>1, <1>3 DEF s
  <2>2. x + d = (q + 1) * m + (s + d - m)
    BY <1>1
  <2>3. q + 1 \in Int
    BY <1>1
  <2>4. ((q + 1) * m + (s + d - m)) % m = s + d - m
    BY <2>1, <2>3, Remainder
  <2> QED BY <2>2, <2>4, <1>1, <1>3 DEF s
<1> QED BY <1>2, <1>3

\* What LocalsInv says of each variable.
LEMMA Locals ==
  ASSUME LocalsInv
  PROVE  /\ now \in Nat /\ now <= MaxTime /\ pm0 \in 0 .. PMMod - 1
         /\ tick_ \in Nat /\ tick_ < TickMod /\ switched \in Nat
         /\ counts_per_loop_ \in Nat /\ count \in Nat /\ count <= counts_per_loop_
         /\ gap \in Nat /\ gap <= MaxGap /\ gap <= now
         /\ end \in Nat /\ end < PMMod
         /\ Interrupts(pending) \in {0, 1}
<1>1. TypeOK /\ gap <= now
  BY DEF LocalsInv
<1>2. now \in 0 .. MaxTime /\ tick_ \in 0 .. TickMod - 1 /\ switched \in 0 .. TickMod - 1
  BY <1>1 DEF TypeOK
<1>3. count \in 0 .. counts_per_loop_ /\ counts_per_loop_ \in Nat
  BY <1>1 DEF TypeOK
<1>4. gap \in 0 .. MaxGap /\ end \in 0 .. PMMod - 1 /\ pm0 \in 0 .. PMMod - 1
  BY <1>1 DEF TypeOK
<1>5. pending \in BOOLEAN /\ hung \in BOOLEAN
  BY <1>1 DEF TypeOK
<1>6. Interrupts(pending) \in {0, 1}
  BY <1>5 DEF Interrupts
<1> QED BY <1>1, <1>2, <1>3, <1>4, <1>5, <1>6, Bounds

\* Until it starts the task timer, tick_ stays well below its wrap.
LEMMA EarlyTick ==
  ASSUME LocalsInv, CountInv, at # "run"
  PROVE  /\ Interrupts(pending) \in {0, 1}
         /\ tick_ + Interrupts(pending) + Period < TickMod
<1> DEFINE T == tick_ + Interrupts(pending)
           L == TickMod - Period - MaxGap
<1>1. /\ Interrupts(pending) \in {0, 1} /\ tick_ \in Nat /\ T \in Nat /\ L \in Int
      /\ gap \in Nat /\ gap <= MaxGap /\ now \in Nat /\ now <= MaxTime
      /\ count \in Nat /\ count <= counts_per_loop_ /\ T - gap \in Int
  BY Bounds, Locals
<1>2. (T - gap) * BootCounts <= MaxTime
  <2>1. CASE at = "calibrated"
    BY <2>1, <1>1, Bounds DEF CountInv
  <2>2. CASE at \in Measuring
    <3>1. T * BootCounts + BootCounts - count = now /\ count <= BootCounts
      BY <2>2, <1>1 DEF CountInv
    <3>2. (T - gap) * BootCounts <= T * BootCounts /\ T * BootCounts \in Int
      BY <1>1, Bounds
    <3> HIDE DEF T
    <3> QED BY <3>1, <3>2, <1>1, Bounds
  <2> QED BY <2>1, <2>2 DEF LocalsInv, TypeOK, Measuring
<1> HIDE DEF T, L
<1>3. (T - gap) * BootCounts < BootCounts * L
  BY <1>1, <1>2, Bounds DEF L
<1>4. T - gap >= L => (T - gap) * BootCounts >= BootCounts * L
  BY <1>1, Bounds
<1>5. T - gap < L
  BY <1>3, <1>4, <1>1, Bounds
<1> QED BY <1>1, <1>5, Bounds DEF T, L

-----------------------------------------------------------------------------
(* The calibration.                                                        *)

LEMMA InitCalibrationInv == Init => CalibrationInv
<1> SUFFICES ASSUME Init PROVE CalibrationInv
  OBVIOUS
<1> USE DEF Init
<1>1. LocalsInv
  <2>1. now \in 0 .. MaxTime /\ tick_ \in 0 .. TickMod - 1 /\ switched \in 0 .. TickMod - 1
    BY Bounds
  <2>2. counts_per_loop_ \in Nat /\ count \in 0 .. counts_per_loop_
    BY Bounds
  <2>3. timers_ \subseteq [timeout : 0 .. TickMod - 1, value : Values \cup {TaskTimer, Largest}]
    BY Bounds DEF Timer
  <2>4. gap \in 0 .. MaxGap /\ end \in 0 .. PMMod - 1 /\ pm0 \in 0 .. PMMod - 1
    BY Bounds
  <2>5. pending \in BOOLEAN /\ hung \in BOOLEAN
    OBVIOUS
  <2>6. at \in Measuring
    BY DEF Measuring
  <2>7. TypeOK
    BY <2>1, <2>2, <2>3, <2>4, <2>5, <2>6 DEF TypeOK, Measuring
  <2> QED BY <2>7, Bounds DEF LocalsInv
<1>2. CountInv
  BY Bounds DEF CountInv, Interrupts
<1>3. ReadInv /\ TotalInv /\ WaitInv /\ CalibratedWithinTwoPeriods
  BY DEF ReadInv, TotalInv, WaitInv, CalibratedWithinTwoPeriods, Measured, Waited
<1> QED BY <1>1, <1>2, <1>3 DEF CalibrationInv

\* One count of both timers.
LEMMA AdvanceInv ==
  ASSUME CalibrationInv, Advance
  PROVE  CalibrationInv'
<1>a. LocalsInv /\ CountInv /\ ReadInv /\ TotalInv /\ WaitInv /\ CalibratedWithinTwoPeriods
  BY DEF CalibrationInv
<1>0. /\ at # "run" /\ gap < MaxGap /\ now < MaxTime /\ ~ (pending /\ count = 1)
      /\ now' = now + 1 /\ gap' = gap + 1
      /\ count' = IF count = 1 THEN counts_per_loop_ ELSE count - 1
      /\ pending' = (pending \/ count = 1)
      /\ UNCHANGED <<pm0, tick_, counts_per_loop_, timers_, at, current_count, count_time,
                     total, total_time, start, end, wait_time, hung, switched>>
  BY DEF Advance, history
<1>1. count > 0 /\ count' \in 0 .. counts_per_loop_ /\ count' > 0
  BY <1>0, <1>a, Locals DEF CountInv
<1>2. LocalsInv'
  <2>1. now' \in 0 .. MaxTime /\ gap' \in 0 .. MaxGap /\ gap' <= now'
    BY <1>0, <1>a, Locals, Bounds
  <2>2. pending' \in BOOLEAN
    BY <1>0, <1>a, Locals
  <2> QED BY <1>0, <1>1, <1>a, <2>1, <2>2 DEF LocalsInv, TypeOK
<1>3. /\ Interrupts(pending') - Interrupts(pending) = IF count = 1 THEN 1 ELSE 0
      /\ Interrupts(pending) \in {0, 1} /\ Interrupts(pending') \in {0, 1}
  <2>1. pending \in BOOLEAN
    BY <1>a DEF LocalsInv, TypeOK
  <2>2. CASE count = 1
    <3>1. pending' = TRUE /\ pending = FALSE
      BY <1>0, <2>1, <2>2
    <3>2. Interrupts(pending) = 0 /\ Interrupts(pending') = 1
      BY <3>1 DEF Interrupts
    <3> QED BY <2>2, <3>2
  <2>3. CASE count # 1
    <3>1. pending' = pending
      BY <1>0, <2>1, <2>3
    <3>2. Interrupts(pending') = Interrupts(pending) /\ Interrupts(pending) \in {0, 1}
      BY <3>1, <2>1 DEF Interrupts
    <3> QED BY <2>3, <3>2
  <2> QED BY <2>2, <2>3
<1>4. CountInv'
  <2> DEFINE T == tick_ + Interrupts(pending)
             T1 == tick_' + Interrupts(pending')
  <2>0. T \in Nat /\ T1 \in Nat /\ T1 - T = IF count = 1 THEN 1 ELSE 0
    <3>1. tick_ \in Nat /\ tick_' = tick_
      BY <1>0, <1>a, Locals
    <3> QED BY <1>3, <3>1
  <2> HIDE DEF T, T1
  <2>1. T1 * BootCounts = T * BootCounts + (IF count = 1 THEN BootCounts ELSE 0)
    BY <2>0, Bounds
  <2>2. T * BootCounts \in Int /\ T1 * BootCounts \in Int
    BY <2>0, Bounds
  <2>3. CASE at \in Measuring
    <3>1. counts_per_loop_ = BootCounts /\ now = T * BootCounts + BootCounts - count
      BY <1>a, <2>3 DEF CountInv, T
    <3>2. now + 1 = T1 * BootCounts + BootCounts - count'
      BY <3>1, <2>1, <2>2, <1>0, <1>1, <1>a, Locals, Bounds
    <3>3. at # "calibrated"
      BY <2>3 DEF Measuring
    <3> QED BY <1>a, <3>1, <3>2, <3>3, <1>0, <1>1, <2>3 DEF CountInv, T1
  <2>4. CASE at = "calibrated"
    <3>1. (T - gap) * BootCounts <= now - gap
      BY <1>a, <2>4, Locals DEF CountInv, T
    <3>2. T1 - gap' \in Int /\ T - gap \in Int /\ T1 - gap' <= T - gap
      BY <2>0, <1>0, <1>a, Locals
    <3>3. (T1 - gap') * BootCounts <= (T - gap) * BootCounts
      BY <3>2, Bounds
    <3>4. (T1 - gap') * BootCounts <= now' - gap'
      <4> DEFINE u == (T1 - gap') * BootCounts
                 v == (T - gap) * BootCounts
      <4>1. u \in Int /\ v \in Int /\ u <= v /\ v <= now - gap
        BY <3>1, <3>2, <3>3, Bounds
      <4> HIDE DEF u, v
      <4>2. u <= now' - gap'
        BY <4>1, <1>0, <1>a, Locals
      <4> QED BY <4>2 DEF u
    <3>5. at \notin Measuring
      BY <2>4 DEF Measuring
    <3>6. (tick_' + Interrupts(pending') - gap') * BootCounts <= now' - gap'
      <4>1. tick_' \in Int /\ Interrupts(pending') \in Int /\ gap' \in Int
        BY <1>0, <1>3, <1>a, Locals
      <4>2. T1 = tick_' + Interrupts(pending')
        BY DEF T1
      <4> QED BY <3>4, <4>1, <4>2, <2>0, Bounds
    <3> QED BY <3>5, <3>6, <1>0, <1>1, <2>4 DEF CountInv
  <2>5. at \in Measuring \/ at = "calibrated"
    BY <1>0, <1>a DEF LocalsInv, TypeOK, Measuring
  <2> QED BY <2>3, <2>4, <2>5
<1>5. ReadInv'
  BY <1>0, <1>a, Locals DEF ReadInv
<1>6. now' - gap' = now - gap
  BY <1>0, <1>a, Locals
<1>7. TotalInv'
  BY <1>a, <1>0, <1>6 DEF TotalInv
<1>8. Polled' = Polled
  BY <1>0, <1>6 DEF Polled
<1>9. WaitInv'
  BY <1>a, <1>0, <1>8 DEF WaitInv
<1>10. CalibratedWithinTwoPeriods'
  BY <1>a, <1>0 DEF CalibratedWithinTwoPeriods
<1> QED BY <1>2, <1>4, <1>5, <1>7, <1>9, <1>10 DEF CalibrationInv

\* TotalCount reads the register in the period tick_ and the interrupt pending.
LEMMA ReadCountInv ==
  ASSUME CalibrationInv, ReadCount
  PROVE  CalibrationInv'
<1>a. LocalsInv /\ CountInv /\ ReadInv /\ TotalInv /\ WaitInv /\ CalibratedWithinTwoPeriods
  BY DEF CalibrationInv
<1>0. /\ at \in {"count", "recount"} /\ current_count' = count /\ count_time' = now
      /\ at' = (IF at = "count" THEN "tick" ELSE "retick") /\ gap' = 0
      /\ UNCHANGED <<now, pm0, count, pending, tick_, counts_per_loop_, timers_, total,
                     total_time, start, end, wait_time, hung, switched>>
  BY DEF ReadCount, GoTo, clock, history
<1>1. LocalsInv'
  BY <1>0, <1>a, Locals, Bounds DEF LocalsInv, TypeOK
<1>2. /\ counts_per_loop_ = BootCounts /\ count > 0 /\ count <= BootCounts
      /\ now = (tick_ + Interrupts(pending)) * BootCounts + BootCounts - count
      /\ tick_ + Interrupts(pending) \in Nat
  BY <1>0, <1>a, Locals DEF CountInv, Measuring
<1>3. CountInv'
  BY <1>a, <1>0, <1>2 DEF CountInv, Measuring, Interrupts
<1>4. ReadInv'
  <2>1. current_count' \in 1 .. BootCounts
    BY <1>0, <1>2, <1>a, Locals, Bounds
  <2>2. count_time' = now' - gap'
    BY <1>0, <1>a, Locals
  <2>3. count_time' = (tick_ + Interrupts(pending)) * BootCounts + BootCounts - current_count'
    BY <1>0, <1>2
  <2> QED BY <1>a, <2>1, <2>2, <2>3, <1>2 DEF ReadInv
<1>5. now' - gap' >= now - gap /\ now' - gap' = now
  BY <1>0, <1>a, Locals
<1>6. TotalInv'
  <2>1. at' \in Measured => at = "recount" /\ at' = "retick"
    BY <1>0 DEF Measured
  <2>2. at = "recount" => at \in Measured /\ at \in Waited
    BY DEF Measured, Waited
  <2>3. at' = "retick" =>
          /\ (total - total_time \in {- BootCounts, 0, BootCounts})'
          /\ total_time' <= now' - gap' /\ total_time' <= wait_time'
          /\ wait_time' <= now' - gap' /\ count_time' - wait_time' >= WaitCounts
    BY <1>0, <1>5, <2>1, <2>2, <1>a, Locals, Bounds DEF TotalInv, LocalsInv
  <2>4. at' \in Waited => at' \in Measured
    BY DEF Measured, Waited
  <2>5. at' # "recount"
    BY <1>0
  <2> QED BY <1>a, <2>1, <2>3, <2>4, <2>5 DEF TotalInv
<1>7. WaitInv' /\ CalibratedWithinTwoPeriods'
  BY <1>a, <1>0 DEF WaitInv, CalibratedWithinTwoPeriods
<1> QED BY <1>1, <1>3, <1>4, <1>6, <1>7 DEF CalibrationInv

\* An interrupt between the two reads, or one that was pending at the first, makes the
\* period of tick_ another one than that of the count.
LEMMA TotalCountError ==
  ASSUME LocalsInv, CountInv, ReadInv, at \in {"tick", "retick"}
  PROVE  TotalCount \in Int /\ TotalCount - count_time \in {- BootCounts, 0, BootCounts}
<1> DEFINE T == tick_ + Interrupts(pending)
<1>1. PICK k \in Nat : count_time = k * BootCounts + BootCounts - current_count
  BY DEF ReadInv
<1>2. /\ counts_per_loop_ = BootCounts /\ count > 0 /\ count <= BootCounts
      /\ now = T * BootCounts + BootCounts - count
      /\ current_count \in 1 .. BootCounts /\ count_time = now - gap
  BY Locals DEF CountInv, ReadInv, Measuring
<1>3. T \in Nat /\ tick_ \in Nat /\ T - tick_ \in {0, 1}
  BY Locals
<1> HIDE DEF T
<1>4. T * BootCounts \in Int /\ k * BootCounts \in Int /\ (T - k) * BootCounts \in Int
      /\ tick_ * BootCounts \in Int
  BY <1>3, Bounds
<1>5. (T - k) * BootCounts = T * BootCounts - k * BootCounts
  BY <1>3, Bounds
<1>6. (T - k) * BootCounts = gap + count - current_count
  BY <1>1, <1>2, <1>4, <1>5, Locals, Bounds
<1>7. T - k \in {0, 1}
  <2>1. - BootCounts < (T - k) * BootCounts /\ (T - k) * BootCounts < 2 * BootCounts
    BY <1>6, <1>2, Locals, Bounds
  <2>2. T - k \in Int
    BY <1>3
  <2> QED BY <2>1, <2>2, SmallMultiple, Bounds
<1>8. tick_ - k \in {-1, 0, 1}
  BY <1>3, <1>7
<1>9. TotalCount - count_time = (tick_ - k) * BootCounts
  <2>1. (tick_ - k) * BootCounts = tick_ * BootCounts - k * BootCounts
    BY <1>3, Bounds
  <2>2. TotalCount = tick_ * BootCounts + BootCounts - current_count
    BY <1>2 DEF TotalCount
  <2> QED BY <2>1, <2>2, <1>1, <1>2, <1>4, Bounds
<1>10. TotalCount \in Int
  BY <1>2, <1>4, Bounds DEF TotalCount
<1> QED BY <1>8, <1>9, <1>10, Bounds

LEMMA ReadTickInv ==
  ASSUME CalibrationInv, ReadTick
  PROVE  CalibrationInv'
<1>a. LocalsInv /\ CountInv /\ ReadInv /\ TotalInv /\ WaitInv /\ CalibratedWithinTwoPeriods
  BY DEF CalibrationInv
<1>0. /\ at = "tick" /\ total' = TotalCount /\ total_time' = count_time
      /\ at' = "wait" /\ gap' = 0
      /\ UNCHANGED <<now, pm0, count, pending, tick_, counts_per_loop_, timers_, current_count,
                     count_time, start, end, wait_time, hung, switched>>
  BY DEF ReadTick, GoTo, clock, history
<1>1. TotalCount \in Int /\ TotalCount - count_time \in {- BootCounts, 0, BootCounts}
  BY <1>a, <1>0, TotalCountError
<1>2. LocalsInv'
  <2>1. gap' \in 0 .. MaxGap /\ gap' <= now'
    BY <1>0, <1>a, Locals, Bounds
  <2> QED BY <2>1, <1>0, <1>1, <1>a DEF LocalsInv, TypeOK
<1>3. CountInv'
  BY <1>0, <1>a DEF CountInv, Measuring
<1>4. TotalInv'
  <2>1. total_time' <= now' - gap'
    BY <1>0, <1>a, Locals DEF ReadInv
  <2>2. at' \notin Waited
    BY <1>0 DEF Waited
  <2> QED BY <1>0, <1>1, <2>1, <2>2 DEF TotalInv
<1>5. ReadInv' /\ WaitInv' /\ CalibratedWithinTwoPeriods'
  BY <1>0 DEF ReadInv, WaitInv, CalibratedWithinTwoPeriods
<1> QED BY <1>2, <1>3, <1>4, <1>5 DEF CalibrationInv

\* The end is within one lap of the start, before the wrap or beyond it.
LEMMA WaitEnd ==
  ASSUME LocalsInv, start = (pm0 + wait_time) % PMMod, end = (start + WaitCounts) % PMMod
  PROVE  /\ start \in 0 .. PMMod - 1
         /\ end < start  => end = start + WaitCounts - PMMod /\ start >= MaxGap
         /\ end >= start => end = start + WaitCounts
<1>1. pm0 + wait_time \in Int /\ start \in 0 .. PMMod - 1
  <2>1. pm0 + wait_time \in Int
    BY Locals DEF LocalsInv
  <2> QED BY <2>1, Bounds
<1>2. start % PMMod = start
  BY <1>1, Bounds, WrappedOnce
<1>3. end = IF start + WaitCounts < PMMod THEN start + WaitCounts ELSE start + WaitCounts - PMMod
  <2>1. start \in Int /\ (start % PMMod) + WaitCounts < 2 * PMMod
    BY <1>1, <1>2, Bounds
  <2>2. (start + WaitCounts) % PMMod =
          IF (start % PMMod) + WaitCounts < PMMod THEN (start % PMMod) + WaitCounts
                                                  ELSE (start % PMMod) + WaitCounts - PMMod
    BY <2>1, Bounds, WrappedOnce
  <2> QED BY <1>2, <2>2
<1> QED BY <1>1, <1>3, Bounds

\* What the PM timer shows less than two laps after the start of the wait.
LEMMA PMTimerShows ==
  ASSUME LocalsInv, wait_time <= now, start = (pm0 + wait_time) % PMMod,
         start + (now - wait_time) < 2 * PMMod
  PROVE  PMTimer = IF start + (now - wait_time) < PMMod THEN start + (now - wait_time)
                                                        ELSE start + (now - wait_time) - PMMod
<1> DEFINE x == pm0 + wait_time
           d == now - wait_time
<1>1. x \in Int /\ d \in Nat /\ pm0 + now = x + d
  BY Locals DEF LocalsInv
<1>2. PMTimer = (x + d) % PMMod
  BY <1>1 DEF PMTimer
<1> HIDE DEF x, d
<1>3. (x % PMMod) + d < 2 * PMMod
  BY DEF x, d
<1>4. (x + d) % PMMod = IF (x % PMMod) + d < PMMod THEN (x % PMMod) + d ELSE (x % PMMod) + d - PMMod
  <2>1. PMMod \in Nat /\ PMMod > 0
    BY Bounds
  <2> QED BY <1>1, <1>3, <2>1, WrappedOnce
<1>5. x % PMMod = start
  BY DEF x
<1> QED BY <1>2, <1>4, <1>5 DEF d

LEMMA WaitMillisecondsInv ==
  ASSUME CalibrationInv, WaitMilliseconds
  PROVE  CalibrationInv'
<1>a. LocalsInv /\ CountInv /\ ReadInv /\ TotalInv /\ WaitInv /\ CalibratedWithinTwoPeriods
  BY DEF CalibrationInv
<1>0. /\ at = "wait" /\ start' = PMTimer /\ wait_time' = now
      /\ end' = (PMTimer + WaitCounts) % PMMod
      /\ at' = (IF end' < start' THEN "wrap" ELSE "end") /\ gap' = 0
      /\ UNCHANGED <<now, pm0, count, pending, tick_, counts_per_loop_, timers_, current_count,
                     count_time, total, total_time, hung, switched>>
  BY DEF WaitMilliseconds, GoTo, clock, history
<1>1. PMTimer \in 0 .. PMMod - 1
  <2>1. pm0 + now \in Int
    BY <1>a, Locals
  <2> QED BY <2>1, Bounds DEF PMTimer
<1>2. end' \in 0 .. PMMod - 1
  <2>1. PMTimer + WaitCounts \in Int
    BY <1>1, Bounds
  <2> QED BY <2>1, <1>0, Bounds
<1>3. LocalsInv'
  <2>1. gap' \in 0 .. MaxGap /\ gap' <= now' /\ wait_time' \in Nat /\ start' \in Nat
    BY <1>0, <1>1, <1>a, Locals, Bounds
  <2> QED BY <2>1, <1>0, <1>2, <1>a DEF LocalsInv, TypeOK
<1>4. CountInv'
  <2>1. at \in Measuring /\ at' \in Measuring
    BY <1>0 DEF Measuring
  <2> QED BY <2>1, <1>0, <1>a DEF CountInv
<1>5. TotalInv'
  <2>1. total - total_time \in {- BootCounts, 0, BootCounts} /\ total_time <= now - gap
    BY <1>0, <1>a DEF TotalInv, Measured
  <2>2. total_time' <= wait_time' /\ wait_time' <= now' - gap' /\ total_time' <= now' - gap'
    BY <2>1, <1>0, <1>a, Locals DEF LocalsInv
  <2> QED BY <1>0, <2>1, <2>2 DEF TotalInv
<1>6. WaitInv'
  <2>1. Polled' = 0
    BY <1>0, <1>a, Locals DEF Polled
  <2>2. start' = (pm0' + wait_time') % PMMod /\ end' = (start' + WaitCounts) % PMMod'
    BY <1>0 DEF PMTimer
  <2>3. 0 < PMMod - start' /\ 0 < WaitCounts
    BY <1>0, <1>1, Bounds
  <2>4. at' = "wrap" => end' < start'
    BY <1>0
  <2>5. at' = "end" => ~ (end' < start')
    BY <1>0
  <2> QED BY <2>1, <2>2, <2>3, <2>4, <2>5 DEF WaitInv
<1>7. ReadInv' /\ CalibratedWithinTwoPeriods'
  BY <1>0 DEF ReadInv, CalibratedWithinTwoPeriods
<1> QED BY <1>3, <1>4, <1>5, <1>6, <1>7 DEF CalibrationInv

\* A poll that is late sees an end it could not have seen before, unless that end is so
\* close below the wrap that the timer has passed both.
LEMMA PollInv ==
  ASSUME CalibrationInv, Poll
  PROVE  CalibrationInv'
<1>a. LocalsInv /\ CountInv /\ ReadInv /\ TotalInv /\ WaitInv /\ CalibratedWithinTwoPeriods
  BY DEF CalibrationInv
<1> DEFINE d == now - wait_time
<1>0. /\ \/ at = "wrap" /\ at' = IF PMTimer >= start THEN "wrap" ELSE "end"
         \/ at = "end" /\ at' = IF PMTimer < end THEN "end" ELSE "recount"
      /\ gap' = 0
      /\ UNCHANGED <<now, pm0, count, pending, tick_, counts_per_loop_, timers_, current_count,
                     count_time, total, total_time, start, end, wait_time, hung, switched>>
  BY DEF Poll, GoTo, clock, history
<1>1. at \in Waited /\ at \in Measured /\ at \in Measuring /\ at' \in Measuring
  BY <1>0 DEF Waited, Measured, Measuring
<1>2. /\ start = (pm0 + wait_time) % PMMod /\ end = (start + WaitCounts) % PMMod
      /\ wait_time <= now - gap /\ wait_time \in Nat
      /\ Polled \in Nat /\ d = Polled + gap /\ d \in Nat /\ wait_time <= now
  <2>1. start = (pm0 + wait_time) % PMMod /\ end = (start + WaitCounts) % PMMod
    BY <1>0, <1>a DEF WaitInv
  <2>2. wait_time <= now - gap /\ wait_time \in Nat
    BY <1>1, <1>a DEF TotalInv, LocalsInv
  <2> QED BY <2>1, <2>2, <1>a, Locals DEF Polled
<1>3. /\ start \in 0 .. PMMod - 1 /\ end \in 0 .. PMMod - 1
      /\ end < start  => end = start + WaitCounts - PMMod /\ start >= MaxGap
      /\ end >= start => end = start + WaitCounts
  BY <1>2, <1>a, WaitEnd, Locals, Bounds
<1>4. start + d < 2 * PMMod => PMTimer = IF start + d < PMMod THEN start + d ELSE start + d - PMMod
  BY <1>2, <1>a, PMTimerShows
<1>5. Polled' = d /\ gap <= MaxGap /\ gap \in Nat
  BY <1>0, <1>a, <1>2, Locals DEF Polled
<1>6. at = "wrap" => end < start /\ Polled < PMMod - start
  BY <1>a DEF WaitInv
<1>7. at = "end" =>
         /\ end < start => Polled >= PMMod - start
         /\ end <= PMMod - MaxGap =>
              Polled < WaitCounts \/ (end < start /\ Polled < PMMod - start + MaxGap)
  BY <1>a DEF WaitInv
<1> HIDE DEF d
<1> DEFINE Seen ==
       /\ at' = "wrap" => end < start /\ d < PMMod - start
       /\ at' = "end" =>
            /\ end < start => d >= PMMod - start
            /\ end <= PMMod - MaxGap =>
                 d < WaitCounts \/ (end < start /\ d < PMMod - start + MaxGap)
       /\ at' = "recount" => d >= WaitCounts
<1>8. ASSUME at = "wrap" PROVE Seen
  <2>1. start + d < 2 * PMMod /\ d < PMMod - start + MaxGap
    BY <1>8, <1>6, <1>2, <1>3, <1>5, Bounds
  <2>2. at' = "wrap" => end < start /\ d < PMMod - start
    BY <1>8, <1>0, <1>4, <1>6, <2>1, <1>2, <1>3, Bounds
  <2>3. at' # "wrap" => at' = "end" /\ end < start /\ d >= PMMod - start /\ d < PMMod - start + MaxGap
    BY <1>8, <1>0, <1>4, <1>6, <2>1, <1>2, <1>3, Bounds
  <2> QED BY <2>2, <2>3
<1>9. ASSUME at = "end" PROVE Seen
  <2>1. ASSUME ~ (PMTimer < end) PROVE d >= WaitCounts
    <3> SUFFICES ASSUME d < WaitCounts PROVE FALSE
      BY <1>2, Bounds
    <3>1. start + d < 2 * PMMod
      BY <1>2, <1>3, Bounds
    <3>2. end < start => d >= PMMod - start
      BY <1>9, <1>7, <1>2, <1>3, <1>5, Bounds
    <3> QED BY <3>1, <3>2, <2>1, <1>2, <1>3, <1>4, Bounds
  <2>2. ASSUME PMTimer < end, end <= PMMod - MaxGap PROVE d < WaitCounts
    <3> SUFFICES ASSUME d >= WaitCounts PROVE FALSE
      BY <1>2, Bounds
    <3>1. start + d < 2 * PMMod
      BY <1>9, <1>7, <2>2, <1>2, <1>3, <1>5, Bounds
    <3>2. end >= start => start + d < PMMod
      BY <1>9, <1>7, <2>2, <1>2, <1>3, <1>5, Bounds
    <3> QED BY <3>1, <3>2, <2>2, <1>2, <1>3, <1>4, Bounds
  <2>3. end < start => d >= PMMod - start
    BY <1>9, <1>7, <1>2, <1>3, <1>5, Bounds
  <2>4. at' = "end" \/ (at' = "recount" /\ ~ (PMTimer < end))
    BY <1>9, <1>0
  <2>5. at' = "end" => PMTimer < end
    BY <1>9, <1>0
  <2> QED BY <2>1, <2>2, <2>3, <2>4, <2>5
<1>10. Seen
  BY <1>0, <1>8, <1>9
<1>11. LocalsInv'
  <2>1. gap' \in 0 .. MaxGap /\ gap' <= now'
    BY <1>0, <1>a, Locals, Bounds
  <2> QED BY <2>1, <1>0, <1>a DEF LocalsInv, TypeOK
<1>12. CountInv'
  BY <1>0, <1>1, <1>a DEF CountInv
<1>13. WaitInv'
  BY <1>0, <1>2, <1>5, <1>10 DEF WaitInv
<1>14. TotalInv'
  <2>1. now' - gap' >= now - gap /\ now' - gap' = now
    BY <1>0, <1>a, Locals
  <2>2. total - total_time \in {- BootCounts, 0, BootCounts} /\ total_time <= wait_time
    BY <1>1, <1>a DEF TotalInv
  <2>3. total_time <= now
    BY <2>2, <1>2, <1>a, Locals DEF LocalsInv
  <2>4. at' = "recount" => now' - gap' - wait_time' >= WaitCounts
    BY <1>10, <1>0, <2>1 DEF d
  <2> QED BY <1>0, <1>2, <2>1, <2>2, <2>3, <2>4 DEF TotalInv
<1>15. ReadInv' /\ CalibratedWithinTwoPeriods'
  BY <1>0 DEF ReadInv, CalibratedWithinTwoPeriods
<1> QED BY <1>11, <1>12, <1>13, <1>14, <1>15 DEF CalibrationInv

LEMMA RestartInv ==
  ASSUME CalibrationInv, Restart
  PROVE  CalibrationInv'
<1>a. LocalsInv /\ CountInv /\ ReadInv /\ TotalInv /\ WaitInv /\ CalibratedWithinTwoPeriods
  BY DEF CalibrationInv
<1> DEFINE x == TotalCount - total
           elapsed == count_time - total_time
<1>0. /\ at = "retick" /\ counts_per_loop_' = (x % CountMod) \div WaitMs
      /\ count' = counts_per_loop_' /\ at' = "calibrated" /\ gap' = 0
      /\ UNCHANGED <<now, pm0, pending, tick_, timers_, current_count, count_time, total,
                     total_time, start, end, wait_time, hung, switched>>
  BY DEF Restart, GoTo, history
<1>1. TotalCount \in Int /\ TotalCount - count_time \in {- BootCounts, 0, BootCounts}
  BY <1>a, <1>0, TotalCountError
<1>2. /\ total \in Int /\ total_time \in Nat /\ count_time \in Nat /\ wait_time \in Nat
      /\ total - total_time \in {- BootCounts, 0, BootCounts}
      /\ total_time <= wait_time /\ count_time - wait_time >= WaitCounts
      /\ count_time <= MaxTime
  <2>1. at \in Measured /\ at \in Waited
    BY <1>0 DEF Measured, Waited
  <2>2. count_time = now - gap
    BY <1>0, <1>a DEF ReadInv
  <2>3. total_time <= wait_time /\ count_time - wait_time >= WaitCounts
        /\ total - total_time \in {- BootCounts, 0, BootCounts}
    BY <2>1, <1>0, <1>a DEF TotalInv
  <2>4. /\ total \in Int /\ total_time \in Nat /\ count_time \in Nat /\ wait_time \in Nat
    BY <1>a DEF LocalsInv
  <2> QED BY <2>2, <2>3, <2>4, <1>a, Locals, Bounds
<1>3. \E error \in {-2, -1, 0, 1, 2} : x = elapsed + error * BootCounts
  <2>1. x - elapsed = (TotalCount - count_time) - (total - total_time)
    BY <1>1, <1>2
  <2> QED BY <2>1, <1>1, <1>2, Bounds
<1>4. x \in Nat /\ x < CountMod /\ x >= WaitMs
  BY <1>3, <1>2, Bounds
<1>5. x % CountMod = x
  <2>1. x \in 0 .. CountMod - 1 /\ 0 * CountMod + x = x
    BY <1>4, Bounds
  <2> QED BY <2>1, Remainder, Bounds
<1>6. x \div WaitMs \in Nat /\ x \div WaitMs > 0
  <2> HIDE DEF x
  <2> DEFINE q == x \div WaitMs
             r == x % WaitMs
  <2>1. q \in Int /\ r \in 0 .. WaitMs - 1 /\ x = q * WaitMs + r
    BY <1>4, Bounds
  <2> HIDE DEF q, r
  <2>2. q <= 0 => q * WaitMs <= 0
    BY <2>1, Bounds
  <2>3. q > 0
    BY <2>1, <2>2, <1>4, Bounds
  <2> QED BY <2>1, <2>3 DEF q
<1>7. counts_per_loop_' \in Nat /\ counts_per_loop_' > 0
  BY <1>0, <1>5, <1>6
<1>8. LocalsInv'
  <2>1. gap' \in 0 .. MaxGap /\ gap' <= now'
    BY <1>0, <1>a, Locals, Bounds
  <2>2. count' \in 0 .. counts_per_loop_'
    BY <1>0, <1>7
  <2> QED BY <2>1, <2>2, <1>0, <1>7, <1>a DEF LocalsInv, TypeOK
<1>9. CountInv'
  <2> DEFINE T == tick_ + Interrupts(pending)
  <2>1. T \in Nat /\ now = T * BootCounts + BootCounts - count /\ count <= BootCounts
    BY <1>0, <1>a, Locals DEF CountInv, Measuring
  <2>2. T * BootCounts \in Int /\ (T - 0) * BootCounts = T * BootCounts
    BY <2>1, Bounds
  <2> HIDE DEF T
  <2>3. (T - 0) * BootCounts <= now - 0
    BY <2>1, <2>2, <1>a, Locals, Bounds
  <2>4. (tick_' + Interrupts(pending') - gap') * BootCounts <= now' - gap'
    <3>1. T = tick_' + Interrupts(pending') /\ gap' = 0 /\ now' = now
      BY <1>0 DEF T
    <3>2. tick_' \in Int /\ Interrupts(pending') \in Int
      BY <1>0, <1>a, Locals
    <3> QED BY <2>1, <2>3, <3>1, <3>2, Bounds
  <2>5. at' \notin Measuring
    BY <1>0 DEF Measuring
  <2> QED BY <1>0, <1>7, <2>4, <2>5 DEF CountInv
<1>10. CalibratedWithinTwoPeriods'
  <2>1. PICK error \in {-2, -1, 0, 1, 2} : x = elapsed + error * BootCounts
    BY <1>3
  <2>2. counts_per_loop_' = ((elapsed + error * BootCounts) % CountMod) \div WaitMs
    BY <1>0, <2>1
  <2>3. elapsed' = elapsed
    BY <1>0
  <2> QED BY <2>2, <2>3 DEF CalibratedWithinTwoPeriods
<1>11. ReadInv' /\ TotalInv' /\ WaitInv'
  BY <1>0 DEF ReadInv, TotalInv, WaitInv, Measured, Waited
<1> QED BY <1>8, <1>9, <1>10, <1>11 DEF CalibrationInv

\* Once tasks are switched only the types are left of the calibration.
LEMMA RunCalibrationInv ==
  ASSUME LocalsInv', at' = "run"
  PROVE  CalibrationInv'
<1>1. CountInv'
  BY DEF CountInv, Measuring
<1>2. ReadInv' /\ TotalInv' /\ WaitInv' /\ CalibratedWithinTwoPeriods'
  BY DEF ReadInv, TotalInv, WaitInv, CalibratedWithinTwoPeriods, Measured, Waited
<1> QED BY <1>1, <1>2 DEF CalibrationInv

\* The next timeout of the task timer, where it does not wrap.
LEMMA NextTimeoutFits ==
  ASSUME NEW t \in Nat, t + Period < TickMod
  PROVE  NextTimeout(t) = t + Period
<1>1. t + Period \in 0 .. TickMod - 1 /\ 0 * TickMod + (t + Period) = t + Period
  BY Bounds
<1> QED BY <1>1, Remainder, Bounds DEF NextTimeout

\* Where it does, it is not after the present.
LEMMA NextTimeoutWraps ==
  ASSUME NEW t \in Nat, t < TickMod
  PROVE  /\ NextTimeout(t) \in 0 .. TickMod - 1
         /\ NextTimeout(t) <= t <=> t + Period >= TickMod
<1>1. t % TickMod = t
  <2>1. t \in 0 .. TickMod - 1 /\ 0 * TickMod + t = t
    BY Bounds
  <2> QED BY <2>1, Remainder, Bounds
<1>2. (t % TickMod) + Period < 2 * TickMod
  BY <1>1, Bounds
<1>3. NextTimeout(t) = IF t + Period < TickMod THEN t + Period ELSE t + Period - TickMod
  BY <1>1, <1>2, WrappedOnce, Bounds DEF NextTimeout
<1> QED BY <1>3, Bounds

LEMMA InitializeTaskInv ==
  ASSUME CalibrationInv, TimersInv, InitializeTask
  PROVE  CalibrationInv' /\ TimersInv'
<1>a. LocalsInv /\ CountInv
  BY DEF CalibrationInv
<1>0. /\ at = "calibrated" /\ timers_' = timers_ \cup {Timer(NextTimeout(tick_), TaskTimer)}
      /\ switched' = tick_ /\ at' = "run" /\ gap' = 0 /\ current_count' = 0 /\ count_time' = 0
      /\ total' = 0 /\ total_time' = 0 /\ start' = 0 /\ end' = 0 /\ wait_time' = 0
      /\ now' = 0 /\ pm0' = 0 /\ count' = 0 /\ pending' = FALSE
      /\ UNCHANGED <<tick_, counts_per_loop_, hung, added, sent>>
  BY DEF InitializeTask
<1>1. tick_ \in Nat /\ tick_ + Period < TickMod
  BY <1>0, <1>a, EarlyTick, Locals, Bounds
<1>2. NextTimeout(tick_) = tick_ + Period
  BY <1>1, NextTimeoutFits
<1> DEFINE largest == Timer(TickMod - 1, Largest)
           task == Timer(tick_ + Period, TaskTimer)
<1>3. timers_ = {largest} /\ ~ hung /\ DOMAIN added = {} /\ sent = <<>>
  BY <1>0 DEF TimersInv, SwitchInv
<1>4. timers_' = {largest, task}
  BY <1>0, <1>2, <1>3
<1>5. /\ largest.value = Largest /\ largest.timeout = TickMod - 1
      /\ task.value = TaskTimer /\ task.timeout = tick_ + Period
      /\ TaskTimer # Largest
  BY DEF Timer, TaskTimer, Largest
<1>6. CalibrationInv'
  <2>1. timers_' \subseteq [timeout : 0 .. TickMod - 1, value : Values \cup {TaskTimer, Largest}]
    BY <1>1, <1>4, Bounds DEF Timer
  <2>2. TypeOK'
    <3>1. /\ now' \in 0 .. MaxTime /\ pm0' \in 0 .. PMMod - 1 /\ end' \in 0 .. PMMod - 1
          /\ tick_' \in 0 .. TickMod - 1 /\ switched' \in 0 .. TickMod - 1
          /\ gap' \in 0 .. MaxGap /\ counts_per_loop_' \in Nat /\ count' \in 0 .. counts_per_loop_'
      BY <1>0, <1>1, <1>a, Locals, Bounds
    <3>2. pending' \in BOOLEAN /\ hung' \in BOOLEAN
      BY <1>0, <1>a DEF LocalsInv, TypeOK
    <3> QED BY <1>0, <2>1, <3>1, <3>2 DEF TypeOK
  <2>3. LocalsInv'
    BY <2>2, <1>0 DEF LocalsInv
  <2> QED BY <2>3, <1>0, RunCalibrationInv
<1>7. SwitchInv'
  <2> HIDE DEF largest, task
  <2>1. IsFiniteSet(timers_')
    <3>1. IsFiniteSet(timers_)
      BY DEF TimersInv, SwitchInv
    <3>2. timers_' = timers_ \cup {task}
      BY <1>3, <1>4
    <3> QED BY <3>1, <3>2, FS_AddElement
  <2>2. \A x \in timers_' : x.value = Largest => x.timeout = TickMod - 1
    BY <1>4, <1>5
  <2>3. {x \in timers_' : x.value = TaskTimer} = {task}
    BY <1>4, <1>5
  <2>4. task = Timer(switched' + Period, TaskTimer)
    BY <1>0 DEF task
  <2>5. switched' <= tick_' /\ switched' + Period < TickMod /\ tick_' < switched' + Period
    BY <1>0, <1>1, Bounds
  <2>6. ~ hung'
    BY <1>0, <1>3
  <2> QED BY <2>1, <2>2, <2>3, <2>4, <2>5, <2>6, <1>0 DEF SwitchInv
<1>8. MessageInv'
  <2> HIDE DEF largest, task
  <2>1. DOMAIN added' = {} /\ sent' = <<>> /\ ~ hung'
    BY <1>0, <1>3
  <2>2. \A x \in timers_' : x.value \notin Values
    BY <1>4, <1>5, Bounds
  <2>3. \A x, y \in timers_' : x.value = y.value => x = y
    BY <1>4, <1>5
  <2>4. \A x \in timers_' : ~ (x.timeout <= tick_')
    <3>1. ~ (largest.timeout <= tick_) /\ ~ (task.timeout <= tick_)
      BY <1>1, <1>5, Bounds
    <3>2. tick_' = tick_
      BY <1>0
    <3> QED BY <3>1, <3>2, <1>4
  <2>5. sent' \in Seq(Messages) /\ DOMAIN sent' = {}
    BY <2>1
  <2> QED BY <2>1, <2>2, <2>3, <2>4, <2>5 DEF MessageInv
<1> QED BY <1>6, <1>7, <1>8 DEF TimersInv

-----------------------------------------------------------------------------
(* The timers.                                                             *)

LEMMA InitTimersInv == Init => TimersInv
<1> SUFFICES ASSUME Init PROVE TimersInv
  OBVIOUS
<1> DEFINE largest == Timer(TickMod - 1, Largest)
<1>1. /\ timers_ = {largest} /\ hung = FALSE /\ added = [v \in {} |-> 0] /\ sent = <<>>
      /\ at = "count" /\ tick_ = 0
  BY DEF Init
<1>2. largest.value = Largest /\ largest.timeout = TickMod - 1
  BY DEF Timer
<1>3. DOMAIN added = {}
  BY <1>1
<1> HIDE DEF largest
<1>4. SwitchInv
  <2>1. IsFiniteSet(timers_)
    BY <1>1, FS_Singleton
  <2> QED BY <2>1, <1>1, <1>2, <1>3 DEF SwitchInv, largest
<1>5. MessageInv
  <2>1. \A x \in timers_ : x.value \notin Values
    BY <1>1, <1>2, Bounds
  <2>2. \A x \in timers_ : ~ (x.timeout <= tick_)
    <3>1. ~ (largest.timeout <= 0)
      BY <1>2, Bounds
    <3> QED BY <3>1, <1>1
  <2>3. \A x, y \in timers_ : x = y
    BY <1>1
  <2>4. sent \in Seq(Messages) /\ DOMAIN sent = {}
    BY <1>1
  <2> QED BY <1>3, <2>1, <2>2, <2>3, <2>4 DEF MessageInv
<1> QED BY <1>4, <1>5 DEF TimersInv

\* The steps of the calibration leave the timers alone.
LEMMA SameTimersInv ==
  ASSUME TimersInv, at # "run", at' # "run",
         UNCHANGED <<timers_, hung, added, sent, tick_>>
  PROVE  TimersInv'
<1>1. SwitchInv'
  BY DEF TimersInv, SwitchInv
<1>2. MessageInv'
  BY DEF TimersInv, MessageInv, SendTick, Before
<1> QED BY <1>1, <1>2 DEF TimersInv

LEMMA AddTimerInv ==
  ASSUME CalibrationInv, TimersInv,
         NEW timeout \in 0 .. TickMod - 1, NEW v \in Values, AddTimer(timeout, v)
  PROVE  CalibrationInv' /\ TimersInv'
<1> DEFINE new == Timer(timeout, v)
<1>0. /\ at = "run" /\ ~ hung /\ v \notin DOMAIN added
      /\ timers_' = timers_ \cup {new}
      /\ added' = [w \in DOMAIN added \cup {v} |-> IF w = v THEN tick_ ELSE added[w]]
      /\ UNCHANGED <<now, pm0, count, pending, tick_, counts_per_loop_, at, gap, current_count,
                     count_time, total, total_time, start, end, wait_time, hung, sent, switched>>
  BY DEF AddTimer, clock, calibration
<1>1. /\ new.value = v /\ new.timeout = timeout /\ v # TaskTimer /\ v # Largest
      /\ new \in [timeout : 0 .. TickMod - 1, value : Values \cup {TaskTimer, Largest}]
  BY Bounds DEF Timer
<1> HIDE DEF new
<1>2. LocalsInv /\ SwitchInv /\ MessageInv
  BY DEF CalibrationInv, TimersInv
<1>3. tick_ \in Nat /\ tick_' = tick_
  BY <1>0, <1>2, Locals
<1>4. CalibrationInv'
  <2>1. timers_' \subseteq [timeout : 0 .. TickMod - 1, value : Values \cup {TaskTimer, Largest}]
    BY <1>0, <1>1, <1>2 DEF LocalsInv, TypeOK
  <2>2. LocalsInv'
    BY <2>1, <1>0, <1>2 DEF LocalsInv, TypeOK
  <2> QED BY <2>2, <1>0, RunCalibrationInv
<1>5. SwitchInv'
  <2>1. IsFiniteSet(timers_')
    BY <1>0, <1>2, FS_AddElement DEF SwitchInv
  <2>2. {x \in timers_' : x.value = TaskTimer} = {x \in timers_ : x.value = TaskTimer}
    BY <1>0, <1>1
  <2>3. \A x \in timers_' : x.value = Largest => x.timeout = TickMod - 1
    BY <1>0, <1>1, <1>2 DEF SwitchInv
  <2> QED BY <2>1, <2>2, <2>3, <1>0, <1>2 DEF SwitchInv
<1>6. /\ DOMAIN added' = DOMAIN added \cup {v} /\ added'[v] = tick_
      /\ \A w \in DOMAIN added : w # v /\ added'[w] = added[w]
  BY <1>0
<1>7. \A x \in timers_ : x.value # v
  BY <1>0, <1>2 DEF MessageInv
<1>8. MessageInv'
  <2>1. DOMAIN added' \subseteq Values
    BY <1>6, <1>2 DEF MessageInv
  <2>2. \A w \in DOMAIN added' : added'[w] \in Nat /\ added'[w] <= tick_'
    BY <1>6, <1>3, <1>2 DEF MessageInv
  <2>3. \A x \in timers_' : x.value \in Values => x.value \in DOMAIN added'
    BY <1>0, <1>1, <1>6, <1>2 DEF MessageInv
  <2>4. \A x, y \in timers_' : x.value = y.value => x = y
    BY <1>0, <1>1, <1>7, <1>2 DEF MessageInv
  <2>5. \A x \in timers_' : x.timeout <= tick_' => x.value \in Values /\ added'[x.value] = tick_'
    <3> SUFFICES ASSUME NEW x \in timers_', x.timeout <= tick_
                 PROVE  x.value \in Values /\ added'[x.value] = tick_
      BY <1>3
    <3>1. CASE x = new
      BY <3>1, <1>1, <1>6
    <3>2. CASE x \in timers_
      <4>1. x.value \in Values /\ added[x.value] = tick_ /\ x.value \in DOMAIN added
        BY <3>2, <1>0, <1>2 DEF MessageInv
      <4> QED BY <4>1, <1>6
    <3> QED BY <3>1, <3>2, <1>0
  <2>6. sent' = sent /\ sent \in Seq(Messages)
    BY <1>0, <1>2 DEF MessageInv
  <2>7. ASSUME NEW i \in DOMAIN sent
        PROVE  /\ sent[i].timer.value \in DOMAIN added'
               /\ \A y \in timers_' : y.value # sent[i].timer.value
               /\ sent[i].tick = SendTick(sent[i].timer)'
               /\ sent[i].tick <= tick_'
    <3>1. /\ sent[i].timer.value \in DOMAIN added
          /\ \A y \in timers_ : y.value # sent[i].timer.value
          /\ sent[i].tick = SendTick(sent[i].timer)
          /\ sent[i].tick <= tick_
      BY <1>2 DEF MessageInv
    <3>2. added'[sent[i].timer.value] = added[sent[i].timer.value] /\ sent[i].timer.value # v
      BY <3>1, <1>6
    <3>3. SendTick(sent[i].timer)' = SendTick(sent[i].timer)
      BY <3>2, <2>6 DEF SendTick
    <3> QED BY <3>1, <3>2, <3>3, <1>0, <1>1, <1>3, <1>6
  <2>8. \A i, j \in DOMAIN sent : i < j => Before(sent[i], sent[j])
    BY <1>2 DEF MessageInv
  <2>9. \A i, j \in DOMAIN sent' : i < j => Before(sent'[i], sent'[j])
    BY <2>6, <2>8
  <2>10. \A i \in DOMAIN sent' :
           /\ sent'[i].timer.value \in DOMAIN added'
           /\ \A y \in timers_' : y.value # sent'[i].timer.value
           /\ sent'[i].tick = SendTick(sent[i].timer)'
           /\ sent'[i].tick <= tick_'
    BY <2>6, <2>7
  <2> QED BY <2>1, <2>2, <2>3, <2>4, <2>5, <2>6, <2>9, <2>10 DEF MessageInv
<1> QED BY <1>4, <1>5, <1>8 DEF TimersInv

\* The messages of the timers of S, as they are sent at a tick.
LEMMA PoppedMessages ==
  ASSUME NEW S, IsFiniteSet(S), S \subseteq [timeout : Nat, value : Values],
         NEW q \in PopOrders(S), NEW tick \in Nat,
         NEW batch, batch = [i \in DOMAIN q |-> [timer |-> q[i], tick |-> tick]]
  PROVE  /\ batch \in Seq(Messages)
         /\ \A i \in DOMAIN batch : batch[i].timer \in S /\ batch[i].tick = tick
         /\ \A i, j \in DOMAIN batch :
              i < j => /\ batch[i].timer # batch[j].timer
                       /\ batch[i].timer.timeout <= batch[j].timer.timeout
<1> DEFINE n == Cardinality(S)
<1>1. n \in Nat
  BY FS_CardinalityType
<1> HIDE DEF n
<1>2. /\ q \in [1 .. n -> S]
      /\ \A i, j \in 1 .. n : i < j => q[i] # q[j] /\ q[i].timeout <= q[j].timeout
  BY DEF PopOrders, n
<1>3. DOMAIN q = 1 .. n /\ \A i \in 1 .. n : q[i] \in S
  BY <1>2
<1>4. DOMAIN batch = 1 .. n /\ \A i \in 1 .. n : batch[i] = [timer |-> q[i], tick |-> tick]
  BY <1>3
<1>5. \A i \in 1 .. n : batch[i] \in Messages
  BY <1>3, <1>4 DEF Messages
<1>6. batch \in [1 .. n -> Messages]
  BY <1>4, <1>5
<1>7. batch \in Seq(Messages)
  BY <1>1, <1>6
<1> QED BY <1>2, <1>3, <1>4, <1>7

LEMMA MessageTicks ==
  ASSUME NEW s \in Seq(Messages), NEW i \in DOMAIN s
  PROVE  s[i].tick \in Nat
<1>1. s[i] \in Messages
  OBVIOUS
<1> QED BY <1>1 DEF Messages

\* Messages sent one after another stay in order.
LEMMA SentAfter ==
  ASSUME NEW s \in Seq(Messages), NEW batch \in Seq(Messages),
         \A i, j \in DOMAIN s : i < j => Before(s[i], s[j]),
         \A i, j \in DOMAIN batch : i < j => Before(batch[i], batch[j]),
         \A i \in DOMAIN s, j \in DOMAIN batch : Before(s[i], batch[j])
  PROVE  /\ s \o batch \in Seq(Messages)
         /\ \A i \in DOMAIN (s \o batch) :
              \/ i \in DOMAIN s /\ (s \o batch)[i] = s[i]
              \/ \E j \in DOMAIN batch : (s \o batch)[i] = batch[j]
         /\ \A i, j \in DOMAIN (s \o batch) : i < j => Before((s \o batch)[i], (s \o batch)[j])
<1> DEFINE r == s \o batch
<1>1. /\ r \in Seq(Messages) /\ Len(s) \in Nat /\ Len(batch) \in Nat
      /\ DOMAIN s = 1 .. Len(s) /\ DOMAIN batch = 1 .. Len(batch)
      /\ DOMAIN r = 1 .. Len(s) + Len(batch)
      /\ \A i \in 1 .. Len(s) + Len(batch) :
           r[i] = IF i <= Len(s) THEN s[i] ELSE batch[i - Len(s)]
  OBVIOUS
<1> HIDE DEF r
<1>2. \A i \in DOMAIN r : i <= Len(s) => i \in DOMAIN s /\ r[i] = s[i]
  BY <1>1
<1>3. \A i \in DOMAIN r : ~ (i <= Len(s)) => i - Len(s) \in DOMAIN batch /\ r[i] = batch[i - Len(s)]
  BY <1>1
<1>4. ASSUME NEW i \in DOMAIN r, NEW j \in DOMAIN r, i < j
      PROVE  Before(r[i], r[j])
  <2>0. i \in Int /\ j \in Int
    BY <1>1
  <2>1. CASE j <= Len(s)
    <3>1. i <= Len(s)
      BY <2>0, <2>1, <1>1, <1>4
    <3> QED BY <3>1, <2>1, <1>2, <1>4
  <2>2. CASE i <= Len(s) /\ ~ (j <= Len(s))
    BY <2>2, <1>2, <1>3
  <2>3. CASE ~ (i <= Len(s)) /\ ~ (j <= Len(s))
    <3>1. i - Len(s) < j - Len(s)
      BY <2>0, <1>1, <1>4
    <3> QED BY <3>1, <2>3, <1>3
  <2>4. i <= Len(s) \/ ~ (i <= Len(s))
    OBVIOUS
  <2>5. ~ (i <= Len(s)) => ~ (j <= Len(s))
    BY <2>0, <1>1, <1>4
  <2> QED BY <2>1, <2>2, <2>3, <2>5
<1> QED BY <1>1, <1>2, <1>3, <1>4 DEF r

\* During the calibration no timer is due.
LEMMA EarlyInterruptInv ==
  ASSUME CalibrationInv, TimersInv, at # "run", LAPICTimerOnInterrupt
  PROVE  CalibrationInv' /\ TimersInv'
<1>a. LocalsInv /\ CountInv /\ ReadInv /\ TotalInv /\ WaitInv /\ CalibratedWithinTwoPeriods
  BY DEF CalibrationInv
<1> DEFINE tick == (tick_ + 1) % TickMod
<1>0. /\ counts_per_loop_ > 0 /\ pending /\ pending' = FALSE /\ Tick(tick)
      /\ UNCHANGED <<now, pm0, count, counts_per_loop_, at, gap, current_count, count_time,
                     total, total_time, start, end, wait_time>>
  BY DEF LAPICTimerOnInterrupt, calibration
<1>1. /\ tick_ \in Nat /\ Interrupts(pending) = 1 /\ Interrupts(FALSE) = 0
      /\ tick_ + 1 + Period < TickMod
  <2>1. pending \in BOOLEAN
    BY <1>a DEF LocalsInv, TypeOK
  <2>2. Interrupts(pending) = 1 /\ Interrupts(FALSE) = 0
    BY <1>0, <2>1 DEF Interrupts
  <2> QED BY <2>2, <1>a, EarlyTick, Locals
<1>2. tick = tick_ + 1
  <2>1. tick_ + 1 \in 0 .. TickMod - 1 /\ 0 * TickMod + (tick_ + 1) = tick_ + 1
    BY <1>1, Bounds
  <2> QED BY <2>1, Remainder, Bounds
<1> HIDE DEF tick
<1>3. timers_ = {Timer(TickMod - 1, Largest)} /\ ~ hung /\ sent = <<>>
  BY DEF TimersInv, SwitchInv
<1>4. Due(tick) = {}
  <2>1. ~ (Timer(TickMod - 1, Largest).timeout <= tick)
    BY <1>1, <1>2, Bounds DEF Timer
  <2> QED BY <1>3, <2>1 DEF Due
<1>5. /\ tick_' = tick /\ UNCHANGED <<timers_, sent, switched, hung, added>>
  <2>1. ~ PoppedForEver(tick)
    BY <1>4 DEF PoppedForEver
  <2>2. ~ \E x \in Due(tick) : x.value = TaskTimer
    BY <1>4
  <2>3. /\ tick_' = tick /\ timers_' = (timers_ \ {}) \cup {} /\ switched' = switched
        /\ UNCHANGED <<hung, added>>
        /\ \E q \in PopOrders({x \in Due(tick) : x.value # TaskTimer}) :
             sent' = sent \o [i \in DOMAIN q |-> [timer |-> q[i], tick |-> tick]]
    BY <1>0, <1>4, <2>1, <2>2 DEF Tick
  <2>4. PICK q \in PopOrders({}) :
           sent' = sent \o [i \in DOMAIN q |-> [timer |-> q[i], tick |-> tick]]
    <3>1. {x \in Due(tick) : x.value # TaskTimer} = {}
      BY <1>4
    <3> QED BY <2>3, <3>1
  <2>5. DOMAIN q = {}
    <3>1. Cardinality({}) = 0
      BY FS_EmptySet
    <3> QED BY <3>1, <2>4 DEF PopOrders
  <2>6. [i \in DOMAIN q |-> [timer |-> q[i], tick |-> tick]] = <<>>
    BY <2>5
  <2>7. sent' = sent
    BY <2>4, <2>6, <1>3
  <2> QED BY <2>3, <2>7
<1>6. LocalsInv'
  <2>1. tick_' \in 0 .. TickMod - 1
    BY <1>1, <1>2, <1>5, Bounds
  <2>2. pending' \in BOOLEAN /\ hung' \in BOOLEAN
    BY <1>0, <1>5, <1>a DEF LocalsInv, TypeOK
  <2>3. timers_' = timers_ /\ switched' = switched
    BY <1>5
  <2>4. TypeOK'
    BY <1>0, <2>1, <2>2, <2>3, <1>a DEF LocalsInv, TypeOK
  <2> QED BY <1>0, <2>4, <1>a DEF LocalsInv
<1>7. tick_' + Interrupts(pending') = tick_ + Interrupts(pending)
  <2>1. pending' = FALSE
    BY <1>0
  <2>2. Interrupts(pending') = 0
    BY <1>1, <2>1
  <2>3. tick_' = tick_ + 1
    BY <1>2, <1>5
  <2> QED BY <1>1, <2>2, <2>3
<1>8. CountInv'
  <2>1. UNCHANGED <<now, count, counts_per_loop_, at, gap>>
    BY <1>0
  <2>2. /\ tick_ \in Int /\ Interrupts(pending) \in Int /\ tick_' \in Int
        /\ Interrupts(pending') \in Int /\ gap \in Int /\ now \in Int /\ count \in Int
    <3>1. Interrupts(pending') = 0
      <4>1. pending' = FALSE
        BY <1>0
      <4> QED BY <1>1, <4>1
    <3>2. tick_' = tick_ + 1
      BY <1>2, <1>5
    <3> QED BY <1>1, <3>1, <3>2, <1>a, Locals
  <2> QED BY <2>1, <2>2, <1>7, <1>a, Bounds DEF CountInv
<1>9. Polled' = Polled /\ now' - gap' = now - gap
  BY <1>0 DEF Polled
<1>10. ReadInv' /\ TotalInv' /\ WaitInv' /\ CalibratedWithinTwoPeriods'
  <2>1. ReadInv'
    BY <1>0, <1>a DEF ReadInv
  <2>2. TotalInv'
    BY <1>0, <1>9, <1>a DEF TotalInv
  <2>3. WaitInv'
    BY <1>0, <1>9, <1>a DEF WaitInv
  <2>4. CalibratedWithinTwoPeriods'
    BY <1>0, <1>a DEF CalibratedWithinTwoPeriods
  <2> QED BY <2>1, <2>2, <2>3, <2>4
<1>11. SwitchInv'
  BY <1>0, <1>5 DEF TimersInv, SwitchInv
<1>12. MessageInv'
  <2>1. DOMAIN added' = {} /\ sent' = <<>>
    BY <1>3, <1>5 DEF TimersInv, SwitchInv
  <2>2. \A x \in timers_' : ~ (x.timeout <= tick_')
    BY <1>4, <1>5 DEF Due
  <2>3. \A x \in timers_' : x.value \notin Values
    BY <1>3, <1>5, Bounds DEF Timer
  <2>4. \A x, y \in timers_' : x.value = y.value => x = y
    BY <1>3, <1>5
  <2>5. sent' \in Seq(Messages) /\ DOMAIN sent' = {}
    BY <2>1
  <2> QED BY <2>1, <2>2, <2>3, <2>4, <2>5 DEF MessageInv
<1> QED BY <1>6, <1>8, <1>10, <1>11, <1>12 DEF CalibrationInv, TimersInv

\* While tasks are switched: the tick that comes hangs or is the one the timers that are
\* due were added for.
LEMMA RunInterruptInv ==
  ASSUME CalibrationInv, TimersInv, at = "run", LAPICTimerOnInterrupt
  PROVE  CalibrationInv' /\ TimersInv'
<1>a. LocalsInv /\ SwitchInv /\ MessageInv
  BY DEF CalibrationInv, TimersInv
<1> DEFINE tick == (tick_ + 1) % TickMod
           due == Due(tick)
           task == \E x \in due : x.value = TaskTimer
           S == {x \in due : x.value # TaskTimer}
           last == Timer(switched + Period, TaskTimer)
           next == Timer(tick + Period, TaskTimer)
<1>0. /\ ~ hung /\ pending' = FALSE /\ Tick(tick)
      /\ UNCHANGED <<now, pm0, count, counts_per_loop_, at, gap, current_count, count_time,
                     total, total_time, start, end, wait_time>>
  BY DEF LAPICTimerOnInterrupt, calibration
<1>1. /\ tick_ \in Nat /\ switched \in Nat /\ switched <= tick_ /\ tick_ < switched + Period
      /\ switched + Period < TickMod
      /\ {x \in timers_ : x.value = TaskTimer} = {last}
      /\ \A x \in timers_ : x.value = Largest => x.timeout = TickMod - 1
  BY <1>0, <1>a, Locals DEF SwitchInv
<1>2. tick = tick_ + 1 /\ tick \in Nat /\ tick <= switched + Period /\ tick < TickMod
  <2>1. tick_ + 1 \in 0 .. TickMod - 1 /\ 0 * TickMod + (tick_ + 1) = tick_ + 1
    BY <1>1, Bounds
  <2>2. (tick_ + 1) % TickMod = tick_ + 1
    BY <2>1, Remainder, Bounds
  <2> QED BY <2>2, <1>1, Bounds
<1>3. /\ last.value = TaskTimer /\ last.timeout = switched + Period /\ last \in timers_
      /\ next.value = TaskTimer /\ next.timeout = tick + Period
      /\ TaskTimer \notin Values /\ Largest \notin Values
  BY <1>1, Bounds DEF Timer
<1> HIDE DEF tick, last, next
<1>4. due = {x \in timers_ : x.timeout <= tick}
  BY DEF Due
<1> HIDE DEF due
<1>5. /\ task <=> tick = switched + Period
      /\ task => last \in due
  <2>1. task <=> last \in due
    BY <1>1, <1>3, <1>4
  <2>2. last \in due <=> switched + Period <= tick
    BY <1>3, <1>4
  <2> QED BY <2>1, <2>2, <1>1, <1>2, Bounds
<1> HIDE DEF task
<1>6. PoppedForEver(tick) <=> NextTimeout(tick) <= tick /\ task
  BY DEF PoppedForEver, due, task
<1>7. NextTimeout(tick) \in 0 .. TickMod - 1 /\ (NextTimeout(tick) <= tick <=> tick + Period >= TickMod)
  BY <1>2, NextTimeoutWraps
<1>8. tick_' = tick /\ tick_' > tick_
  <2>1. tick_' = tick
    BY <1>0 DEF Tick
  <2> QED BY <2>1, <1>1, <1>2
<1>9. ASSUME timers_' \subseteq [timeout : 0 .. TickMod - 1, value : Values \cup {TaskTimer, Largest}],
             hung' \in BOOLEAN, switched' \in 0 .. TickMod - 1
      PROVE  CalibrationInv'
  <2>1. tick_' \in 0 .. TickMod - 1
    BY <1>2, <1>8, Bounds
  <2>2. pending' \in BOOLEAN
    BY <1>0
  <2>3. TypeOK'
    BY <1>0, <1>9, <2>1, <2>2, <1>a DEF LocalsInv, TypeOK
  <2>4. LocalsInv'
    BY <1>0, <2>3, <1>a DEF LocalsInv
  <2> QED BY <2>4, <1>0, RunCalibrationInv
<1>10. CASE PoppedForEver(tick)
  <2>0. hung' = TRUE
    BY <1>0, <1>10 DEF Tick
  <2>1. UNCHANGED <<timers_, added, sent, switched>>
    BY <1>0, <1>10 DEF Tick, history
  <2>2. tick + Period >= TickMod
    BY <1>6, <1>7, <1>10
  <2>3. SwitchInv'
    <3>1. switched' <= tick_' /\ tick_' + Period >= TickMod
      BY <1>1, <1>2, <1>8, <2>1, <2>2, Bounds
    <3> QED BY <1>0, <1>a, <2>0, <2>1, <3>1 DEF SwitchInv
  <2>4. MessageInv'
    <3>1. \A v \in DOMAIN added' : added'[v] \in Nat /\ added'[v] <= tick_'
      BY <1>1, <1>2, <1>8, <1>a, <2>1 DEF MessageInv
    <3>2. \A i \in DOMAIN sent : sent[i].tick <= tick_ /\ sent[i].tick \in Nat
      BY <1>a, MessageTicks DEF MessageInv
    <3>3. \A i \in DOMAIN sent : sent[i].tick <= tick_'
      BY <1>1, <1>2, <1>8, <3>2
    <3> QED BY <1>a, <2>0, <2>1, <3>1, <3>3 DEF MessageInv, SendTick
  <2>5. CalibrationInv'
    <3>1. timers_' \subseteq [timeout : 0 .. TickMod - 1, value : Values \cup {TaskTimer, Largest}]
          /\ switched' \in 0 .. TickMod - 1 /\ hung' \in BOOLEAN
      BY <2>0, <2>1, <1>a DEF LocalsInv, TypeOK
    <3> QED BY <3>1, <1>9
  <2> QED BY <2>3, <2>4, <2>5 DEF TimersInv
<1>11. CASE ~ PoppedForEver(tick)
  <2>1. /\ timers_' = (timers_ \ due) \cup (IF task THEN {Timer(NextTimeout(tick), TaskTimer)} ELSE {})
        /\ switched' = IF task THEN tick ELSE switched
        /\ hung' = hung /\ added' = added
    BY <1>0, <1>11 DEF Tick, due, task
  <2>2. PICK q \in PopOrders(S) :
           sent' = sent \o [i \in DOMAIN q |-> [timer |-> q[i], tick |-> tick]]
    BY <1>0, <1>11 DEF Tick, due, task
  <2>3. task => tick + Period < TickMod /\ NextTimeout(tick) = tick + Period
    BY <1>2, <1>6, <1>7, <1>11, NextTimeoutFits, Bounds
  <2>4. timers_' = (timers_ \ due) \cup (IF task THEN {next} ELSE {})
    BY <2>1, <2>3 DEF next
  <2>5. \A x \in S : x \in timers_ /\ x.value \in Values /\ x.timeout <= tick /\ x.timeout \in Nat
    <3> SUFFICES ASSUME NEW x \in S
                 PROVE  x \in timers_ /\ x.value \in Values /\ x.timeout <= tick /\ x.timeout \in Nat
      OBVIOUS
    <3>1. x \in timers_ /\ x.timeout <= tick /\ x.value # TaskTimer
      BY <1>4
    <3>2. x \in [timeout : 0 .. TickMod - 1, value : Values \cup {TaskTimer, Largest}]
      BY <3>1, <1>a DEF LocalsInv, TypeOK
    <3>3. x.timeout \in Nat /\ x.value \in Values \cup {Largest}
      BY <3>1, <3>2, Bounds
    <3>4. x.value # Largest
      <4> SUFFICES ASSUME x.value = Largest PROVE FALSE
        OBVIOUS
      <4>1. x.timeout = TickMod - 1
        BY <3>1, <1>1
      <4>2. tick = TickMod - 1 /\ tick = switched + Period
        BY <4>1, <3>1, <1>1, <1>2, Bounds
      <4> QED BY <4>2, <2>3, <1>5, Bounds
    <3> QED BY <3>1, <3>3, <3>4
  <2>6. \A x \in timers_' : x = next \/ (x \in timers_ /\ x.timeout > tick)
    <3> SUFFICES ASSUME NEW x \in timers_', x # next
                 PROVE  x \in timers_ /\ x.timeout > tick
      OBVIOUS
    <3>1. x \in timers_ /\ ~ (x.timeout <= tick)
      BY <2>4, <1>4
    <3>2. x.timeout \in 0 .. TickMod - 1
      BY <3>1, <1>a DEF LocalsInv, TypeOK
    <3> QED BY <3>1, <3>2, <1>2, Bounds
  <2>7. next \in timers_' => task
    <3>1. next.timeout # last.timeout => next \notin timers_
      BY <1>1, <1>3
    <3>2. next.timeout # last.timeout
      BY <1>1, <1>2, <1>3, Bounds
    <3> QED BY <2>4, <3>1, <3>2
  <2>8. SwitchInv'
    <3>1. IsFiniteSet(timers_')
      <4>1. IsFiniteSet(timers_)
        BY <1>a DEF SwitchInv
      <4>2. IsFiniteSet(timers_ \ due)
        BY <4>1, FS_Subset
      <4>3. IsFiniteSet((timers_ \ due) \cup {next})
        BY <4>2, FS_AddElement
      <4> QED BY <2>4, <4>2, <4>3
    <3>2. \A x \in timers_' : x.value = Largest => x.timeout = TickMod - 1
      <4>1. TaskTimer # Largest
        BY DEF TaskTimer, Largest
      <4> QED BY <2>6, <1>1, <1>3, <4>1
    <3>3. {x \in timers_' : x.value = TaskTimer} = {Timer(switched' + Period, TaskTimer)}
      <4>1. CASE task
        <5>1. {x \in timers_' : x.value = TaskTimer} = {next}
          BY <4>1, <2>4, <1>1, <1>3, <1>5
        <5> QED BY <5>1, <4>1, <2>1 DEF next
      <4>2. CASE ~ task
        <5>1. last \notin due
          BY <4>2, <1>3 DEF task
        <5>2. {x \in timers_' : x.value = TaskTimer} = {last}
          BY <4>2, <5>1, <2>4, <1>1, <1>3
        <5> QED BY <5>2, <4>2, <2>1 DEF last
      <4> QED BY <4>1, <4>2
    <3>4. switched' <= tick_' /\ switched' + Period < TickMod /\ tick_' < switched' + Period
      BY <2>1, <2>3, <1>1, <1>2, <1>5, <1>8, Bounds
    <3>5. ~ hung'
      BY <1>0, <2>1
    <3> QED BY <1>0, <3>1, <3>2, <3>3, <3>4, <3>5 DEF SwitchInv
  <2>9. CalibrationInv'
    <3>1. hung' \in BOOLEAN
      BY <2>1, <1>a DEF LocalsInv, TypeOK
    <3>2. switched' \in 0 .. TickMod - 1
      BY <2>1, <1>1, <1>2, Bounds
    <3>3. next \in timers_' => next \in [timeout : 0 .. TickMod - 1, value : Values \cup {TaskTimer, Largest}]
      BY <2>3, <2>7, <1>2, Bounds DEF next, Timer
    <3>4. timers_' \subseteq [timeout : 0 .. TickMod - 1, value : Values \cup {TaskTimer, Largest}]
      BY <2>6, <3>3, <1>a DEF LocalsInv, TypeOK
    <3> QED BY <3>1, <3>2, <3>4, <1>9
  <2> DEFINE batch == [i \in DOMAIN q |-> [timer |-> q[i], tick |-> tick]]
  <2>10. /\ batch \in Seq(Messages)
         /\ \A i \in DOMAIN batch : batch[i].timer \in S /\ batch[i].tick = tick
         /\ \A i, j \in DOMAIN batch :
              i < j => /\ batch[i].timer # batch[j].timer
                       /\ batch[i].timer.timeout <= batch[j].timer.timeout
    <3>1. IsFiniteSet(S)
      <4>1. S \subseteq timers_
        BY <2>5
      <4> QED BY <4>1, <1>a, FS_Subset DEF SwitchInv
    <3>2. S \subseteq [timeout : Nat, value : Values]
      <4> SUFFICES ASSUME NEW x \in S PROVE x \in [timeout : Nat, value : Values]
        OBVIOUS
      <4>1. x \in timers_ /\ x.timeout \in Nat /\ x.value \in Values
        BY <2>5
      <4>2. x \in [timeout : 0 .. TickMod - 1, value : Values \cup {TaskTimer, Largest}]
        BY <4>1, <1>a DEF LocalsInv, TypeOK
      <4> QED BY <4>1, <4>2
    <3> HIDE DEF S
    <3> QED BY <3>1, <3>2, <1>2, PoppedMessages
  <2> HIDE DEF batch
  <2>11. MessageInv'
    <3>1. sent' = sent \o batch
      BY <2>2 DEF batch
    <3>2. added' = added /\ ~ hung'
      BY <1>0, <2>1
    <3>3. /\ sent \in Seq(Messages)
          /\ \A i \in DOMAIN sent :
               /\ sent[i].timer.value \in DOMAIN added
               /\ \A y \in timers_ : y.value # sent[i].timer.value
               /\ sent[i].tick = SendTick(sent[i].timer)
               /\ sent[i].tick <= tick_ /\ sent[i].tick \in Nat
               /\ sent[i].tick < tick
      <4>1. sent \in Seq(Messages)
        BY <1>a DEF MessageInv
      <4>2. \A i \in DOMAIN sent : sent[i].tick \in Nat /\ sent[i].tick <= tick_
        BY <4>1, <1>a, MessageTicks DEF MessageInv
      <4>3. \A i \in DOMAIN sent : sent[i].tick < tick
        BY <4>2, <1>1, <1>2
      <4> QED BY <4>1, <4>2, <4>3, <1>a DEF MessageInv
    <3>4. \A x \in S :
            /\ x.value \in DOMAIN added
            /\ tick = SendTick(x)
            /\ \A y \in timers_' : y.value # x.value
      <4> SUFFICES ASSUME NEW x \in S
                   PROVE  /\ x.value \in DOMAIN added
                          /\ tick = SendTick(x)
                          /\ \A y \in timers_' : y.value # x.value
        OBVIOUS
      <4>1. x \in timers_ /\ x.value \in Values /\ x.timeout <= tick /\ x.timeout \in Nat
        BY <2>5
      <4>2. x.value \in DOMAIN added /\ added[x.value] \in Nat /\ added[x.value] <= tick_
        BY <4>1, <1>a DEF MessageInv
      <4>3. x.timeout <= tick_ => added[x.value] = tick_
        BY <4>1, <1>0, <1>a DEF MessageInv
      <4>4. tick = SendTick(x)
        BY <4>1, <4>2, <4>3, <1>1, <1>2 DEF SendTick
      <4>5. ASSUME NEW y \in timers_', y.value = x.value PROVE FALSE
        <5>1. CASE y = next
          BY <4>1, <4>5, <5>1, <1>3
        <5>2. CASE y \in timers_ /\ y.timeout > tick
          <6>1. y = x
            BY <4>1, <4>5, <5>2, <1>a DEF MessageInv
          <6> QED BY <6>1, <4>1, <5>2, <1>2
        <5> QED BY <5>1, <5>2, <2>6
      <4> QED BY <4>2, <4>4, <4>5
    <3>5. \A i, j \in DOMAIN batch : i < j => Before(batch[i], batch[j])
      <4> SUFFICES ASSUME NEW i \in DOMAIN batch, NEW j \in DOMAIN batch, i < j
                   PROVE  Before(batch[i], batch[j])
        OBVIOUS
      <4>1. /\ batch[i].timer \in timers_ /\ batch[j].timer \in timers_
            /\ batch[i].timer # batch[j].timer /\ batch[i].tick = tick /\ batch[j].tick = tick
            /\ batch[i].timer.timeout <= batch[j].timer.timeout
        BY <2>5, <2>10
      <4>2. batch[i].timer.value # batch[j].timer.value
        BY <4>1, <1>a DEF MessageInv
      <4> QED BY <4>1, <4>2 DEF Before
    <3>6. \A i \in DOMAIN sent, j \in DOMAIN batch : Before(sent[i], batch[j])
      <4> SUFFICES ASSUME NEW i \in DOMAIN sent, NEW j \in DOMAIN batch
                   PROVE  Before(sent[i], batch[j])
        OBVIOUS
      <4>1. batch[j].timer \in timers_ /\ batch[j].tick = tick
        BY <2>5, <2>10
      <4>2. batch[j].timer.value # sent[i].timer.value /\ sent[i].tick < tick
        BY <4>1, <3>3
      <4> QED BY <4>1, <4>2 DEF Before
    <3>7. \A i, j \in DOMAIN sent : i < j => Before(sent[i], sent[j])
      BY <1>a DEF MessageInv
    <3>8. /\ sent' \in Seq(Messages)
          /\ \A i \in DOMAIN sent' :
               \/ i \in DOMAIN sent /\ sent'[i] = sent[i]
               \/ \E j \in DOMAIN batch : sent'[i] = batch[j]
          /\ \A i, j \in DOMAIN sent' : i < j => Before(sent'[i], sent'[j])
      BY <3>1, <3>3, <3>5, <3>6, <3>7, <2>10, SentAfter
    <3>9. ASSUME NEW m, m \in {sent'[i] : i \in DOMAIN sent'}
          PROVE  /\ m.timer.value \in DOMAIN added
                 /\ \A y \in timers_' : y.value # m.timer.value
                 /\ m.tick = SendTick(m.timer)
                 /\ m.tick <= tick
      <4>1. CASE \E i \in DOMAIN sent : m = sent[i]
        <5>1. PICK i \in DOMAIN sent : m = sent[i]
          BY <4>1
        <5>2. /\ m.timer.value \in DOMAIN added /\ m.timer.value \in Values
              /\ \A y \in timers_ : y.value # m.timer.value
              /\ m.tick = SendTick(m.timer)
              /\ m.tick < tick /\ m.tick \in Nat
          BY <5>1, <3>3, <1>a DEF MessageInv
        <5>3. m.tick <= tick
          BY <5>2, <1>2
        <5>4. \A y \in timers_' : y.value # m.timer.value
          BY <5>2, <2>6, <1>3
        <5> QED BY <5>2, <5>3, <5>4
      <4>2. CASE \E j \in DOMAIN batch : m = batch[j]
        <5>1. PICK j \in DOMAIN batch : m = batch[j]
          BY <4>2
        <5>2. m.timer \in S /\ m.tick = tick
          BY <5>1, <2>10
        <5> QED BY <5>2, <3>4, <1>2
      <4> QED BY <3>8, <3>9, <4>1, <4>2
    <3>10. \A v \in DOMAIN added : added[v] \in Nat /\ added[v] <= tick
      BY <1>1, <1>2, <1>a DEF MessageInv
    <3>11. \A x \in timers_' : x.value \in Values => x.value \in DOMAIN added
      BY <2>6, <1>3, <1>a DEF MessageInv
    <3>12. \A x, y \in timers_' : x.value = y.value => x = y
      <4> SUFFICES ASSUME NEW x \in timers_', NEW y \in timers_', x.value = y.value
                   PROVE  x = y
        OBVIOUS
      <4>1. CASE x.value = TaskTimer
        <5>1. {z \in timers_' : z.value = TaskTimer} = {Timer(switched' + Period, TaskTimer)}
          BY <2>8, <1>0 DEF SwitchInv
        <5>2. x \in {z \in timers_' : z.value = TaskTimer}
              /\ y \in {z \in timers_' : z.value = TaskTimer}
          BY <4>1
        <5> QED BY <5>1, <5>2
      <4>2. CASE x.value # TaskTimer
        BY <4>2, <2>6, <1>3, <1>a DEF MessageInv
      <4> QED BY <4>1, <4>2
    <3>13. \A x \in timers_' : ~ (x.timeout <= tick)
      <4>1. ~ (next.timeout <= tick)
        BY <1>2, <1>3, Bounds
      <4>2. ASSUME NEW x \in timers_', x # next PROVE ~ (x.timeout <= tick)
        <5>1. x \in timers_ /\ x.timeout > tick
          BY <4>2, <2>6
        <5>2. x.timeout \in 0 .. TickMod - 1
          BY <5>1, <1>a DEF LocalsInv, TypeOK
        <5> QED BY <5>1, <5>2, <1>2, Bounds
      <4> QED BY <4>1, <4>2
    <3>14. DOMAIN added \subseteq Values
      BY <1>a DEF MessageInv
    <3>15. \A i \in DOMAIN sent' :
             /\ sent'[i].timer.value \in DOMAIN added'
             /\ \A y \in timers_' : y.value # sent'[i].timer.value
             /\ sent'[i].tick = IF sent'[i].timer.timeout > added'[sent'[i].timer.value]
                                THEN sent'[i].timer.timeout
                                ELSE added'[sent'[i].timer.value] + 1
             /\ sent'[i].tick <= tick_'
      BY <3>2, <3>9, <1>8 DEF SendTick
    <3> QED BY <3>2, <3>8, <3>10, <3>11, <3>12, <3>13, <3>14, <3>15, <1>8 DEF MessageInv, SendTick
  <2> QED BY <2>8, <2>9, <2>11 DEF TimersInv
<1> QED BY <1>10, <1>11

LEMMA InitInv == Init => TimerInv
BY InitCalibrationInv, InitTimersInv DEF TimerInv

LEMMA NextInv == TimerInv /\ [Next]_vars => TimerInv'
<1> SUFFICES ASSUME TimerInv, [Next]_vars PROVE TimerInv'
  OBVIOUS
<1>0. CalibrationInv /\ TimersInv
  BY DEF TimerInv
<1>1. CASE Advance
  <2>1. at # "run" /\ UNCHANGED <<at, timers_, hung, added, sent, tick_>>
    BY <1>1 DEF Advance, history
  <2> QED BY <1>0, <1>1, <2>1, AdvanceInv, SameTimersInv DEF TimerInv
<1>2. CASE ReadCount
  <2>1. at # "run" /\ at' # "run" /\ UNCHANGED <<timers_, hung, added, sent, tick_>>
    BY <1>2 DEF ReadCount, GoTo, history
  <2> QED BY <1>0, <1>2, <2>1, ReadCountInv, SameTimersInv DEF TimerInv
<1>3. CASE ReadTick
  <2>1. at # "run" /\ at' # "run" /\ UNCHANGED <<timers_, hung, added, sent, tick_>>
    BY <1>3 DEF ReadTick, GoTo, history
  <2> QED BY <1>0, <1>3, <2>1, ReadTickInv, SameTimersInv DEF TimerInv
<1>4. CASE WaitMilliseconds
  <2>1. at # "run" /\ at' # "run" /\ UNCHANGED <<timers_, hung, added, sent, tick_>>
    BY <1>4 DEF WaitMilliseconds, GoTo, history
  <2> QED BY <1>0, <1>4, <2>1, WaitMillisecondsInv, SameTimersInv DEF TimerInv
<1>5. CASE Poll
  <2>1. at # "run" /\ at' # "run" /\ UNCHANGED <<timers_, hung, added, sent, tick_>>
    BY <1>5 DEF Poll, GoTo, history
  <2> QED BY <1>0, <1>5, <2>1, PollInv, SameTimersInv DEF TimerInv
<1>6. CASE Restart
  <2>1. at # "run" /\ at' # "run" /\ UNCHANGED <<timers_, hung, added, sent, tick_>>
    BY <1>6 DEF Restart, GoTo, history
  <2> QED BY <1>0, <1>6, <2>1, RestartInv, SameTimersInv DEF TimerInv
<1>7. CASE InitializeTask
  BY <1>0, <1>7, InitializeTaskInv DEF TimerInv
<1>8. CASE \E timeout \in 0 .. TickMod - 1, v \in Values : AddTimer(timeout, v)
  BY <1>0, <1>8, AddTimerInv DEF TimerInv
<1>9. CASE LAPICTimerOnInterrupt
  BY <1>0, <1>9, EarlyInterruptInv, RunInterruptInv DEF TimerInv
<1>10. CASE UNCHANGED vars
  <2>1. UNCHANGED <<now, pm0, count, pending, tick_, counts_per_loop_, timers_, at, gap,
                    current_count, count_time, total, total_time, start, end, wait_time, hung,
                    added, sent, switched>>
    BY <1>10 DEF vars, clock, calibration, history
  <2>2. LocalsInv' /\ CountInv' /\ ReadInv' /\ TotalInv'
    BY <2>1, <1>0 DEF CalibrationInv, LocalsInv, TypeOK, CountInv, ReadInv, TotalInv
  <2>3. WaitInv' /\ CalibratedWithinTwoPeriods'
    BY <2>1, <1>0 DEF CalibrationInv, WaitInv, Polled, CalibratedWithinTwoPeriods
  <2>4. SwitchInv'
    BY <2>1, <1>0 DEF TimersInv, SwitchInv
  <2>5. MessageInv'
    BY <2>1, <1>0 DEF TimersInv, MessageInv, SendTick
  <2> QED BY <2>2, <2>3, <2>4, <2>5 DEF TimerInv, CalibrationInv, TimersInv
<1> QED BY <1>1, <1>2, <1>3, <1>4, <1>5, <1>6, <1>7, <1>8, <1>9, <1>10 DEF Next

LEMMA Invariant == Spec => []TimerInv
BY InitInv, NextInv, PTL DEF Spec

-----------------------------------------------------------------------------
(* The theorems about the timers.                                          *)

\* The two reads of TotalCount are off by whole periods of the timer, two at most from one
\* end of the wait to the other, for every period and every PM timer.
THEOREM CalibrationIsBounded == Spec => []CalibrationBounded
<1>1. TimerInv => CalibrationBounded
  <2> SUFFICES ASSUME TimerInv PROVE CalibrationBounded
    OBVIOUS
  <2>1. TypeOK /\ CalibratedWithinTwoPeriods
    BY DEF TimerInv, CalibrationInv, LocalsInv
  <2>2. TotalCountOffByAPeriod
    BY DEF TimerInv, CalibrationInv, TotalInv, Measured, TotalCountOffByAPeriod
  <2> QED BY <2>1, <2>2 DEF CalibrationBounded
<1> QED BY <1>1, Invariant, PTL

\* acpi::WaitMilliseconds never returns early, and is late only for an end that its polls
\* can step over, wherever the PM timer stands and whatever its width.
THEOREM WaitIsBounded == Spec => []WaitBounded
<1>1. TimerInv => WaitBounded
  <2> SUFFICES ASSUME TimerInv PROVE WaitBounded
    OBVIOUS
  <2>0. LocalsInv /\ CountInv /\ ReadInv /\ TotalInv /\ WaitInv
    BY DEF TimerInv, CalibrationInv
  <2>1. WaitsLongEnough
    <3> SUFFICES ASSUME at \in {"recount", "retick"} PROVE now - wait_time >= WaitCounts
      BY DEF WaitsLongEnough
    <3>1. at = "recount" => now - gap - wait_time >= WaitCounts
      BY <2>0 DEF TotalInv
    <3>2. at = "retick" => count_time - wait_time >= WaitCounts /\ count_time = now - gap
      BY <2>0 DEF TotalInv, ReadInv
    <3>3. wait_time \in Nat /\ count_time \in Nat
      BY <2>0 DEF LocalsInv
    <3> QED BY <3>1, <3>2, <3>3, <2>0, Locals, Bounds
  <2>2. LateOnlyAtTheWrap
    <3> SUFFICES ASSUME at \in {"wrap", "end"}, now - wait_time > WaitCounts + 2 * MaxGap,
                        ~ (end > PMMod - MaxGap)
                 PROVE  FALSE
      BY DEF LateOnlyAtTheWrap
    <3>1. start = (pm0 + wait_time) % PMMod /\ end = (start + WaitCounts) % PMMod
      BY <2>0 DEF WaitInv
    <3>2. /\ start \in 0 .. PMMod - 1 /\ wait_time \in Nat
          /\ end < start => end = start + WaitCounts - PMMod
      BY <3>1, <2>0, WaitEnd DEF LocalsInv
    <3>3. Polled < WaitCounts \/ (end < start /\ Polled < PMMod - start + MaxGap)
      <4>1. at = "wrap" => end < start /\ Polled < PMMod - start
        BY <2>0 DEF WaitInv
      <4>2. at = "end" /\ end <= PMMod - MaxGap =>
              Polled < WaitCounts \/ (end < start /\ Polled < PMMod - start + MaxGap)
        BY <2>0 DEF WaitInv
      <4>3. Polled \in Int
        BY <3>2, <2>0, Locals DEF Polled
      <4> QED BY <4>1, <4>2, <4>3, <3>2, <2>0, Locals, Bounds
    <3>4. now - wait_time = Polled + gap /\ Polled \in Int
      BY <3>2, <2>0, Locals DEF Polled
    <3> QED BY <3>2, <3>3, <3>4, <2>0, Locals, Bounds
  <2> QED BY <2>1, <2>2 DEF WaitBounded
<1> QED BY <1>1, Invariant, PTL

\* The message of a timer is sent once, at the first tick at which it is due, and messages
\* are sent in the order of their timeouts, for any timers added at any time.
THEOREM MessagesSentWhenDue == Spec => []SentWhenDue
<1>1. TimerInv => SentWhenDue
  <2> SUFFICES ASSUME TimerInv PROVE SentWhenDue
    OBVIOUS
  <2>0. SwitchInv /\ MessageInv
    BY DEF TimerInv, TimersInv
  <2>1. \A i \in DOMAIN sent :
          LET x == sent[i].timer IN
            x.value \in Values =>
              sent[i].tick = IF x.timeout > added[x.value] THEN x.timeout ELSE added[x.value] + 1
    BY <2>0 DEF MessageInv, SendTick
  <2>2. \A x \in timers_ : x.timeout <= tick_ =>
          hung \/ (x.value \in Values /\ added[x.value] = tick_)
    BY <2>0 DEF MessageInv
  <2>3. \A i, j \in DOMAIN sent : i < j => Before(sent[i], sent[j])
    BY <2>0 DEF MessageInv
  <2>4. \A i, j \in DOMAIN sent :
          i < j => /\ sent[i].timer # sent[j].timer
                   /\ \/ sent[i].tick < sent[j].tick
                      \/ /\ sent[i].tick = sent[j].tick
                         /\ sent[i].timer.timeout <= sent[j].timer.timeout
    BY <2>3 DEF Before
  <2> QED BY <2>1, <2>2, <2>4 DEF SentWhenDue
<1> QED BY <1>1, Invariant, PTL

\* Tasks are switched every kTaskTimerPeriod ticks, until the next timeout of the task
\* timer does not fit in the width of tick_, which is the only way in which Tick can hang.
THEOREM TasksAreSwitched == Spec => []TasksSwitched
<1>1. TimerInv => TasksSwitched
  <2> SUFFICES ASSUME TimerInv PROVE TasksSwitched
    OBVIOUS
  <2>0. SwitchInv /\ LocalsInv
    BY DEF TimerInv, TimersInv, CalibrationInv
  <2>1. SwitchesEveryPeriod
    BY <2>0 DEF SwitchInv, SwitchesEveryPeriod
  <2>2. HangsOnlyAtTheWrap
    BY <2>0 DEF SwitchInv, HangsOnlyAtTheWrap
  <2> QED BY <2>1, <2>2 DEF TasksSwitched
<1> QED BY <1>1, Invariant, PTL

-----------------------------------------------------------------------------
(* Sleep and Wakeup, interrupted.                                          *)

Leaving == {"search", "switch"}

ContextInv ==
  /\ ContextsResumeTheirTask
  /\ \A t \in Tasks : context_[t].at \notin Leaving

FrontInv ==
  /\ cpu.at # "search" => running_[current_level_] # <<>>
  /\ cpu.at \notin Leaving => CurrentTask = cpu.task

LevelInv ==
  /\ running_[0] = <<Idle>>
  /\ running_[Top] \in Seq(Workers \cup {Main})

WakeInv ==
  /\ At(Main) \in {"set", "push"} => waking \in Workers
  /\ At(Main) = "set" => ~ awake[waking]

Whole == ContextInv /\ FrontInv /\ LevelInv /\ WakeInv /\ QueuedForItsFlag

PreemptionInv == SwitchTypeOK /\ (~ torn => Whole)


-----------------------------------------------------------------------------
(* Counting the entries of a queue.                                        *)

LEMMA TimesType ==
  ASSUME NEW T, NEW q \in Seq(T), NEW t
  PROVE  TimesIn(q, t) \in Nat /\ IsFiniteSet({i \in DOMAIN q : q[i] = t})
<1>1. IsFiniteSet(1 .. Len(q)) /\ DOMAIN q = 1 .. Len(q)
  BY FS_Interval
<1>2. IsFiniteSet({i \in DOMAIN q : q[i] = t})
  BY <1>1, FS_Subset
<1> QED  BY <1>2, FS_CardinalityType DEF TimesIn

LEMMA AppendTimes ==
  ASSUME NEW T, NEW q \in Seq(T), NEW x \in T, NEW t
  PROVE  TimesIn(Append(q, x), t) = TimesIn(q, t) + One(x = t)
<1> DEFINE r == Append(q, x)
           In(s) == {i \in DOMAIN s : s[i] = t}
<1>1. /\ Len(q) \in Nat /\ DOMAIN q = 1 .. Len(q) /\ DOMAIN r = 1 .. Len(q) + 1
      /\ \A i \in 1 .. Len(q) : r[i] = q[i]
      /\ r[Len(q) + 1] = x
  OBVIOUS
<1>2. IsFiniteSet(In(q)) /\ Cardinality(In(q)) \in Nat
  BY TimesType, FS_CardinalityType
<1>0. TimesIn(q, t) = Cardinality(In(q)) /\ TimesIn(r, t) = Cardinality(In(r))
  BY DEF TimesIn
<1>3. CASE x = t
  <2>1. In(r) = In(q) \cup {Len(q) + 1} /\ Len(q) + 1 \notin In(q)
    BY <1>1, <1>3
  <2>2. Cardinality(In(r)) = Cardinality(In(q)) + 1
    BY <1>2, <2>1, FS_AddElement
  <2> QED  BY <1>0, <1>3, <2>2 DEF One
<1>4. CASE x # t
  <2>1. In(r) = In(q)
    BY <1>1, <1>4
  <2> HIDE DEF In
  <2> QED  BY <1>0, <1>2, <1>4, <2>1 DEF One
<1> QED  BY <1>3, <1>4

LEMMA TailTimes ==
  ASSUME NEW T, NEW q \in Seq(T), q # <<>>, NEW t
  PROVE  TimesIn(q, t) = TimesIn(Tail(q), t) + One(Head(q) = t)
<1> DEFINE r == Tail(q)
           In(s) == {i \in DOMAIN s : s[i] = t}
           f == [i \in In(r) |-> i + 1]
<1>1. /\ Len(q) \in Nat /\ Len(q) >= 1 /\ DOMAIN q = 1 .. Len(q)
      /\ DOMAIN r = 1 .. Len(q) - 1 /\ Head(q) = q[1]
      /\ \A i \in 1 .. Len(q) - 1 : r[i] = q[i + 1]
      /\ r \in Seq(T)
  OBVIOUS
<1>0. TimesIn(q, t) = Cardinality(In(q)) /\ TimesIn(r, t) = Cardinality(In(r))
  BY DEF TimesIn
<1>2. /\ IsFiniteSet(In(q)) /\ Cardinality(In(q)) \in Nat
      /\ IsFiniteSet(In(r)) /\ Cardinality(In(r)) \in Nat
  <2>1. IsFiniteSet(In(q)) /\ TimesIn(q, t) \in Nat
    BY TimesType
  <2>2. IsFiniteSet(In(r)) /\ TimesIn(r, t) \in Nat
    BY <1>1, TimesType
  <2> QED  BY <1>0, <2>1, <2>2
<1>3. Cardinality(In(q) \ {1}) = Cardinality(In(r))
  <2>1. f \in [In(r) -> In(q) \ {1}]
    BY <1>1
  <2>2. \A i, j \in In(r) : f[i] = f[j] => i = j
    BY <1>1
  <2>3. \A j \in In(q) \ {1} : \E i \in In(r) : f[i] = j
    <3> SUFFICES ASSUME NEW j \in In(q) \ {1} PROVE \E i \in In(r) : f[i] = j
      OBVIOUS
    <3>1. j - 1 \in In(r) /\ f[j - 1] = j
      BY <1>1
    <3> QED  BY <3>1
  <2>4. f \in Bijection(In(r), In(q) \ {1})
    BY <2>1, <2>2, <2>3, Fun_IsBij
  <2>5. ExistsBijection(In(r), In(q) \ {1})
    BY <2>4 DEF ExistsBijection
  <2> QED  BY <1>2, <2>5, FS_Bijection
<1>4. Cardinality(In(q) \ {1}) = IF 1 \in In(q) THEN Cardinality(In(q)) - 1 ELSE Cardinality(In(q))
  BY <1>2, FS_RemoveElement
<1>5. 1 \in In(q) <=> Head(q) = t
  BY <1>1
<1> HIDE DEF In
<1> QED  BY <1>0, <1>2, <1>3, <1>4, <1>5 DEF One

-----------------------------------------------------------------------------
(* Tasks, executions and queues.                                           *)

LEMMA TaskFacts ==
  /\ Main \in Tasks /\ Idle \in Tasks /\ Workers \subseteq Tasks
  /\ Main # Idle /\ Main \notin Workers /\ Idle \notin Workers
  /\ Points(Main) = {"loop", "process", "set", "push"} /\ Points(Idle) = {"hlt"}
  /\ \A w \in Workers : Points(w) = {"work", "compare", "search", "switch"}
  /\ Levels = {0, 1} /\ Top = 1
  BY PreemptiveAssumption DEF Tasks, Main, Idle, Points, Levels, Top

LEMMA ExecutionFacts ==
  /\ \A x \in Executions : x.task \in Tasks /\ x.at \in Points(x.task)
  /\ \A t \in Tasks : \A p \in Points(t) : Execution(t, p) \in Executions
  /\ \A t, p : Execution(t, p).task = t /\ Execution(t, p).at = p
  BY DEF Executions, Execution

\* The processor is switched from task c, which resumes as e, to task n.
LEMMA SwitchedTo ==
  ASSUME SwitchTypeOK, ContextInv,
         NEW c \in Tasks, NEW e \in Executions, NEW n \in Tasks,
         cpu.task = c, e.task = c, e.at \notin Leaving,
         context_' = [context_ EXCEPT ![c] = e], cpu' = context_'[n]
  PROVE  /\ ContextInv' /\ context_' \in [Tasks -> Executions]
         /\ cpu' \in Executions /\ cpu'.task = n /\ cpu'.at \notin Leaving
         /\ \A t \in Tasks : At(t)' = IF t = c THEN e.at ELSE At(t)
<1>1. context_' \in [Tasks -> Executions]
  BY DEF SwitchTypeOK
<1>2. \A t \in Tasks : context_'[t] = IF t = c THEN e ELSE context_[t]
  BY DEF SwitchTypeOK
<1>3. \A t \in Tasks : context_'[t].task = t /\ context_'[t].at \notin Leaving
  BY <1>2 DEF ContextInv, ContextsResumeTheirTask
<1>4. cpu' \in Executions /\ cpu'.task = n /\ cpu'.at \notin Leaving
  BY <1>1, <1>3
<1>5. \A t \in Tasks : At(t)' = context_'[t].at
  BY <1>4 DEF At
<1>6. \A t \in Tasks : t # c => At(t) = context_[t].at
  BY DEF At
<1> QED  BY <1>1, <1>2, <1>3, <1>4, <1>5, <1>6 DEF ContextInv, ContextsResumeTheirTask

\* A step of task t that leads to point p.
LEMMA WentTo ==
  ASSUME SwitchTypeOK, NEW t \in Tasks, NEW q, Executing(t, q), NEW p \in Points(t), Continue(p),
         UNCHANGED context_
  PROVE  /\ ~ torn /\ cpu.task = t /\ cpu.at = q
         /\ cpu' \in Executions /\ cpu'.task = t /\ cpu'.at = p
         /\ At(t) = q
         /\ \A u \in Tasks : At(u)' = IF u = t THEN p ELSE At(u)
<1>1. ~ torn /\ cpu = Execution(t, q)
  BY DEF Executing
<1>2. cpu' = Execution(t, p)
  BY <1>1 DEF Continue, Execution
<1>3. cpu.task = t /\ cpu.at = q /\ cpu'.task = t /\ cpu'.at = p /\ cpu' \in Executions
  BY <1>1, <1>2, ExecutionFacts
<1> QED  BY <1>1, <1>3 DEF At

LEMMA HighestIsReady ==
  ASSUME NEW q \in [Levels -> Seq(Tasks)], q[0] = <<Idle>>
  PROVE  /\ HighestLevel(q) \in Levels /\ q[HighestLevel(q)] # <<>>
         /\ Head(q[HighestLevel(q)]) \in Tasks
<1>1. HighestLevel(q) \in Levels /\ q[HighestLevel(q)] # <<>>
  BY TaskFacts DEF HighestLevel
<1> QED  BY <1>1

LEMMA RotatedKeeps ==
  ASSUME SwitchTypeOK, LevelInv
  PROVE  /\ Rotated \in [Levels -> Seq(Tasks)] /\ Rotated[0] = <<Idle>>
         /\ Rotated[Top] \in Seq(Workers \cup {Main})
         /\ \A t : /\ TimesIn(Rotated[0], t) = TimesIn(running_[0], t)
                   /\ TimesIn(Rotated[Top], t) = TimesIn(running_[Top], t)
<1> DEFINE q == running_[Top]
           T == Workers \cup {Main}
<1>1. running_ \in [Levels -> Seq(Tasks)] /\ current_level_ \in {0, Top} /\ q \in Seq(T)
      /\ T \subseteq Tasks /\ running_[0] = <<Idle>> /\ Top # 0 /\ Levels = {0, Top}
  BY TaskFacts DEF SwitchTypeOK, LevelInv
<1>2. CASE current_level_ = 0
  <2>1. Append(Tail(<<Idle>>), Head(<<Idle>>)) = <<Idle>>
    OBVIOUS
  <2>2. Rotated = running_
    BY <1>1, <1>2, <2>1 DEF Rotated
  <2> QED  BY <1>1, <2>2
<1>3. CASE current_level_ = Top /\ q = <<>>
  <2>1. Rotated = running_
    BY <1>1, <1>3 DEF Rotated
  <2> QED  BY <1>1, <2>1
<1>4. CASE current_level_ = Top /\ q # <<>>
  <2>1. /\ Tail(q) \in Seq(T) /\ Head(q) \in T
        /\ Append(Tail(q), Head(q)) \in Seq(T)
    BY <1>1, <1>4
  <2>2. Seq(T) \subseteq Seq(Tasks)
    BY <1>1
  <2>3. /\ Rotated \in [Levels -> Seq(Tasks)] /\ Rotated[0] = <<Idle>>
        /\ Rotated[Top] = Append(Tail(q), Head(q))
    BY <1>1, <1>4, <2>1, <2>2 DEF Rotated
  <2>4. ASSUME NEW t PROVE TimesIn(Append(Tail(q), Head(q)), t) = TimesIn(q, t)
    <3>1. TimesIn(q, t) = TimesIn(Tail(q), t) + One(Head(q) = t)
      BY <1>1, <1>4, TailTimes
    <3>2. \A r \in Seq(T), x \in T : TimesIn(Append(r, x), t) = TimesIn(r, t) + One(x = t)
      BY AppendTimes
    <3> QED  BY <2>1, <3>1, <3>2
  <2> QED  BY <1>1, <2>1, <2>3, <2>4
<1> QED  BY <1>1, <1>2, <1>3, <1>4

\* The executing task, not the idle one, leaves its queue.
LEMMA PoppedLoses ==
  ASSUME SwitchTypeOK, LevelInv, FrontInv, cpu.at \notin Leaving, cpu.task # Idle
  PROVE  /\ Popped \in [Levels -> Seq(Tasks)] /\ Popped[0] = <<Idle>>
         /\ Popped[Top] \in Seq(Workers \cup {Main})
         /\ \A t : /\ TimesIn(Popped[0], t) = TimesIn(running_[0], t)
                   /\ TimesIn(Popped[Top], t) \in Nat
                   /\ TimesIn(running_[Top], t)
                        = TimesIn(Popped[Top], t) + One(t = cpu.task)
<1> DEFINE q == running_[Top]
           T == Workers \cup {Main}
<1>1. running_ \in [Levels -> Seq(Tasks)] /\ current_level_ \in {0, Top} /\ q \in Seq(T)
      /\ T \subseteq Tasks /\ running_[0] = <<Idle>> /\ Top # 0 /\ Levels = {0, Top}
  BY TaskFacts DEF SwitchTypeOK, LevelInv
<1>2. running_[current_level_] # <<>> /\ Head(running_[current_level_]) = cpu.task
  BY DEF FrontInv, CurrentTask, Leaving
<1>3. current_level_ = Top /\ q # <<>> /\ Head(q) = cpu.task
  <2>1. Head(<<Idle>>) = Idle
    OBVIOUS
  <2> QED  BY <1>1, <1>2, <2>1
<1>4. Tail(q) \in Seq(T) /\ Tail(q) \in Seq(Tasks)
  BY <1>1, <1>3
<1>5. Popped \in [Levels -> Seq(Tasks)] /\ Popped[0] = <<Idle>> /\ Popped[Top] = Tail(q)
  BY <1>1, <1>3, <1>4 DEF Popped
<1>6. ASSUME NEW t
      PROVE  /\ TimesIn(Tail(q), t) \in Nat
             /\ TimesIn(q, t) = TimesIn(Tail(q), t) + One(t = cpu.task)
  <2>1. TimesIn(q, t) = TimesIn(Tail(q), t) + One(Head(q) = t)
    BY <1>1, <1>3, TailTimes
  <2>2. TimesIn(Tail(q), t) \in Nat
    BY <1>4, TimesType
  <2> QED  BY <1>3, <2>1, <2>2 DEF One
<1> QED  BY <1>1, <1>4, <1>5, <1>6

LEMMA PushedGains ==
  ASSUME SwitchTypeOK, LevelInv, NEW u \in Workers \cup {Main}
  PROVE  /\ Pushed(u) \in [Levels -> Seq(Tasks)] /\ Pushed(u)[0] = <<Idle>>
         /\ Pushed(u)[Top] \in Seq(Workers \cup {Main})
         /\ \A l \in Levels : running_[l] # <<>> => /\ Pushed(u)[l] # <<>>
                                                   /\ Head(Pushed(u)[l]) = Head(running_[l])
         /\ \A t : /\ TimesIn(Pushed(u)[0], t) = TimesIn(running_[0], t)
                   /\ TimesIn(Pushed(u)[Top], t) = TimesIn(running_[Top], t) + One(t = u)
<1> DEFINE q == running_[Top]
           T == Workers \cup {Main}
<1>1. running_ \in [Levels -> Seq(Tasks)] /\ q \in Seq(T)
      /\ T \subseteq Tasks /\ running_[0] = <<Idle>> /\ Top # 0 /\ Levels = {0, Top}
  BY TaskFacts DEF SwitchTypeOK, LevelInv
<1>2. Append(q, u) \in Seq(T) /\ Append(q, u) \in Seq(Tasks) /\ Append(q, u) # <<>>
  BY <1>1
<1>3. Pushed(u) \in [Levels -> Seq(Tasks)] /\ Pushed(u)[0] = <<Idle>> /\ Pushed(u)[Top] = Append(q, u)
  BY <1>1, <1>2 DEF Pushed
<1>4. q # <<>> => Head(Append(q, u)) = Head(q)
  BY <1>1
<1>5. ASSUME NEW t PROVE TimesIn(Append(q, u), t) = TimesIn(q, t) + One(t = u)
  <2>1. TimesIn(Append(q, u), t) = TimesIn(q, t) + One(u = t)
    BY <1>1, AppendTimes
  <2> QED  BY <2>1 DEF One
<1> QED  BY <1>1, <1>2, <1>3, <1>4, <1>5

-----------------------------------------------------------------------------
(* The steps.                                                              *)

\* The balance of flags and entries of one task.
Balanced(t) ==
  TimesQueued(t) + One(waking = t /\ At(Main) = "push") = One(awake[t]) + One(At(t) = "compare")

LEMMA PreemptionInvInit == SwitchInit => PreemptionInv
<1> SUFFICES ASSUME SwitchInit PROVE PreemptionInv
  OBVIOUS
<1>1. /\ \A t \in Tasks : context_[t] \in Executions /\ context_[t].task = t
      /\ context_[Main].at = "loop" /\ context_[Idle].at = "hlt"
      /\ \A w \in Workers : context_[w].at = "work"
      /\ cpu \in Executions /\ cpu.task = Main /\ cpu.at = "loop"
  BY TaskFacts, ExecutionFacts DEF SwitchInit, Tasks
<1>2. SwitchTypeOK
  <2>1. context_ \in [Tasks -> Executions]
    BY <1>1 DEF SwitchInit
  <2>2. awake \in [Tasks -> BOOLEAN] /\ running_ \in [Levels -> Seq(Tasks)]
    BY TaskFacts DEF SwitchInit
  <2>3. current_level_ \in Levels /\ msgs \in 0 .. MaxMsgs
    BY TaskFacts, PreemptiveAssumption DEF SwitchInit
  <2>4. waking \in Workers \cup {NoTask} /\ torn \in BOOLEAN
    BY DEF SwitchInit
  <2> QED  BY <1>1, <2>1, <2>2, <2>3, <2>4 DEF SwitchTypeOK
<1>3. ContextInv
  BY <1>1, TaskFacts DEF ContextInv, ContextsResumeTheirTask, Leaving, Tasks
<1>4. running_[0] = <<Idle>> /\ running_[Top] = <<Main>>
  BY TaskFacts DEF SwitchInit
<1>5. FrontInv /\ LevelInv
  <2>1. <<Main>> \in Seq(Workers \cup {Main}) /\ <<Main>> # <<>> /\ Head(<<Main>>) = Main
    OBVIOUS
  <2>2. current_level_ = Top
    BY DEF SwitchInit
  <2>3. FrontInv
    BY <1>1, <1>4, <2>1, <2>2 DEF FrontInv, CurrentTask
  <2> QED  BY <1>4, <2>1, <2>3 DEF LevelInv
<1>6. WakeInv
  BY <1>1 DEF WakeInv, At
<1>7. QueuedForItsFlag
  <2> SUFFICES ASSUME NEW t \in Tasks PROVE Balanced(t)
    BY DEF QueuedForItsFlag, Balanced
  <2>1. \A x : TimesIn(<<x>>, t) = One(x = t)
    <3> SUFFICES ASSUME NEW x PROVE TimesIn(<<x>>, t) = One(x = t)
      OBVIOUS
    <3>1. {i \in DOMAIN <<x>> : <<x>>[i] = t} = IF x = t THEN {1} ELSE {}
      OBVIOUS
    <3> QED  BY <3>1, FS_EmptySet, FS_Singleton DEF TimesIn, One
  <2>2. TimesQueued(t) = One(Idle = t) + One(Main = t)
    BY <1>4, <2>1 DEF TimesQueued
  <2>3. One(waking = t /\ At(Main) = "push") = 0
    BY <1>1 DEF At, One
  <2>4. At(t) \in {"loop", "hlt", "work"}
    BY <1>1 DEF At, Tasks
  <2>5. One(At(t) = "compare") = 0
    BY <2>4 DEF One
  <2>6. awake[t] <=> t = Idle \/ t = Main
    BY TaskFacts DEF SwitchInit, Tasks
  <2> QED  BY <2>2, <2>3, <2>5, <2>6, TaskFacts DEF Balanced, One
<1> QED  BY <1>2, <1>3, <1>5, <1>6, <1>7 DEF PreemptionInv, Whole

LEMMA TimerStep ==
  ASSUME PreemptionInv, TimerInterrupt
  PROVE  PreemptionInv'
<1>1. ~ torn /\ Whole /\ SwitchTypeOK
  BY DEF TimerInterrupt, PreemptionInv
<1>2. PICK current \in CurrentTasks :
        /\ context_' = [context_ EXCEPT ![current] = cpu]
        /\ running_' = Rotated
        /\ current_level_' = HighestLevel(Rotated)
        /\ cpu' = IF CurrentTask' = current THEN cpu ELSE context_'[CurrentTask']
  BY DEF TimerInterrupt
<1>3. torn' = (cpu.at \in Leaving) /\ UNCHANGED <<awake, msgs, waking>>
  BY DEF TimerInterrupt, Leaving
<1>4. current \in Tasks
  BY <1>1, <1>2 DEF CurrentTasks, CurrentTask, SwitchTypeOK
<1>5. /\ running_' \in [Levels -> Seq(Tasks)] /\ running_'[0] = <<Idle>>
      /\ running_'[Top] \in Seq(Workers \cup {Main})
      /\ \A t : /\ TimesIn(running_'[0], t) = TimesIn(running_[0], t)
                /\ TimesIn(running_'[Top], t) = TimesIn(running_[Top], t)
  BY <1>1, <1>2, RotatedKeeps DEF Whole
<1>6. /\ current_level_' \in Levels /\ running_'[current_level_'] # <<>>
      /\ CurrentTask' \in Tasks
  BY <1>2, <1>5, HighestIsReady DEF CurrentTask
<1>7. cpu' = context_'[CurrentTask'] /\ context_' \in [Tasks -> Executions]
  BY <1>1, <1>2, <1>4, <1>6 DEF SwitchTypeOK
<1>8. SwitchTypeOK'
  BY <1>1, <1>3, <1>5, <1>6, <1>7 DEF SwitchTypeOK
<1>9. CASE cpu.at \in Leaving
  BY <1>3, <1>8, <1>9 DEF PreemptionInv
<1>10. CASE cpu.at \notin Leaving
  <2>1. current = cpu.task
    BY <1>1, <1>2, <1>10 DEF Whole, FrontInv, CurrentTasks, Leaving
  <2>2. cpu \in Executions
    BY <1>1 DEF SwitchTypeOK
  <2>3. /\ ContextInv' /\ cpu'.task = CurrentTask' /\ cpu'.at \notin Leaving
        /\ \A t \in Tasks : At(t)' = At(t)
    BY <1>1, <1>2, <1>4, <1>6, <1>7, <1>10, <2>1, <2>2, SwitchedTo DEF Whole, At
  <2>4. FrontInv' /\ LevelInv'
    BY <1>5, <1>6, <2>3 DEF FrontInv, LevelInv, Leaving
  <2>5. WakeInv'
    BY <1>1, <1>3, <2>3, TaskFacts DEF Whole, WakeInv
  <2>6. QueuedForItsFlag'
    BY <1>1, <1>3, <1>5, <2>3, TaskFacts DEF Whole, QueuedForItsFlag, TimesQueued, One
  <2> QED  BY <1>8, <2>3, <2>4, <2>5, <2>6 DEF PreemptionInv, Whole
<1> QED  BY <1>9, <1>10

LEMMA XhciStep ==
  ASSUME PreemptionInv, XhciInterrupt
  PROVE  PreemptionInv'
<1>1. /\ ~ torn /\ Whole /\ SwitchTypeOK /\ msgs < MaxMsgs /\ msgs' = msgs + 1
      /\ awake' = [awake EXCEPT ![Main] = TRUE]
      /\ running_' = IF awake[Main] THEN running_ ELSE Pushed(Main)
      /\ UNCHANGED <<current_level_, context_, cpu, waking, torn>>
  BY DEF XhciInterrupt, PreemptionInv
<1>2. /\ running_' \in [Levels -> Seq(Tasks)] /\ running_'[0] = <<Idle>>
      /\ running_'[Top] \in Seq(Workers \cup {Main})
      /\ \A l \in Levels : running_[l] # <<>> => /\ running_'[l] # <<>>
                                                /\ Head(running_'[l]) = Head(running_[l])
      /\ \A t : /\ TimesIn(running_'[0], t) = TimesIn(running_[0], t)
                /\ TimesIn(running_'[Top], t)
                     = TimesIn(running_[Top], t) + (IF awake[Main] THEN 0 ELSE One(t = Main))
  <2>1. CASE awake[Main]
    <3>1. /\ running_' = running_ /\ running_ \in [Levels -> Seq(Tasks)]
          /\ running_[Top] \in Seq(Workers \cup {Main}) /\ running_[0] = <<Idle>>
      BY <1>1, <2>1 DEF Whole, LevelInv, SwitchTypeOK
    <3>2. \A t : TimesIn(running_[Top], t) \in Nat
      BY <3>1, TimesType
    <3> QED  BY <2>1, <3>1, <3>2
  <2>2. CASE ~ awake[Main]
    BY <1>1, <2>2, PushedGains DEF Whole
  <2> QED  BY <2>1, <2>2
<1>3. SwitchTypeOK'
  BY <1>1, <1>2, TaskFacts, PreemptiveAssumption DEF SwitchTypeOK
<1>4. ContextInv'
  BY <1>1 DEF Whole, ContextInv, ContextsResumeTheirTask
<1>5. FrontInv' /\ LevelInv'
  BY <1>1, <1>2 DEF Whole, FrontInv, LevelInv, CurrentTask, Leaving, SwitchTypeOK
<1>6. \A t : At(t)' = At(t)
  BY <1>1 DEF At
<1>7. WakeInv'
  BY <1>1, <1>6, TaskFacts DEF Whole, WakeInv, SwitchTypeOK
<1>8. QueuedForItsFlag'
  <2> SUFFICES ASSUME NEW t \in Tasks PROVE Balanced(t)'
    BY DEF QueuedForItsFlag, Balanced
  <2>1. Balanced(t)
    BY <1>1 DEF Whole, QueuedForItsFlag, Balanced
  <2>2. TimesIn(running_[0], t) \in Nat /\ TimesIn(running_[Top], t) \in Nat
    BY <1>1, TimesType, TaskFacts DEF Whole, SwitchTypeOK
  <2>3. One(awake'[t]) = One(awake[t]) + (IF awake[Main] THEN 0 ELSE One(t = Main))
    BY <1>1, TaskFacts DEF SwitchTypeOK, One
  <2>4. TimesQueued(t)' = TimesQueued(t) + (IF awake[Main] THEN 0 ELSE One(t = Main))
    BY <1>2, <2>2 DEF TimesQueued, One
  <2>5. TimesQueued(t) \in Nat
    BY <2>2 DEF TimesQueued
  <2> QED  BY <1>1, <1>6, <2>1, <2>3, <2>4, <2>5 DEF Balanced, One
<1> QED  BY <1>1, <1>3, <1>4, <1>5, <1>7, <1>8 DEF PreemptionInv, Whole

\* A step that leaves the queues alone and neither leaves nor searches a level.
LEMMA PlainStep ==
  ASSUME PreemptionInv, NEW t \in Tasks, NEW q, Executing(t, q), q \notin Leaving,
         NEW p \in Points(t), p \notin Leaving, Continue(p),
         UNCHANGED <<running_, current_level_, context_, torn>>,
         awake' \in [Tasks -> BOOLEAN], msgs' \in 0 .. MaxMsgs, waking' \in Workers \cup {NoTask},
         WakeInv', \A u \in Tasks : Balanced(u)'
  PROVE  PreemptionInv'
<1>1. Whole /\ SwitchTypeOK /\ ~ torn
  BY DEF PreemptionInv, Executing
<1>2. /\ cpu.task = t /\ cpu.at = q
      /\ cpu' \in Executions /\ cpu'.task = t /\ cpu'.at = p
  BY <1>1, WentTo
<1>3. SwitchTypeOK'
  BY <1>1, <1>2 DEF SwitchTypeOK
<1>4. ContextInv' /\ LevelInv'
  BY <1>1 DEF Whole, ContextInv, ContextsResumeTheirTask, LevelInv
<1>5. FrontInv'
  BY <1>1, <1>2 DEF Whole, FrontInv, CurrentTask, Leaving
<1>6. QueuedForItsFlag'
  BY DEF QueuedForItsFlag, Balanced
<1> QED  BY <1>3, <1>4, <1>5, <1>6 DEF PreemptionInv, Whole

\* The counts are numbers, and the queues alone decide them.
LEMMA CountFacts ==
  ASSUME PreemptionInv, ~ torn, NEW t \in Tasks
  PROVE  /\ Balanced(t) /\ TimesQueued(t) \in Nat
         /\ TimesIn(running_[0], t) \in Nat /\ TimesIn(running_[Top], t) \in Nat
         /\ awake[t] \in BOOLEAN /\ waking \in Workers \cup {NoTask}
<1>1. TimesIn(running_[0], t) \in Nat /\ TimesIn(running_[Top], t) \in Nat
  BY TimesType, TaskFacts DEF PreemptionInv, SwitchTypeOK
<1> QED  BY <1>1 DEF PreemptionInv, Whole, QueuedForItsFlag, Balanced, TimesQueued, SwitchTypeOK

LEMMA MainPlainStep ==
  ASSUME PreemptionInv,
         \/ (Executing(Main, "loop") /\ ReceiveMessage /\ UNCHANGED <<waking, torn>>)
         \/ EventsProcessed
         \/ \E w \in Workers : TestRunning(w)
         \/ SetRunning
  PROVE  PreemptionInv'
<1>1. Whole /\ SwitchTypeOK
  BY DEF PreemptionInv, Executing, EventsProcessed, TestRunning, SetRunning
<1>2. ASSUME NEW q, NEW p \in {"loop", "process", "set"}, q \in {"loop", "process"},
             Executing(Main, q), Continue(p),
             UNCHANGED <<awake, running_, current_level_, context_, torn>>,
             msgs' \in 0 .. MaxMsgs, waking' \in Workers \cup {NoTask},
             p = "set" => waking' \in Workers /\ ~ awake[waking']
      PROVE  PreemptionInv'
  <2>1. ~ torn /\ At(Main) = q /\ \A u \in Tasks : At(u)' = IF u = Main THEN p ELSE At(u)
    BY <1>1, <1>2, WentTo, TaskFacts
  <2>2. WakeInv'
    BY <1>2, <2>1, TaskFacts DEF WakeInv
  <2>3. ASSUME NEW u \in Tasks PROVE Balanced(u)'
    BY <1>2, <2>1, CountFacts, TaskFacts DEF Balanced, TimesQueued, One
  <2> QED  BY <1>1, <1>2, <2>2, <2>3, PlainStep, TaskFacts DEF SwitchTypeOK, Leaving
<1>3. CASE Executing(Main, "loop") /\ ReceiveMessage /\ UNCHANGED <<waking, torn>>
  <2>1. msgs' \in 0 .. MaxMsgs
    BY <1>1, <1>3, PreemptiveAssumption DEF ReceiveMessage, SwitchTypeOK
  <2> QED  BY <1>1, <1>2, <1>3, <2>1 DEF ReceiveMessage, SwitchTypeOK
<1>4. CASE EventsProcessed
  BY <1>1, <1>2, <1>4 DEF EventsProcessed, SwitchTypeOK
<1>5. ASSUME NEW w \in Workers, TestRunning(w) PROVE PreemptionInv'
  BY <1>1, <1>2, <1>5 DEF TestRunning, SwitchTypeOK
<1>6. CASE SetRunning
  <2>1. /\ Executing(Main, "set") /\ Continue("push") /\ awake' = [awake EXCEPT ![waking] = TRUE]
        /\ UNCHANGED <<running_, current_level_, context_, msgs, waking, torn>>
    BY <1>6 DEF SetRunning
  <2>2. ~ torn /\ At(Main) = "set" /\ \A u \in Tasks : At(u)' = IF u = Main THEN "push" ELSE At(u)
    BY <1>1, <2>1, WentTo, TaskFacts
  <2>3. waking \in Workers /\ waking \in Tasks /\ ~ awake[waking]
    BY <1>1, <2>2, TaskFacts DEF PreemptionInv, Whole, WakeInv
  <2>4. /\ awake' \in [Tasks -> BOOLEAN]
        /\ \A u \in Tasks : awake'[u] <=> (awake[u] \/ u = waking)
    BY <1>1, <2>1, <2>3 DEF SwitchTypeOK
  <2>5. WakeInv'
    BY <2>1, <2>2, <2>3, TaskFacts DEF WakeInv
  <2>6. ASSUME NEW u \in Tasks PROVE Balanced(u)'
    <3>1. One(awake'[u]) = One(awake[u]) + One(waking = u)
      BY <2>3, <2>4 DEF One
    <3>2. One(waking = u /\ At(Main) = "push") = 0
      BY <2>2 DEF One
    <3>3. One(waking' = u /\ At(Main)' = "push") = One(waking = u)
      BY <2>1, <2>2, TaskFacts DEF One
    <3>4. One(At(u)' = "compare") = One(At(u) = "compare")
      BY <2>2 DEF One
    <3>5. TimesQueued(u)' = TimesQueued(u) /\ TimesQueued(u) \in Nat /\ Balanced(u)
      BY <2>1, <2>2, CountFacts DEF TimesQueued
    <3> QED  BY <3>1, <3>2, <3>3, <3>4, <3>5 DEF Balanced, One
  <2> QED  BY <1>1, <2>1, <2>4, <2>5, <2>6, PlainStep, TaskFacts DEF SwitchTypeOK, Leaving
<1> QED  BY <1>3, <1>4, <1>5, <1>6

LEMMA PushBackStep ==
  ASSUME PreemptionInv, PushBack
  PROVE  PreemptionInv'
<1>1. /\ Executing(Main, "push") /\ Continue("process") /\ running_' = Pushed(waking)
      /\ waking' = NoTask
      /\ UNCHANGED <<awake, current_level_, context_, msgs, torn>>
      /\ Whole /\ SwitchTypeOK
  BY DEF PushBack, PreemptionInv, Executing
<1>2. /\ ~ torn /\ cpu.task = Main /\ cpu.at = "push"
      /\ cpu' \in Executions /\ cpu'.task = Main /\ cpu'.at = "process"
      /\ At(Main) = "push"
      /\ \A u \in Tasks : At(u)' = IF u = Main THEN "process" ELSE At(u)
  BY <1>1, WentTo, TaskFacts
<1>3. waking \in Workers
  BY <1>1, <1>2 DEF Whole, WakeInv
<1>4. /\ running_' \in [Levels -> Seq(Tasks)] /\ running_'[0] = <<Idle>>
      /\ running_'[Top] \in Seq(Workers \cup {Main})
      /\ \A l \in Levels : running_[l] # <<>> => /\ running_'[l] # <<>>
                                                /\ Head(running_'[l]) = Head(running_[l])
      /\ \A t : /\ TimesIn(running_'[0], t) = TimesIn(running_[0], t)
                /\ TimesIn(running_'[Top], t) = TimesIn(running_[Top], t) + One(t = waking)
  BY <1>1, <1>3, PushedGains DEF Whole
<1>5. SwitchTypeOK'
  BY <1>1, <1>2, <1>4 DEF SwitchTypeOK
<1>6. ContextInv' /\ LevelInv'
  BY <1>1, <1>4 DEF Whole, ContextInv, ContextsResumeTheirTask, LevelInv
<1>7. FrontInv'
  BY <1>1, <1>2, <1>4 DEF Whole, FrontInv, CurrentTask, Leaving, SwitchTypeOK
<1>8. WakeInv'
  BY <1>2, TaskFacts DEF WakeInv
<1>9. QueuedForItsFlag'
  <2> SUFFICES ASSUME NEW u \in Tasks PROVE Balanced(u)'
    BY DEF QueuedForItsFlag, Balanced
  <2>1. TimesQueued(u)' = TimesQueued(u) + One(u = waking) /\ TimesQueued(u) \in Nat /\ Balanced(u)
    <3>1. /\ Balanced(u) /\ TimesQueued(u) \in Nat
          /\ TimesIn(running_[0], u) \in Nat /\ TimesIn(running_[Top], u) \in Nat
      BY <1>2, CountFacts
    <3>2. One(u = waking) \in Nat
      BY DEF One
    <3> QED  BY <1>4, <3>1, <3>2 DEF TimesQueued
  <2>2. One(waking = u /\ At(Main) = "push") = One(u = waking)
    BY <1>2 DEF One
  <2>3. One(waking' = u /\ At(Main)' = "push") = 0
    BY <1>2, TaskFacts DEF One
  <2>4. One(At(u)' = "compare") = One(At(u) = "compare")
    BY <1>2 DEF One
  <2> QED  BY <1>1, <2>1, <2>2, <2>3, <2>4 DEF Balanced, One
<1> QED  BY <1>5, <1>6, <1>7, <1>8, <1>9 DEF PreemptionInv, Whole

LEMMA SleepUninterruptedStep ==
  ASSUME PreemptionInv, Executing(Main, "loop"), SleepUninterrupted, UNCHANGED <<waking, torn>>
  PROVE  PreemptionInv'
<1>1. /\ awake' = [awake EXCEPT ![Main] = FALSE]
      /\ running_' = Popped
      /\ current_level_' = HighestLevel(Popped)
      /\ context_' = [context_ EXCEPT ![Main] = cpu]
      /\ cpu' = context_'[CurrentTask']
      /\ UNCHANGED msgs /\ Whole /\ SwitchTypeOK /\ ~ torn
  BY DEF SleepUninterrupted, PreemptionInv, Executing
<1>2. cpu.task = Main /\ cpu.at = "loop" /\ cpu.at \notin Leaving /\ At(Main) = "loop" /\ cpu \in Executions
  BY <1>1, ExecutionFacts DEF Executing, At, Leaving, SwitchTypeOK
<1>3. /\ running_' \in [Levels -> Seq(Tasks)] /\ running_'[0] = <<Idle>>
      /\ running_'[Top] \in Seq(Workers \cup {Main})
      /\ \A t : /\ TimesIn(running_'[0], t) = TimesIn(running_[0], t)
                /\ TimesIn(running_'[Top], t) \in Nat
                /\ TimesIn(running_[Top], t) = TimesIn(running_'[Top], t) + One(t = Main)
  BY <1>1, <1>2, PoppedLoses, TaskFacts DEF Whole
<1>4. current_level_' \in Levels /\ running_'[current_level_'] # <<>> /\ CurrentTask' \in Tasks
  BY <1>1, <1>3, HighestIsReady DEF CurrentTask
<1>5. /\ ContextInv' /\ context_' \in [Tasks -> Executions]
      /\ cpu' \in Executions /\ cpu'.task = CurrentTask' /\ cpu'.at \notin Leaving
      /\ \A t \in Tasks : At(t)' = At(t)
  BY <1>1, <1>2, <1>4, SwitchedTo, TaskFacts DEF Whole
<1>6. SwitchTypeOK'
  BY <1>1, <1>3, <1>4, <1>5, TaskFacts DEF SwitchTypeOK
<1>7. FrontInv' /\ LevelInv'
  BY <1>3, <1>4, <1>5 DEF FrontInv, LevelInv, Leaving
<1>8. WakeInv'
  BY <1>2, <1>5, TaskFacts DEF WakeInv
<1>9. QueuedForItsFlag'
  <2> SUFFICES ASSUME NEW u \in Tasks PROVE Balanced(u)'
    BY DEF QueuedForItsFlag, Balanced
  <2>1. /\ Balanced(u) /\ TimesQueued(u) \in Nat /\ TimesQueued(u)' \in Nat
        /\ TimesQueued(u) = TimesQueued(u)' + One(u = Main)
    <3>1. /\ Balanced(u) /\ TimesQueued(u) \in Nat
          /\ TimesIn(running_[0], u) \in Nat /\ TimesIn(running_[Top], u) \in Nat
      BY <1>1, CountFacts
    <3>2. One(u = Main) \in Nat
      BY DEF One
    <3>3. /\ TimesIn(running_'[0], u) \in Nat /\ TimesIn(running_'[Top], u) \in Nat
          /\ TimesQueued(u)' = TimesIn(running_'[0], u) + TimesIn(running_'[Top], u)
      BY <1>3, <3>1 DEF TimesQueued
    <3>4. TimesQueued(u) =
            TimesIn(running_'[0], u) + (TimesIn(running_'[Top], u) + One(u = Main))
      BY <1>3 DEF TimesQueued
    <3> QED  BY <3>1, <3>2, <3>3, <3>4
  <2>2. u = Main => awake[u]
    BY <1>2, <2>1 DEF Balanced, One
  <2>3. One(awake[u]) = One(awake'[u]) + One(u = Main)
    BY <1>1, <2>2 DEF SwitchTypeOK, One
  <2> QED  BY <1>1, <1>5, <2>1, <2>3, TaskFacts DEF Balanced, One
<1> QED  BY <1>5, <1>6, <1>7, <1>8, <1>9 DEF PreemptionInv, Whole

LEMMA ClearRunningStep ==
  ASSUME PreemptionInv, NEW w \in Workers, ClearRunning(w)
  PROVE  PreemptionInv'
<1>1. /\ Executing(w, "work") /\ awake[w] /\ Continue("compare")
      /\ awake' = [awake EXCEPT ![w] = FALSE]
      /\ UNCHANGED <<running_, current_level_, context_, msgs, waking, torn>>
      /\ Whole /\ SwitchTypeOK
  BY DEF ClearRunning, PreemptionInv, Executing
<1>2. /\ ~ torn /\ At(w) = "work" /\ w \in Tasks /\ w # Main
      /\ \A u \in Tasks : At(u)' = IF u = w THEN "compare" ELSE At(u)
  BY <1>1, WentTo, TaskFacts
<1>3. /\ awake' \in [Tasks -> BOOLEAN]
      /\ \A u \in Tasks : awake'[u] <=> (awake[u] /\ u # w)
  BY <1>1, <1>2 DEF SwitchTypeOK
<1>4. WakeInv'
  BY <1>1, <1>2, <1>3, TaskFacts DEF Whole, WakeInv
<1>5. ASSUME NEW u \in Tasks PROVE Balanced(u)'
  <2>1. One(awake[u]) = One(awake'[u]) + One(u = w)
    BY <1>1, <1>3 DEF One
  <2>2. One(At(u)' = "compare") = One(At(u) = "compare") + One(u = w)
    BY <1>2 DEF One
  <2>3. One(waking' = u /\ At(Main)' = "push") = One(waking = u /\ At(Main) = "push")
    BY <1>1, <1>2, TaskFacts
  <2>4. TimesQueued(u)' = TimesQueued(u) /\ TimesQueued(u) \in Nat /\ Balanced(u)
    BY <1>1, <1>2, CountFacts DEF TimesQueued
  <2> QED  BY <2>1, <2>2, <2>3, <2>4 DEF Balanced, One
<1> QED  BY <1>1, <1>2, <1>3, <1>4, <1>5, PlainStep, TaskFacts DEF SwitchTypeOK, Leaving

LEMMA PopFrontStep ==
  ASSUME PreemptionInv, NEW w \in Workers, PopFront(w)
  PROVE  PreemptionInv'
<1>1. /\ Executing(w, "compare") /\ Continue("search") /\ running_' = Popped
      /\ UNCHANGED <<awake, current_level_, context_, msgs, waking, torn>>
      /\ Whole /\ SwitchTypeOK
  BY DEF PopFront, PreemptionInv, Executing
<1>2. /\ ~ torn /\ cpu.task = w /\ cpu.at = "compare" /\ w \in Tasks /\ w # Main /\ w # Idle
      /\ cpu' \in Executions /\ cpu'.task = w /\ cpu'.at = "search" /\ At(w) = "compare"
      /\ \A u \in Tasks : At(u)' = IF u = w THEN "search" ELSE At(u)
  BY <1>1, WentTo, TaskFacts
<1>3. /\ running_' \in [Levels -> Seq(Tasks)] /\ running_'[0] = <<Idle>>
      /\ running_'[Top] \in Seq(Workers \cup {Main})
      /\ \A t : /\ TimesIn(running_'[0], t) = TimesIn(running_[0], t)
                /\ TimesIn(running_'[Top], t) \in Nat
                /\ TimesIn(running_[Top], t) = TimesIn(running_'[Top], t) + One(t = w)
  <2>1. cpu.at \notin Leaving /\ cpu.task # Idle
    BY <1>2 DEF Leaving
  <2> QED  BY <1>1, <1>2, <2>1, PoppedLoses DEF Whole
<1>4. SwitchTypeOK'
  BY <1>1, <1>2, <1>3 DEF SwitchTypeOK
<1>5. ContextInv' /\ LevelInv' /\ FrontInv'
  BY <1>1, <1>2, <1>3 DEF Whole, ContextInv, ContextsResumeTheirTask, LevelInv, FrontInv, Leaving
<1>6. WakeInv'
  BY <1>1, <1>2, TaskFacts DEF Whole, WakeInv
<1>7. QueuedForItsFlag'
  <2> SUFFICES ASSUME NEW u \in Tasks PROVE Balanced(u)'
    BY DEF QueuedForItsFlag, Balanced
  <2>1. /\ Balanced(u) /\ TimesQueued(u) \in Nat
        /\ TimesIn(running_[0], u) \in Nat /\ TimesIn(running_[Top], u) \in Nat
    BY <1>2, CountFacts
  <2>2. One(u = w) \in Nat
    BY DEF One
  <2>3. TimesQueued(u) = TimesQueued(u)' + One(u = w) /\ TimesQueued(u)' \in Nat
    BY <1>3, <2>1, <2>2 DEF TimesQueued
  <2>4. One(At(u) = "compare") = One(At(u)' = "compare") + One(u = w)
    BY <1>2 DEF One
  <2>5. One(waking' = u /\ At(Main)' = "push") = One(waking = u /\ At(Main) = "push")
    BY <1>1, <1>2, TaskFacts
  <2> QED  BY <1>1, <2>1, <2>3, <2>4, <2>5 DEF Balanced, One
<1> QED  BY <1>4, <1>5, <1>6, <1>7 DEF PreemptionInv, Whole

LEMMA SearchLevelStep ==
  ASSUME PreemptionInv, NEW w \in Workers, SearchLevel(w)
  PROVE  PreemptionInv'
<1>1. /\ Executing(w, "search") /\ Continue("switch") /\ current_level_' = HighestLevel(running_)
      /\ UNCHANGED <<awake, running_, context_, msgs, waking, torn>>
      /\ Whole /\ SwitchTypeOK
  BY DEF SearchLevel, PreemptionInv, Executing
<1>2. /\ ~ torn /\ w \in Tasks /\ w # Main
      /\ cpu' \in Executions /\ cpu'.task = w /\ cpu'.at = "switch" /\ At(w) = "search"
      /\ \A u \in Tasks : At(u)' = IF u = w THEN "switch" ELSE At(u)
  BY <1>1, WentTo, TaskFacts
<1>3. current_level_' \in Levels /\ running_'[current_level_'] # <<>>
  BY <1>1, HighestIsReady DEF Whole, LevelInv, SwitchTypeOK
<1>4. SwitchTypeOK'
  BY <1>1, <1>2, <1>3 DEF SwitchTypeOK
<1>5. ContextInv' /\ LevelInv' /\ FrontInv'
  BY <1>1, <1>2, <1>3 DEF Whole, ContextInv, ContextsResumeTheirTask, LevelInv, FrontInv, Leaving
<1>6. WakeInv'
  BY <1>1, <1>2, TaskFacts DEF Whole, WakeInv
<1>7. QueuedForItsFlag'
  BY <1>1, <1>2, TaskFacts DEF Whole, QueuedForItsFlag, TimesQueued, One
<1> QED  BY <1>4, <1>5, <1>6, <1>7 DEF PreemptionInv, Whole

LEMMA SwitchContextStep ==
  ASSUME PreemptionInv, NEW w \in Workers, SwitchContext(w)
  PROVE  PreemptionInv'
<1>1. /\ Executing(w, "switch") /\ context_' = [context_ EXCEPT ![w] = Execution(w, "work")]
      /\ cpu' = context_'[CurrentTask]
      /\ UNCHANGED <<awake, running_, current_level_, msgs, waking, torn>>
      /\ Whole /\ SwitchTypeOK
  BY DEF SwitchContext, PreemptionInv, Executing
<1>2. /\ ~ torn /\ cpu.task = w /\ cpu.at = "switch" /\ At(w) = "switch" /\ w \in Tasks /\ w # Main
      /\ Execution(w, "work") \in Executions /\ Execution(w, "work").task = w
      /\ Execution(w, "work").at = "work"
  BY <1>1, ExecutionFacts, TaskFacts DEF Executing, At
<1>3. running_[current_level_] # <<>> /\ CurrentTask \in Tasks
  BY <1>1, <1>2 DEF Whole, FrontInv, CurrentTask, SwitchTypeOK
<1>4. /\ ContextInv' /\ context_' \in [Tasks -> Executions]
      /\ cpu' \in Executions /\ cpu'.task = CurrentTask /\ cpu'.at \notin Leaving
      /\ \A t \in Tasks : At(t)' = IF t = w THEN "work" ELSE At(t)
  <2>1. Execution(w, "work").at \notin Leaving
    BY <1>2 DEF Leaving
  <2> QED  BY <1>1, <1>2, <1>3, <2>1, SwitchedTo DEF Whole
<1>5. SwitchTypeOK'
  BY <1>1, <1>4 DEF SwitchTypeOK
<1>6. FrontInv' /\ LevelInv'
  BY <1>1, <1>3, <1>4 DEF Whole, FrontInv, LevelInv, CurrentTask, Leaving
<1>7. WakeInv'
  BY <1>1, <1>2, <1>4, TaskFacts DEF Whole, WakeInv
<1>8. QueuedForItsFlag'
  BY <1>1, <1>2, <1>4, TaskFacts DEF Whole, QueuedForItsFlag, TimesQueued, One
<1> QED  BY <1>4, <1>5, <1>6, <1>7, <1>8 DEF PreemptionInv, Whole

LEMMA PreemptionInvAlways == SwitchSpec => []PreemptionInv
<1>1. PreemptionInv /\ [SwitchNext]_switchVars => PreemptionInv'
  <2> SUFFICES ASSUME PreemptionInv, [SwitchNext]_switchVars PROVE PreemptionInv'
    OBVIOUS
  <2>1. CASE UNCHANGED switchVars
    BY <2>1 DEF switchVars, PreemptionInv, Whole, SwitchTypeOK, ContextInv, ContextsResumeTheirTask, FrontInv, LevelInv,
       WakeInv, QueuedForItsFlag, TimesQueued, CurrentTask, At
  <2>2. CASE MainLoop
    BY <2>2, MainPlainStep, SleepUninterruptedStep DEF MainLoop
  <2>3. CASE MainStep /\ ~ MainLoop
    BY <2>3, MainPlainStep, PushBackStep DEF MainStep
  <2>4. ASSUME NEW w \in Workers, WorkerStep(w) PROVE PreemptionInv'
    BY <2>4, ClearRunningStep, PopFrontStep, SearchLevelStep, SwitchContextStep DEF WorkerStep
  <2> QED  BY <2>1, <2>2, <2>3, <2>4, TimerStep, XhciStep DEF SwitchNext, Torn
<1> QED  BY <1>1, PreemptionInvInit, PTL DEF SwitchSpec

\* A task is queued as often as its flag and its place in Sleep and Wakeup say, wherever
\* these are interrupted, for any number of workers: no entry is lost or left.
THEOREM FlagsAndQueuesKept == SwitchSpec => []QueuesKept
<1>1. PreemptionInv => QueuesKept
  BY DEF PreemptionInv, Whole, QueuedForItsFlag, QueuesKept
<1> QED  BY <1>1, PreemptionInvAlways, PTL

\* Contexts resume the task they belong to and CurrentTask() names the task that executes,
\* until a timer interrupt comes between pop_front and SwitchContext.
THEOREM CurrentTaskIsNamed == SwitchSpec => []CurrentTaskNamed
<1>1. PreemptionInv => CurrentTaskNamed
  BY DEF PreemptionInv, Whole, ContextInv, FrontInv, Leaving, CurrentTaskNamed, CurrentTasks
<1> QED  BY <1>1, PreemptionInvAlways, PTL
=============================================================================
