------------------------------- MODULE Timer -------------------------------
(***************************************************************************)
(* The timers of the kernel (timer.cpp, timer.hpp) and the wait on the     *)
(* ACPI power management timer (acpi.cpp) they are calibrated with.        *)
(*                                                                         *)
(* InitializeLocalAPICTimer starts the timer of the local APIC with an     *)
(* arbitrary period, reads TotalCount, waits on the PM timer, reads        *)
(* TotalCount again and starts the timer anew with the counts that went    *)
(* into a millisecond; all of it with interrupts enabled, so a tick may    *)
(* come between any two reads.  InitializeTask adds the task timer, and    *)
(* from then on only the ticks matter: Tick pops the logical timers that   *)
(* are due, sends their messages to the main task and tells whether the    *)
(* task timer was one of them.                                             *)
(*                                                                         *)
(* The unit of time is one count of the APIC timer, which is also one      *)
(* count of the PM timer: their ratio only scales what is measured.        *)
(***************************************************************************)
EXTENDS Integers, Sequences, FiniteSets

CONSTANTS
  TickMod,     \* tick_ is a uint32_t: it wraps at TickMod, which stands for 2^32
  CountMod,    \* and the counts of TotalCount at CountMod, for 2^64
  Period,      \* kTaskTimerPeriod
  BootCounts,  \* the period of the timer while it is calibrated
  PMMod,       \* the PM timer wraps at PMMod, for 2^24 or 2^32
  WaitCounts,  \* kPMTimerFreq * msec / 1000 for the msec = WaitMs of the calibration
  WaitMs,
  MaxGap,      \* bound on the time between two steps of the calibration
  MaxTime,     \* bound on the time it takes
  Values       \* values of the logical timers that are added

TaskTimer == "kTaskTimerValue"
Largest == "largest"   \* the value of the timer that TimerManager starts with

ASSUME TimerAssumption ==
  /\ {TickMod, CountMod, Period, BootCounts, PMMod, WaitCounts, WaitMs, MaxGap, MaxTime}
       \subseteq Nat \ {0}
  /\ 2 * Period < TickMod /\ MaxGap < BootCounts
  /\ 2 * BootCounts + WaitMs <= WaitCounts   \* the wait takes several periods,
  /\ WaitCounts + MaxGap <= PMMod            \* but less than a lap of the PM timer
  /\ MaxTime < BootCounts * (TickMod - Period - MaxGap)   \* and no count comes near
  /\ MaxTime + 2 * BootCounts < CountMod                  \* to its wrap meanwhile
  /\ {TaskTimer, Largest} \cap Values = {}

VARIABLES
  now, pm0,                      \* the time, and what the PM timer was at time 0
  count, pending,                \* the current count of the APIC timer; its interrupt is due
  tick_, counts_per_loop_, timers_,   \* TimerManager
  at,                            \* where the calibration is
  gap,                           \* the time since its last step
  current_count, count_time,     \* the local of TotalCount, and when it was read
  total, total_time,             \* the local start, and when its count was read
  start, end, wait_time,         \* the locals of WaitMilliseconds, and when start was read
  hung,                          \* Tick never returns
  added, sent, switched          \* history: when timers were added and their messages
                                 \* sent, and the tick of the last switch of tasks

clock == <<now, pm0, count, pending>>
calibration == <<at, gap, current_count, count_time, total, total_time, start, end, wait_time>>
history == <<added, sent, switched>>
vars == <<clock, tick_, counts_per_loop_, timers_, calibration, hung, history>>

Timer(timeout, value) == [timeout |-> timeout, value |-> value]

\* The constructor and Start: the queue is never empty, and the timer counts.
Init ==
  /\ now = 0 /\ pm0 \in 0 .. PMMod - 1
  /\ count = BootCounts /\ pending = FALSE
  /\ tick_ = 0 /\ counts_per_loop_ = BootCounts
  /\ timers_ = {Timer(TickMod - 1, Largest)}
  /\ at = "count" /\ gap = 0
  /\ current_count = 0 /\ count_time = 0 /\ total = 0 /\ total_time = 0
  /\ start = 0 /\ end = 0 /\ wait_time = 0
  /\ hung = FALSE
  /\ added = [v \in {} |-> 0] /\ sent = <<>> /\ switched = 0

-----------------------------------------------------------------------------
(* The hardware: both timers, until the calibration is over.  Interrupts   *)
(* are never off for a whole period, so no tick is lost.                   *)

PMTimer == (pm0 + now) % PMMod

Advance ==
  /\ at # "run" /\ gap < MaxGap /\ now < MaxTime
  /\ ~ (pending /\ count = 1)
  /\ now' = now + 1 /\ gap' = gap + 1
  /\ count' = IF count = 1 THEN counts_per_loop_ ELSE count - 1
  /\ pending' = (pending \/ count = 1)
  /\ UNCHANGED <<pm0, tick_, counts_per_loop_, timers_, at, current_count, count_time,
                 total, total_time, start, end, wait_time, hung, history>>

-----------------------------------------------------------------------------
(* InitializeLocalAPICTimer                                                *)

GoTo(p) == at' = p /\ gap' = 0

\* TotalCount reads the register first ...
ReadCount ==
  /\ at \in {"count", "recount"}
  /\ current_count' = count /\ count_time' = now
  /\ GoTo(IF at = "count" THEN "tick" ELSE "retick")
  /\ UNCHANGED <<clock, tick_, counts_per_loop_, timers_, total, total_time, start, end,
                 wait_time, hung, history>>

\* ... and then tick_.
TotalCount == tick_ * counts_per_loop_ + counts_per_loop_ - current_count

ReadTick ==
  /\ at = "tick"
  /\ total' = TotalCount /\ total_time' = count_time
  /\ GoTo("wait")
  /\ UNCHANGED <<clock, tick_, counts_per_loop_, timers_, current_count, count_time,
                 start, end, wait_time, hung, history>>

\* Fault: the wrap is not waited for.
WaitMillisecondsOneLoop ==
  /\ at = "wait"
  /\ start' = PMTimer /\ wait_time' = now
  /\ end' = (PMTimer + WaitCounts) % PMMod
  /\ GoTo("end")
  /\ UNCHANGED <<clock, tick_, counts_per_loop_, timers_, current_count, count_time,
                 total, total_time, hung, history>>

\* WaitMilliseconds: the end is computed in the width of the timer, and a wait over
\* the wrap has a loop of its own.
WaitMilliseconds ==
  /\ at = "wait"
  /\ start' = PMTimer /\ wait_time' = now
  /\ end' = (PMTimer + WaitCounts) % PMMod
  /\ GoTo(IF end' < start' THEN "wrap" ELSE "end")
  /\ UNCHANGED <<clock, tick_, counts_per_loop_, timers_, current_count, count_time,
                 total, total_time, hung, history>>

Poll ==
  /\ \/ at = "wrap" /\ GoTo(IF PMTimer >= start THEN at ELSE "end")
     \/ at = "end"  /\ GoTo(IF PMTimer < end THEN at ELSE "recount")
  /\ UNCHANGED <<clock, tick_, counts_per_loop_, timers_, current_count, count_time,
                 total, total_time, start, end, wait_time, hung, history>>

\* Fault: the count at the start is taken to be zero.
RestartFromZero ==
  /\ at = "retick"
  /\ counts_per_loop_' = TotalCount \div WaitMs
  /\ count' = counts_per_loop_'
  /\ GoTo("calibrated")
  /\ UNCHANGED <<now, pm0, pending, tick_, timers_, current_count, count_time,
                 total, total_time, start, end, wait_time, hung, history>>

\* The second TotalCount and the new period, in unsigned arithmetic.
Restart ==
  /\ at = "retick"
  /\ counts_per_loop_' = ((TotalCount - total) % CountMod) \div WaitMs
  /\ count' = counts_per_loop_'
  /\ GoTo("calibrated")
  /\ UNCHANGED <<now, pm0, pending, tick_, timers_, current_count, count_time,
                 total, total_time, start, end, wait_time, hung, history>>

\* Fault: the period is off by one.
NextTimeoutLate(tick) == (tick + Period + 1) % TickMod

NextTimeout(tick) == (tick + Period) % TickMod

\* InitializeTask adds the task timer with interrupts off.  The variables of the
\* calibration are not looked at again.
InitializeTask ==
  /\ at = "calibrated"
  /\ timers_' = timers_ \cup {Timer(NextTimeout(tick_), TaskTimer)}
  /\ switched' = tick_
  /\ at' = "run" /\ gap' = 0 /\ current_count' = 0 /\ count_time' = 0
  /\ total' = 0 /\ total_time' = 0 /\ start' = 0 /\ end' = 0 /\ wait_time' = 0
  /\ now' = 0 /\ pm0' = 0 /\ count' = 0 /\ pending' = FALSE
  /\ UNCHANGED <<tick_, counts_per_loop_, hung, added, sent>>

-----------------------------------------------------------------------------
(* TimerManager                                                            *)

AddTimer(timeout, v) ==
  /\ at = "run" /\ ~ hung
  /\ v \in Values \ DOMAIN added
  /\ timers_' = timers_ \cup {Timer(timeout, v)}
  /\ added' = [w \in DOMAIN added \cup {v} |-> IF w = v THEN tick_ ELSE added[w]]
  /\ UNCHANGED <<clock, tick_, counts_per_loop_, calibration, hung, sent, switched>>

\* Fault: a timer is due after its timeout.
DueLate(tick) == {x \in timers_ : x.timeout < tick}

Due(tick) == {x \in timers_ : x.timeout <= tick}

\* The orders in which a priority queue may give the timers of S.
PopOrders(S) ==
  {q \in [1 .. Cardinality(S) -> S] :
     \A i, j \in 1 .. Cardinality(S) : i < j => q[i] # q[j] /\ q[i].timeout <= q[j].timeout}

\* When the next timeout of the task timer wraps, it is due at once, and is popped and
\* pushed again for ever.
PoppedForEver(tick) ==
  NextTimeout(tick) <= tick /\ \E x \in Due(tick) : x.value = TaskTimer

Tick(tick) ==
  LET due  == Due(tick)
      task == \E x \in due : x.value = TaskTimer
  IN
  /\ tick_' = tick
  /\ IF PoppedForEver(tick)
     THEN hung' = TRUE /\ UNCHANGED <<timers_, history>>
     ELSE /\ timers_' = (timers_ \ due)
                          \cup (IF task THEN {Timer(NextTimeout(tick), TaskTimer)} ELSE {})
          /\ \E q \in PopOrders({x \in due : x.value # TaskTimer}) :
               sent' = sent \o [i \in DOMAIN q |-> [timer |-> q[i], tick |-> tick]]
          /\ switched' = IF task THEN tick ELSE switched
          /\ UNCHANGED <<hung, added>>

\* Outside the calibration an interrupt may come at any time.
LAPICTimerOnInterrupt ==
  /\ ~ hung /\ counts_per_loop_ > 0
  /\ pending \/ at = "run"
  /\ pending' = FALSE
  /\ Tick((tick_ + 1) % TickMod)
  /\ UNCHANGED <<now, pm0, count, counts_per_loop_, calibration>>

Next ==
  \/ Advance \/ ReadCount \/ ReadTick \/ WaitMilliseconds \/ Poll \/ Restart
  \/ InitializeTask
  \/ \E timeout \in 0 .. TickMod - 1, v \in Values : AddTimer(timeout, v)
  \/ LAPICTimerOnInterrupt

Spec == Init /\ [][Next]_vars

-----------------------------------------------------------------------------
TypeOK ==
  /\ now \in 0 .. MaxTime /\ pm0 \in 0 .. PMMod - 1
  /\ pending \in BOOLEAN /\ hung \in BOOLEAN
  /\ tick_ \in 0 .. TickMod - 1 /\ switched \in 0 .. TickMod - 1
  /\ counts_per_loop_ \in Nat /\ count \in 0 .. counts_per_loop_
  /\ timers_ \subseteq [timeout : 0 .. TickMod - 1, value : Values \cup {TaskTimer, Largest}]
  /\ at \in {"count", "tick", "wait", "wrap", "end", "recount", "retick",
             "calibrated", "run"}
  /\ gap \in 0 .. MaxGap /\ end \in 0 .. PMMod - 1

\* TotalCount reads two things that an interrupt changes together.  When it is made of
\* values from both sides of a tick it is wrong by a period, and never by anything else.
TotalCountOffByAPeriod ==
  at \in {"wait", "wrap", "end", "recount", "retick"} =>
    total - total_time \in {- BootCounts, 0, BootCounts}

\* The counts that the calibration takes for a wait are those that have gone by between
\* the two reads, up to one period for each read that a tick fell into.
CalibratedWithinTwoPeriods ==
  at = "calibrated" =>
    LET elapsed == count_time - total_time IN
      \E error \in {-2, -1, 0, 1, 2} :
        counts_per_loop_ = ((elapsed + error * BootCounts) % CountMod) \div WaitMs

\* WaitMilliseconds does not return early, wherever the PM timer stands.
WaitsLongEnough ==
  at \in {"recount", "retick"} => now - wait_time >= WaitCounts

\* And it returns with the second poll after its end at the latest, the one of the second
\* loop; the exception is an end so close below the wrap that the polls can miss it, when
\* it goes on for another lap.
LateOnlyAtTheWrap ==
  (at \in {"wrap", "end"} /\ now - wait_time > WaitCounts + 2 * MaxGap)
    => end > PMMod - MaxGap

\* The message of a timer is sent with the first tick after AddTimer at which the time is
\* not before its timeout: never early, never late, once, and in the order of timeouts.
SentWhenDue ==
  /\ \A i \in DOMAIN sent :
       LET x == sent[i].timer IN
         x.value \in Values =>
           sent[i].tick = IF x.timeout > added[x.value] THEN x.timeout ELSE added[x.value] + 1
  /\ \A x \in timers_ : x.timeout <= tick_ =>
       hung \/ (x.value \in Values /\ added[x.value] = tick_)
  /\ \A i, j \in DOMAIN sent :
       i < j => /\ sent[i].timer # sent[j].timer
                /\ \/ sent[i].tick < sent[j].tick
                   \/ /\ sent[i].tick = sent[j].tick
                      /\ sent[i].timer.timeout <= sent[j].timer.timeout

\* There is one task timer, and tasks are switched every Period ticks, neither earlier
\* nor later, until Tick hangs.
SwitchesEveryPeriod ==
  at = "run" =>
    /\ {x \in timers_ : x.value = TaskTimer} = {Timer(switched + Period, TaskTimer)}
    /\ hung \/ tick_ < switched + Period

\* Tick hangs only when the next timeout of the task timer is beyond what fits in 32 bits,
\* and so before tick_ itself can wrap.
HangsOnlyAtTheWrap == hung => tick_ + Period >= TickMod

\* The calibration of InitializeLocalAPICTimer, tick by tick: TotalCount is off by whole
\* periods only, and by two at most from one end of the wait to the other.
CalibrationBounded == TypeOK /\ TotalCountOffByAPeriod /\ CalibratedWithinTwoPeriods

\* acpi::WaitMilliseconds waits as long as it was asked to, and not much longer.
WaitBounded == WaitsLongEnough /\ LateOnlyAtTheWrap

\* The task timer comes for as long as tick_ + kTaskTimerPeriod fits in 32 bits.
TasksSwitched == SwitchesEveryPeriod /\ HangsOnlyAtTheWrap
=============================================================================
