-------------------------- MODULE PreemptiveSwitch --------------------------
(***************************************************************************)
(* TaskManager::Sleep and Wakeup step by step, as they run where their     *)
(* callers leave interrupts enabled: WaitEvent of the USB init task        *)
(* (kernel/usb/xhci/xhci.cpp) calls Sleep, and ProcessEvents of the main   *)
(* task calls Wakeup.  A timer interrupt, which switches tasks, or an xHCI *)
(* interrupt, which wakes the main task, may come between any two steps.   *)
(* TaskManager has the same operations as atomic steps.                    *)
(*                                                                         *)
(* An execution is a task and the point its instructions have come to; a   *)
(* TaskContext is the execution it resumes.  The model ends when an        *)
(* interrupt has torn a switch apart: from then on two contexts share one  *)
(* stack, and what is executed can not be told from the source.            *)
(***************************************************************************)
EXTENDS Integers, Sequences, FiniteSets

CONSTANTS
  Workers,  \* tasks that wait for events, as the init task does
  MaxMsgs   \* bound on the messages waiting for the main task

Main == "main"
Idle == "idle"

NoTask == "none"

ASSUME PreemptiveAssumption ==
  /\ MaxMsgs \in Nat \ {0}
  /\ {Main, Idle, NoTask} \cap Workers = {}

Tasks == Workers \cup {Main, Idle}

Top == 1             \* the level of the main task and of the workers
Levels == {0, Top}   \* the idle task is at level 0; no task changes its level

VARIABLES
  awake,           \* Task::running_
  running_,        \* TaskManager::running_
  current_level_,  \* TaskManager::current_level_
  context_,        \* Task::context_
  cpu,             \* the execution on the processor
  msgs,            \* the number of messages waiting for the main task
  waking,          \* the argument of the Wakeup the main task is in
  torn             \* a timer interrupt has torn a switch apart

switchVars == <<awake, running_, current_level_, context_, cpu, msgs, waking, torn>>

\* Where an execution may be.  Main: in its loop, in ProcessEvents, and in Wakeup
\* before SetRunning and before push_back.  Worker: outside Sleep, in Sleep before
\* the comparison, in RotateCurrentRunQueue before the search for a level, and
\* before SwitchContext.
Points(t) == CASE t = Main -> {"loop", "process", "set", "push"}
               [] t = Idle -> {"hlt"}
               [] OTHER -> {"work", "compare", "search", "switch"}

Execution(t, p) == [task |-> t, at |-> p]
Executions == UNION {{Execution(t, p) : p \in Points(t)} : t \in Tasks}

Executing(t, p) == ~ torn /\ cpu = Execution(t, p)
Continue(p) == cpu' = [cpu EXCEPT !.at = p]

CurrentTask == Head(running_[current_level_])

\* front() of an empty deque is undefined: it may be taken for any task.
CurrentTasks == IF running_[current_level_] = <<>> THEN Tasks ELSE {CurrentTask}

\* The workers are created with InitContext and not yet woken.
SwitchInit ==
  /\ awake = [t \in Tasks |-> t \notin Workers]
  /\ running_ = [l \in Levels |-> IF l = Top THEN <<Main>> ELSE <<Idle>>]
  /\ current_level_ = Top
  /\ context_ = [t \in Tasks |-> CASE t = Main -> Execution(Main, "loop")
                                   [] t = Idle -> Execution(Idle, "hlt")
                                   [] OTHER -> Execution(t, "work")]
  /\ cpu = Execution(Main, "loop")
  /\ msgs = 0
  /\ waking = NoTask
  /\ torn = FALSE

-----------------------------------------------------------------------------
(* The run queues.                                                         *)

HighestLevel(queues) == IF queues[Top] # <<>> THEN Top ELSE 0

\* Fault: the executing task stays at the front.
RotatedInPlace == running_

Rotated ==
  [running_ EXCEPT ![current_level_] =
     IF @ = <<>> THEN @ ELSE Append(Tail(@), Head(@))]

Popped == [running_ EXCEPT ![current_level_] = Tail(@)]

Pushed(t) == [running_ EXCEPT ![Top] = Append(@, t)]

-----------------------------------------------------------------------------
(* Interrupts.                                                             *)

\* SwitchTask takes CurrentTask() for the task that was interrupted.
TimerInterrupt ==
  /\ ~ torn
  /\ \E current \in CurrentTasks :
       /\ context_' = [context_ EXCEPT ![current] = cpu]
       /\ running_' = Rotated
       /\ current_level_' = HighestLevel(Rotated)
       /\ cpu' = IF CurrentTask' = current THEN cpu ELSE context_'[CurrentTask']
  /\ torn' = (cpu.at \in {"search", "switch"})
  /\ UNCHANGED <<awake, msgs, waking>>

\* SendMessage to the main task.
XhciInterrupt ==
  /\ ~ torn /\ msgs < MaxMsgs
  /\ msgs' = msgs + 1
  /\ awake' = [awake EXCEPT ![Main] = TRUE]
  /\ running_' = IF awake[Main] THEN running_ ELSE Pushed(Main)
  /\ UNCHANGED <<current_level_, context_, cpu, waking, torn>>

-----------------------------------------------------------------------------
(* The main task.                                                          *)

ReceiveMessage ==
  /\ msgs > 0
  /\ msgs' = msgs - 1
  /\ Continue("process")
  /\ UNCHANGED <<awake, running_, current_level_, context_>>

\* All of Sleep, with interrupts disabled.
SleepUninterrupted ==
  /\ msgs = 0
  /\ awake' = [awake EXCEPT ![Main] = FALSE]
  /\ running_' = Popped
  /\ current_level_' = HighestLevel(Popped)
  /\ context_' = [context_ EXCEPT ![Main] = cpu]
  /\ cpu' = context_'[CurrentTask']
  /\ UNCHANGED msgs

MainLoop ==
  /\ Executing(Main, "loop")
  /\ ReceiveMessage \/ SleepUninterrupted
  /\ UNCHANGED <<waking, torn>>

\* Fault: the flag is not tested.
TestRunningSkipped(w) ==
  /\ Executing(Main, "process")
  /\ waking' = w
  /\ Continue("set")
  /\ UNCHANGED <<awake, running_, current_level_, context_, msgs, torn>>

\* ProcessEvents wakes a worker, with a message or without.  Nothing happens when it
\* is awake, since no level is given.
TestRunning(w) ==
  /\ Executing(Main, "process")
  /\ ~ awake[w]
  /\ waking' = w
  /\ Continue("set")
  /\ UNCHANGED <<awake, running_, current_level_, context_, msgs, torn>>

SetRunning ==
  /\ Executing(Main, "set")
  /\ awake' = [awake EXCEPT ![waking] = TRUE]
  /\ Continue("push")
  /\ UNCHANGED <<running_, current_level_, context_, msgs, waking, torn>>

PushBack ==
  /\ Executing(Main, "push")
  /\ running_' = Pushed(waking)
  /\ waking' = NoTask
  /\ Continue("process")
  /\ UNCHANGED <<awake, current_level_, context_, msgs, torn>>

EventsProcessed ==
  /\ Executing(Main, "process")
  /\ Continue("loop")
  /\ UNCHANGED <<awake, running_, current_level_, context_, msgs, waking, torn>>

-----------------------------------------------------------------------------
(* A worker in Sleep.                                                      *)

\* Sleep returns at once when the flag is not set.
ClearRunning(w) ==
  /\ Executing(w, "work")
  /\ awake[w]
  /\ awake' = [awake EXCEPT ![w] = FALSE]
  /\ Continue("compare")
  /\ UNCHANGED <<running_, current_level_, context_, msgs, waking, torn>>

\* The other way, Erase, is not taken by a task that sleeps itself: CurrentTaskNamed.
PopFront(w) ==
  /\ Executing(w, "compare")
  /\ w = CurrentTask
  /\ running_' = Popped
  /\ Continue("search")
  /\ UNCHANGED <<awake, current_level_, context_, msgs, waking, torn>>

SearchLevel(w) ==
  /\ Executing(w, "search")
  /\ current_level_' = HighestLevel(running_)
  /\ Continue("switch")
  /\ UNCHANGED <<awake, running_, context_, msgs, waking, torn>>

\* Fault: the arguments are swapped.
SwitchContextSwapped(w) ==
  /\ Executing(w, "switch")
  /\ context_' = [context_ EXCEPT ![CurrentTask] = Execution(w, "work")]
  /\ cpu' = context_'[w]
  /\ UNCHANGED <<awake, running_, current_level_, msgs, waking, torn>>

\* The saved context resumes behind the call.
SwitchContext(w) ==
  /\ Executing(w, "switch")
  /\ context_' = [context_ EXCEPT ![w] = Execution(w, "work")]
  /\ cpu' = context_'[CurrentTask]
  /\ UNCHANGED <<awake, running_, current_level_, msgs, waking, torn>>

-----------------------------------------------------------------------------
MainStep ==
  \/ MainLoop \/ SetRunning \/ PushBack \/ EventsProcessed
  \/ \E w \in Workers : TestRunning(w)

WorkerStep(w) == ClearRunning(w) \/ PopFront(w) \/ SearchLevel(w) \/ SwitchContext(w)

Torn == torn /\ UNCHANGED switchVars

SwitchNext ==
  \/ TimerInterrupt \/ XhciInterrupt
  \/ MainStep
  \/ \E w \in Workers : WorkerStep(w)
  \/ Torn

SwitchSpec == SwitchInit /\ [][SwitchNext]_switchVars

\* The timer never stops, and the time a task has before it is interrupted is long
\* enough for a step.
FairSwitchSpec == SwitchSpec /\ WF_switchVars(TimerInterrupt) /\ SF_switchVars(MainStep)

-----------------------------------------------------------------------------
(* Properties.                                                             *)

SwitchTypeOK ==
  /\ awake \in [Tasks -> BOOLEAN]
  /\ running_ \in [Levels -> Seq(Tasks)]
  /\ current_level_ \in Levels
  /\ context_ \in [Tasks -> Executions]
  /\ cpu \in Executions
  /\ msgs \in 0 .. MaxMsgs
  /\ waking \in Workers \cup {NoTask}
  /\ torn \in BOOLEAN

\* The comment on SwitchTask (task.hpp:85): "it stores current_ctx in the context of
\* the current task": a context resumes the task it belongs to.
ContextsResumeTheirTask == \A t \in Tasks : context_[t].task = t

\* As long as no timer interrupt came between pop_front and SwitchContext, contexts
\* resume their task, and CurrentTask() names the task that executes everywhere else:
\* the other places where Sleep and Wakeup can be interrupted do no harm.
CurrentTaskNamed ==
  ~ torn => /\ ContextsResumeTheirTask
            /\ cpu.at \notin {"search", "switch"} => CurrentTasks = {cpu.task}

One(condition) == IF condition THEN 1 ELSE 0

TimesIn(queue, t) == Cardinality({i \in DOMAIN queue : queue[i] = t})

TimesQueued(t) == TimesIn(running_[0], t) + TimesIn(running_[Top], t)

At(t) == IF cpu.task = t THEN cpu.at ELSE context_[t].at

\* A task is queued once for its flag, once more between clearing the flag and
\* leaving the queue, and not yet between setting the flag and push_back: the two
\* halves of Sleep and of Wakeup may interleave in any order, a task woken while
\* it goes to sleep being queued twice for a moment, and no entry is lost or left.
QueuedForItsFlag ==
  ~ torn => \A t \in Tasks :
    TimesQueued(t) + One(waking = t /\ At(Main) = "push")
      = One(awake[t]) + One(At(t) = "compare")

\* The flags and the queues that Sleep, Wakeup and the interrupts leave to each other.
QueuesKept == SwitchTypeOK /\ QueuedForItsFlag

\* A task whose flag is set is executed in the end, unless a switch is torn apart.
AwakeRuns == \A t \in Workers \cup {Main} : awake[t] ~> (torn \/ cpu.task = t)
=============================================================================
