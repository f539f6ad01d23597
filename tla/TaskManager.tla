---------------------------- MODULE TaskManager ----------------------------
(***************************************************************************)
(* The task manager of the kernel: tasks, their priority levels, the run   *)
(* queues, the message queue of each task, and the switch from one task to *)
(* another (kernel/task.cpp, the message loop of kernel/main.cpp and the   *)
(* context switches of kernel/asmfunc.asm).                                *)
(*                                                                         *)
(* Every operation is one atomic step, as it is where the code runs it     *)
(* with interrupts disabled: in an interrupt handler, and in the message   *)
(* loop of the main task.  Module PreemptiveSwitch takes Sleep apart for   *)
(* the callers that leave interrupts enabled.                              *)
(*                                                                         *)
(* A task is its identifier.  A saved TaskContext is abstracted to the     *)
(* task whose execution it resumes.                                        *)
(***************************************************************************)
EXTENDS Integers, Sequences, Deque

CONSTANTS
  MaxLevel,    \* kMaxLevel, the highest priority level
  MaxTasks,    \* bound on the number of tasks ever created
  Messages,    \* the messages that can be sent
  MaxMsgs,     \* bound on the length of a message queue
  WakeLevels   \* the second argument of the calls of Wakeup (-1: keep the level)

Levels == 0 .. MaxLevel

ASSUME TaskManagerAssumption ==
  /\ MaxLevel \in Nat \ {0}
  /\ MaxTasks \in Nat /\ MaxTasks >= 2
  /\ MaxMsgs \in Nat
  /\ WakeLevels \subseteq Levels \cup {-1}

Tasks == 1 .. MaxTasks

Main == 1           \* the task that runs KernelMainNewStack
Idle == 2           \* IdleTask, an endless hlt loop
DefaultLevel == 1   \* Task::kDefaultLevel
NoContext == 0      \* a TaskContext nobody has written yet

VARIABLES
  latest_id_,      \* number of tasks created; the tasks are 1 .. latest_id_
  level_,          \* Task::level_
  awake,           \* Task::running_: executing or ready to execute
  running_,        \* TaskManager::running_, one queue of tasks for each level
  current_level_,  \* the level whose queue has the executing task at its front
  msgs_,           \* Task::msgs_
  context_,        \* Task::context_: the task it resumes, or NoContext
  cpu              \* the task whose instructions the processor executes

taskVars == <<latest_id_, level_, awake, running_, current_level_, context_, cpu>>
vars == <<latest_id_, level_, awake, running_, current_level_, msgs_, context_, cpu>>

Exists(t) == t <= latest_id_

CurrentTask == Head(running_[current_level_])

-----------------------------------------------------------------------------
(* The constructor: the main task executes at the highest level, the idle  *)
(* task waits at level 0.                                                  *)

Init ==
  /\ latest_id_ = 2
  /\ level_ = [t \in Tasks |-> CASE t = Main -> MaxLevel
                                 [] t = Idle -> 0
                                 [] OTHER -> DefaultLevel]
  /\ awake = [t \in Tasks |-> t \in {Main, Idle}]
  /\ running_ = [l \in Levels |-> CASE l = MaxLevel -> <<Main>>
                                    [] l = 0 -> <<Idle>>
                                    [] OTHER -> <<>>]
  /\ current_level_ = MaxLevel
  /\ msgs_ = [t \in Tasks |-> <<>>]
  /\ context_ = [t \in Tasks |-> IF t = Idle THEN Idle ELSE NoContext]
  /\ cpu = Main

NewTask ==
  /\ latest_id_ < MaxTasks
  /\ latest_id_' = latest_id_ + 1
  /\ UNCHANGED <<level_, awake, running_, current_level_, msgs_, context_, cpu>>

\* Every caller of NewTask chains InitContext to it, before the first Wakeup.
InitContext(t) ==
  /\ Exists(t) /\ t # Main
  /\ context_[t] = NoContext
  /\ context_' = [context_ EXCEPT ![t] = t]
  /\ UNCHANGED <<latest_id_, level_, awake, running_, current_level_, msgs_, cpu>>

-----------------------------------------------------------------------------
(* Switching.                                                              *)

HighestLevel(queues) ==
  CHOOSE l \in Levels : /\ queues[l] # <<>>
                        /\ \A k \in Levels : queues[k] # <<>> => k <= l

\* Faults: the executing task stays at the front of its queue, and the switch stays
\* at its level as long as somebody is ready there.
RotatedInPlace(sleep) ==
  [running_ EXCEPT ![current_level_] = IF sleep THEN Tail(@) ELSE @]

Rotated(sleep) ==
  [running_ EXCEPT ![current_level_] =
     IF sleep THEN Tail(@) ELSE Append(Tail(@), Head(@))]

RotateAtCurrentLevel(sleep) ==
  /\ running_' = Rotated(sleep)
  /\ current_level_' = IF Rotated(sleep)[current_level_] # <<>> THEN current_level_
                       ELSE HighestLevel(Rotated(sleep))

RotateCurrentRunQueue(sleep) ==
  /\ running_' = Rotated(sleep)
  /\ current_level_' = HighestLevel(Rotated(sleep))

\* Called by the timer interrupt with the context of the interrupted execution.
SwitchTask ==
  /\ RotateCurrentRunQueue(FALSE)
  /\ context_' = [context_ EXCEPT ![CurrentTask] = cpu]
  /\ cpu' = IF CurrentTask' = CurrentTask THEN cpu ELSE context_'[CurrentTask']
  /\ UNCHANGED <<latest_id_, level_, awake, msgs_>>

\* Faults: the arguments of SwitchContext are swapped; the task is looked for at the
\* executing level.
SleepSwapped(t) ==
  /\ t = CurrentTask
  /\ RotateCurrentRunQueue(TRUE)
  /\ context_' = [context_ EXCEPT ![CurrentTask'] = cpu]
  /\ cpu' = context_'[t]

SleepExecuting(t) ==
  /\ t = CurrentTask
  /\ RotateCurrentRunQueue(TRUE)
  /\ context_' = [context_ EXCEPT ![t] = cpu]
  /\ cpu' = context_'[CurrentTask']

SleepWaitingAtCurrentLevel(t) ==
  /\ t # CurrentTask
  /\ running_' = [running_ EXCEPT ![current_level_] = Erase(@, t)]
  /\ UNCHANGED <<current_level_, context_, cpu>>

SleepWaiting(t) ==
  /\ t # CurrentTask
  /\ running_' = [running_ EXCEPT ![level_[t]] = Erase(@, t)]
  /\ UNCHANGED <<current_level_, context_, cpu>>

\* Nothing happens when t sleeps already.
Sleep(t) ==
  /\ awake[t]
  /\ awake' = [awake EXCEPT ![t] = FALSE]
  /\ SleepExecuting(t) \/ SleepWaiting(t)
  /\ UNCHANGED <<latest_id_, level_, msgs_>>

-----------------------------------------------------------------------------
(* Waking, levels and messages.                                            *)

\* The executing task goes on executing at its new level.
ChangeLevelRunning(t, level) ==
  /\ level >= 0 /\ level # level_[t]
  /\ level_' = [level_ EXCEPT ![t] = level]
  /\ \/ /\ t # CurrentTask
        /\ running_' = [running_ EXCEPT ![level_[t]] = Erase(@, t),
                                        ![level] = Append(@, t)]
        /\ UNCHANGED current_level_
     \/ /\ t = CurrentTask
        /\ running_' = [running_ EXCEPT ![current_level_] = Tail(@),
                                        ![level] = <<t>> \o @]
        /\ current_level_' = level
  /\ UNCHANGED awake

WakeSleeper(t, level) ==
  LET l == IF level < 0 THEN level_[t] ELSE level
  IN /\ level_' = [level_ EXCEPT ![t] = l]
     /\ awake' = [awake EXCEPT ![t] = TRUE]
     /\ running_' = [running_ EXCEPT ![l] = Append(@, t)]
     /\ UNCHANGED current_level_

Wakeup(t, level) ==
  /\ Exists(t)
  /\ \/ awake[t] /\ ChangeLevelRunning(t, level)
     \/ ~ awake[t] /\ WakeSleeper(t, level)
  /\ UNCHANGED <<latest_id_, msgs_, context_, cpu>>

SendMessage(t, m) ==
  /\ Exists(t)
  /\ msgs_' = [msgs_ EXCEPT ![t] = Append(@, m)]
  /\ \/ awake[t] /\ UNCHANGED <<level_, awake, running_, current_level_>>
     \/ ~ awake[t] /\ WakeSleeper(t, -1)
  /\ UNCHANGED <<latest_id_, context_, cpu>>

\* An empty queue gives kNullMessage and changes nothing.
ReceiveMessage(t) ==
  /\ msgs_[t] # <<>>
  /\ msgs_' = [msgs_ EXCEPT ![t] = Tail(@)]
  /\ UNCHANGED taskVars

\* Fault: no cli, so that a message may come between the test and Sleep.
MainLoopWithoutCli ==
  /\ cpu = Main
  /\ ReceiveMessage(Main) \/ Sleep(Main)

\* cli; ReceiveMessage; Sleep when there was none; sti.
MainLoop ==
  /\ cpu = Main
  /\ \/ ReceiveMessage(Main)
     \/ msgs_[Main] = <<>> /\ Sleep(Main)

-----------------------------------------------------------------------------
(* Only tasks that have a context are woken or sent a message; the idle    *)
(* task never sleeps, and the main task only in its loop.                  *)

Started(t) == Exists(t) /\ (awake[t] \/ context_[t] # NoContext)

Next ==
  \/ NewTask
  \/ \E t \in Tasks : InitContext(t)
  \/ SwitchTask
  \/ \E t \in Tasks \ {Main, Idle} : Sleep(t)
  \/ \E t \in Tasks, l \in WakeLevels : Started(t) /\ Wakeup(t, l)
  \/ \E t \in Tasks, m \in Messages :
        Started(t) /\ Len(msgs_[t]) < MaxMsgs /\ SendMessage(t, m)
  \/ \E t \in Tasks \ {Main, Idle} : cpu = t /\ ReceiveMessage(t)
  \/ MainLoop

Spec == Init /\ [][Next]_vars

\* The local APIC timer never stops, and the main task is in its loop.
FairSpec == Spec /\ WF_vars(SwitchTask) /\ WF_vars(MainLoop)

-----------------------------------------------------------------------------
(* Properties.                                                             *)

TypeOK ==
  /\ latest_id_ \in 2 .. MaxTasks
  /\ level_ \in [Tasks -> Levels]
  /\ awake \in [Tasks -> BOOLEAN]
  /\ running_ \in [Levels -> Seq(Tasks)]
  /\ current_level_ \in Levels
  /\ msgs_ \in [Tasks -> Seq(Messages)]
  /\ context_ \in [Tasks -> Tasks \cup {NoContext}]
  /\ cpu \in Tasks

Positions(t, l) == {i \in DOMAIN running_[l] : running_[l][i] = t}

QueuedOnce(t, l) ==
  \E i \in DOMAIN running_[l] : Positions(t, l) = {i}

\* A task is in the queues exactly when its running_ flag is set, and then once,
\* in the queue of its own level: the bookkeeping that Sleep, Wakeup and
\* ChangeLevelRunning split between the flag, the level and the queues.
RunQueuesMatchTasks ==
  \A t \in Tasks, l \in Levels :
    IF awake[t] /\ level_[t] = l THEN QueuedOnce(t, l) ELSE Positions(t, l) = {}

\* The processor executes the task at the front of the queue of current_level_:
\* what every use of CurrentTask() in an interrupt or in WaitEvent relies on.
ExecutesCurrentTask ==
  /\ running_[current_level_] # <<>>
  /\ cpu = CurrentTask

\* Every task that may be switched to has a context that resumes that task, so a
\* switch neither jumps into an unwritten context nor resumes somebody else.
ContextsResumeTheirTask ==
  \A t \in Tasks :
    /\ awake[t] /\ t # cpu => context_[t] = t
    /\ context_[t] \in {t, NoContext}

\* Whoever is switched from and to, in an interrupt or in Sleep: the processor executes
\* the task that the queues name, and all the others can be resumed where they were.
ProcessorFollowsQueues == ExecutesCurrentTask /\ ContextsResumeTheirTask

\* The main task never sleeps on a message that was already sent: its test of
\* the queue and its Sleep are not separated by an interrupt.
NoLostWakeup == ~ awake[Main] => msgs_[Main] = <<>>

\* A timer switch hands the processor to a task of the highest level that is
\* ready, also when Wakeup or a level change left current_level_ below it.
TimerPicksHighestLevel ==
  [][SwitchTask => \A t \in Tasks : awake[t] => level_[t] <= level_[cpu']]_vars

AtTop(t) == awake[t] /\ level_[t] = MaxLevel

\* No task of the highest level starves: it gets the processor, sleeps or is
\* given another level, whatever the other tasks do with their own levels.
TopLevelRuns == \A t \in Tasks : AtTop(t) ~> (cpu = t \/ ~ AtTop(t))
=============================================================================
