---------------------------- MODULE XhciInitProofs ----------------------------
(***************************************************************************)
(* Ports are initialized in turn, and OnEvent and the init task stay in    *)
(* step, for any number of ports and slots.                                *)
(*                                                                         *)
(* TurnInv is inductive for every behaviour, InboxInv for those in which   *)
(* no message comes early and no wakeup idle.  The rest is about the calm  *)
(* behaviours, those in which moreover nothing is plugged after the start. *)
(* There every port is queued once, so a port that is still to be taken    *)
(* has neither a device nor a transfer (DeviceInv), a command on its way   *)
(* is the one the stage of the init task asks for (CommandInv), its        *)
(* transfers really start because its slot is enabled (SlotInv), and so    *)
(* exactly one answer is under way while the task waits, and none while it *)
(* does not (AnswerInv).                                                   *)
(***************************************************************************)
EXTENDS XhciInit, Integers, FiniteSetTheorems, SequenceTheorems, TLAPS

-----------------------------------------------------------------------------
(* What a queue holds.                                                     *)

Elements(s) == {s[i] : i \in DOMAIN s}

NoDuplicates(s) == \A i, j \in DOMAIN s : s[i] = s[j] => i = j

\* It holds one member of A at most.
Once(s, A) == \A i, j \in DOMAIN s : s[i] \in A /\ s[j] \in A => i = j

LEMMA AppendElements ==
  ASSUME NEW T, NEW s \in Seq(T), NEW e \in T
  PROVE  /\ Append(s, e) \in Seq(T) /\ Append(s, e) # <<>>
         /\ Len(Append(s, e)) = Len(s) + 1
         /\ Elements(Append(s, e)) = Elements(s) \cup {e}
         /\ NoDuplicates(s) /\ e \notin Elements(s) => NoDuplicates(Append(s, e))
<1> DEFINE r == Append(s, e)
<1>1. /\ r \in Seq(T) /\ Len(r) = Len(s) + 1 /\ Len(s) \in Nat
      /\ DOMAIN r = 1 .. Len(s) + 1 /\ DOMAIN s = 1 .. Len(s)
      /\ \A j \in 1 .. Len(s) : r[j] = s[j]
      /\ r[Len(s) + 1] = e
  BY AppendProperties
<1> HIDE DEF r
<1>2. r # <<>>
  BY <1>1
<1>3. \A x : x \in Elements(r) <=> \E i \in 1 .. Len(s) + 1 : r[i] = x
  BY <1>1 DEF Elements
<1>4. \A x : x \in Elements(s) <=> \E i \in 1 .. Len(s) : s[i] = x
  BY <1>1 DEF Elements
<1>5. ASSUME NEW x \in Elements(r) PROVE x \in Elements(s) \cup {e}
  <2>1. PICK i \in 1 .. Len(s) + 1 : r[i] = x
    BY <1>3
  <2>2. i \in 1 .. Len(s) \/ i = Len(s) + 1
    BY <1>1
  <2> QED  BY <1>1, <1>4, <2>1, <2>2
<1>6. ASSUME NEW x \in Elements(s) \cup {e} PROVE x \in Elements(r)
  <2>1. \A i \in 1 .. Len(s) : i \in 1 .. Len(s) + 1
    BY <1>1
  <2>2. Len(s) + 1 \in 1 .. Len(s) + 1
    BY <1>1
  <2> QED  BY <1>1, <1>3, <1>4, <2>1, <2>2
<1>7. Elements(r) = Elements(s) \cup {e}
  BY <1>5, <1>6
<1>8. ASSUME NoDuplicates(s), e \notin Elements(s) PROVE NoDuplicates(r)
  BY <1>1, <1>4, <1>8 DEF NoDuplicates
<1> QED  BY <1>1, <1>2, <1>7, <1>8 DEF r

LEMMA AppendOnce ==
  ASSUME NEW T, NEW s \in Seq(T), NEW e \in T, NEW A, Once(s, A),
         e \in A => \A x \in Elements(s) : x \notin A
  PROVE  Once(Append(s, e), A)
<1> DEFINE r == Append(s, e)
<1>1. /\ Len(s) \in Nat
      /\ DOMAIN r = 1 .. Len(s) + 1 /\ DOMAIN s = 1 .. Len(s)
      /\ \A j \in 1 .. Len(s) : r[j] = s[j]
      /\ r[Len(s) + 1] = e
  BY AppendProperties
<1> HIDE DEF r
<1>2. \A i \in 1 .. Len(s) : s[i] \in Elements(s)
  BY <1>1 DEF Elements
<1>3. ASSUME NEW i \in 1 .. Len(s) + 1, NEW j \in 1 .. Len(s) + 1, r[i] \in A, r[j] \in A
      PROVE  i = j
  <2>1. /\ i \in 1 .. Len(s) \/ i = Len(s) + 1
        /\ j \in 1 .. Len(s) \/ j = Len(s) + 1
    BY <1>1
  <2>2. CASE i \in 1 .. Len(s) /\ j \in 1 .. Len(s)
    BY <1>1, <1>3, <2>2 DEF Once
  <2>3. CASE i = Len(s) + 1 \/ j = Len(s) + 1
    BY <1>1, <1>2, <1>3, <2>1, <2>3
  <2> QED  BY <2>1, <2>2, <2>3
<1>4. Once(r, A)
  BY <1>1, <1>3 DEF Once
<1> QED  BY <1>4 DEF r

LEMMA TailElements ==
  ASSUME NEW T, NEW s \in Seq(T), s # <<>>
  PROVE  /\ Tail(s) \in Seq(T) /\ Head(s) \in T /\ Head(s) \in Elements(s)
         /\ Len(Tail(s)) = Len(s) - 1
         /\ Elements(s) = Elements(Tail(s)) \cup {Head(s)}
         /\ NoDuplicates(s) => /\ NoDuplicates(Tail(s))
                               /\ Elements(Tail(s)) = Elements(s) \ {Head(s)}
<1> DEFINE r == Tail(s)
<1>1. /\ Len(s) \in Nat /\ Len(s) > 0 /\ DOMAIN s = 1 .. Len(s)
      /\ \A i \in 1 .. Len(s) : s[i] \in T
      /\ Head(s) = s[1]
      /\ r \in Seq(T) /\ Len(r) = Len(s) - 1 /\ DOMAIN r = 1 .. Len(s) - 1
      /\ \A i \in 1 .. Len(s) - 1 : r[i] = s[i + 1]
  OBVIOUS
<1> HIDE DEF r
<1>2. \A x : x \in Elements(r) <=> \E i \in 1 .. Len(s) - 1 : r[i] = x
  BY <1>1 DEF Elements
<1>3. \A x : x \in Elements(s) <=> \E i \in 1 .. Len(s) : s[i] = x
  BY <1>1 DEF Elements
<1>4. 1 \in 1 .. Len(s)
  BY <1>1
<1>5. ASSUME NEW x \in Elements(s) PROVE x \in Elements(r) \cup {s[1]}
  <2>1. PICK i \in 1 .. Len(s) : s[i] = x
    BY <1>3
  <2>2. CASE i # 1
    <3>1. i - 1 \in 1 .. Len(s) - 1 /\ (i - 1) + 1 = i
      BY <1>1, <2>2
    <3>2. r[i - 1] = x
      BY <1>1, <2>1, <3>1
    <3> QED  BY <1>2, <3>1, <3>2
  <2> QED  BY <2>1, <2>2
<1>6. ASSUME NEW x \in Elements(r) PROVE x \in Elements(s)
  <2>1. PICK i \in 1 .. Len(s) - 1 : r[i] = x
    BY <1>2
  <2>2. i + 1 \in 1 .. Len(s) /\ s[i + 1] = x
    BY <1>1, <2>1
  <2> QED  BY <1>3, <2>2
<1>7. s[1] \in Elements(s) /\ s[1] \in T
  BY <1>1, <1>3, <1>4
<1>8. Elements(s) = Elements(r) \cup {s[1]}
  BY <1>5, <1>6, <1>7
<1>9. ASSUME NoDuplicates(s)
      PROVE  NoDuplicates(r) /\ Elements(r) = Elements(s) \ {s[1]}
  <2>1. ASSUME NEW i \in 1 .. Len(s) - 1, NEW j \in 1 .. Len(s) - 1, r[i] = r[j]
        PROVE  i = j
    <3>1. i + 1 \in 1 .. Len(s) /\ j + 1 \in 1 .. Len(s) /\ s[i + 1] = s[j + 1]
      BY <1>1, <2>1
    <3>2. i + 1 = j + 1
      BY <1>1, <1>9, <3>1 DEF NoDuplicates
    <3> QED  BY <3>2
  <2>2. ASSUME NEW i \in 1 .. Len(s) - 1, r[i] = s[1] PROVE FALSE
    <3>1. i + 1 \in 1 .. Len(s) /\ i + 1 # 1 /\ s[i + 1] = s[1]
      BY <1>1, <2>2
    <3> QED  BY <1>1, <1>4, <1>9, <3>1 DEF NoDuplicates
  <2>3. NoDuplicates(r)
    BY <1>1, <2>1 DEF NoDuplicates
  <2>4. s[1] \notin Elements(r)
    BY <1>2, <2>2
  <2> QED  BY <1>8, <2>3, <2>4
<1> QED  BY <1>1, <1>7, <1>8, <1>9 DEF r

LEMMA TailOnce ==
  ASSUME NEW T, NEW s \in Seq(T), s # <<>>, NEW A, Once(s, A)
  PROVE  /\ Once(Tail(s), A)
         /\ Head(s) \in A => \A x \in Elements(Tail(s)) : x \notin A
<1> DEFINE r == Tail(s)
<1>1. /\ Len(s) \in Nat /\ Len(s) > 0 /\ DOMAIN s = 1 .. Len(s)
      /\ Head(s) = s[1]
      /\ Len(r) = Len(s) - 1 /\ DOMAIN r = 1 .. Len(s) - 1
      /\ \A i \in 1 .. Len(s) - 1 : r[i] = s[i + 1]
  OBVIOUS
<1> HIDE DEF r
<1>2. \A i \in 1 .. Len(s) - 1 : i + 1 \in 1 .. Len(s) /\ i + 1 # 1
  BY <1>1
<1>3. ASSUME NEW i \in 1 .. Len(s) - 1, NEW j \in 1 .. Len(s) - 1, r[i] \in A, r[j] \in A
      PROVE  i = j
  <2>1. i + 1 = j + 1
    BY <1>1, <1>2, <1>3 DEF Once
  <2> QED  BY <2>1
<1>4. ASSUME Head(s) \in A, NEW x \in Elements(r), x \in A PROVE FALSE
  <2>1. PICK i \in 1 .. Len(s) - 1 : r[i] = x
    BY <1>1, <1>4 DEF Elements
  <2>2. i + 1 = 1
    <3>1. 1 \in 1 .. Len(s)
      BY <1>1
    <3> QED  BY <1>1, <1>2, <1>4, <2>1, <3>1 DEF Once
  <2> QED  BY <1>2, <2>2
<1>5. Once(r, A)
  BY <1>1, <1>3 DEF Once
<1> QED  BY <1>4, <1>5 DEF r

\* The init task has called WaitEvent.
Waiting == at \in {"sleep", "asleep", "woken"}

ControlInv ==
  /\ at = "reset" => stage = 1
  /\ Waiting => stage <= 7
  /\ main \in {"scan", "push", "attached", "clear"} => port \in Ports

TurnInv == TypeOK /\ ControlInv /\ NoPortTwice /\ FrontIsInitialized

InboxInv ==
  ~ early /\ ~ idle =>
    /\ at = "woken" => Len(inbox) = 1
    /\ at # "woken" => inbox = <<>>
    /\ at # "panic"

Calm == ~ early /\ ~ idle /\ plugs = 0

\* AllPortsInit goes down from the last port and has cleared the connect status
\* changes behind it; nobody sets one again.
ScanInv ==
  /\ main \notin {"panic", "attached", "clear"} /\ at # "undefined"
  /\ main \in {"wake", "idle"} => port = None
  /\ \A p \in Ports :
       csc[p] => \/ main = "scan" /\ p <= port
                 \/ main = "push" /\ p < port
  /\ main \in {"scan", "push"} =>
       \A p \in Elements(initializing_ports) : p > port
  /\ at = "reset" => connected[port_num]

\* The command the init task has pushed when it waits in this stage.
Asked(kind) ==
  /\ Waiting
  /\ \/ stage = 2 /\ kind = "enable"
     \/ stage = 3 /\ kind = "address"
     \/ stage = 5 /\ kind = "evaluate"
     \/ stage = 7 /\ kind = "configure"

CommandInv ==
  /\ \A c \in Elements(cmds) :
       /\ c.cmd = "noop" \/ Asked(c.cmd)
       /\ c.cmd = "configure" => devices_[c.slot] # None
  /\ \A e \in Elements(events) :
       /\ e.kind \in {"port", "transfer", "noop"} \/ Asked(e.kind)
       /\ e.kind = "configure" => devices_[e.slot] # None
       /\ e.kind = "enable" /\ e.ok => e.slot \in enabled_slots

\* AllPortsInit has still to come to p, or p waits in the queue.
Untouched(p) ==
  \/ main \in {"scan", "push"} /\ p <= port
  \/ /\ p \in Elements(initializing_ports)
     /\ stage # 0 => p # port_num

NoDevice(p) == \A s \in Slots : devices_[s] # p

NoTransfer(p) ==
  /\ \A s \in xfers : devices_[s] # p
  /\ \A e \in Elements(events) : e.kind = "transfer" => devices_[e.slot] # p

DeviceInv ==
  /\ NoTransfer(None)
  /\ \A p \in Ports : Untouched(p) => NoDevice(p)
  /\ stage \in 1 .. 2 \/ (stage = 3 /\ at = "run") => NoDevice(port_num)
  /\ stage = 3 => NoTransfer(port_num)
  /\ \A p \in Ports : prc[p] => p = port_num /\ stage = 1 /\ Waiting

SlotInv ==
  /\ (stage = 3 /\ at = "run") \/ (stage = 2 /\ at = "woken" /\ inbox[1])
       => slot_num_[port_num] \in enabled_slots
  /\ (stage = 3 /\ Waiting) \/ stage \in 4 .. 9
       => slot_num \in enabled_slots /\ devices_[slot_num] = port_num
  /\ \A e \in Elements(events) : e.kind = "transfer" => e.slot \in enabled_slots

\* The places an answer may be in, and that it is in each of them at most once.
Told == inbox # <<>>
Ordered == \E c \in Elements(cmds) : IsAnswered(c)
Moving == \E s \in xfers : Mine(s)
Reported == \E e \in Elements(events) : IsAnswer(e)
Resetting == stage = 1 /\ prc[port_num]

AnswerCommands == {c \in Commands : IsAnswered(c)}
AnswerEvents == {e \in PortEvents \cup Completions : IsAnswer(e)}

OneEach ==
  /\ Once(cmds, AnswerCommands)
  /\ \A s, t \in xfers : Mine(s) /\ Mine(t) => s = t
  /\ Once(events, AnswerEvents)

AnswerInv ==
  stage # 0 =>
    /\ OneEach
    /\ Told => ~ Ordered /\ ~ Moving /\ ~ Reported /\ ~ Resetting
    /\ Ordered => ~ Moving /\ ~ Reported /\ ~ Resetting
    /\ Moving => ~ Reported /\ ~ Resetting
    /\ Reported => ~ Resetting
    /\ Waiting <=> Told \/ Ordered \/ Moving \/ Reported \/ Resetting

CalmParts == ScanInv /\ CommandInv /\ DeviceInv /\ SlotInv /\ AnswerInv
CalmInv == Calm => CalmParts

IInv == TurnInv /\ InboxInv /\ CalmInv /\ plugs \in Nat

-----------------------------------------------------------------------------
(* Types and turns.                                                        *)

LEMMA Numbers ==
  /\ MaxPorts \in Nat /\ MaxPorts >= 1 /\ MaxSlots \in Nat /\ MaxSlots >= 1
  /\ None \notin Ports /\ 0 \in Slots /\ Unset \notin Slots
  /\ 1 .. MaxSlots \subseteq Slots
  /\ MaxPorts \in Ports
  /\ \A p \in Ports : p \in Nat /\ (p > 1 => p - 1 \in Ports)
  BY XhciInitAssumption DEF Ports, Slots, None, Unset

\* Commands and events keep their types.
LEMMA EventTypes ==
  /\ \A c \in CommandKinds, s \in Slots : [cmd |-> c, slot |-> s] \in Commands
  /\ \A p \in Ports : [kind |-> "port", port |-> p] \in PortEvents
  /\ \A k \in CommandKinds \cup {"transfer"}, s \in Slots, ok \in BOOLEAN :
       [kind |-> k, slot |-> s, ok |-> ok] \in Completions
  /\ \A c \in Commands : c.cmd \in CommandKinds /\ c.slot \in Slots
  /\ \A e \in PortEvents \cup Completions :
       /\ e.kind \in CommandKinds \cup {"transfer", "port"}
       /\ e.kind = "port" => e.port \in Ports
       /\ e.kind # "port" => e.slot \in Slots /\ e.ok \in BOOLEAN
  BY DEF Commands, PortEvents, Completions, CommandKinds

LEMMA InitTurnInv == Init => TurnInv
<1> SUFFICES ASSUME Init PROVE TurnInv
  OBVIOUS
<1>1. TypeOK
  <2>1. {connected, enabled, csc, prc} \subseteq [Ports -> BOOLEAN]
    BY DEF Init
  <2>2. cmds \in Seq(Commands)
    <3>1. [cmd |-> "noop", slot |-> 0] \in Commands
      BY EventTypes, Numbers DEF CommandKinds
    <3> QED  BY <3>1 DEF Init
  <2>3. events \in Seq(PortEvents \cup Completions)
    <3>1. PICK n \in 0 .. MaxPorts : events \in [1 .. n -> PortEvents]
      BY DEF Init
    <3>2. n \in Nat /\ events \in [1 .. n -> PortEvents \cup Completions]
      BY <3>1, Numbers
    <3> QED  BY <3>2, SeqDef
  <2>4. /\ slot_num_ \in [Ports -> Slots \cup {Unset}]
        /\ slot_to_port_ \in [Slots -> Ports \cup {None}]
        /\ devices_ \in [Slots -> Ports \cup {None}]
        /\ phase \in [Slots -> 0 .. 4]
    BY DEF Init
  <2>5. initializing_ports \in Seq(Ports) /\ inbox \in Seq(BOOLEAN)
    BY DEF Init
  <2> QED  BY <2>1, <2>2, <2>3, <2>4, <2>5, Numbers DEF Init, TypeOK
<1>2. ControlInv /\ NoPortTwice /\ FrontIsInitialized
  BY Numbers DEF Init, ControlInv, Waiting, NoPortTwice, FrontIsInitialized
<1> QED  BY <1>1, <1>2 DEF TurnInv

\* The port under initialization is the front of the queue.
LEMMA FrontPort ==
  ASSUME TurnInv, stage # 0
  PROVE  /\ initializing_ports # <<>> /\ Head(initializing_ports) = port_num
         /\ port_num \in Ports /\ port_num \in Elements(initializing_ports)
  BY TailElements DEF TurnInv, TypeOK, FrontIsInitialized

LEMMA PostProcessingStep ==
  ASSUME TurnInv, stage # 0, PostProcessing
  PROVE  /\ initializing_ports' \in Seq(Ports) /\ NoPortTwice'
         /\ stage' = 0 /\ at' \in {"sleep", "run"}
         /\ initializing_ports' = Tail(initializing_ports)
         /\ Elements(initializing_ports') = Elements(initializing_ports) \ {port_num}
<1>1. initializing_ports \in Seq(Ports) /\ NoDuplicates(initializing_ports)
  BY DEF TurnInv, TypeOK, NoPortTwice, NoDuplicates
<1>2. initializing_ports' = Tail(initializing_ports) /\ stage' = 0 /\ at' \in {"sleep", "run"}
  BY DEF PostProcessing
<1>3. /\ initializing_ports' \in Seq(Ports) /\ NoDuplicates(initializing_ports')
      /\ Elements(initializing_ports') = Elements(initializing_ports) \ {port_num}
  BY <1>1, <1>2, FrontPort, TailElements
<1> QED  BY <1>2, <1>3 DEF NoPortTwice, NoDuplicates

LEMMA PushPortStep ==
  ASSUME TurnInv, NEW p \in Ports, PushPort(p)
  PROVE  /\ initializing_ports' \in Seq(Ports) /\ NoPortTwice'
         /\ initializing_ports' # <<>>
         /\ initializing_ports # <<>> => Head(initializing_ports') = Head(initializing_ports)
         /\ Elements(initializing_ports') = Elements(initializing_ports) \cup {p}
<1>1. initializing_ports \in Seq(Ports) /\ NoDuplicates(initializing_ports)
  BY DEF TurnInv, TypeOK, NoPortTwice, NoDuplicates
<1>2. CASE p \in Elements(initializing_ports)
  <2>1. initializing_ports' = initializing_ports
    BY <1>2 DEF PushPort, Elements
  <2>2. initializing_ports # <<>>
    BY <1>2 DEF Elements
  <2>3. Elements(initializing_ports) = Elements(initializing_ports) \cup {p}
    BY <1>2
  <2> QED  BY <1>1, <2>1, <2>2, <2>3 DEF NoPortTwice, NoDuplicates
<1>3. CASE p \notin Elements(initializing_ports)
  <2>1. initializing_ports' = Append(initializing_ports, p)
    BY <1>3 DEF PushPort, Elements
  <2>2. /\ initializing_ports' \in Seq(Ports) /\ NoDuplicates(initializing_ports')
        /\ initializing_ports' # <<>>
        /\ Elements(initializing_ports') = Elements(initializing_ports) \cup {p}
    BY <1>1, <1>3, <2>1, AppendElements
  <2>3. initializing_ports # <<>> => Head(initializing_ports') = Head(initializing_ports)
    BY <1>1, <2>1
  <2> QED  BY <2>2, <2>3 DEF NoPortTwice, NoDuplicates
<1> QED  BY <1>2, <1>3
LEMMA StartTransferType ==
  ASSUME xfers \subseteq enabled_slots, NEW s, StartTransfer(s)
  PROVE  xfers' \subseteq enabled_slots
  BY DEF StartTransfer

LEMMA PushCommandType ==
  ASSUME TypeOK, NEW c \in CommandKinds, NEW s \in Slots, PushCommand(c, s)
  PROVE  /\ cmds' \in Seq(Commands)
         /\ Elements(cmds') = Elements(cmds) \cup {[cmd |-> c, slot |-> s]}
<1>1. [cmd |-> c, slot |-> s] \in Commands
  BY EventTypes
<1> QED  BY <1>1, AppendElements DEF TypeOK, PushCommand

LEMMA AppendEventType ==
  ASSUME TypeOK, NEW e \in PortEvents \cup Completions
  PROVE  /\ Append(events, e) \in Seq(PortEvents \cup Completions)
         /\ Elements(Append(events, e)) = Elements(events) \cup {e}
<1> DEFINE T == PortEvents \cup Completions
<1>1. events \in Seq(T) /\ e \in T
  BY DEF TypeOK
<1> HIDE DEF T
<1>2. Append(events, e) \in Seq(T) /\ Elements(Append(events, e)) = Elements(events) \cup {e}
  BY <1>1, AppendElements
<1> QED  BY <1>2 DEF T

LEMMA HardwareTurn ==
  ASSUME TurnInv, Hardware
  PROVE  TurnInv'
<1> USE DEF tables, initTask, mainTask, bounds, portsc
<1>1. ASSUME NEW p \in Ports, Plug(p) PROVE TurnInv'
  <2>1. events' \in Seq(PortEvents \cup Completions)
    <3>1. [kind |-> "port", port |-> p] \in PortEvents \cup Completions
      BY EventTypes
    <3> QED  BY <1>1, <3>1, AppendEventType DEF TurnInv, TypeOK, Plug, PortEvent
  <2>2. TypeOK'
    BY <1>1, <2>1 DEF TurnInv, TypeOK, Plug
  <2> QED  BY <1>1, <2>2 DEF TurnInv, ControlInv, Waiting, NoPortTwice, FrontIsInitialized, Plug
<1>2. ASSUME CompleteCommand PROVE TurnInv'
  <2>1. /\ UNCHANGED <<portsc, tables, initTask, mainTask, bounds>>
        /\ cmds # <<>> /\ cmds' = Tail(cmds)
    BY <1>2 DEF CompleteCommand
  <2>2. cmds' \in Seq(Commands) /\ Head(cmds) \in Commands
    BY <2>1, TailElements DEF TurnInv, TypeOK
  <2>3. PICK s \in Slots, ok \in BOOLEAN :
          /\ IF ok THEN CanSucceed(Head(cmds), s) ELSE s = Head(cmds).slot
          /\ events' = Append(events, [kind |-> Head(cmds).cmd, slot |-> s, ok |-> ok])
          /\ enabled_slots' = CASE ok /\ Head(cmds).cmd = "enable"  -> enabled_slots \cup {s}
                                [] ok /\ Head(cmds).cmd = "disable" -> enabled_slots \ {s}
                                [] OTHER                   -> enabled_slots
          /\ xfers' = IF ok /\ Head(cmds).cmd = "disable" THEN xfers \ {s} ELSE xfers
    BY <1>2 DEF CompleteCommand
  <2>4. events' \in Seq(PortEvents \cup Completions)
    <3>1. [kind |-> Head(cmds).cmd, slot |-> s, ok |-> ok] \in PortEvents \cup Completions
      BY <2>2, EventTypes
    <3> QED  BY <2>3, <3>1, AppendEventType DEF TurnInv
  <2>5. enabled_slots' \subseteq 1 .. MaxSlots /\ xfers' \subseteq enabled_slots'
    <3>1. enabled_slots \subseteq 1 .. MaxSlots /\ xfers \subseteq enabled_slots
      BY DEF TurnInv, TypeOK
    <3>2. CASE ok /\ Head(cmds).cmd = "enable"
      BY <2>3, <3>1, <3>2 DEF CanSucceed
    <3>3. CASE ok /\ Head(cmds).cmd = "disable"
      BY <2>3, <3>1, <3>3
    <3>4. CASE ~ (ok /\ Head(cmds).cmd \in {"enable", "disable"})
      BY <2>3, <3>1, <3>4
    <3> QED  BY <3>2, <3>3, <3>4
  <2>6. TypeOK'
    BY <2>1, <2>2, <2>4, <2>5 DEF TurnInv, TypeOK
  <2> QED  BY <2>1, <2>6 DEF TurnInv, ControlInv, Waiting, NoPortTwice, FrontIsInitialized
<1>3. ASSUME NEW s \in Slots, CompleteTransfer(s) \/ Report(s) PROVE TurnInv'
  <2>1. /\ UNCHANGED <<portsc, enabled_slots, cmds, tables, initTask, mainTask>>
        /\ xfers' \subseteq xfers
        /\ \E ok \in BOOLEAN :
             events' = Append(events, [kind |-> "transfer", slot |-> s, ok |-> ok])
    BY <1>3 DEF CompleteTransfer, Report
  <2>2. events' \in Seq(PortEvents \cup Completions)
    <3>1. PICK ok \in BOOLEAN :
            events' = Append(events, [kind |-> "transfer", slot |-> s, ok |-> ok])
      BY <2>1
    <3>2. [kind |-> "transfer", slot |-> s, ok |-> ok] \in PortEvents \cup Completions
      BY EventTypes
    <3> QED  BY <3>1, <3>2, AppendEventType DEF TurnInv
  <2>3. TypeOK'
    BY <2>1, <2>2 DEF TurnInv, TypeOK
  <2> QED  BY <2>1, <2>3 DEF TurnInv, ControlInv, Waiting, NoPortTwice, FrontIsInitialized
<1> QED  BY <1>1, <1>2, <1>3 DEF Hardware

\* The steps of the init task that end with PostProcessing.
LEMMA PopTurn ==
  ASSUME TurnInv, stage # 0, PostProcessing,
         UNCHANGED <<portsc, xhc, slot_num_, devices_, phase, port_num, mainTask>>,
         slot_to_port_' \in [Slots -> Ports \cup {None}], slot_num' \in Slots,
         inbox' \in Seq(BOOLEAN)
  PROVE  TurnInv'
<1>1. TypeOK'
  <2>1. initializing_ports' \in Seq(Ports) /\ stage' \in 0 .. 9 /\ at' \in {"sleep", "run"}
    BY PostProcessingStep
  <2>2. TypeOK
    BY DEF TurnInv
  <2> QED  BY <2>1, <2>2 DEF TypeOK, portsc, xhc, mainTask
<1> QED  BY <1>1, PostProcessingStep DEF TurnInv, ControlInv, FrontIsInitialized, mainTask

\* The steps of the init task that leave the queue as it is.
LEMMA StayTurn ==
  ASSUME TurnInv,
         UNCHANGED <<connected, initializing_ports, port_num, mainTask, slot_num_>>,
         {enabled', csc', prc'} \subseteq [Ports -> BOOLEAN],
         enabled_slots' = enabled_slots, xfers' \subseteq enabled_slots,
         cmds' \in Seq(Commands), events' \in Seq(PortEvents \cup Completions),
         slot_to_port_' \in [Slots -> Ports \cup {None}],
         devices_' \in [Slots -> Ports \cup {None}], phase' \in [Slots -> 0 .. 4],
         slot_num' \in Slots, inbox' \in Seq(BOOLEAN),
         stage' \in 0 .. 9, stage' # 0 => stage # 0,
         at' \in {"run", "reset", "sleep", "asleep", "woken", "panic", "undefined"},
         at' = "reset" => stage' = 1, Waiting' => stage' <= 7
  PROVE  TurnInv'
<1>1. TypeOK'
  BY DEF TurnInv, TypeOK, mainTask
<1> QED  BY <1>1 DEF TurnInv, ControlInv, NoPortTwice, FrontIsInitialized, mainTask

LEMMA InitTaskTurn ==
  ASSUME TurnInv, InitUSBDevTask
  PROVE  TurnInv'
<1> USE DEF portsc, xhc, tables, mainTask, bounds
<1>0. /\ {connected, enabled, csc, prc} \subseteq [Ports -> BOOLEAN]
      /\ xfers \subseteq enabled_slots
      /\ cmds \in Seq(Commands) /\ events \in Seq(PortEvents \cup Completions)
      /\ slot_to_port_ \in [Slots -> Ports \cup {None}] /\ slot_num_ \in [Ports -> Slots \cup {Unset}]
      /\ devices_ \in [Slots -> Ports \cup {None}] /\ phase \in [Slots -> 0 .. 4]
      /\ slot_num \in Slots /\ inbox \in Seq(BOOLEAN) /\ stage \in 0 .. 9
      /\ initializing_ports \in Seq(Ports)
  BY DEF TurnInv, TypeOK
<1>1. ASSUME TakePort PROVE TurnInv'
  <2>1. CASE initializing_ports = <<>> /\ Awaits(0) /\ UNCHANGED port_num
    BY <1>0, <1>1, <2>1, StayTurn DEF TakePort, Awaits, Waiting
  <2>2. CASE /\ initializing_ports # <<>>
             /\ port_num' = Head(initializing_ports)
             /\ stage' = 1 /\ UNCHANGED at
    <3>1. port_num' \in Ports
      BY <1>0, <2>2
    <3>2. TypeOK'
      BY <1>1, <2>2, <3>1 DEF TurnInv, TypeOK, TakePort
    <3> QED  BY <1>1, <2>2, <3>2 DEF TurnInv, ControlInv, Waiting, NoPortTwice,
             FrontIsInitialized, TakePort
  <2> QED  BY <1>1, <2>1, <2>2 DEF TakePort
<1>2. ASSUME ResetPort PROVE TurnInv'
  <2>1. CASE PostProcessing
    BY <1>0, <1>2, <2>1, PopTurn DEF ResetPort
  <2>2. CASE connected[port_num] /\ at' = "reset" /\ UNCHANGED <<stage, initializing_ports>>
    BY <1>0, <1>2, <2>2, StayTurn DEF ResetPort, Waiting
  <2> QED  BY <1>2, <2>1, <2>2 DEF ResetPort
<1>3. ASSUME Reset PROVE TurnInv'
  <2>1. stage = 1 /\ stage' = 1 /\ at' = "sleep" /\ port_num \in Ports
    BY <1>3, FrontPort DEF TurnInv, ControlInv, Reset, Awaits
  <2>2. events' \in Seq(PortEvents \cup Completions)
    <3>1. [kind |-> "port", port |-> port_num] \in PortEvents \cup Completions
      BY <2>1, EventTypes
    <3> QED  BY <1>0, <1>3, <3>1, AppendEventType DEF TurnInv, Reset
  <2>3. {enabled', csc', prc'} \subseteq [Ports -> BOOLEAN] /\ connected' = connected
    <3>1. CASE UNCHANGED <<portsc, events>>
      BY <1>0, <3>1
    <3>2. CASE /\ enabled' = [enabled EXCEPT ![port_num] = TRUE]
               /\ csc' = [csc EXCEPT ![port_num] = FALSE]
               /\ prc' = [prc EXCEPT ![port_num] = TRUE]
               /\ UNCHANGED connected
      BY <1>0, <3>2
    <3> QED  BY <1>3, <3>1, <3>2 DEF Reset
  <2> QED  BY <1>0, <1>3, <2>1, <2>2, <2>3, StayTurn DEF Reset, Waiting
<1>4. ASSUME EnableSlot PROVE TurnInv'
  <2>1. CASE PostProcessing /\ UNCHANGED cmds
    BY <1>0, <1>4, <2>1, PopTurn DEF EnableSlot
  <2>2. CASE PushCommand("enable", 0) /\ Awaits(2) /\ UNCHANGED initializing_ports
    <3>1. cmds' \in Seq(Commands)
      BY <2>2, PushCommandType, Numbers DEF TurnInv, CommandKinds
    <3> QED  BY <1>0, <1>4, <2>2, <3>1, StayTurn DEF EnableSlot, Awaits, Waiting
  <2> QED  BY <1>4, <2>1, <2>2 DEF EnableSlot
<1>5. ASSUME AddressDevice PROVE TurnInv'
  <2>1. port_num \in Ports /\ Head(initializing_ports) = port_num /\ stage = 3
    BY <1>5, FrontPort DEF AddressDevice
  <2>2. slot_num' \in Slots
    BY <1>0, <1>5, <2>1 DEF AddressDevice
  <2>3. slot_to_port_' \in [Slots -> Ports \cup {None}]
    BY <1>0, <1>5, <2>1, <2>2 DEF AddressDevice
  <2>4. CASE PostProcessing /\ UNCHANGED <<devices_, phase, cmds>>
    BY <1>0, <1>5, <2>1, <2>2, <2>3, <2>4, PopTurn DEF AddressDevice
  <2>5. CASE /\ devices_' = [devices_ EXCEPT ![slot_num'] = Head(initializing_ports)]
             /\ phase' = [phase EXCEPT ![slot_num'] = 0]
             /\ PushCommand("address", slot_num') /\ Awaits(3) /\ UNCHANGED initializing_ports
    <3>1. cmds' \in Seq(Commands)
      BY <2>2, <2>5, PushCommandType DEF TurnInv, CommandKinds
    <3>2. devices_' \in [Slots -> Ports \cup {None}] /\ phase' \in [Slots -> 0 .. 4]
      BY <1>0, <2>1, <2>2, <2>5
    <3>3. stage' = 3 /\ at' = "sleep"
      BY <2>5 DEF Awaits
    <3> QED  BY <1>0, <1>5, <2>1, <2>2, <2>3, <2>5, <3>1, <3>2, <3>3, StayTurn DEF AddressDevice, Waiting
  <2> QED  BY <1>5, <2>4, <2>5 DEF AddressDevice
<1>6. ASSUME BeforeInitialize PROVE TurnInv'
  <2>1. phase' \in [Slots -> 0 .. 4] /\ xfers' \subseteq enabled_slots
    <3>1. CASE UNCHANGED <<phase, xfers>>
      BY <1>0, <3>1
    <3>2. CASE phase' = [phase EXCEPT ![slot_num] = 0] /\ StartTransfer(slot_num)
      BY <1>0, <1>6, <3>2, StartTransferType DEF BeforeInitialize
    <3> QED  BY <1>6, <3>1, <3>2 DEF BeforeInitialize
  <2> QED  BY <1>0, <1>6, <2>1, StayTurn DEF BeforeInitialize, Awaits, Waiting
<1>7. ASSUME ReConfigureDefaultControlPipe PROVE TurnInv'
  <2>1. cmds' \in Seq(Commands)
    BY <1>0, <1>7, PushCommandType DEF TurnInv, ReConfigureDefaultControlPipe, CommandKinds
  <2> QED  BY <1>0, <1>7, <2>1, StayTurn DEF ReConfigureDefaultControlPipe, Awaits, Waiting
<1>8. ASSUME StartInitialize PROVE TurnInv'
  <2>1. phase' \in [Slots -> 0 .. 4] /\ xfers' \subseteq enabled_slots
    BY <1>0, <1>8, StartTransferType DEF StartInitialize
  <2> QED  BY <1>0, <1>8, <2>1, StayTurn DEF StartInitialize, Awaits, Waiting
<1>9. ASSUME ConfigureEndpoints PROVE TurnInv'
  <2>1. CASE PostProcessing /\ UNCHANGED cmds
    BY <1>0, <1>9, <2>1, PopTurn DEF ConfigureEndpoints
  <2>2. CASE PushCommand("configure", slot_num) /\ Awaits(7) /\ UNCHANGED initializing_ports
    <3>1. cmds' \in Seq(Commands)
      BY <1>0, <2>2, PushCommandType DEF TurnInv, CommandKinds
    <3> QED  BY <1>0, <1>9, <2>2, <3>1, StayTurn DEF ConfigureEndpoints, Awaits, Waiting
  <2> QED  BY <1>9, <2>1, <2>2 DEF ConfigureEndpoints
<1>10. ASSUME OnEndpointsConfigured PROVE TurnInv'
  <2>1. xfers' \subseteq enabled_slots
    BY <1>0, <1>10, StartTransferType DEF OnEndpointsConfigured
  <2> QED  BY <1>0, <1>10, <2>1, StayTurn DEF OnEndpointsConfigured, Waiting
<1>11. ASSUME Finish PROVE TurnInv'
  BY <1>0, <1>11, PopTurn DEF Finish
<1>12. ASSUME Sleep PROVE TurnInv'
  BY <1>0, <1>12, StayTurn DEF TurnInv, ControlInv, Sleep, Waiting
<1>13. ASSUME ReceiveMessage PROVE TurnInv'
  <2>1. stage <= 7
    BY <1>13 DEF TurnInv, ControlInv, Waiting, ReceiveMessage
  <2>2. inbox' \in Seq(BOOLEAN)
    <3>1. inbox \in Seq(BOOLEAN)
      BY <1>0 DEF TurnInv
    <3>2. \/ inbox' = inbox
          \/ inbox # <<>> /\ inbox' = Tail(inbox)
      BY <1>13 DEF ReceiveMessage
    <3> QED  BY <3>1, <3>2, TailElements
  <2>3. CASE stage # 0 /\ PostProcessing
    BY <1>0, <1>13, <2>2, <2>3, PopTurn DEF ReceiveMessage
  <2>4. CASE /\ UNCHANGED initializing_ports
             /\ \/ at' = "panic" /\ UNCHANGED stage
                \/ at' = "run" /\ UNCHANGED stage
                \/ stage # 0 /\ at' = "run" /\ stage' = stage + 1
    <3>1. stage' \in 0 .. 9 /\ (stage' # 0 => stage # 0)
      <4>1. stage \in 0 .. 9
        BY <1>0
      <4> QED  BY <2>1, <2>4, <4>1
    <3> QED  BY <1>0, <1>13, <2>1, <2>2, <2>4, <3>1, StayTurn DEF ReceiveMessage, Waiting
  <2> QED  BY <1>13, <2>3, <2>4 DEF ReceiveMessage
<1> QED  BY <1>1, <1>2, <1>3, <1>4, <1>5, <1>6, <1>7, <1>8, <1>9, <1>10, <1>11, <1>12, <1>13
         DEF InitUSBDevTask

\* The steps of the main task.
LEMMA MainTurn ==
  ASSUME TurnInv,
         UNCHANGED <<connected, enabled, stage, port_num, slot_num>>,
         {csc', prc'} \subseteq [Ports -> BOOLEAN],
         initializing_ports' = initializing_ports \/ \E p \in Ports : PushPort(p),
         enabled_slots' = enabled_slots, xfers' \subseteq enabled_slots,
         cmds' \in Seq(Commands), events' \in Seq(PortEvents \cup Completions),
         slot_num_' \in [Ports -> Slots \cup {Unset}],
         slot_to_port_' \in [Slots -> Ports \cup {None}],
         devices_' \in [Slots -> Ports \cup {None}], phase' \in [Slots -> 0 .. 4],
         inbox' \in Seq(BOOLEAN),
         at' = at \/ (at = "asleep" /\ at' = "woken"),
         main' \in {"scan", "push", "attached", "wake", "clear", "idle", "panic"},
         port' \in Ports \cup {None}, main' \in {"scan", "push", "attached", "clear"} => port' \in Ports
  PROVE  TurnInv'
<1>1. initializing_ports' \in Seq(Ports) /\ NoPortTwice' /\ FrontIsInitialized'
  <2>1. CASE initializing_ports' = initializing_ports
    BY <2>1 DEF TurnInv, TypeOK, NoPortTwice, FrontIsInitialized
  <2>2. ASSUME NEW p \in Ports, PushPort(p)
        PROVE  initializing_ports' \in Seq(Ports) /\ NoPortTwice' /\ FrontIsInitialized'
    BY <2>2, PushPortStep DEF TurnInv, FrontIsInitialized
  <2> QED  BY <2>1, <2>2
<1>2. TypeOK'
  BY <1>1 DEF TurnInv, TypeOK
<1>3. ControlInv'
  BY DEF TurnInv, ControlInv, Waiting
<1> QED  BY <1>1, <1>2, <1>3 DEF TurnInv

\* The event taken from the ring.
LEMMA EventTaken ==
  ASSUME TypeOK, NEW kind, Event(kind)
  PROVE  /\ events' \in Seq(PortEvents \cup Completions)
         /\ Elements(events) = Elements(events') \cup {Head(events)}
         /\ Head(events) \in PortEvents \cup Completions
         /\ events # <<>> /\ events' = Tail(events) /\ Head(events).kind = kind /\ main = "idle"
<1> DEFINE T == PortEvents \cup Completions
<1>1. events \in Seq(T) /\ events # <<>> /\ events' = Tail(events)
  BY DEF TypeOK, Event
<1> HIDE DEF T
<1>2. events' \in Seq(T) /\ Elements(events) = Elements(events') \cup {Head(events)} /\ Head(events) \in T
  BY <1>1, TailElements
<1> QED  BY <1>1, <1>2 DEF T, Event

LEMMA SendMessageType ==
  ASSUME TypeOK, NEW ok \in BOOLEAN, SendMessage(ok)
  PROVE  /\ inbox' \in Seq(BOOLEAN) /\ main' = "wake"
         /\ at' = at \/ (at = "asleep" /\ at' = "woken")
         /\ UNCHANGED <<stage, port_num, slot_num>>
  BY AppendElements DEF TypeOK, SendMessage, Wakeup

LEMMA TellInitTaskType ==
  ASSUME TypeOK, NEW ok \in BOOLEAN, TellInitTask(ok)
  PROVE  /\ inbox' \in Seq(BOOLEAN) /\ main' \in {"wake", "panic"}
         /\ at' = at \/ (at = "asleep" /\ at' = "woken")
         /\ UNCHANGED <<stage, port_num, slot_num>>
<1>1. inbox \in Seq(BOOLEAN)
  BY DEF TypeOK
<1> QED  BY <1>1, SendMessageType DEF TellInitTask, initTask

LEMMA MainTaskTurn ==
  ASSUME TurnInv, MainTask
  PROVE  TurnInv'
<1> USE DEF portsc, xhc, tables, initTask, mainTask, bounds
<1>0. /\ {connected, enabled, csc, prc} \subseteq [Ports -> BOOLEAN]
      /\ xfers \subseteq enabled_slots
      /\ cmds \in Seq(Commands) /\ events \in Seq(PortEvents \cup Completions)
      /\ slot_to_port_ \in [Slots -> Ports \cup {None}] /\ slot_num_ \in [Ports -> Slots \cup {Unset}]
      /\ devices_ \in [Slots -> Ports \cup {None}] /\ phase \in [Slots -> 0 .. 4]
      /\ slot_num \in Slots /\ inbox \in Seq(BOOLEAN) /\ stage \in 0 .. 9
      /\ initializing_ports \in Seq(Ports)
      /\ main \in {"scan", "push", "attached", "wake", "clear", "idle", "panic"} /\ port \in Ports \cup {None}
      /\ main \in {"scan", "push", "attached", "clear"} => port \in Ports
      /\ TypeOK
  BY DEF TurnInv, TypeOK, ControlInv
<1>1. ASSUME ClearChanges PROVE TurnInv'
  BY <1>0, <1>1, MainTurn DEF ClearChanges
<1>2. ASSUME PushConnected PROVE TurnInv'
  <2>1. port \in Ports
    BY <1>0, <1>2 DEF PushConnected
  <2>2. /\ main' \in {"scan", "wake"} /\ port' \in Ports \cup {None}
        /\ main' = "scan" => port' \in Ports
    BY <1>2, <2>1, Numbers DEF PushConnected
  <2>3. initializing_ports' = initializing_ports \/ \E p \in Ports : PushPort(p)
    BY <1>2, <2>1 DEF PushConnected
  <2> QED  BY <1>0, <1>2, <2>2, <2>3, MainTurn DEF PushConnected
<1>3. ASSUME WakeupAgain PROVE TurnInv'
  BY <1>0, <1>3, MainTurn DEF WakeupAgain, Wakeup
<1>4. ASSUME ClearConnectStatusChanged PROVE TurnInv'
  BY <1>0, <1>4, MainTurn DEF ClearConnectStatusChanged
<1>5. ASSUME OnPortStatusChange PROVE TurnInv'
  <2> DEFINE p == Head(events).port
  <2>1. p \in Ports /\ events' \in Seq(PortEvents \cup Completions)
    BY <1>0, <1>5, EventTaken, EventTypes DEF OnPortStatusChange
  <2>2. UNCHANGED <<connected, enabled, csc, enabled_slots, xfers, slot_num_,
                    slot_to_port_, devices_, phase, bounds>>
    BY <1>5 DEF OnPortStatusChange
  <2>3. CASE port' = p /\ OnAttached(p) /\ UNCHANGED prc
    <3>1. PushPort(p) /\ main' = "attached" /\ UNCHANGED <<cmds, initTask>>
      BY <2>3 DEF OnAttached
    <3> QED  BY <1>0, <2>1, <2>2, <2>3, <3>1, MainTurn
  <2>4. CASE port' = p /\ OnDetached(p) /\ UNCHANGED prc
    <3>1. cmds' \in Seq(Commands)
      BY <1>0, <2>4, PushCommandType, Numbers DEF OnDetached, CommandKinds
    <3> QED  BY <1>0, <2>1, <2>2, <2>4, <3>1, MainTurn DEF OnDetached
  <2>5. CASE /\ prc' = [prc EXCEPT ![p] = FALSE] /\ SendMessage(TRUE)
             /\ UNCHANGED <<port, initializing_ports, cmds>>
    BY <1>0, <2>1, <2>2, <2>5, SendMessageType, MainTurn
  <2>6. CASE UNCHANGED <<prc, main, port, initializing_ports, cmds, initTask>>
    BY <1>0, <2>1, <2>2, <2>6, MainTurn
  <2> QED  BY <1>5, <2>3, <2>4, <2>5, <2>6 DEF OnPortStatusChange
<1>6. ASSUME OnCommandCompletion PROVE TurnInv'
  <2>1. /\ \E k \in {"enable", "address", "evaluate", "configure", "noop"} : Event(k)
        /\ UNCHANGED <<portsc, enabled_slots, cmds, xfers, initializing_ports, slot_to_port_,
                 devices_, phase, port, bounds>>
    BY <1>6 DEF OnCommandCompletion
  <2>2. /\ events' \in Seq(PortEvents \cup Completions)
        /\ Head(events).slot \in Slots /\ Head(events).ok \in BOOLEAN
    BY <1>0, <2>1, EventTaken, EventTypes
  <2>3. slot_num_' \in [Ports -> Slots \cup {Unset}]
    <3>1. Head(initializing_ports) \in Ports \/ initializing_ports = <<>>
      BY <1>0
    <3>2. \/ slot_num_' = slot_num_
          \/ /\ initializing_ports # <<>>
             /\ slot_num_' = [slot_num_ EXCEPT ![Head(initializing_ports)] = Head(events).slot]
      BY <1>6 DEF OnCommandCompletion
    <3> QED  BY <1>0, <2>2, <3>1, <3>2
  <2>4. \/ TellInitTask(Head(events).ok)
        \/ main' = "panic" /\ UNCHANGED initTask
        \/ UNCHANGED <<main, initTask>>
    BY <1>6, Zenon DEF OnCommandCompletion
  <2>5. /\ inbox' \in Seq(BOOLEAN) /\ main' \in {"wake", "panic", "idle"}
        /\ at' = at \/ (at = "asleep" /\ at' = "woken")
        /\ UNCHANGED <<stage, port_num, slot_num>>
    BY <1>0, <2>1, <2>2, <2>4, TellInitTaskType, EventTaken
  <2> QED  BY <1>0, <2>1, <2>2, <2>3, <2>5, MainTurn
<1>7. ASSUME OnSlotDisabled PROVE TurnInv'
  <2>1. events' \in Seq(PortEvents \cup Completions) /\ Head(events).slot \in Slots
    BY <1>0, <1>7, EventTaken, EventTypes DEF OnSlotDisabled
  <2>2. /\ slot_to_port_' \in [Slots -> Ports \cup {None}]
        /\ devices_' \in [Slots -> Ports \cup {None}]
    BY <1>0, <1>7, <2>1 DEF OnSlotDisabled
  <2> QED  BY <1>0, <1>7, <2>1, <2>2, MainTurn DEF OnSlotDisabled
<1>8. ASSUME OnTransfer PROVE TurnInv'
  <2>0. Event("transfer")
    BY <1>8 DEF OnTransfer
  <2>1. /\ events' \in Seq(PortEvents \cup Completions)
        /\ Head(events).slot \in Slots /\ Head(events).ok \in BOOLEAN
    <3>1. Head(events).kind = "transfer" /\ Head(events) \in PortEvents \cup Completions
      BY <1>0, <2>0, EventTaken
    <3> QED  BY <1>0, <2>0, <3>1, EventTaken, EventTypes
  <2>2. xfers' \subseteq enabled_slots
    BY <1>0, <1>8, StartTransferType DEF OnTransfer
  <2>3. phase' \in [Slots -> 0 .. 4]
    <3>1. \/ phase' = phase
          \/ /\ phase[Head(events).slot] \in 1 .. 3
             /\ phase' = [phase EXCEPT ![Head(events).slot] = @ + 1]
      BY <1>8 DEF OnTransfer, Advances
    <3>2. phase[Head(events).slot] \in 1 .. 3 => phase[Head(events).slot] + 1 \in 0 .. 4
      OBVIOUS
    <3> QED  BY <1>0, <2>1, <3>1, <3>2
  <2>4. SendMessage(Head(events).ok) \/ UNCHANGED <<main, initTask>>
    BY <1>8 DEF OnTransfer
  <2>5. /\ inbox' \in Seq(BOOLEAN) /\ main' \in {"wake", "idle"}
        /\ at' = at \/ (at = "asleep" /\ at' = "woken")
        /\ UNCHANGED <<stage, port_num, slot_num>>
    BY <1>0, <1>8, <2>1, <2>4, SendMessageType, EventTaken DEF OnTransfer
  <2> QED  BY <1>0, <1>8, <2>1, <2>2, <2>3, <2>5, MainTurn DEF OnTransfer
<1>9. ASSUME TellOfAttached PROVE TurnInv'
  <2>1. main = "attached" /\ UNCHANGED <<portsc, xhc, tables, port, bounds>>
    BY <1>9 DEF TellOfAttached
  <2>2. SendMessage(TRUE) \/ (main' = "clear" /\ UNCHANGED initTask)
    BY <1>9 DEF TellOfAttached
  <2>3. /\ inbox' \in Seq(BOOLEAN) /\ main' \in {"wake", "clear"}
        /\ at' = at \/ (at = "asleep" /\ at' = "woken")
        /\ UNCHANGED <<stage, port_num, slot_num>>
    BY <1>0, <2>2, SendMessageType
  <2> QED  BY <1>0, <2>1, <2>3, MainTurn
<1> QED  BY <1>1, <1>2, <1>3, <1>4, <1>5, <1>6, <1>7, <1>8, <1>9 DEF MainTask

LEMMA TurnStep == TurnInv /\ [Next]_vars => TurnInv'
<1>1. ASSUME TurnInv, UNCHANGED vars PROVE TurnInv'
  BY <1>1 DEF vars, portsc, xhc, tables, initTask, mainTask, bounds, wakeups, TurnInv,
     TypeOK, ControlInv, Waiting, NoPortTwice, FrontIsInitialized
<1> QED  BY <1>1, HardwareTurn, InitTaskTurn, MainTaskTurn DEF Next

LEMMA TurnInvariance == Spec => []TurnInv
  BY InitTurnInv, TurnStep, PTL DEF Spec

\* The ports of initializing_ports are taken in turn: none is queued twice, and
\* the one under initialization stays the front, whatever is plugged meanwhile.
THEOREM PortsTakenInTurn == Spec => []PortsInTurn
<1>1. TurnInv => PortsInTurn
  BY DEF TurnInv, PortsInTurn
<1> QED  BY <1>1, TurnInvariance, PTL

-----------------------------------------------------------------------------
(* The inbox.                                                              *)

\* What the steps of the main task do to the init task.
LEMMA MainTaskMessages ==
  ASSUME MainTask
  PROVE  \/ UNCHANGED <<at, inbox>>
         \/ WakeupAgain
         \/ \E ok : SendMessage(ok)
<1> USE DEF initTask
<1>1. CASE ClearChanges \/ PushConnected \/ ClearConnectStatusChanged \/ OnSlotDisabled
  BY <1>1 DEF ClearChanges, PushConnected, ClearConnectStatusChanged, OnSlotDisabled
<1>2. CASE OnPortStatusChange
  BY <1>2, Zenon DEF OnPortStatusChange, OnAttached, OnDetached
<1>3. CASE OnCommandCompletion
  <2>1. \/ TellInitTask(Head(events).ok)
        \/ main' = "panic" /\ UNCHANGED initTask
        \/ UNCHANGED <<main, initTask>>
    BY <1>3, Zenon DEF OnCommandCompletion
  <2> QED  BY <2>1, Zenon DEF TellInitTask
<1>4. CASE OnTransfer
  <2>1. SendMessage(Head(events).ok) \/ UNCHANGED <<main, initTask>>
    BY <1>4 DEF OnTransfer
  <2> QED  BY <2>1
<1>5. CASE TellOfAttached
  BY <1>5 DEF TellOfAttached
<1> QED  BY <1>1, <1>2, <1>3, <1>4, <1>5 DEF MainTask

\* A message that does not come early wakes the task up, with nothing else to receive.
LEMMA MessageWakes ==
  ASSUME TypeOK, InboxInv, ~ early, ~ idle, NEW ok, ok \in BOOLEAN, SendMessage(ok),
         ~ (Len(inbox') > Len(inbox) /\ at # "asleep")
  PROVE  /\ at = "asleep" /\ at' = "woken" /\ inbox = <<>> /\ inbox' = <<ok>>
         /\ inbox' # <<>> /\ Len(inbox') = 1 /\ inbox'[1] = ok
         /\ main' = "wake" /\ UNCHANGED <<stage, port_num, slot_num>>
<1>1. inbox \in Seq(BOOLEAN) /\ inbox' = Append(inbox, ok)
  BY DEF TypeOK, SendMessage
<1>2. Len(inbox') > Len(inbox)
  BY <1>1, AppendElements
<1>3. at = "asleep" /\ at' = "woken" /\ inbox = <<>>
  BY <1>2 DEF InboxInv, SendMessage, Wakeup
<1>4. inbox' = <<ok>>
  BY <1>1, <1>3
<1> QED  BY <1>3, <1>4 DEF SendMessage

LEMMA InboxStep ==
  ASSUME TurnInv, InboxInv, [Next]_vars
  PROVE  InboxInv'
<1> SUFFICES ASSUME ~ early', ~ idle'
             PROVE  /\ at' = "woken" => Len(inbox') = 1
                    /\ at' # "woken" => inbox' = <<>>
                    /\ at' # "panic"
  BY DEF InboxInv
<1>1. CASE UNCHANGED vars
  BY <1>1 DEF InboxInv, vars, initTask, wakeups
<1>2. CASE Next
  <2>1. /\ ~ early /\ ~ idle
        /\ ~ (Len(inbox') > Len(inbox) /\ at # "asleep")
        /\ ~ (at = "asleep" /\ at' = "woken" /\ inbox' = <<>>)
    BY <1>2 DEF Next
  <2>2. /\ at = "woken" => Len(inbox) = 1
        /\ at # "woken" => inbox = <<>>
        /\ at # "panic" /\ inbox \in Seq(BOOLEAN)
    BY <2>1 DEF InboxInv, TurnInv, TypeOK
  <2>3. CASE Hardware
    <3>1. UNCHANGED <<at, inbox>>
      BY <2>3 DEF Hardware, Plug, CompleteCommand, CompleteTransfer, Report, initTask
    <3> QED  BY <2>2, <3>1
  <2>4. CASE ReceiveMessage
    <3>0. at = "woken"
      BY <2>4 DEF ReceiveMessage
    <3>1. inbox # <<>>
      <4>1. Len(inbox) = 1
        BY <2>2, <3>0
      <4>2. Len(<<>>) # 1
        OBVIOUS
      <4> QED  BY <4>1, <4>2, Zenon
    <3>2. inbox' = Tail(inbox) /\ at' \in {"run", "sleep"} /\ Len(inbox) = 1
      BY <2>2, <2>4, <3>1 DEF ReceiveMessage, PostProcessing
    <3>3. inbox' = <<>>
      BY <2>2, <3>2
    <3> QED  BY <3>2, <3>3
  <2>5. CASE InitUSBDevTask /\ ~ ReceiveMessage
    <3>1. inbox' = inbox /\ at # "woken" /\ at' \notin {"woken", "panic"}
      BY <2>5 DEF InitUSBDevTask, TakePort, ResetPort, Reset, EnableSlot, AddressDevice,
         BeforeInitialize, ReConfigureDefaultControlPipe, StartInitialize,
         ConfigureEndpoints, OnEndpointsConfigured, Finish, Sleep, Awaits, PostProcessing
    <3> QED  BY <2>2, <3>1
  <2>6. CASE MainTask
    <3>1. CASE UNCHANGED <<at, inbox>>
      BY <2>2, <3>1
    <3>2. CASE WakeupAgain
      BY <2>1, <2>2, <3>2 DEF WakeupAgain, Wakeup
    <3>3. ASSUME NEW ok, SendMessage(ok) PROVE at' = "woken" /\ Len(inbox') = 1
      <4>1. Len(inbox') > Len(inbox) /\ (at # "woken" => Len(inbox') = 1)
        BY <2>2, <3>3 DEF SendMessage
      <4> QED  BY <2>1, <2>2, <3>3, <4>1 DEF SendMessage, Wakeup
    <3> QED  BY <2>6, <3>1, <3>2, <3>3, MainTaskMessages
  <2> QED  BY <1>2, <2>3, <2>4, <2>5, <2>6 DEF Next
<1> QED  BY <1>1, <1>2

-----------------------------------------------------------------------------
(* The calm behaviours.                                                    *)

\* A calm state, the parts of whose invariant a calm step has to keep.
InCalm == TurnInv /\ InboxInv /\ Calm /\ CalmParts

\* What the type invariant says of the members of the queues.
LEMMA ElementTypes ==
  ASSUME TypeOK
  PROVE  /\ Elements(cmds) \subseteq Commands
         /\ Elements(events) \subseteq PortEvents \cup Completions
         /\ Elements(initializing_ports) \subseteq Ports
         /\ xfers \subseteq Slots /\ enabled_slots \subseteq Slots
         /\ \A c \in Elements(cmds) : c.cmd \in CommandKinds /\ c.slot \in Slots
         /\ \A e \in Elements(events) :
              /\ e.kind \in CommandKinds \cup {"transfer", "port"}
              /\ e.kind = "port" => e.port \in Ports
              /\ e.kind # "port" => e.slot \in Slots /\ e.ok \in BOOLEAN
<1>1. \A T, s : s \in Seq(T) => Elements(s) \subseteq T
  BY DEF Elements
<1>2. /\ Elements(cmds) \subseteq Commands
      /\ Elements(events) \subseteq PortEvents \cup Completions
      /\ Elements(initializing_ports) \subseteq Ports
  BY <1>1, Zenon DEF TypeOK
<1>3. xfers \subseteq Slots /\ enabled_slots \subseteq Slots
  BY Numbers DEF TypeOK
<1> QED  BY <1>2, <1>3, EventTypes

\* While the init task does not wait, and when it has been told, nothing else is
\* under way to it.
LEMMA NothingUnderWay ==
  ASSUME InCalm, stage = 0 \/ ~ Waiting \/ Told
  PROVE  /\ \A c \in Elements(cmds) : c.cmd = "noop" /\ ~ IsAnswered(c)
         /\ \A e \in Elements(events) :
              /\ e.kind \in {"port", "transfer", "noop"}
              /\ ~ IsAnswer(e)
         /\ \A s \in xfers : ~ Mine(s)
         /\ \A p \in Ports : ~ prc[p]
<1>1. CASE stage = 0
  BY <1>1 DEF InCalm, CalmParts, CommandInv, DeviceInv, Asked, IsAnswered, IsAnswer, Mine
<1>2. CASE stage # 0
  <2>1. ~ Ordered /\ ~ Moving /\ ~ Reported /\ ~ Resetting
    BY <1>2 DEF InCalm, CalmParts, AnswerInv
  <2>2. /\ \A c \in Elements(cmds) : ~ IsAnswered(c)
        /\ \A e \in Elements(events) : ~ IsAnswer(e)
        /\ \A s \in xfers : ~ Mine(s)
    BY <2>1 DEF Ordered, Moving, Reported
  <2>3. \A p \in Ports : ~ prc[p]
    BY <2>1 DEF Resetting, InCalm, CalmParts, DeviceInv
  <2>4. \A c \in Elements(cmds) : c.cmd = "noop"
    BY <2>2 DEF InCalm, CalmParts, CommandInv, Asked, IsAnswered
  <2>5. \A e \in Elements(events) : e.kind \in {"port", "transfer", "noop"}
    BY <2>2 DEF InCalm, CalmParts, CommandInv, Asked, IsAnswer
  <2> QED  BY <2>2, <2>3, <2>4, <2>5
<1> QED  BY <1>1, <1>2

\* Answers are told from other commands and events by their kind and their device.
LEMMA SameAnswers ==
  ASSUME UNCHANGED <<stage, devices_, port_num>>
  PROVE  /\ \A s : Mine(s)' <=> Mine(s)
         /\ \A c : IsAnswered(c)' <=> IsAnswered(c)
         /\ \A e : IsAnswer(e)' <=> IsAnswer(e)
         /\ AnswerEvents' = AnswerEvents
  BY DEF Mine, IsAnswer, AnswerEvents, IsAnswered

LEMMA OnceNone ==
  ASSUME NEW s, NEW A, \A x \in Elements(s) : x \notin A
  PROVE  Once(s, A)
  BY DEF Once, Elements

\* A port initialized to its end, or given up: the next one is taken in any case.
LEMMA CalmPost ==
  ASSUME InCalm, stage # 0, PostProcessing, ~ Waiting \/ Told,
         UNCHANGED <<connected, csc, prc, enabled_slots, cmds, xfers, events, devices_, main, port>>
  PROVE  CalmParts'
<1>1. /\ stage' = 0 /\ at' \in {"sleep", "run"}
      /\ Elements(initializing_ports') = Elements(initializing_ports) \ {port_num}
  BY PostProcessingStep DEF InCalm
<1>2. ScanInv'
  BY <1>1 DEF InCalm, CalmParts, ScanInv
<1>3. CommandInv'
  BY <1>1, NothingUnderWay DEF CommandInv
<1>4. DeviceInv'
  <2>1. \A p : Untouched(p)' => Untouched(p)
    BY <1>1 DEF Untouched
  <2> QED  BY <1>1, <2>1, NothingUnderWay DEF InCalm, CalmParts, DeviceInv, NoDevice, NoTransfer
<1>5. SlotInv' /\ AnswerInv'
  BY <1>1 DEF InCalm, CalmParts, SlotInv, AnswerInv
<1> QED  BY <1>2, <1>3, <1>4, <1>5 DEF CalmParts

\* A step that asks the controller for something and waits: nothing is under way before.
LEMMA CalmOrder ==
  ASSUME InCalm, at = "run", at' = "sleep", stage' = stage,
         NEW k, NEW s \in Slots, PushCommand(k, s),
         \/ stage = 2 /\ k = "enable"
         \/ stage = 3 /\ k = "address"
         \/ stage = 5 /\ k = "evaluate"
         \/ stage = 7 /\ k = "configure" /\ devices_'[s] # None,
         stage = 3 \/ devices_' = devices_,
         UNCHANGED <<connected, csc, prc, xfers, events, initializing_ports,
                     port_num, inbox, main, port>>
  PROVE  (ScanInv /\ CommandInv /\ AnswerInv)'
<1> DEFINE c == [cmd |-> k, slot |-> s]
<1>1. ~ Waiting /\ Waiting' /\ stage \in {2, 3, 5, 7} /\ inbox = <<>>
  BY DEF Waiting, InCalm, Calm, InboxInv
<1>2. c \in Commands /\ c.cmd = k /\ c.slot = s /\ IsAnswered(c)
  BY DEF Commands, CommandKinds, IsAnswered
<1>3. /\ \A x \in Elements(cmds) : x.cmd = "noop" /\ ~ IsAnswered(x)
      /\ \A e \in Elements(events) : e.kind \in {"port", "transfer", "noop"} /\ ~ IsAnswer(e)
      /\ \A r \in xfers : ~ Mine(r)
      /\ \A p \in Ports : ~ prc[p]
  BY <1>1, NothingUnderWay
<1>4. /\ Elements(cmds') = Elements(cmds) \cup {c}
      /\ \A x \in Elements(cmds) : x \notin AnswerCommands
      /\ Once(cmds', AnswerCommands)
  <2>1. cmds \in Seq(Commands) /\ cmds' = Append(cmds, c)
    BY DEF InCalm, TurnInv, TypeOK, PushCommand
  <2>2. \A x \in Elements(cmds) : x \notin AnswerCommands
    BY <1>3 DEF AnswerCommands
  <2> QED  BY <1>2, <2>1, <2>2, AppendElements, AppendOnce, OnceNone
<1>5. (\A r \in xfers' : ~ Mine(r)') /\ (\A e \in Elements(events') : ~ IsAnswer(e)')
  <2>1. CASE stage = 3
    BY <1>3, <2>1 DEF Mine, IsAnswer
  <2>2. CASE devices_' = devices_
    BY <1>3, <2>2, SameAnswers
  <2> QED  BY <2>1, <2>2
<1>6. ScanInv'
  BY DEF InCalm, CalmParts, ScanInv
<1>7. CommandInv'
  <2>1. Asked(k)'
    BY <1>1 DEF Asked
  <2> QED  BY <1>2, <1>3, <1>4, <2>1 DEF CommandInv
<1>8. AnswerInv'
  <2>1. OneEach'
    <3>1. Once(events', AnswerEvents')
      BY <1>5, OnceNone DEF AnswerEvents
    <3>2. AnswerCommands' = AnswerCommands
      BY DEF AnswerCommands, IsAnswered
    <3> QED  BY <1>4, <1>5, <3>1, <3>2 DEF OneEach
  <2>2. Ordered'
    BY <1>2, <1>4 DEF Ordered, IsAnswered
  <2>3. ~ Told' /\ ~ Moving' /\ ~ Reported'
    BY <1>1, <1>5 DEF Told, Moving, Reported
  <2>4. ~ Resetting'
    BY <1>1 DEF Resetting
  <2> QED  BY <1>1, <2>1, <2>2, <2>3, <2>4 DEF AnswerInv
<1> QED  BY <1>6, <1>7, <1>8

\* The devices, the slots and the transfers are left alone.
LEMMA DevicesLeft ==
  ASSUME InCalm, stage # 0, stage' = stage, stage = 3 => Waiting, Waiting => Waiting',
         at' \in {"reset", "sleep", "asleep"},
         UNCHANGED <<prc, initializing_ports, enabled_slots, xfers, events, slot_num_,
                     devices_, port_num, slot_num, main, port>>
  PROVE  DeviceInv' /\ SlotInv'
<1>1. DeviceInv'
  BY DEF InCalm, CalmParts, DeviceInv, Untouched, NoDevice, NoTransfer, Waiting
<1>2. SlotInv'
  BY DEF InCalm, CalmParts, SlotInv, Waiting
<1> QED  BY <1>1, <1>2

\* A control transfer to the device of the port under initialization.
LEMMA CalmTransfer ==
  ASSUME InCalm, at = "run", at' = "sleep", stage \in {4, 6}, stage' = stage,
         StartTransfer(slot_num),
         UNCHANGED <<connected, csc, prc, enabled_slots, cmds, events, initializing_ports,
                     slot_num_, devices_, port_num, slot_num, inbox, main, port>>
  PROVE  CalmParts'
<1>1. ~ Waiting /\ Waiting' /\ inbox = <<>>
  BY DEF Waiting, InCalm, Calm, InboxInv
<1>2. /\ slot_num \in enabled_slots /\ devices_[slot_num] = port_num /\ Mine(slot_num)
      /\ xfers' = xfers \cup {slot_num} /\ port_num # None
  BY FrontPort, Numbers DEF InCalm, CalmParts, SlotInv, StartTransfer, Mine
<1>3. /\ \A x \in Elements(cmds) : x.cmd = "noop" /\ ~ IsAnswered(x)
      /\ \A e \in Elements(events) : e.kind \in {"port", "transfer", "noop"} /\ ~ IsAnswer(e)
      /\ \A r \in xfers : ~ Mine(r)
      /\ \A p \in Ports : ~ prc[p]
  BY <1>1, NothingUnderWay
<1>4. ScanInv'
  BY DEF InCalm, CalmParts, ScanInv
<1>5. CommandInv'
  BY <1>3 DEF CommandInv
<1>6. DeviceInv' /\ SlotInv'
  <2>1. NoTransfer(None)'
    BY <1>2 DEF InCalm, CalmParts, DeviceInv, NoTransfer
  <2>2. DeviceInv'
    BY <1>1, <1>3, <2>1 DEF InCalm, CalmParts, DeviceInv, Untouched, NoDevice
  <2>3. SlotInv'
    BY <1>2 DEF InCalm, CalmParts, SlotInv
  <2> QED  BY <2>2, <2>3
<1>7. AnswerInv'
  <2>1. OneEach'
    <3>1. Once(events', AnswerEvents') /\ Once(cmds', AnswerCommands')
      BY <1>3, SameAnswers, OnceNone DEF AnswerEvents, AnswerCommands
    <3>2. \A r \in xfers' : Mine(r)' => r = slot_num
      BY <1>2, <1>3, SameAnswers
    <3> QED  BY <3>1, <3>2 DEF OneEach
  <2>2. Moving' /\ ~ Told'
    BY <1>1, <1>2, SameAnswers DEF Moving, Told
  <2>3. ~ Ordered' /\ ~ Reported' /\ ~ Resetting'
    BY <1>3, SameAnswers DEF Ordered, Reported, Resetting
  <2> QED  BY <1>1, <2>1, <2>2, <2>3 DEF AnswerInv
<1> QED  BY <1>4, <1>5, <1>6, <1>7 DEF CalmParts

\* The places of the answers are left as they are.
LEMMA AnswersLeft ==
  ASSUME InCalm, UNCHANGED <<stage, devices_, port_num, inbox, cmds, xfers, events>>,
         prc'[port_num] = prc[port_num], stage # 0 => (Waiting' <=> Waiting)
  PROVE  AnswerInv'
<1>1. OneEach' <=> OneEach
  BY SameAnswers DEF OneEach, AnswerCommands, IsAnswered
<1>2. /\ Told' <=> Told
      /\ Ordered' <=> Ordered
      /\ Moving' <=> Moving
      /\ Reported' <=> Reported
      /\ Resetting' <=> Resetting
  BY SameAnswers DEF Told, Ordered, Moving, Reported, Resetting
<1> QED  BY <1>1, <1>2 DEF InCalm, CalmParts, AnswerInv

LEMMA CalmTakePort ==
  ASSUME InCalm, TakePort
  PROVE  CalmParts'
<1> USE DEF portsc, xhc, tables, mainTask
<1>1. /\ stage = 0 /\ at = "run" /\ ~ Waiting /\ inbox = <<>>
      /\ UNCHANGED <<connected, csc, prc, enabled_slots, cmds, xfers, events,
                     initializing_ports, slot_num_, devices_, slot_num, inbox, main, port>>
  BY DEF TakePort, Waiting, InCalm, Calm, InboxInv
<1>2. /\ \A x \in Elements(cmds) : x.cmd = "noop" /\ ~ IsAnswered(x)
      /\ \A e \in Elements(events) : e.kind \in {"port", "transfer", "noop"} /\ ~ IsAnswer(e)
      /\ \A r \in xfers : ~ Mine(r)
      /\ \A p \in Ports : ~ prc[p]
  BY <1>1, NothingUnderWay
<1>3. CommandInv'
  BY <1>1, <1>2 DEF CommandInv
<1>4. ScanInv'
  <2>1. at' \in {"sleep", "run"}
    BY <1>1 DEF TakePort, Awaits
  <2> QED  BY <1>1, <2>1 DEF InCalm, CalmParts, ScanInv
<1>5. CASE Awaits(0) /\ UNCHANGED port_num
  <2>1. DeviceInv'
    BY <1>1, <1>2, <1>5 DEF Awaits, InCalm, CalmParts, DeviceInv, Untouched, NoDevice, NoTransfer
  <2>2. SlotInv' /\ AnswerInv'
    BY <1>1, <1>5 DEF Awaits, InCalm, CalmParts, SlotInv, AnswerInv
  <2> QED  BY <1>3, <1>4, <2>1, <2>2 DEF CalmParts
<1>6. CASE /\ initializing_ports # <<>> /\ port_num' = Head(initializing_ports)
           /\ stage' = 1 /\ at' = "run"
  <2>1. port_num' \in Elements(initializing_ports) /\ port_num' \in Ports
    BY <1>6, TailElements DEF InCalm, TurnInv, TypeOK
  <2>2. NoDevice(port_num')
    BY <1>1, <2>1 DEF InCalm, CalmParts, DeviceInv, Untouched
  <2>3. DeviceInv'
    <3>1. \A p \in Ports : Untouched(p)' => Untouched(p)
      BY <1>1 DEF Untouched
    <3>2. NoDevice(port_num)'
      BY <1>1, <2>2 DEF NoDevice
    <3> QED  BY <1>1, <1>2, <1>6, <3>1, <3>2
             DEF InCalm, CalmParts, DeviceInv, NoDevice, NoTransfer
  <2>4. SlotInv'
    BY <1>1, <1>6 DEF InCalm, CalmParts, SlotInv
  <2>5. AnswerInv'
    <3>1. \A s : ~ Mine(s)'
      BY <1>6 DEF Mine
    <3>2. /\ \A x \in Elements(cmds') : ~ IsAnswered(x)'
          /\ \A e \in Elements(events') : ~ IsAnswer(e)'
      BY <1>1, <1>2, <3>1 DEF IsAnswer, IsAnswered
    <3>3. OneEach'
      BY <3>1, <3>2, OnceNone DEF OneEach, AnswerCommands, AnswerEvents
    <3>4. ~ Told' /\ ~ Ordered' /\ ~ Moving' /\ ~ Reported' /\ ~ Resetting'
      BY <1>1, <1>2, <2>1, <3>1, <3>2 DEF Told, Ordered, Moving, Reported, Resetting
    <3>5. ~ Waiting'
      BY <1>6 DEF Waiting
    <3> QED  BY <3>3, <3>4, <3>5 DEF AnswerInv
  <2> QED  BY <1>3, <1>4, <2>3, <2>4, <2>5 DEF CalmParts
<1> QED  BY <1>1, <1>5, <1>6 DEF TakePort

LEMMA CalmReset ==
  ASSUME InCalm, Reset
  PROVE  CalmParts'
<1> USE DEF portsc, tables, mainTask
<1>1. /\ stage = 1 /\ stage' = 1 /\ at = "reset" /\ at' = "sleep" /\ inbox = <<>>
      /\ ~ Waiting /\ Waiting' /\ connected[port_num] /\ port_num \in Ports
  BY FrontPort DEF Reset, Awaits, Waiting, InCalm, Calm, CalmParts, ScanInv, InboxInv, TurnInv,
     ControlInv
<1>2. /\ \A x \in Elements(cmds) : x.cmd = "noop" /\ ~ IsAnswered(x)
      /\ \A e \in Elements(events) : e.kind \in {"port", "transfer", "noop"} /\ ~ IsAnswer(e)
      /\ \A r \in xfers : ~ Mine(r)
      /\ \A p \in Ports : ~ prc[p]
  BY <1>1, NothingUnderWay
<1>3. /\ csc' = [csc EXCEPT ![port_num] = FALSE] /\ prc' = [prc EXCEPT ![port_num] = TRUE]
      /\ events' = Append(events, [kind |-> "port", port |-> port_num])
      /\ UNCHANGED <<connected, enabled_slots, cmds, xfers, initializing_ports, slot_num_,
                     devices_, port_num, slot_num, inbox, main, port>>
  BY <1>1, <1>2 DEF Reset
<1>4. /\ \A e \in Elements(events') : e \in Elements(events) \/ e.kind = "port"
      /\ csc \in [Ports -> BOOLEAN] /\ prc \in [Ports -> BOOLEAN]
  BY <1>1, <1>3, EventTypes, AppendEventType DEF InCalm, TurnInv, TypeOK
<1>5. ScanInv'
  BY <1>1, <1>3, <1>4 DEF InCalm, CalmParts, ScanInv
<1>6. CommandInv'
  BY <1>2, <1>3, <1>4 DEF CommandInv
<1>7. DeviceInv'
  <2>1. NoTransfer(None)'
    BY <1>3, <1>4 DEF InCalm, CalmParts, DeviceInv, NoTransfer
  <2>2. \A p \in Ports : prc'[p] => p = port_num
    BY <1>2, <1>3, <1>4
  <2> QED  BY <1>1, <1>3, <2>1, <2>2 DEF InCalm, CalmParts, DeviceInv, Untouched, NoDevice
<1>8. SlotInv'
  BY <1>1, <1>3, <1>4 DEF InCalm, CalmParts, SlotInv
<1>9. AnswerInv'
  <2>1. \A s : ~ Mine(s)'
    BY <1>1 DEF Mine
  <2>2. /\ \A x \in Elements(cmds') : ~ IsAnswered(x)'
        /\ \A e \in Elements(events') : ~ IsAnswer(e)'
    BY <1>2, <1>3, <1>4, <2>1 DEF IsAnswer, IsAnswered
  <2>3. OneEach'
    BY <2>1, <2>2, OnceNone DEF OneEach, AnswerCommands, AnswerEvents
  <2>4. Resetting'
    BY <1>1, <1>3, <1>4 DEF Resetting
  <2>5. ~ Told' /\ ~ Ordered' /\ ~ Moving' /\ ~ Reported'
    BY <1>1, <1>3, <2>1, <2>2 DEF Told, Ordered, Moving, Reported
  <2> QED  BY <1>1, <2>3, <2>4, <2>5 DEF AnswerInv
<1> QED  BY <1>5, <1>6, <1>7, <1>8, <1>9 DEF CalmParts

LEMMA CalmAddressDevice ==
  ASSUME InCalm, AddressDevice
  PROVE  CalmParts'
<1>1. /\ stage = 3 /\ at = "run" /\ ~ Waiting
      /\ Head(initializing_ports) = port_num /\ port_num \in Ports
      /\ port_num \in Elements(initializing_ports)
      /\ UNCHANGED <<connected, csc, prc, enabled_slots, xfers, events, slot_num_,
                     port_num, inbox, main, port>>
  BY FrontPort DEF AddressDevice, Waiting, InCalm, portsc, mainTask
<1>2. slot_num' = slot_num_[port_num] /\ slot_num' \in enabled_slots /\ slot_num' \in Slots
  BY <1>1, Numbers DEF InCalm, CalmParts, SlotInv, TurnInv, TypeOK, AddressDevice
<1>3. CASE PostProcessing /\ UNCHANGED <<devices_, phase, cmds>>
  BY <1>1, <1>3, CalmPost
<1>4. CASE /\ devices_[slot_num'] = None
           /\ devices_' = [devices_ EXCEPT ![slot_num'] = Head(initializing_ports)]
           /\ PushCommand("address", slot_num')
           /\ Awaits(3)
           /\ UNCHANGED initializing_ports
  <2>1. at' = "sleep" /\ stage' = 3 /\ Waiting'
    BY <1>4 DEF Awaits, Waiting
  <2>2. ScanInv' /\ CommandInv' /\ AnswerInv'
    BY <1>1, <1>2, <1>4, <2>1, CalmOrder
  <2>3. /\ \A s \in Slots : devices_'[s] = IF s = slot_num' THEN port_num ELSE devices_[s]
        /\ xfers \subseteq Slots
        /\ \A e \in Elements(events) : e.kind = "transfer" => e.slot \in Slots
    BY <1>1, <1>2, <1>4, ElementTypes DEF InCalm, TurnInv, TypeOK
  <2>4. NoTransfer(None) /\ NoTransfer(port_num) /\ NoDevice(port_num)
    BY <1>1 DEF InCalm, CalmParts, DeviceInv
  <2>5. NoTransfer(None)' /\ NoTransfer(port_num)'
    <3>1. /\ \A s \in xfers : s # slot_num'
          /\ \A e \in Elements(events) : e.kind = "transfer" => e.slot # slot_num'
      BY <1>4, <2>4 DEF NoTransfer
    <3> QED  BY <1>1, <2>3, <2>4, <3>1 DEF NoTransfer
  <2>6. \A p \in Ports : Untouched(p)' => NoDevice(p)'
    <3>1. ~ Untouched(port_num)
      BY <1>1, Numbers DEF InCalm, TurnInv, TypeOK, ControlInv, CalmParts, ScanInv, Untouched
    <3>2. \A p : Untouched(p)' => Untouched(p)
      BY <1>1, <1>4, <2>1 DEF Untouched
    <3> QED  BY <2>3, <3>1, <3>2 DEF InCalm, CalmParts, DeviceInv, NoDevice
  <2>7. DeviceInv'
    <3>1. \A p \in Ports : ~ prc[p]
      BY <1>1, NothingUnderWay
    <3> QED  BY <1>1, <2>1, <2>5, <2>6, <3>1 DEF DeviceInv
  <2>8. SlotInv'
    BY <1>1, <1>2, <2>1, <2>3 DEF InCalm, CalmParts, SlotInv
  <2> QED  BY <2>2, <2>7, <2>8 DEF CalmParts
<1> QED  BY <1>3, <1>4 DEF AddressDevice

LEMMA CalmOnEndpointsConfigured ==
  ASSUME InCalm, OnEndpointsConfigured
  PROVE  CalmParts'
<1> USE DEF portsc, tables, mainTask
<1>1. /\ stage = 8 /\ stage' = 9 /\ at = "run" /\ at' = "run" /\ ~ Waiting /\ ~ Waiting'
      /\ inbox = <<>> /\ port_num \in Ports /\ port_num # None
      /\ UNCHANGED <<connected, csc, prc, enabled_slots, cmds, events, initializing_ports,
                     slot_num_, devices_, port_num, slot_num, inbox, main, port>>
  BY FrontPort, Numbers DEF OnEndpointsConfigured, Waiting, InCalm, Calm, InboxInv
<1>2. /\ \A x \in Elements(cmds) : x.cmd = "noop" /\ ~ IsAnswered(x)
      /\ \A e \in Elements(events) : e.kind \in {"port", "transfer", "noop"} /\ ~ IsAnswer(e)
      /\ \A p \in Ports : ~ prc[p]
  BY <1>1, NothingUnderWay
<1>3. /\ slot_num \in enabled_slots /\ devices_[slot_num] = port_num
      /\ xfers' \subseteq xfers \cup {slot_num}
  BY <1>1 DEF InCalm, CalmParts, SlotInv, OnEndpointsConfigured, StartTransfer
<1>4. ScanInv' /\ CommandInv' /\ SlotInv'
  BY <1>1, <1>2, <1>3 DEF InCalm, CalmParts, ScanInv, CommandInv, SlotInv
<1>5. DeviceInv'
  BY <1>1, <1>2, <1>3 DEF InCalm, CalmParts, DeviceInv, Untouched, NoDevice, NoTransfer
<1>6. AnswerInv'
  <2>1. \A s : ~ Mine(s)' /\ ~ Mine(s)
    BY <1>1 DEF Mine
  <2>2. /\ \A x \in Elements(cmds') : ~ IsAnswered(x)'
        /\ \A e \in Elements(events') : ~ IsAnswer(e)'
    BY <1>1, <1>2, <2>1 DEF IsAnswer, IsAnswered
  <2>3. OneEach'
    BY <2>1, <2>2, OnceNone DEF OneEach, AnswerCommands, AnswerEvents
  <2>4. ~ Told' /\ ~ Ordered' /\ ~ Moving' /\ ~ Reported' /\ ~ Resetting'
    BY <1>1, <2>1, <2>2 DEF Told, Ordered, Moving, Reported, Resetting
  <2> QED  BY <1>1, <2>3, <2>4 DEF AnswerInv
<1> QED  BY <1>4, <1>5, <1>6 DEF CalmParts

\* The init task has received its message and goes on to the next stage.
LEMMA CalmReceived ==
  ASSUME InCalm, at = "woken", at' = "run", inbox # <<>>, inbox' = <<>>,
         stage' = IF stage = 0 THEN 0 ELSE stage + 1, stage # 0 => inbox[1],
         UNCHANGED <<connected, csc, prc, enabled_slots, cmds, xfers, events, initializing_ports,
                     slot_num_, devices_, port_num, slot_num, main, port>>
  PROVE  CalmParts'
<1>0. stage \in 0 .. 7 /\ Waiting /\ ~ Waiting' /\ Told
  BY DEF InCalm, TurnInv, TypeOK, ControlInv, Waiting, Told
<1>1. /\ stage \in 0 .. 7 /\ Waiting /\ ~ Waiting' /\ Told
      /\ stage' \in 0 .. 8 /\ stage' # 1
      /\ stage' # 0 => stage \in Nat /\ stage' = stage + 1
  BY <1>0
<1>2. /\ \A x \in Elements(cmds) : x.cmd = "noop" /\ ~ IsAnswered(x)
      /\ \A e \in Elements(events) : e.kind \in {"port", "transfer", "noop"} /\ ~ IsAnswer(e)
      /\ \A r \in xfers : ~ Mine(r)
      /\ \A p \in Ports : ~ prc[p]
  BY <1>1, NothingUnderWay
<1>3. ScanInv' /\ CommandInv'
  BY <1>1, <1>2 DEF InCalm, CalmParts, ScanInv, CommandInv
<1>4. DeviceInv'
  <2>1. stage' \in 1 .. 3 => NoDevice(port_num)
    BY <1>1 DEF InCalm, CalmParts, DeviceInv
  <2>2. stage' = 3 => NoTransfer(port_num)
    BY <2>1, ElementTypes DEF NoDevice, NoTransfer, InCalm, TurnInv
  <2>3. \A p : Untouched(p)' => Untouched(p)
    BY <1>1 DEF Untouched
  <2> QED  BY <1>1, <1>2, <2>1, <2>2, <2>3 DEF InCalm, CalmParts, DeviceInv, NoDevice, NoTransfer
<1>5. SlotInv'
  BY <1>1 DEF InCalm, CalmParts, SlotInv
<1>6. AnswerInv'
  <2>1. stage = 3 => NoTransfer(port_num)
    BY DEF InCalm, CalmParts, DeviceInv
  <2>2. \A s : Mine(s)' => Mine(s) \/ (stage = 3 /\ devices_[s] = port_num)
    BY <1>1 DEF Mine
  <2>3. \A s \in xfers' : ~ Mine(s)'
    BY <1>2, <2>1, <2>2 DEF NoTransfer
  <2>4. /\ \A x \in Elements(cmds') : ~ IsAnswered(x)'
        /\ \A e \in Elements(events') : ~ IsAnswer(e)'
    BY <1>2, <2>1, <2>2 DEF IsAnswer, IsAnswered, NoTransfer
  <2>5. OneEach'
    BY <2>3, <2>4, OnceNone DEF OneEach, AnswerCommands, AnswerEvents
  <2>6. ~ Told' /\ ~ Ordered' /\ ~ Moving' /\ ~ Reported' /\ ~ Resetting'
    BY <1>1, <2>3, <2>4 DEF Told, Ordered, Moving, Reported, Resetting
  <2> QED  BY <1>1, <2>5, <2>6 DEF AnswerInv
<1> QED  BY <1>3, <1>4, <1>5, <1>6 DEF CalmParts

LEMMA InitTaskCalm ==
  ASSUME InCalm, InitUSBDevTask
  PROVE  CalmParts'
<1> USE DEF portsc, xhc, tables, mainTask, bounds
<1>0. at = "run" \/ at = "reset" => ~ Waiting
  BY DEF Waiting
<1>1. ASSUME ResetPort PROVE CalmParts'
  <2>1. CASE PostProcessing
    BY <1>0, <1>1, <2>1, CalmPost DEF ResetPort
  <2>2. CASE at' = "reset" /\ connected[port_num] /\ UNCHANGED <<stage, initializing_ports>>
    <3>1. /\ stage = 1 /\ stage' = 1 /\ ~ Waiting /\ ~ Waiting'
          /\ UNCHANGED <<connected, csc, prc, enabled_slots, cmds, xfers, events, slot_num_,
                         devices_, port_num, slot_num, inbox, main, port>>
      BY <1>1, <2>2 DEF ResetPort, Waiting
    <3>2. ScanInv' /\ CommandInv'
      <4>1. ScanInv'
        BY <2>2, <3>1 DEF InCalm, CalmParts, ScanInv
      <4>2. CommandInv'
        BY <2>2, <3>1, NothingUnderWay DEF CommandInv
      <4> QED  BY <4>1, <4>2
    <3>3. DeviceInv' /\ SlotInv' /\ AnswerInv'
      BY <2>2, <3>1, DevicesLeft, AnswersLeft
    <3> QED  BY <3>2, <3>3 DEF CalmParts
  <2> QED  BY <1>1, <2>1, <2>2 DEF ResetPort
<1>2. ASSUME EnableSlot PROVE CalmParts'
  <2>1. CASE PostProcessing /\ UNCHANGED cmds
    BY <1>0, <1>2, <2>1, CalmPost DEF EnableSlot
  <2>2. CASE PushCommand("enable", 0) /\ Awaits(2) /\ UNCHANGED initializing_ports
    <3>1. /\ stage = 2 /\ stage' = 2 /\ at = "run" /\ at' = "sleep" /\ ~ Waiting /\ 0 \in Slots
          /\ UNCHANGED <<connected, csc, prc, enabled_slots, xfers, events, slot_num_,
                         devices_, port_num, slot_num, inbox, main, port>>
      BY <1>0, <1>2, <2>2, Numbers DEF EnableSlot, Awaits
    <3>2. ScanInv' /\ CommandInv' /\ AnswerInv'
      BY <2>2, <3>1, CalmOrder
    <3>3. DeviceInv' /\ SlotInv'
      BY <2>2, <3>1, DevicesLeft
    <3> QED  BY <3>2, <3>3 DEF CalmParts
  <2> QED  BY <1>2, <2>1, <2>2 DEF EnableSlot
<1>3. ASSUME BeforeInitialize \/ StartInitialize PROVE CalmParts'
  <2>1. CASE BeforeInitialize
    <3>1. devices_[slot_num] # None
      BY <2>1, FrontPort, Numbers DEF BeforeInitialize, InCalm, CalmParts, SlotInv
    <3> QED  BY <2>1, <3>1, CalmTransfer DEF BeforeInitialize, Awaits
  <2>2. CASE StartInitialize
    BY <2>2, CalmTransfer DEF StartInitialize, Awaits
  <2> QED  BY <1>3, <2>1, <2>2
<1>4. ASSUME ReConfigureDefaultControlPipe PROVE CalmParts'
  <2>1. /\ stage = 5 /\ stage' = 5 /\ at = "run" /\ at' = "sleep" /\ ~ Waiting
        /\ slot_num \in Slots /\ PushCommand("evaluate", slot_num)
        /\ UNCHANGED <<connected, csc, prc, enabled_slots, xfers, events, initializing_ports,
                       slot_num_, devices_, port_num, slot_num, inbox, main, port>>
    BY <1>0, <1>4 DEF ReConfigureDefaultControlPipe, Awaits, InCalm, TurnInv, TypeOK
  <2>2. ScanInv' /\ CommandInv' /\ AnswerInv'
    BY <2>1, CalmOrder
  <2>3. DeviceInv' /\ SlotInv'
    BY <2>1, DevicesLeft
  <2> QED  BY <2>2, <2>3 DEF CalmParts
<1>5. ASSUME ConfigureEndpoints PROVE CalmParts'
  <2>1. CASE PostProcessing /\ UNCHANGED cmds
    BY <1>0, <1>5, <2>1, CalmPost DEF ConfigureEndpoints
  <2>2. CASE PushCommand("configure", slot_num) /\ Awaits(7) /\ UNCHANGED initializing_ports
    <3>1. /\ stage = 7 /\ stage' = 7 /\ at = "run" /\ at' = "sleep" /\ ~ Waiting
          /\ UNCHANGED <<connected, csc, prc, enabled_slots, xfers, events, slot_num_,
                         devices_, port_num, slot_num, inbox, main, port>>
      BY <1>0, <1>5, <2>2 DEF ConfigureEndpoints, Awaits
    <3>2. slot_num \in Slots /\ devices_'[slot_num] # None
      BY <3>1, FrontPort, Numbers DEF InCalm, CalmParts, SlotInv, TurnInv, TypeOK
    <3>3. ScanInv' /\ CommandInv' /\ AnswerInv'
      BY <2>2, <3>1, <3>2, CalmOrder
    <3>4. DeviceInv' /\ SlotInv'
      BY <2>2, <3>1, DevicesLeft
    <3> QED  BY <3>3, <3>4 DEF CalmParts
  <2> QED  BY <1>5, <2>1, <2>2 DEF ConfigureEndpoints
<1>6. ASSUME Finish PROVE CalmParts'
  BY <1>0, <1>6, CalmPost DEF Finish
<1>7. ASSUME Sleep PROVE CalmParts'
  <2>1. /\ Waiting /\ Waiting' /\ at = "sleep" /\ at' = "asleep"
        /\ UNCHANGED <<connected, csc, prc, enabled_slots, cmds, xfers, events, initializing_ports,
                       slot_num_, devices_, stage, port_num, slot_num, inbox, main, port>>
    BY <1>7 DEF Sleep, Waiting
  <2>2. ScanInv'
    BY <2>1 DEF InCalm, CalmParts, ScanInv
  <2>3. CommandInv'
    BY <2>1 DEF InCalm, CalmParts, CommandInv, Asked
  <2>4. DeviceInv'
    BY <2>1 DEF InCalm, CalmParts, DeviceInv, Untouched, NoDevice, NoTransfer
  <2>5. SlotInv'
    BY <2>1 DEF InCalm, CalmParts, SlotInv
  <2>6. AnswerInv'
    BY <2>1, AnswersLeft
  <2> QED  BY <2>2, <2>3, <2>4, <2>5, <2>6 DEF CalmParts
<1>8. ASSUME ReceiveMessage PROVE CalmParts'
  <2>1. at = "woken"
    BY <1>8 DEF ReceiveMessage
  <2>2. Len(inbox) = 1 /\ inbox \in Seq(BOOLEAN)
    BY <2>1 DEF InCalm, Calm, InboxInv, TurnInv, TypeOK
  <2>3. inbox # <<>> /\ Tail(inbox) = <<>> /\ Head(inbox) = inbox[1]
    <3>1. Len(<<>>) # 1
      OBVIOUS
    <3>2. inbox # <<>>
      BY <2>2, <3>1, Zenon
    <3>3. Tail(inbox) = <<>>
      <4>1. \A T, s : s \in Seq(T) /\ Len(s) = 0 => s = <<>>
        OBVIOUS
      <4>2. Tail(inbox) \in Seq(BOOLEAN) /\ Len(Tail(inbox)) = 0
        BY <2>2, <3>2, TailElements
      <4> QED  BY <4>1, <4>2
    <3>4. Head(inbox) = inbox[1]
      BY <2>2
    <3> QED  BY <3>2, <3>3, <3>4
  <2>4. UNCHANGED <<connected, csc, prc, enabled_slots, cmds, xfers, events, slot_num_,
                    devices_, port_num, slot_num, main, port>>
    BY <1>8 DEF ReceiveMessage
  <2>5. Told
    BY <2>3 DEF Told
  <2>6. \/ at' = "run" /\ stage = 0 /\ stage' = 0 /\ UNCHANGED initializing_ports
        \/ /\ at' = "run" /\ stage # 0 /\ stage' = stage + 1 /\ UNCHANGED initializing_ports
           /\ Head(inbox)
        \/ stage # 0 /\ PostProcessing
    BY <1>8, <2>3, Zenon DEF ReceiveMessage
  <2>7. inbox' = <<>>
    BY <1>8, <2>3, Zenon DEF ReceiveMessage
  <2>8. CASE stage # 0 /\ PostProcessing
    BY <2>4, <2>5, <2>8, CalmPost
  <2>9. CASE at' = "run" /\ stage = 0 /\ stage' = 0 /\ UNCHANGED initializing_ports
    BY <2>1, <2>3, <2>4, <2>7, <2>9, CalmReceived
  <2>10. CASE /\ at' = "run" /\ stage # 0 /\ stage' = stage + 1 /\ UNCHANGED initializing_ports
              /\ Head(inbox)
    <3>1. inbox[1]
      BY <2>3, <2>10, Zenon
    <3> QED  BY <2>1, <2>3, <2>4, <2>7, <2>10, <3>1, CalmReceived
  <2> QED  BY <2>6, <2>8, <2>9, <2>10
<1> QED  BY <1>1, <1>2, <1>3, <1>4, <1>5, <1>6, <1>7, <1>8, CalmTakePort, CalmReset,
            CalmAddressDevice, CalmOnEndpointsConfigured DEF InitUSBDevTask

\* An event that is posted: at most one of them is an answer.
LEMMA PostedOnce ==
  ASSUME TypeOK, Once(events, AnswerEvents), NEW e \in PortEvents \cup Completions,
         IsAnswer(e) => ~ Reported
  PROVE  Once(Append(events, e), AnswerEvents)
<1> DEFINE T == PortEvents \cup Completions
<1>1. events \in Seq(T) /\ e \in T
  BY DEF TypeOK
<1>2. e \in AnswerEvents => \A x \in Elements(events) : x \notin AnswerEvents
  BY DEF AnswerEvents, Reported
<1> HIDE DEF T
<1> QED  BY <1>1, <1>2, AppendOnce

LEMMA CompleteCommandCalm ==
  ASSUME InCalm, CompleteCommand
  PROVE  CalmParts'
<1> USE DEF portsc, tables, initTask, mainTask
<1>1. /\ cmds # <<>> /\ cmds' = Tail(cmds)
      /\ UNCHANGED <<connected, csc, prc, initializing_ports, slot_num_, devices_, stage, at,
                     port_num, slot_num, inbox, main, port>>
  BY DEF CompleteCommand
<1> DEFINE c == Head(cmds)
<1>2. cmds \in Seq(Commands) /\ TypeOK
  BY DEF InCalm, TurnInv, TypeOK
<1>3. Elements(cmds) = Elements(cmds') \cup {c} /\ c \in Elements(cmds) /\ c \in Commands
  BY <1>1, <1>2, TailElements
<1>4. c.cmd = "noop" \/ Asked(c.cmd)
  BY <1>3 DEF InCalm, CalmParts, CommandInv
<1>5. PICK s \in Slots, ok \in BOOLEAN :
        /\ IF ok THEN CanSucceed(c, s) ELSE s = c.slot
        /\ events' = Append(events, [kind |-> c.cmd, slot |-> s, ok |-> ok])
        /\ enabled_slots' = CASE ok /\ c.cmd = "enable"  -> enabled_slots \cup {s}
                              [] ok /\ c.cmd = "disable" -> enabled_slots \ {s}
                              [] OTHER                   -> enabled_slots
        /\ xfers' = IF ok /\ c.cmd = "disable" THEN xfers \ {s} ELSE xfers
  BY DEF CompleteCommand
<1> DEFINE e == [kind |-> c.cmd, slot |-> s, ok |-> ok]
<1>6. /\ c.cmd \in {"noop", "enable", "address", "evaluate", "configure"}
      /\ enabled_slots \subseteq enabled_slots' /\ xfers' = xfers
      /\ c.cmd = "enable" /\ ok => s \in enabled_slots'
      /\ c.cmd = "configure" => s = c.slot
  BY <1>4, <1>5 DEF Asked, CanSucceed
<1>7. /\ e \in PortEvents \cup Completions /\ e.kind = c.cmd /\ e.slot = s /\ e.ok = ok
      /\ Elements(events') = Elements(events) \cup {e}
  BY <1>2, <1>3, <1>5, EventTypes, AppendEventType
<1>8. ScanInv'
  BY <1>1 DEF InCalm, CalmParts, ScanInv
<1>9. CommandInv'
  <2>1. \A k : Asked(k)' <=> Asked(k)
    BY <1>1 DEF Asked, Waiting
  <2>2. e.kind = "configure" => devices_[e.slot] # None
    BY <1>3, <1>6, <1>7 DEF InCalm, CalmParts, CommandInv
  <2> QED  BY <1>1, <1>3, <1>4, <1>6, <1>7, <2>1, <2>2 DEF InCalm, CalmParts, CommandInv
<1>10. DeviceInv'
  <2>1. e.kind # "transfer"
    BY <1>6, <1>7
  <2> QED  BY <1>1, <1>6, <1>7, <2>1
           DEF InCalm, CalmParts, DeviceInv, Untouched, NoDevice, NoTransfer, Waiting
<1>11. SlotInv'
  BY <1>1, <1>6, <1>7 DEF InCalm, CalmParts, SlotInv, Waiting
<1>12. AnswerInv'
  <2> SUFFICES ASSUME stage # 0 PROVE AnswerInv'
    BY <1>1 DEF AnswerInv
  <2>1. IsAnswered(c) <=> c.cmd # "noop"
    BY <1>6 DEF IsAnswered
  <2>2. IsAnswer(e) <=> c.cmd # "noop"
    BY <1>6, <1>7 DEF IsAnswer
  <2>3. OneEach /\ (Ordered => ~ Moving /\ ~ Reported /\ ~ Resetting /\ ~ Told)
    BY DEF InCalm, CalmParts, AnswerInv
  <2>4. IsAnswered(c) => Ordered
    BY <1>3 DEF Ordered
  <2>5. /\ Once(cmds', AnswerCommands)
        /\ IsAnswered(c) => \A x \in Elements(cmds') : ~ IsAnswered(x)
    <3>1. /\ Once(cmds', AnswerCommands)
          /\ c \in AnswerCommands => \A x \in Elements(cmds') : x \notin AnswerCommands
      BY <1>1, <1>2, <2>3, TailOnce DEF OneEach
    <3>2. Elements(cmds') \subseteq Commands
      BY <1>2, <1>3, ElementTypes
    <3> QED  BY <1>3, <3>1, <3>2 DEF AnswerCommands
  <2>6. Once(events', AnswerEvents)
    BY <1>2, <1>5, <1>7, <2>1, <2>2, <2>3, <2>4, PostedOnce DEF OneEach
  <2>7. AnswerCommands' = AnswerCommands /\ AnswerEvents' = AnswerEvents
    BY <1>1, SameAnswers DEF AnswerCommands, IsAnswered
  <2>8. OneEach'
    BY <1>1, <1>6, <2>3, <2>5, <2>6, <2>7, SameAnswers DEF OneEach
  <2>9. /\ Told' <=> Told
        /\ Moving' <=> Moving
        /\ Resetting' <=> Resetting
        /\ Waiting' <=> Waiting
    BY <1>1, <1>6, SameAnswers DEF Told, Moving, Resetting, Waiting
  <2>10. CASE c.cmd = "noop"
    <3>1. (Ordered' <=> Ordered) /\ (Reported' <=> Reported)
      BY <1>1, <1>3, <1>7, <2>1, <2>2, <2>10, SameAnswers DEF Ordered, Reported
    <3> QED  BY <1>1, <2>8, <2>9, <3>1 DEF InCalm, CalmParts, AnswerInv
  <2>11. CASE c.cmd # "noop"
    <3>1. Reported' /\ ~ Ordered'
      BY <1>1, <1>7, <2>1, <2>2, <2>5, <2>11, SameAnswers DEF Ordered, Reported
    <3> QED  BY <1>1, <2>1, <2>3, <2>4, <2>8, <2>9, <2>11, <3>1
             DEF InCalm, CalmParts, AnswerInv
  <2> QED  BY <2>10, <2>11
<1> QED  BY <1>8, <1>9, <1>10, <1>11, <1>12 DEF CalmParts

LEMMA CompleteTransferCalm ==
  ASSUME InCalm, NEW s \in Slots, CompleteTransfer(s) \/ Report(s)
  PROVE  CalmParts'
<1> USE DEF portsc, tables, initTask, mainTask
<1>1. UNCHANGED <<connected, csc, prc, enabled_slots, cmds, initializing_ports, slot_num_, devices_,
                  stage, at, port_num, slot_num, inbox, main, port>>
  BY DEF CompleteTransfer, Report
<1>2. PICK ok \in BOOLEAN : events' = Append(events, [kind |-> "transfer", slot |-> s, ok |-> ok])
  BY DEF CompleteTransfer, Report
<1> DEFINE e == [kind |-> "transfer", slot |-> s, ok |-> ok]
<1>3. /\ e \in PortEvents \cup Completions /\ e.kind = "transfer" /\ e.slot = s
      /\ Elements(events') = Elements(events) \cup {e}
      /\ TypeOK
  BY <1>2, EventTypes, AppendEventType DEF InCalm, TurnInv
<1>4. s \in enabled_slots /\ devices_[s] # None /\ (stage = 3 => devices_[s] # port_num)
  <2>1. CASE CompleteTransfer(s)
    BY <1>3, <2>1 DEF InCalm, CalmParts, DeviceInv, NoTransfer, CompleteTransfer, TypeOK
  <2>2. CASE Report(s)
    BY <2>2 DEF Report
  <2> QED  BY <2>1, <2>2
<1>5. xfers' = xfers \ {s} /\ (Mine(s) => s \in xfers)
  <2>1. CASE CompleteTransfer(s)
    BY <2>1 DEF CompleteTransfer
  <2>2. CASE Report(s)
    BY <2>2 DEF Report, Mine
  <2> QED  BY <2>1, <2>2
<1>6. ScanInv'
  BY <1>1 DEF InCalm, CalmParts, ScanInv
<1>7. CommandInv'
  <2>1. \A k : Asked(k)' <=> Asked(k)
    BY <1>1 DEF Asked, Waiting
  <2> QED  BY <1>1, <1>3, <2>1 DEF InCalm, CalmParts, CommandInv
<1>8. DeviceInv'
  BY <1>1, <1>3, <1>4, <1>5
  DEF InCalm, CalmParts, DeviceInv, Untouched, NoDevice, NoTransfer, Waiting
<1>9. SlotInv'
  BY <1>1, <1>3, <1>4 DEF InCalm, CalmParts, SlotInv, Waiting
<1>10. AnswerInv'
  <2> SUFFICES ASSUME stage # 0 PROVE AnswerInv'
    BY <1>1 DEF AnswerInv
  <2>1. /\ OneEach
        /\ Moving => ~ Ordered /\ ~ Reported /\ ~ Resetting /\ ~ Told
    BY DEF InCalm, CalmParts, AnswerInv
  <2>2. (IsAnswer(e) <=> Mine(s)) /\ (Mine(s) => Moving)
    BY <1>3, <1>5 DEF IsAnswer, Moving
  <2>3. Once(events', AnswerEvents)
    BY <1>2, <1>3, <2>1, <2>2, PostedOnce DEF OneEach
  <2>4. AnswerCommands' = AnswerCommands /\ AnswerEvents' = AnswerEvents
    BY <1>1, SameAnswers DEF AnswerCommands, IsAnswered
  <2>5. OneEach'
    BY <1>1, <1>5, <2>1, <2>3, <2>4, SameAnswers DEF OneEach
  <2>6. /\ Told' <=> Told
        /\ Ordered' <=> Ordered
        /\ Resetting' <=> Resetting
        /\ Waiting' <=> Waiting
    BY <1>1, SameAnswers DEF Told, Ordered, Resetting, Waiting
  <2>7. CASE ~ Mine(s)
    <3>1. (Moving' <=> Moving) /\ (Reported' <=> Reported)
      BY <1>1, <1>3, <1>5, <2>2, <2>7, SameAnswers DEF Moving, Reported
    <3> QED  BY <1>1, <2>5, <2>6, <3>1 DEF InCalm, CalmParts, AnswerInv
  <2>8. CASE Mine(s)
    <3>1. Reported' /\ ~ Moving'
      BY <1>1, <1>3, <1>5, <2>1, <2>2, <2>8, SameAnswers DEF OneEach, Moving, Reported
    <3> QED  BY <1>1, <2>1, <2>2, <2>5, <2>6, <2>8, <3>1 DEF InCalm, CalmParts, AnswerInv
  <2> QED  BY <2>7, <2>8
<1> QED  BY <1>6, <1>7, <1>8, <1>9, <1>10 DEF CalmParts

LEMMA HardwareCalm ==
  ASSUME InCalm, Hardware, plugs' = 0
  PROVE  CalmParts'
<1>1. ASSUME NEW p \in Ports, Plug(p) PROVE FALSE
  BY <1>1 DEF Plug, InCalm, Calm
<1> QED  BY <1>1, CompleteCommandCalm, CompleteTransferCalm DEF Hardware

\* AllPortsInit.
LEMMA ScanCalm ==
  ASSUME InCalm, ClearChanges \/ PushConnected
  PROVE  CalmParts'
<1> USE DEF xhc, tables, initTask
<1>1. /\ main \in {"scan", "push"} /\ port \in Ports
      /\ UNCHANGED <<connected, enabled_slots, cmds, xfers, events, slot_num_, devices_,
                     stage, at, port_num, slot_num, inbox>>
  BY DEF ClearChanges, PushConnected, InCalm, TurnInv, ControlInv, portsc
<1>2. /\ \A p \in Ports : p \in Nat
      /\ csc \in [Ports -> BOOLEAN] /\ prc \in [Ports -> BOOLEAN]
      /\ \A p \in Elements(initializing_ports) : p \in Ports /\ p > port
      /\ \A p \in Ports : csc[p] => (main = "scan" /\ p <= port) \/ (main = "push" /\ p < port)
  BY <1>1, Numbers, ElementTypes DEF InCalm, TurnInv, TypeOK, CalmParts, ScanInv
<1>3. stage # 0 => port_num \in Ports /\ port_num > port
  BY <1>1, <1>2, FrontPort DEF InCalm
<1>4. CommandInv' /\ SlotInv'
  BY <1>1 DEF InCalm, CalmParts, CommandInv, SlotInv, Asked, Waiting
<1>5. CASE ClearChanges
  <2>1. /\ main = "scan" /\ main' = "push"
        /\ csc' = [csc EXCEPT ![port] = FALSE] /\ prc' = [prc EXCEPT ![port] = FALSE]
        /\ UNCHANGED <<initializing_ports, port>>
    BY <1>5 DEF ClearChanges
  <2>2. ScanInv'
    <3>1. \A p \in Ports : csc'[p] => p < port
      BY <1>1, <1>2, <2>1
    <3> QED  BY <1>1, <2>1, <3>1 DEF InCalm, CalmParts, ScanInv
  <2>3. DeviceInv'
    <3>1. \A p \in Ports : prc'[p] => prc[p]
      BY <1>1, <1>2, <2>1
    <3> QED  BY <1>1, <2>1, <3>1
             DEF InCalm, CalmParts, DeviceInv, Untouched, NoDevice, NoTransfer, Waiting
  <2>4. AnswerInv'
    <3>1. CASE stage = 0
      BY <1>1, <3>1 DEF AnswerInv
    <3>2. CASE stage # 0
      <4>1. port_num # port /\ port_num \in Ports
        BY <1>1, <1>2, <1>3, <3>2
      <4>2. prc'[port_num] = prc[port_num]
        BY <1>2, <2>1, <4>1
      <4>3. Waiting' <=> Waiting
        BY <1>1 DEF Waiting
      <4> QED  BY <1>1, <4>2, <4>3, AnswersLeft
    <3> QED  BY <3>1, <3>2
  <2> QED  BY <1>4, <2>2, <2>3, <2>4 DEF CalmParts
<1>6. CASE PushConnected
  <2>1. /\ main = "push" /\ UNCHANGED <<csc, prc>>
        /\ \/ port > 1 /\ port' = port - 1 /\ main' = "scan"
           \/ port = 1 /\ port' = None /\ main' = "wake"
        /\ PushPort(port) \/ UNCHANGED initializing_ports
    BY <1>6 DEF PushConnected, portsc
  <2>2. Elements(initializing_ports') \subseteq Elements(initializing_ports) \cup {port}
    BY <1>1, <2>1, PushPortStep DEF InCalm
  <2>3. ScanInv'
    <3>1. \A p \in Ports : csc'[p] => main' = "scan" /\ p <= port'
      BY <1>1, <1>2, <2>1, Numbers DEF Ports
    <3>2. main' = "scan" => \A p \in Elements(initializing_ports') : p > port'
      BY <1>1, <1>2, <2>1, <2>2
    <3> QED  BY <1>1, <2>1, <3>1, <3>2 DEF InCalm, CalmParts, ScanInv
  <2>4. DeviceInv'
    <3>1. \A p \in Ports : Untouched(p)' => Untouched(p)
      BY <1>1, <1>2, <2>1, <2>2 DEF Untouched
    <3> QED  BY <1>1, <2>1, <3>1
             DEF InCalm, CalmParts, DeviceInv, NoDevice, NoTransfer, Waiting
  <2>5. AnswerInv'
    BY <1>1, <2>1, AnswersLeft DEF Waiting
  <2> QED  BY <1>4, <2>3, <2>4, <2>5 DEF CalmParts
<1> QED  BY <1>5, <1>6

LEMMA WakeupCalm ==
  ASSUME InCalm, WakeupAgain, ~ (at = "asleep" /\ at' = "woken" /\ inbox' = <<>>)
  PROVE  CalmParts'
<1> USE DEF portsc, xhc, tables
<1>1. /\ at' = at /\ main = "wake" /\ main' = "idle" /\ port = None
      /\ UNCHANGED <<connected, csc, prc, enabled_slots, cmds, xfers, events, initializing_ports,
                     slot_num_, devices_, stage, port_num, slot_num, inbox, port>>
  BY DEF WakeupAgain, Wakeup, InCalm, Calm, InboxInv, CalmParts, ScanInv
<1>2. ScanInv'
  BY <1>1 DEF InCalm, CalmParts, ScanInv
<1>3. CommandInv' /\ SlotInv'
  BY <1>1 DEF InCalm, CalmParts, CommandInv, SlotInv, Asked, Waiting
<1>4. DeviceInv'
  BY <1>1 DEF InCalm, CalmParts, DeviceInv, Untouched, NoDevice, NoTransfer, Waiting
<1>5. AnswerInv'
  BY <1>1, AnswersLeft DEF Waiting
<1> QED  BY <1>2, <1>3, <1>4, <1>5 DEF CalmParts

\* An event is taken from the ring, and with it the only answer among them.
LEMMA TakenOnce ==
  ASSUME InCalm, NEW kind, Event(kind), stage # 0
  PROVE  /\ Once(events', AnswerEvents)
         /\ IsAnswer(Head(events)) => \A e \in Elements(events') : ~ IsAnswer(e)
         /\ IsAnswer(Head(events)) => Reported
<1> DEFINE T == PortEvents \cup Completions
<1>1. events \in Seq(T) /\ events # <<>> /\ events' = Tail(events) /\ Once(events, AnswerEvents)
  BY DEF Event, InCalm, TurnInv, TypeOK, CalmParts, AnswerInv, OneEach
<1> HIDE DEF T
<1>2. /\ Once(events', AnswerEvents)
      /\ Head(events) \in AnswerEvents => \A e \in Elements(events') : e \notin AnswerEvents
      /\ Head(events) \in T /\ Head(events) \in Elements(events)
      /\ Elements(events') \subseteq Elements(events)
      /\ Elements(events) \subseteq T
  <2>1. Elements(events) \subseteq T
    BY <1>1 DEF Elements
  <2> QED  BY <1>1, <2>1, TailOnce, TailElements
<1> QED  BY <1>2 DEF T, AnswerEvents, Reported

\* An event that says nothing to the init task; a transfer may start that is not its own.
LEMMA CalmPopped ==
  ASSUME InCalm, NEW kind, Event(kind), ~ IsAnswer(Head(events)),
         xfers \subseteq xfers',
         \A s \in xfers' \ xfers :
           ~ Mine(s) /\ devices_[s] # None /\ (stage = 3 => devices_[s] # port_num),
         UNCHANGED <<connected, csc, prc, enabled_slots, cmds, initializing_ports, slot_num_,
                     devices_, initTask, main, port>>
  PROVE  CalmParts'
<1> USE DEF initTask
<1>1. Elements(events) = Elements(events') \cup {Head(events)}
  BY EventTaken DEF InCalm, TurnInv
<1>2. ScanInv'
  BY DEF InCalm, CalmParts, ScanInv
<1>3. CommandInv' /\ SlotInv'
  BY <1>1 DEF InCalm, CalmParts, CommandInv, SlotInv, Asked, Waiting
<1>4. DeviceInv'
  BY <1>1 DEF InCalm, CalmParts, DeviceInv, Untouched, NoDevice, NoTransfer, Waiting
<1>5. AnswerInv'
  <2> SUFFICES ASSUME stage # 0 PROVE AnswerInv'
    BY DEF AnswerInv
  <2>1. OneEach'
    <3>1. AnswerCommands' = AnswerCommands /\ AnswerEvents' = AnswerEvents
      BY SameAnswers DEF AnswerCommands, IsAnswered
    <3>2. Once(events', AnswerEvents) /\ OneEach
      BY TakenOnce DEF InCalm, CalmParts, AnswerInv
    <3> QED  BY <3>1, <3>2, SameAnswers DEF OneEach
  <2>2. /\ Told' <=> Told
        /\ Ordered' <=> Ordered
        /\ Moving' <=> Moving
        /\ Reported' <=> Reported
        /\ Resetting' <=> Resetting
        /\ Waiting' <=> Waiting
    BY <1>1, SameAnswers DEF Told, Ordered, Moving, Reported, Resetting, Waiting
  <2> QED  BY <2>1, <2>2 DEF InCalm, CalmParts, AnswerInv
<1> QED  BY <1>2, <1>3, <1>4, <1>5 DEF CalmParts

\* An event that wakes the init task: while that works on a port, the event is the
\* answer it waits for.
LEMMA CalmTold ==
  ASSUME InCalm, NEW kind, Event(kind), NEW ok \in BOOLEAN, SendMessage(ok),
         ~ (Len(inbox') > Len(inbox) /\ at # "asleep"),
         stage # 0 => IsAnswer(Head(events)) \/ (Resetting /\ ~ prc'[port_num]),
         \A p \in Ports : prc'[p] => prc[p],
         stage = 2 /\ ok => slot_num_'[port_num] \in enabled_slots,
         xfers \subseteq xfers',
         \A s \in xfers' \ xfers :
           ~ Mine(s) /\ devices_[s] # None /\ (stage = 3 => devices_[s] # port_num),
         UNCHANGED <<connected, csc, enabled_slots, cmds, initializing_ports, devices_, port>>
  PROVE  CalmParts'
<1>1. /\ at = "asleep" /\ at' = "woken" /\ inbox = <<>> /\ inbox' # <<>> /\ inbox'[1] = ok
      /\ main = "idle" /\ main' = "wake" /\ UNCHANGED <<stage, port_num, slot_num>>
      /\ Waiting /\ Waiting'
  BY MessageWakes DEF Event, InCalm, Calm, TurnInv, Waiting
<1>2. Elements(events) = Elements(events') \cup {Head(events)}
  BY EventTaken DEF InCalm, TurnInv
<1>3. ScanInv'
  BY <1>1 DEF InCalm, CalmParts, ScanInv
<1>4. CommandInv'
  BY <1>1, <1>2 DEF InCalm, CalmParts, CommandInv, Asked
<1>5. DeviceInv'
  BY <1>1, <1>2 DEF InCalm, CalmParts, DeviceInv, Untouched, NoDevice, NoTransfer
<1>6. SlotInv'
  <2>1. stage' = 2 /\ at' = "woken" /\ inbox'[1] => slot_num_'[port_num] \in enabled_slots
    BY <1>1
  <2> QED  BY <1>1, <1>2, <2>1 DEF InCalm, CalmParts, SlotInv
<1>7. AnswerInv'
  <2> SUFFICES ASSUME stage # 0 PROVE AnswerInv'
    BY <1>1 DEF AnswerInv
  <2>1. /\ OneEach
        /\ Reported => ~ Ordered /\ ~ Moving /\ ~ Resetting
        /\ Resetting => ~ Ordered /\ ~ Moving /\ ~ Reported
    BY DEF InCalm, CalmParts, AnswerInv
  <2>2. /\ Once(events', AnswerEvents)
        /\ IsAnswer(Head(events)) => \A e \in Elements(events') : ~ IsAnswer(e)
        /\ IsAnswer(Head(events)) => Reported
    BY TakenOnce
  <2>3. \A e \in Elements(events') : ~ IsAnswer(e)
    BY <1>2, <2>1, <2>2 DEF Reported
  <2>4. ~ Ordered /\ ~ Moving /\ ~ (stage = 1 /\ prc'[port_num])
    <3>1. stage = 1 /\ prc'[port_num] => Resetting
      BY FrontPort DEF InCalm, Resetting
    <3> QED  BY <2>1, <2>2, <3>1
  <2>5. OneEach'
    <3>1. AnswerCommands' = AnswerCommands /\ AnswerEvents' = AnswerEvents
      BY <1>1, SameAnswers DEF AnswerCommands, IsAnswered
    <3> QED  BY <1>1, <2>1, <2>2, <3>1, SameAnswers DEF OneEach
  <2>6. Told' /\ ~ Ordered' /\ ~ Moving' /\ ~ Reported' /\ ~ Resetting'
    BY <1>1, <2>3, <2>4, SameAnswers DEF Told, Ordered, Moving, Reported, Resetting
  <2> QED  BY <1>1, <2>5, <2>6 DEF AnswerInv
<1> QED  BY <1>3, <1>4, <1>5, <1>6, <1>7 DEF CalmParts

LEMMA PortStatusCalm ==
  ASSUME InCalm, OnPortStatusChange, ~ (Len(inbox') > Len(inbox) /\ at # "asleep")
  PROVE  CalmParts'
<1> DEFINE p == Head(events).port
<1>1. Event("port") /\ main = "idle" /\ p \in Ports /\ Head(events).kind = "port"
  <2>1. Event("port")
    BY DEF OnPortStatusChange
  <2> QED  BY <2>1, EventTaken, EventTypes DEF InCalm, TurnInv
<1>2. ~ csc[p]
  BY <1>1 DEF InCalm, CalmParts, ScanInv
<1>3. UNCHANGED <<connected, enabled, csc, enabled_slots, xfers, slot_num_, slot_to_port_,
                  devices_, phase, bounds>>
  BY DEF OnPortStatusChange
<1>4. ~ IsAnswer(Head(events))
  BY <1>1 DEF IsAnswer
<1>5. CASE /\ prc[p] /\ prc' = [prc EXCEPT ![p] = FALSE] /\ SendMessage(TRUE)
           /\ UNCHANGED <<port, initializing_ports, cmds>>
  <2>1. p = port_num /\ stage = 1
    BY <1>1, <1>5 DEF InCalm, CalmParts, DeviceInv
  <2>2. Resetting /\ ~ prc'[port_num] /\ \A q \in Ports : prc'[q] => prc[q]
    <3>1. prc \in [Ports -> BOOLEAN]
      BY DEF InCalm, TurnInv, TypeOK
    <3> QED  BY <1>1, <1>5, <2>1, <3>1 DEF Resetting
  <2>3. /\ stage # 2 /\ xfers' = xfers
        /\ UNCHANGED <<connected, csc, enabled_slots, cmds, initializing_ports, devices_, port>>
    BY <1>3, <1>5, <2>1
  <2> DEFINE ok == TRUE
  <2>4. ok \in BOOLEAN /\ SendMessage(ok)
    BY <1>5
  <2> HIDE DEF ok
  <2> QED  BY <1>1, <2>2, <2>3, <2>4, CalmTold
<1>6. CASE UNCHANGED <<prc, main, port, initializing_ports, cmds, initTask>>
  BY <1>1, <1>3, <1>4, <1>6, CalmPopped
<1> QED  BY <1>2, <1>5, <1>6 DEF OnPortStatusChange

LEMMA CommandCompletionCalm ==
  ASSUME InCalm, OnCommandCompletion, ~ (Len(inbox') > Len(inbox) /\ at # "asleep")
  PROVE  CalmParts'
<1> DEFINE e == Head(events)
<1>1. /\ UNCHANGED <<portsc, enabled_slots, cmds, xfers, initializing_ports, slot_to_port_,
                     devices_, phase, port, bounds>>
      /\ UNCHANGED <<connected, csc, prc>>
  BY DEF OnCommandCompletion, portsc
<1>2. ASSUME NEW k \in {"enable", "address", "evaluate", "configure", "noop"}, Event(k)
      PROVE  e.kind = k /\ e \in Elements(events) /\ e.slot \in Slots /\ e.ok \in BOOLEAN
  <2>1. e.kind = k /\ e \in Elements(events) /\ e \in PortEvents \cup Completions
    BY <1>2, EventTaken DEF InCalm, TurnInv
  <2> QED  BY <2>1, EventTypes
<1>3. CASE Event("noop") /\ UNCHANGED <<main, initTask, slot_num_>>
  <2>1. ~ IsAnswer(e)
    BY <1>2, <1>3 DEF IsAnswer
  <2> QED  BY <1>1, <1>3, <2>1, CalmPopped
<1>4. ASSUME NEW k \in {"enable", "address", "evaluate", "configure"}, Event(k),
             TellInitTask(e.ok),
             slot_num_' = IF k = "enable" /\ initializing_ports # <<>>
                          THEN [slot_num_ EXCEPT ![Head(initializing_ports)] = e.slot]
                          ELSE slot_num_
      PROVE  CalmParts'
  <2>1. e.kind = k /\ e \in Elements(events) /\ e.slot \in Slots /\ e.ok \in BOOLEAN
    BY <1>2, <1>4
  <2>2. IsAnswer(e) /\ Asked(k) /\ stage # 0
    BY <2>1 DEF InCalm, CalmParts, CommandInv, IsAnswer, Asked
  <2>3. /\ initializing_ports # <<>> /\ Head(initializing_ports) = port_num
        /\ port_num \in Ports /\ SendMessage(e.ok)
    BY <1>4, <2>2, FrontPort DEF InCalm, TellInitTask
  <2>4. stage = 2 /\ e.ok => slot_num_'[port_num] \in enabled_slots
    <3>1. stage = 2 => k = "enable"
      BY <2>2 DEF Asked
    <3>2. k = "enable" /\ e.ok => e.slot \in enabled_slots
      BY <2>1 DEF InCalm, CalmParts, CommandInv
    <3>3. slot_num_ \in [Ports -> Slots \cup {Unset}]
      BY DEF InCalm, TurnInv, TypeOK
    <3> QED  BY <1>4, <2>3, <3>1, <3>2, <3>3
  <2> QED  BY <1>1, <1>4, <2>1, <2>2, <2>3, <2>4, CalmTold
<1>5. CASE /\ Event("enable") /\ TellInitTask(e.ok)
           /\ slot_num_' = IF initializing_ports = <<>> THEN slot_num_
                           ELSE [slot_num_ EXCEPT ![Head(initializing_ports)] = e.slot]
  BY <1>4, <1>5
<1>6. CASE (Event("address") \/ Event("evaluate")) /\ TellInitTask(e.ok) /\ UNCHANGED slot_num_
  BY <1>4, <1>6
<1>7. CASE /\ Event("configure") /\ UNCHANGED slot_num_
           /\ \/ devices_[e.slot] = None /\ main' = "panic" /\ UNCHANGED initTask
              \/ devices_[e.slot] # None /\ TellInitTask(e.ok)
  <2>1. devices_[e.slot] # None
    BY <1>2, <1>7 DEF InCalm, CalmParts, CommandInv
  <2> QED  BY <1>4, <1>7, <2>1
<1> QED  BY <1>3, <1>5, <1>6, <1>7 DEF OnCommandCompletion

\* A control transfer of a phase has succeeded, and the next one starts.
LEMMA CalmRestarted ==
  ASSUME InCalm, Event("transfer"), Mine(Head(events).slot),
         xfers' = xfers \cup {Head(events).slot},
         UNCHANGED <<connected, csc, prc, enabled_slots, cmds, initializing_ports, slot_num_,
                     devices_, initTask, main, port>>
  PROVE  CalmParts'
<1> USE DEF initTask
<1> DEFINE e == Head(events)
<1>1. /\ Elements(events) = Elements(events') \cup {e} /\ e.kind = "transfer"
      /\ devices_[e.slot] # None /\ stage \in 4 .. 7 /\ IsAnswer(e)
  <2>1. Elements(events) = Elements(events') \cup {e} /\ e.kind = "transfer"
    BY EventTaken DEF InCalm, TurnInv
  <2> QED  BY <2>1 DEF InCalm, CalmParts, DeviceInv, NoTransfer, Mine, IsAnswer
<1>2. ScanInv'
  BY DEF InCalm, CalmParts, ScanInv
<1>3. CommandInv' /\ SlotInv'
  BY <1>1 DEF InCalm, CalmParts, CommandInv, SlotInv, Asked, Waiting
<1>4. DeviceInv'
  BY <1>1 DEF InCalm, CalmParts, DeviceInv, Untouched, NoDevice, NoTransfer, Waiting
<1>5. AnswerInv'
  <2>1. /\ OneEach
        /\ Reported => ~ Told /\ ~ Ordered /\ ~ Moving /\ ~ Resetting
        /\ Reported => Waiting
    BY <1>1 DEF InCalm, CalmParts, AnswerInv
  <2>2. /\ Once(events', AnswerEvents) /\ Reported
        /\ \A x \in Elements(events') : ~ IsAnswer(x)
    BY <1>1, TakenOnce
  <2>3. OneEach'
    <3>1. AnswerCommands' = AnswerCommands /\ AnswerEvents' = AnswerEvents
      BY SameAnswers DEF AnswerCommands, IsAnswered
    <3>2. \A s \in xfers' : Mine(s)' => s = e.slot
      BY <2>1, <2>2, SameAnswers DEF Moving
    <3> QED  BY <2>1, <2>2, <3>1, <3>2 DEF OneEach
  <2>4. Moving' /\ Waiting'
    BY <2>1, <2>2, SameAnswers DEF Moving, Waiting
  <2>5. ~ Told' /\ ~ Ordered' /\ ~ Reported' /\ ~ Resetting'
    BY <2>1, <2>2, SameAnswers DEF Told, Ordered, Reported, Resetting
  <2> QED  BY <2>3, <2>4, <2>5 DEF AnswerInv
<1> QED  BY <1>2, <1>3, <1>4, <1>5 DEF CalmParts

LEMMA TransferCalm ==
  ASSUME InCalm, OnTransfer, ~ (Len(inbox') > Len(inbox) /\ at # "asleep")
  PROVE  CalmParts'
<1> DEFINE s == Head(events).slot
           ok == Head(events).ok
<1>1. Event("transfer")
  BY DEF OnTransfer
<1>2. /\ Head(events).kind = "transfer" /\ s \in Slots /\ ok \in BOOLEAN
      /\ Head(events) \in Elements(events)
  <2>1. /\ Head(events).kind = "transfer" /\ Head(events) \in Elements(events)
        /\ Head(events) \in PortEvents \cup Completions
    BY <1>1, EventTaken DEF InCalm, TurnInv
  <2> QED  BY <2>1, EventTypes
<1>3. /\ devices_[s] # None /\ s \in enabled_slots /\ (stage = 3 => devices_[s] # port_num)
      /\ IsAnswer(Head(events)) <=> Mine(s)
  BY <1>2 DEF InCalm, CalmParts, DeviceInv, SlotInv, NoTransfer, IsAnswer
<1>4. /\ UNCHANGED <<portsc, enabled_slots, cmds, initializing_ports, slot_num_, slot_to_port_,
                     devices_, port, bounds>>
      /\ UNCHANGED <<connected, csc, prc>>
      /\ phase \in [Slots -> 0 .. 4]
  BY DEF OnTransfer, portsc, InCalm, TurnInv, TypeOK
<1>5. PICK front \in BOOLEAN :
        /\ FrontIs(devices_[s], front)
        /\ \/ front /\ (~ ok \/ phase'[s] \in {0, 4}) /\ SendMessage(ok)
           \/ ~ (front /\ (~ ok \/ phase'[s] \in {0, 4})) /\ UNCHANGED <<main, initTask>>
  BY <1>3 DEF OnTransfer
<1>6. xfers' = xfers \/ xfers' = xfers \cup {s}
  BY <1>3 DEF OnTransfer, StartTransfer
<1>7. CASE ~ Mine(s)
  <2>1. CASE SendMessage(ok) /\ front
    <3>1. at = "asleep" /\ (stage # 0 => stage \in 1 .. 7)
      <4>1. at = "asleep"
        BY <1>2, <2>1, MessageWakes DEF InCalm, Calm, TurnInv
      <4> QED  BY <4>1 DEF InCalm, TurnInv, TypeOK, ControlInv, Waiting
    <3>2. stage = 0
      <4>1. ASSUME stage # 0 PROVE FALSE
        <5>1. devices_[s] = port_num
          BY <1>5, <2>1, <4>1, FrontPort DEF FrontIs, InCalm
        <5>2. stage \in 1 .. 2
          BY <1>3, <1>7, <3>1, <4>1, <5>1 DEF Mine
        <5> QED  BY <1>2, <5>1, <5>2 DEF InCalm, CalmParts, DeviceInv, NoDevice
      <4> QED  BY <4>1
    <3> QED  BY <1>1, <1>2, <1>3, <1>4, <1>6, <1>7, <2>1, <3>2, CalmTold
  <2>2. CASE UNCHANGED <<main, initTask>>
    BY <1>1, <1>3, <1>4, <1>6, <1>7, <2>2, CalmPopped
  <2> QED  BY <1>5, <2>1, <2>2
<1>8. CASE Mine(s)
  <2>1. /\ devices_[s] = port_num /\ stage \in 4 .. 7
        /\ initializing_ports # <<>> /\ Head(initializing_ports) = port_num
    BY <1>8, FrontPort DEF Mine, InCalm
  <2>2. front
    BY <1>5, <2>1 DEF FrontIs
  <2>3. CASE ~ ok \/ phase'[s] \in {0, 4}
    <3>1. xfers' = xfers
      <4>1. CASE ~ Advances(s, ok)
        BY <4>1 DEF OnTransfer
      <4>2. CASE Advances(s, ok)
        <5>1. phase' = [phase EXCEPT ![s] = @ + 1] /\ phase[s] \in 1 .. 3 /\ ok
          BY <4>2 DEF OnTransfer, Advances
        <5>2. phase[s] = 3
          BY <1>2, <1>4, <2>3, <5>1
        <5> QED  BY <4>2, <5>2 DEF OnTransfer
      <4> QED  BY <4>1, <4>2
    <3>2. SendMessage(ok)
      BY <1>5, <2>2, <2>3
    <3> QED  BY <1>1, <1>2, <1>3, <1>4, <1>8, <2>1, <3>1, <3>2, CalmTold
  <2>4. CASE ok /\ phase'[s] \notin {0, 4}
    <3>1. Advances(s, ok) /\ phase[s] < 3
      <4>1. phase' = IF Advances(s, ok) THEN [phase EXCEPT ![s] = @ + 1] ELSE phase
        BY DEF OnTransfer
      <4>2. phase[s] \in 0 .. 4
        BY <1>2, <1>4
      <4>3. Advances(s, ok) <=> phase[s] \in 1 .. 3
        BY <1>3, <2>4 DEF Advances
      <4> QED  BY <1>2, <1>4, <2>4, <4>1, <4>2, <4>3
    <3>2. StartTransfer(s)
      BY <3>1 DEF OnTransfer
    <3>3. xfers' = xfers \cup {s} /\ UNCHANGED <<main, initTask>>
      BY <1>3, <1>5, <2>4, <3>2 DEF StartTransfer
    <3> QED  BY <1>1, <1>4, <1>8, <3>3, CalmRestarted
  <2> QED  BY <2>3, <2>4
<1> QED  BY <1>7, <1>8

LEMMA MainTaskCalm ==
  ASSUME InCalm, MainTask,
         ~ (Len(inbox') > Len(inbox) /\ at # "asleep"),
         ~ (at = "asleep" /\ at' = "woken" /\ inbox' = <<>>)
  PROVE  CalmParts'
<1>1. ASSUME TellOfAttached \/ ClearConnectStatusChanged PROVE FALSE
  BY <1>1 DEF TellOfAttached, ClearConnectStatusChanged, InCalm, CalmParts, ScanInv
<1>2. ASSUME OnSlotDisabled PROVE FALSE
  <2>1. Event("disable")
    BY <1>2 DEF OnSlotDisabled
  <2>2. Head(events).kind = "disable" /\ Head(events) \in Elements(events)
    BY <2>1, EventTaken DEF InCalm, TurnInv
  <2> QED  BY <2>2 DEF InCalm, CalmParts, CommandInv, Asked
<1> QED  BY <1>1, <1>2, ScanCalm, WakeupCalm, PortStatusCalm, CommandCompletionCalm,
            TransferCalm DEF MainTask

\* Plugging is counted.
LEMMA PlugsCount ==
  ASSUME [Next]_vars
  PROVE  plugs' = plugs \/ plugs' = plugs + 1
  BY DEF Next, Hardware, Plug, CompleteCommand, CompleteTransfer, Report, InitUSBDevTask,
     TakePort, ResetPort, Reset, EnableSlot, AddressDevice, BeforeInitialize,
     ReConfigureDefaultControlPipe, StartInitialize, ConfigureEndpoints,
     OnEndpointsConfigured, Finish, Sleep, ReceiveMessage, MainTask, ClearChanges,
     PushConnected, WakeupAgain, ClearConnectStatusChanged, OnPortStatusChange,
     TellOfAttached, OnCommandCompletion, OnSlotDisabled, OnTransfer, bounds, vars

LEMMA CalmStep ==
  ASSUME TurnInv, InboxInv, CalmInv, plugs \in Nat, [Next]_vars
  PROVE  CalmInv'
<1> SUFFICES ASSUME Calm' PROVE CalmParts'
  BY DEF CalmInv
<1>1. CASE UNCHANGED vars
  <2>1. Calm /\ CalmParts
    BY <1>1 DEF vars, wakeups, bounds, Calm, CalmInv
  <2> QED  BY <1>1, <2>1 DEF vars, portsc, xhc, tables, initTask, mainTask, bounds, wakeups,
           CalmParts, ScanInv, CommandInv, Asked, Waiting, DeviceInv, Untouched, NoDevice,
           NoTransfer, SlotInv, AnswerInv, OneEach, Told, Ordered, Moving, Reported, Resetting,
           AnswerCommands, AnswerEvents, IsAnswered, IsAnswer, Mine
<1>2. CASE Next
  <2>1. /\ ~ early /\ ~ idle
        /\ ~ (Len(inbox') > Len(inbox) /\ at # "asleep")
        /\ ~ (at = "asleep" /\ at' = "woken" /\ inbox' = <<>>)
    BY <1>2 DEF Next, Calm
  <2>2. plugs = 0
    BY <1>2, PlugsCount DEF Plug, Calm
  <2>3. InCalm /\ plugs' = 0
    BY <2>1, <2>2 DEF InCalm, Calm, CalmInv
  <2> QED  BY <1>2, <2>1, <2>3, HardwareCalm, InitTaskCalm, MainTaskCalm DEF Next
<1> QED  BY <1>1, <1>2

LEMMA InitInv == Init => IInv
<1> SUFFICES ASSUME Init PROVE IInv
  OBVIOUS
<1>1. TurnInv /\ plugs \in Nat
  BY InitTurnInv DEF Init
<1>2. InboxInv
  BY DEF Init, InboxInv
<1>3. /\ Elements(initializing_ports) = {}
      /\ \A c \in Elements(cmds) : c.cmd = "noop"
      /\ \A e \in Elements(events) : e.kind = "port"
  <2>1. Elements(initializing_ports) = {} /\ \A c \in Elements(cmds) : c.cmd = "noop"
    BY DEF Init, Elements
  <2>2. PICK n \in 0 .. MaxPorts : events \in [1 .. n -> PortEvents]
    BY DEF Init
  <2>3. \A e \in Elements(events) : e \in PortEvents
    BY <2>2 DEF Elements
  <2> QED  BY <2>1, <2>3 DEF PortEvents
<1>4. ScanInv
  BY <1>3, Numbers DEF Init, ScanInv, Ports
<1>5. CommandInv
  BY <1>3 DEF Init, CommandInv
<1>6. DeviceInv
  <2>1. \A p \in Ports : NoDevice(p)
    BY Numbers DEF Init, NoDevice
  <2> QED  BY <1>3, <2>1 DEF Init, DeviceInv, NoTransfer
<1>7. SlotInv /\ AnswerInv
  BY <1>3 DEF Init, SlotInv, AnswerInv
<1> QED  BY <1>1, <1>2, <1>4, <1>5, <1>6, <1>7 DEF IInv, CalmInv, CalmParts

LEMMA Invariance == Spec => []IInv
<1>1. IInv /\ [Next]_vars => IInv'
  <2> SUFFICES ASSUME IInv, [Next]_vars PROVE IInv'
    OBVIOUS
  <2>1. plugs' \in Nat
    BY PlugsCount DEF IInv
  <2> QED  BY <2>1, TurnStep, InboxStep, CalmStep DEF IInv
<1> QED  BY <1>1, InitInv, PTL DEF Spec

\* OnEvent and the init task stay in step (the comment on WaitEvent, xhci.cpp:54 and 61-63),
\* for any number of ports, slots and devices.
THEOREM TasksStayInStep == Spec => []InStep
<1>1. IInv => InStep
  <2> SUFFICES ASSUME IInv, ~ early, ~ idle
               PROVE  /\ at = "asleep" => inbox = <<>>
                      /\ at = "woken" => inbox # <<>>
                      /\ at # "panic"
                      /\ plugs = 0 => main # "panic" /\ at # "undefined"
    BY DEF InStep
  <2>1. /\ at # "woken" => inbox = <<>>
        /\ at = "woken" => Len(inbox) = 1
        /\ at # "panic"
    BY DEF IInv, InboxInv
  <2>2. at = "woken" => inbox # <<>>
    <3>1. Len(<<>>) # 1
      OBVIOUS
    <3> QED  BY <2>1, <3>1, Zenon
  <2>3. plugs = 0 => main # "panic" /\ at # "undefined"
    BY DEF IInv, CalmInv, Calm, CalmParts, ScanInv
  <2> QED  BY <2>1, <2>2, <2>3
<1> QED  BY <1>1, Invariance, PTL

\* A task that waits has exactly one answer coming, in exactly one place.
LEMMA AnswersOne ==
  ASSUME TurnInv, InboxInv, Calm, AnswerInv, stage # 0, Waiting
  PROVE  \E a : Answers = {a}
<1>1. /\ Told \/ Ordered \/ Moving \/ Reported \/ Resetting
      /\ OneEach
      /\ Told => ~ Ordered /\ ~ Moving /\ ~ Reported /\ ~ Resetting
      /\ Ordered => ~ Moving /\ ~ Reported /\ ~ Resetting
      /\ Moving => ~ Reported /\ ~ Resetting
      /\ Reported => ~ Resetting
  BY DEF AnswerInv
<1> DEFINE M == {<<"message", i>> : i \in DOMAIN inbox}
           C == {<<"command", i>> : i \in {j \in DOMAIN cmds : IsAnswered(cmds[j])}}
           X == {<<"transfer", slot>> : slot \in {s \in xfers : Mine(s)}}
           E == {<<"event", i>> : i \in {j \in DOMAIN events : IsAnswer(events[j])}}
           R == {<<"reset", p>> : p \in {q \in {port_num} : stage = 1 /\ prc[q]}}
<1>2. Answers = M \cup C \cup X \cup E \cup R
  BY DEF Answers
<1>3. ~ Told => M = {}
  BY DEF Told
<1>4. ~ Ordered => C = {}
  BY DEF Ordered, Elements
<1>5. ~ Moving => X = {}
  BY DEF Moving
<1>6. ~ Reported => E = {}
  BY DEF Reported, Elements
<1>7. ~ Resetting => R = {}
  BY DEF Resetting
<1>8. Told => M = {<<"message", 1>>}
  <2> SUFFICES ASSUME Told PROVE M = {<<"message", 1>>}
    OBVIOUS
  <2>1. Len(inbox) = 1 /\ inbox \in Seq(BOOLEAN)
    BY DEF Told, InboxInv, Calm, TurnInv, TypeOK
  <2>2. DOMAIN inbox = {1}
    BY <2>1
  <2> QED  BY <2>2
<1>9. Ordered => \E i : C = {<<"command", i>>}
  <2> SUFFICES ASSUME Ordered PROVE \E i : C = {<<"command", i>>}
    OBVIOUS
  <2>1. PICK i \in DOMAIN cmds : IsAnswered(cmds[i])
    BY DEF Ordered, Elements
  <2>2. \A j \in DOMAIN cmds : cmds[j] \in Commands
    BY DEF TurnInv, TypeOK
  <2>3. \A j \in DOMAIN cmds : IsAnswered(cmds[j]) => j = i
    BY <1>1, <2>1, <2>2 DEF OneEach, Once, AnswerCommands
  <2>4. C = {<<"command", i>>}
    BY <2>1, <2>3
  <2> QED  BY <2>4
<1>10. Moving => \E s : X = {<<"transfer", s>>}
  BY <1>1 DEF Moving, OneEach
<1>11. Reported => \E i : E = {<<"event", i>>}
  <2> SUFFICES ASSUME Reported PROVE \E i : E = {<<"event", i>>}
    OBVIOUS
  <2>1. PICK i \in DOMAIN events : IsAnswer(events[i])
    BY DEF Reported, Elements
  <2>2. \A j \in DOMAIN events : events[j] \in PortEvents \cup Completions
    BY DEF TurnInv, TypeOK
  <2>3. \A j \in DOMAIN events : IsAnswer(events[j]) => j = i
    BY <1>1, <2>1, <2>2 DEF OneEach, Once, AnswerEvents
  <2>4. E = {<<"event", i>>}
    BY <2>1, <2>3
  <2> QED  BY <2>4
<1>12. Resetting => R = {<<"reset", port_num>>}
  BY DEF Resetting
<1> HIDE DEF M, C, X, E, R
<1>13. CASE Told
  BY <1>1, <1>2, <1>4, <1>5, <1>6, <1>7, <1>8, <1>13
<1>14. CASE Ordered
  BY <1>1, <1>2, <1>3, <1>5, <1>6, <1>7, <1>9, <1>14
<1>15. CASE Moving
  BY <1>1, <1>2, <1>3, <1>4, <1>6, <1>7, <1>10, <1>15
<1>16. CASE Reported
  BY <1>1, <1>2, <1>3, <1>4, <1>5, <1>7, <1>11, <1>16
<1>17. CASE Resetting
  BY <1>1, <1>2, <1>3, <1>4, <1>5, <1>6, <1>12, <1>17
<1> QED  BY <1>1, <1>13, <1>14, <1>15, <1>16, <1>17

\* While the init task waits, exactly one answer is under way to it, whatever fails, for
\* any number of ports, slots and devices.
THEOREM OneAnswerUnderWay == Spec => []OneAnswer
<1>1. IInv => OneAnswer
  <2> SUFFICES ASSUME IInv, ~ early, ~ idle, plugs = 0, stage # 0, Waiting
               PROVE  Cardinality(Answers) = 1
    BY DEF OneAnswer, Waiting
  <2>1. \E a : Answers = {a}
    BY AnswersOne DEF IInv, CalmInv, Calm, CalmParts
  <2> QED  BY <2>1, FS_Singleton
<1> QED  BY <1>1, Invariance, PTL
=============================================================================
