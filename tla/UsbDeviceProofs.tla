-------------------------- MODULE UsbDeviceProofs --------------------------
(***************************************************************************)
(* The transfers of a USB device, from its first descriptor to its keys,   *)
(* for devices with any interfaces whose rings are wide enough, any map of *)
(* setup stages and any keys: every transfer that is done finds its setup  *)
(* stage unless the two tasks have met in the map, the phases follow each  *)
(* other, and a keyboard is listened to and its reports are typed.         *)
(*                                                                         *)
(* DeviceInv is the inductive invariant.  PhaseInv derives the phase from  *)
(* what the init task sends and where it is; PendingInv and EventInv bound *)
(* how far behind the driver a setup stage that is still needed can be     *)
(* (Reach), so that it is still in the ring; EntryInv pairs the events     *)
(* with the entries of the map.  In the phases the tasks wait for each     *)
(* other: one transfer, one event or one message is under way (LoneInv,    *)
(* EarlyInv), until the first driver has sent its request (FirstInv).      *)
(* With one keyboard it stays so (LoneInv, ListenInv, ReportInv).          *)
(***************************************************************************)
EXTENDS UsbDevice, SequenceTheorems, FiniteSetTheorems, WellFoundedInduction, TLAPS

-----------------------------------------------------------------------------
(* The ring of endpoint 0.                                                 *)

\* A sum on the ring is wrapped once at most.
LEMMA Wrapped ==
  ASSUME NEW m \in Nat, m > 0, NEW x \in Nat, x < 2 * m
  PROVE  x % m = IF x < m THEN x ELSE x - m
<1> DEFINE p == x \div m
           s == x % m
<1>1. p \in Int /\ s \in 0 .. m - 1 /\ x = p * m + s
  OBVIOUS
<1> HIDE DEF p, s
<1>2. p >= 2 => p * m >= 2 * m
  BY <1>1
<1>3. p <= -1 => p * m <= - m
  BY <1>1
<1>4. p = 0 \/ p = 1
  BY <1>1, <1>2, <1>3
<1>5. s = IF x < m THEN x ELSE x - m
  BY <1>1, <1>4
<1> QED BY <1>5 DEF s

LEMMA SizesOfRing ==
  /\ RingSize \in Nat /\ RingSize > 6 /\ MapSize \in Nat /\ MapSize > 0
  /\ Positions = 1 .. RingSize /\ NULL = 0 /\ NULL \notin Positions
BY UsbDeviceAssumption DEF Positions, NULL

LEMMA PlusIs ==
  ASSUME NEW p \in Positions, NEW n \in 0 .. RingSize
  PROVE  /\ Plus(p, n) \in Positions
         /\ Plus(p, n) = IF p + n <= RingSize THEN p + n ELSE p + n - RingSize
<1>1. /\ RingSize \in Nat /\ RingSize > 0 /\ p \in 1 .. RingSize /\ p + n - 1 \in Nat
      /\ p + n - 1 < 2 * RingSize
  BY SizesOfRing
<1>2. (p + n - 1) % RingSize = IF p + n - 1 < RingSize THEN p + n - 1 ELSE p + n - 1 - RingSize
  BY <1>1, Wrapped
<1> DEFINE r == (p + n - 1) % RingSize
<1>3. Plus(p, n) = r + 1
  BY DEF Plus
<1> HIDE DEF r
<1>4. r = IF p + n - 1 < RingSize THEN p + n - 1 ELSE p + n - 1 - RingSize
  BY <1>2 DEF r
<1> QED BY <1>1, <1>3, <1>4, SizesOfRing

\* How far behind the driver a position is, and the position before one.
Behind(e, p) == IF p <= e THEN e - p ELSE e + RingSize - p
Back(p) == Behind(enqueue, p)
Before(p) == IF p = 1 THEN RingSize ELSE p - 1

LEMMA BeforeIs ==
  ASSUME NEW p \in Positions
  PROVE  /\ Before(p) \in Positions /\ Before(Plus(p, 1)) = p /\ Plus(Before(p), 1) = p
         /\ Plus(p, RingSize - 1) = Before(p)
         /\ \A q \in Positions : Before(q) = Before(p) => q = p
<1>1. /\ RingSize \in Nat /\ RingSize > 6 /\ p \in 1 .. RingSize /\ \A q \in Positions : q \in 1 .. RingSize
  BY SizesOfRing
<1>2. Before(p) \in 1 .. RingSize
  BY <1>1 DEF Before
<1>3. /\ Plus(p, 1) = (IF p + 1 <= RingSize THEN p + 1 ELSE p + 1 - RingSize)
      /\ Plus(Before(p), 1) = (IF Before(p) + 1 <= RingSize THEN Before(p) + 1 ELSE Before(p) + 1 - RingSize)
      /\ Plus(p, RingSize - 1) = (IF p + (RingSize - 1) <= RingSize THEN p + (RingSize - 1)
                                  ELSE p + (RingSize - 1) - RingSize)
  <2>1. 1 \in 0 .. RingSize /\ RingSize - 1 \in 0 .. RingSize /\ Before(p) \in Positions
    BY <1>1, <1>2, SizesOfRing
  <2> QED BY <2>1, PlusIs
<1>4. Before(Plus(p, 1)) = p
  BY <1>1, <1>3 DEF Before
<1>5. Plus(Before(p), 1) = p
  BY <1>1, <1>3 DEF Before
<1>6. Plus(p, RingSize - 1) = Before(p)
  BY <1>1, <1>3 DEF Before
<1>7. \A q \in Positions : Before(q) = Before(p) => q = p
  BY <1>1 DEF Before
<1> QED BY <1>2, <1>4, <1>5, <1>6, <1>7, SizesOfRing

\* The driver and the controller walk along the ring.
LEMMA BehindIs ==
  ASSUME NEW e \in Positions, NEW p \in Positions
  PROVE  /\ Behind(e, p) \in 0 .. RingSize - 1
         /\ Behind(e, p) = 0 <=> p = e
         /\ \A q \in Positions : Behind(e, q) = Behind(e, p) => q = p
BY SizesOfRing DEF Behind

LEMMA DriverWalks ==
  ASSUME NEW e \in Positions, NEW p \in Positions, NEW n \in 1 .. 3
  PROVE  /\ Behind(Plus(e, n), e) = n
         /\ Behind(e, p) > 0 /\ Behind(e, p) + n < RingSize => Behind(Plus(e, n), p) = Behind(e, p) + n
         /\ Behind(Plus(e, n), p) >= n => Behind(e, p) = Behind(Plus(e, n), p) - n
<1>1. /\ RingSize \in Nat /\ RingSize > 6 /\ p \in 1 .. RingSize /\ e \in 1 .. RingSize /\ n \in 0 .. RingSize
  BY SizesOfRing
<1>2. Plus(e, n) = IF e + n <= RingSize THEN e + n ELSE e + n - RingSize
  BY <1>1, PlusIs
<1> QED BY <1>1, <1>2 DEF Behind

LEMMA ControllerWalks ==
  ASSUME NEW e \in Positions, NEW p \in Positions, NEW n \in 1 .. 3, n <= Behind(e, p)
  PROVE  Behind(e, Plus(p, n)) = Behind(e, p) - n
<1>1. /\ RingSize \in Nat /\ RingSize > 6 /\ p \in 1 .. RingSize /\ e \in 1 .. RingSize /\ n \in 0 .. RingSize
  BY SizesOfRing
<1>2. Plus(p, n) = IF p + n <= RingSize THEN p + n ELSE p + n - RingSize
  BY <1>1, PlusIs
<1> QED BY <1>1, <1>2 DEF Behind

TRBType == [type : {"none", "setup", "data", "status"}, setup : Setups]

\* A transfer has two or three TRBs, and the first is its setup stage.
LEMMA StagesOfRequest ==
  ASSUME NEW request
  PROVE  /\ Len(Stages(request)) \in 2 .. 3 /\ Stages(request)[1] = "setup"
         /\ DOMAIN Stages(request) = 1 .. Len(Stages(request))
         /\ \A i \in DOMAIN Stages(request) : Stages(request)[i] \in {"setup", "data", "status"}
         /\ request = "SetProtocol" => Len(Stages(request)) = 2
<1> DEFINE s == Stages(request)
           long == <<"setup", "data", "status">>
           short == <<"setup", "status">>
<1>1. s = long \/ s = short
  BY DEF Stages
<1>2. request = "SetProtocol" => s = short
  BY DEF Stages
<1>3. /\ Len(long) = 3 /\ DOMAIN long = 1 .. 3 /\ long[1] = "setup"
      /\ \A i \in 1 .. 3 : long[i] \in {"setup", "data", "status"}
  <2>1. long \in Seq({"setup", "data", "status"}) /\ Len(long) = 3 /\ long[1] = "setup"
    OBVIOUS
  <2> HIDE DEF long
  <2> QED BY <2>1
<1>4. /\ Len(short) = 2 /\ DOMAIN short = 1 .. 2 /\ short[1] = "setup"
      /\ \A i \in 1 .. 2 : short[i] \in {"setup", "data", "status"}
  <2>1. Len(short) = 2 /\ DOMAIN short = 1 .. 2 /\ short[1] = "setup" /\ short[2] = "status"
    OBVIOUS
  <2> HIDE DEF short
  <2> QED BY <2>1
<1> HIDE DEF s, long, short
<1>5. Len(s) \in 2 .. 3 /\ s[1] = "setup" /\ DOMAIN s = 1 .. Len(s)
  BY <1>1, <1>3, <1>4
<1>6. \A i \in DOMAIN s : s[i] \in {"setup", "data", "status"}
  BY <1>1, <1>3, <1>4
<1>7. request = "SetProtocol" => Len(s) = 2
  BY <1>2, <1>4
<1> QED BY <1>5, <1>6, <1>7 DEF s

\* What a transfer that is pushed leaves alone, and where it begins.
LEMMA PushedStages ==
  ASSUME enqueue \in Positions, ring \in [Positions -> TRBType], NEW setup \in Setups, PushStages(setup)
  PROVE  LET n == Len(Stages(setup.request)) IN
         /\ n \in 2 .. 3 /\ enqueue' = Plus(enqueue, n) /\ enqueue' \in Positions
         /\ ring' \in [Positions -> TRBType]
         /\ ring'[enqueue] = [type |-> "setup", setup |-> setup]
         /\ Behind(enqueue', enqueue) = n
         /\ \A p \in Positions : Back(p) > 0 /\ Back(p) + n < RingSize =>
              ring'[p] = ring[p] /\ Behind(enqueue', p) = Back(p) + n
         /\ \A p \in Positions : Behind(enqueue', p) >= n => Back(p) = Behind(enqueue', p) - n
<1> DEFINE stages == Stages(setup.request)
           n == Len(stages)
           at_(p) == ((p + RingSize - enqueue) % RingSize) + 1
<1>1. /\ n \in 2 .. 3 /\ stages[1] = "setup" /\ DOMAIN stages = 1 .. n
      /\ \A i \in 1 .. n : stages[i] \in {"setup", "data", "status"}
  BY StagesOfRequest
<1> HIDE DEF stages
<1>2. /\ ring' = [p \in Positions |-> IF at_(p) \in DOMAIN stages
                                      THEN [type |-> stages[at_(p)], setup |-> setup] ELSE ring[p]]
      /\ enqueue' = Plus(enqueue, n)
  BY DEF PushStages, stages
<1>3. /\ RingSize \in Nat /\ RingSize > 6 /\ Positions = 1 .. RingSize /\ enqueue \in 1 .. RingSize
  BY SizesOfRing
<1>4. \A p \in Positions : at_(p) = (IF p < enqueue THEN p + RingSize - enqueue ELSE p - enqueue) + 1
  <2>1. SUFFICES ASSUME NEW p \in Positions
                 PROVE  at_(p) = (IF p < enqueue THEN p + RingSize - enqueue ELSE p - enqueue) + 1
    OBVIOUS
  <2> DEFINE x == p + RingSize - enqueue
  <2>2. p \in 1 .. RingSize /\ x \in Nat /\ x < 2 * RingSize /\ (x < RingSize <=> p < enqueue)
    BY <1>3
  <2>3. x - RingSize = p - enqueue
    BY <1>3, <2>2
  <2> DEFINE r == x % RingSize
  <2> HIDE DEF x
  <2>4. r = IF x < RingSize THEN x ELSE x - RingSize
    BY <1>3, <2>2, Wrapped
  <2>5. r = IF p < enqueue THEN x ELSE p - enqueue
    BY <2>2, <2>3, <2>4
  <2> QED BY <2>5 DEF x
<1> HIDE DEF at_
<1>5. at_(enqueue) = 1
  BY <1>3, <1>4
<1>6. ring'[enqueue] = [type |-> "setup", setup |-> setup]
  <2>1. at_(enqueue) \in DOMAIN stages
    BY <1>1, <1>5
  <2>2. ring'[enqueue] = [type |-> stages[at_(enqueue)], setup |-> setup]
    BY <1>2, <2>1
  <2> QED BY <1>1, <1>5, <2>2
<1>7. ring' \in [Positions -> TRBType]
  <2>1. \A p \in Positions : at_(p) \in DOMAIN stages =>
          [type |-> stages[at_(p)], setup |-> setup] \in TRBType
    BY <1>1 DEF TRBType
  <2> QED BY <1>2, <2>1
<1>8. enqueue' \in Positions /\ n \in 1 .. 3
  <2> HIDE DEF n
  <2>1. n \in 0 .. RingSize /\ n \in 1 .. 3
    BY <1>1, <1>3
  <2> QED BY <1>2, <2>1, PlusIs
<1>9. \A p \in Positions : Back(p) > 0 /\ Back(p) + n < RingSize => at_(p) \notin DOMAIN stages
  BY <1>1, <1>3, <1>4 DEF Back, Behind
<1>10. \A p \in Positions : Back(p) > 0 /\ Back(p) + n < RingSize => ring'[p] = ring[p]
  BY <1>2, <1>9
<1> HIDE DEF n
<1>11. \A p \in Positions : Back(p) > 0 /\ Back(p) + n < RingSize => Behind(enqueue', p) = Back(p) + n
  BY <1>2, <1>8, DriverWalks DEF Back
<1>12. \A p \in Positions : Behind(enqueue', p) >= n => Back(p) = Behind(enqueue', p) - n
  BY <1>2, <1>8, DriverWalks DEF Back
<1>13. Behind(enqueue', enqueue) = n
  BY <1>2, <1>8, DriverWalks
<1> QED BY <1>1, <1>2, <1>6, <1>7, <1>8, <1>10, <1>11, <1>12, <1>13 DEF n, stages

\* Least is defined for what it is used with: a set of numbers has a least one.
LEMMA LeastElement ==
  ASSUME NEW T, T \subseteq Nat, T # {}
  PROVE  \E x \in T : \A y \in T : x <= y
<1>1. PICK x \in T : \A y \in T : ~ (<<y, x>> \in OpToRel(<, Nat))
  BY NatLessThanWellFounded, WFMin
<1>2. \A y \in T : ~ (y < x)
  BY <1>1 DEF OpToRel
<1>3. \A y \in T : x <= y
  BY <1>2
<1> QED BY <1>3

-----------------------------------------------------------------------------
(* The invariant.                                                          *)

EventType == [endpoint : {0, 1}, issuer : Nat, ok : BOOLEAN, setup : Setups]
DriverMap == [e \in 1 .. 15 |-> IF DriversOf(e) = {} THEN NULL ELSE Least(DriversOf(e))]

DeviceTypes ==
  /\ TypeOK
  /\ events \in Seq(EventType)
  /\ handling \in [entry : 0 .. MapSize, setup : Positions \cup {NULL}]
  /\ handling # Idle => handling.entry # NULL /\ handling.setup # NULL
  /\ buf_ \in [Interfaces -> SUBSET Keys] /\ prev_keys_ \in [Interfaces -> SUBSET Keys]
  /\ reported \in Seq(SUBSET Keys) /\ typed \in Seq(SUBSET Keys)
  /\ at = "put entry" => place # NULL /\ dict_[place].issuer = NULL
  /\ at = "put setup" => place # NULL /\ dict_[place].issuer = Issuer
  /\ raced \subseteq {"event before Put", "entry put while deleted"}

\* Whether the phases are over and the drivers have their turn, what they send, and how
\* far behind a transfer can be that is not over yet.
Configured == todo.request = "SetProtocol"
Protocols == {s \in Setups : s.request = "SetProtocol" /\ s.index \in Drivers}
Reach == IF ~ Configured THEN 3 ELSE IF at = "push" THEN 2 * (todo.index - 1) ELSE 2 * todo.index

\* The phase follows from what the init task sends and where it is.
PhaseInv ==
  /\ is_initialized_ <=> initialize_phase_ = 4
  /\ initialize_phase_ < 3 => class_drivers_ = {}
  /\ initialize_phase_ >= 3 => class_drivers_ = Drivers /\ ep_to_class_driver_map = DriverMap
  /\ at \in {"before", "start"} => initialize_phase_ = 0
  /\ Configured \/ at \in {"configure", "endpoints", "done"} => is_initialized_
  /\ Configured \/ at \in {"endpoints", "done"} => transfer_rings_ = Endpoints
  /\ Configured => todo.index \in Drivers /\ at \notin {"before", "start", "wait", "configure"}
  /\ ~ Configured =>
       /\ at \in {"push", "put", "put entry", "put setup", "ring", "wait"} =>
            todo.request = "GetDescriptor(device)" /\ todo.index \in {0, 1}
       /\ at # "undefined"
       /\ at = "endpoints" => todo = Nothing
       /\ at = "done" => Drivers = {}
       /\ at \in {"push", "put", "put entry", "put setup"} => initialize_phase_ = todo.index
       /\ at \in {"ring", "wait"} /\ todo.index = 0 => initialize_phase_ = 0
       /\ at \in {"ring", "wait"} /\ todo.index = 1 => initialize_phase_ # 0
       /\ at \in {"ring", "wait"} /\ initialize_phase_ = 4 => inbox # <<>>

\* What the controller has not fetched: one transfer of a phase, or those of drivers.
PendingInv ==
  /\ Configured =>
       /\ (Back(dequeue) % 2) = 0
       /\ \A p \in Positions :
            (Back(p) % 2) = 0 /\ 0 < Back(p) /\ Back(p) <= Back(dequeue) =>
              ring[p].type = "setup" /\ ring[p].setup \in Protocols
  /\ ~ Configured =>
       \/ dequeue = enqueue
       \/ /\ ring[dequeue].type = "setup"
          /\ Back(dequeue) = Len(Stages(ring[dequeue].setup.request))
          /\ at \in {"put", "put entry", "put setup"} => ring[dequeue].setup = todo
  /\ Back(dequeue) <= Reach

\* The setup stage of a transfer is in the ring for as long as it may be looked at.
EventInv ==
  /\ \A j \in DOMAIN events : ~ events[j].ok => events[j].endpoint \in halted
  /\ \A j \in DOMAIN events : events[j].endpoint = 1 => events[j].issuer \in class_drivers_ /\ Configured
  /\ requests # <<>> => Configured
  /\ \A j \in DOMAIN events : events[j].endpoint = 0 =>
       /\ events[j].issuer \in Positions
       /\ ring[Before(events[j].issuer)] = [type |-> "setup", setup |-> events[j].setup]
       /\ Back(dequeue) < Back(Before(events[j].issuer)) /\ Back(Before(events[j].issuer)) <= Reach
       /\ Configured => events[j].setup \in Protocols
  /\ \A j, k \in DOMAIN events :
       j # k /\ events[j].endpoint = 0 /\ events[k].endpoint = 0 => events[j].issuer # events[k].issuer
  /\ handling # Idle =>
       /\ ring[handling.setup].type = "setup"
       /\ Back(dequeue) < Back(handling.setup) /\ Back(handling.setup) <= Reach
       /\ Configured => ring[handling.setup].setup \in Protocols

TwoDrivers == \E i, j \in Drivers : i # j

\* Put has written the first half of this entry and not the second.
Open(i) == at = "put setup" /\ i = place

\* The map has an entry for what is to come, unless the tasks have met in it.
EntryInv ==
  /\ \A i \in 1 .. MapSize : dict_[i].issuer # NULL /\ dict_[i].setup # NULL =>
       Open(i) \/ dict_[i].setup = Before(dict_[i].issuer)
  /\ raced = {} /\ at # "undefined" =>
       \A i \in 1 .. MapSize : dict_[i].issuer # NULL => Open(i) \/ dict_[i].setup # NULL
  /\ \A i \in 1 .. MapSize : dict_[i].issuer = NULL \/ Open(i) =>
       dict_[i].setup = NULL \/ (handling # Idle /\ handling.entry = i)
  /\ raced = {} /\ at \in {"put", "put entry", "put setup"} =>
       \A j \in DOMAIN events : events[j].endpoint = 0 /\ events[j].ok => events[j].issuer # Issuer
  /\ raced = {} => \A j \in DOMAIN events : events[j].endpoint = 0 /\ events[j].ok =>
       \E i \in 1 .. MapSize : dict_[i].issuer = events[j].issuer
  /\ handling # Idle /\ dict_[handling.entry].issuer # NULL => TwoDrivers
  /\ "entry put while deleted" \in raced => TwoDrivers

Quiet == dequeue = enqueue /\ events = <<>> /\ handling = Idle /\ requests = <<>>
NoIssuers == \A i \in 1 .. MapSize : dict_[i].issuer = NULL \/ Open(i)

\* In the phases, and with one keyboard afterwards, one thing is under way at most.
LoneInv ==
  ~ Configured \/ OneKeyboard =>
    /\ Waiting => events = <<>> /\ handling = Idle /\ requests = <<>>
    /\ events # <<>> => Len(events) = 1 /\ handling = Idle /\ requests = <<>>
    /\ handling # Idle => requests = <<>>
    /\ Len(requests) <= 1
    /\ Configured => Back(dequeue) <= 2

\* In the phases the message comes last, and the map is empty when a phase begins.
EarlyInv ==
  ~ Configured =>
    /\ Len(inbox) <= 1
    /\ inbox # <<>> => Quiet
    /\ at \in {"before", "start", "push", "configure", "endpoints", "done", "failed"} => Quiet /\ inbox = <<>>
    /\ at \in {"before", "start", "push", "configure", "endpoints", "done", "put", "put entry", "put setup"} => NoIssuers
    /\ at \in {"put", "put entry", "put setup"} => inbox # <<TRUE>> /\ handling = Idle
    /\ inbox = <<TRUE>> => at \in {"ring", "wait"} /\ initialize_phase_ \in {0, 4}
    /\ \A i, j \in 1 .. MapSize : dict_[i].issuer # NULL /\ dict_[j].issuer # NULL => i = j
    /\ handling # Idle \/ inbox = <<TRUE>> => NoIssuers
    /\ at = "before" \/ (at \in {"push", "put", "put entry", "put setup"} /\ todo.index = 0) =>
         ~ running /\ events = <<>> /\ inbox = <<>>
    /\ at \in {"ring", "wait"} /\ todo.index = 0 /\ Waiting =>
         \E i \in 1 .. MapSize : dict_[i] = [issuer |-> Plus(dequeue, 1), setup |-> dequeue]
    /\ at \in {"ring", "wait"} /\ todo.index = 0 /\ events # <<>> =>
         \E i \in 1 .. MapSize : dict_[i].issuer = events[1].issuer /\ dict_[i].setup # NULL

\* So it is until the first driver has put its entry.
FirstInv ==
  Configured /\ (\A i \in Drivers : todo.index <= i) =>
    /\ at = "push" => Quiet
    /\ at \in {"push", "put", "put entry", "put setup"} => NoIssuers /\ handling = Idle

\* What has been asked of a keyboard is somewhere.
ListenInv ==
  OneKeyboard /\ Configured /\ at # "push" /\ halted = {} /\ raced = {} =>
    Waiting \/ events # <<>> \/ handling # Idle \/ requests # <<>>

KeyEvent == events # <<>> /\ events[1].endpoint = 1 /\ events[1].ok

ReportInv ==
  OneKeyboard =>
    /\ Len(reported) = Len(typed) + (IF KeyEvent THEN 1 ELSE 0)
    /\ reported # <<>> => \A i \in Drivers : buf_[i] = reported[Len(reported)]
    /\ \A i \in Drivers : prev_keys_[i] = IF typed = <<>> THEN {} ELSE reported[Len(typed)]
    /\ \A k \in DOMAIN typed : typed[k] = Typed(k)

DeviceInv ==
  /\ DeviceTypes /\ PhaseInv /\ PendingInv /\ EventInv /\ EntryInv
  /\ LoneInv /\ EarlyInv /\ FirstInv /\ ListenInv /\ ReportInv
  /\ UndefinedOnlyWithoutEndpoint1

-----------------------------------------------------------------------------
(* What the steps leave alone.                                             *)

LEMMA LeastIs ==
  ASSUME NEW S, S \subseteq Nat, S # {}
  PROVE  Least(S) \in S /\ \A j \in S : Least(S) <= j
<1>1. PICK x \in S : \A y \in S : x <= y
  BY LeastElement
<1> QED BY <1>1 DEF Least

LEMMA SameDevice ==
  ASSUME device' = device
  PROVE  /\ Interfaces' = Interfaces /\ Endpoints' = Endpoints /\ Drivers' = Drivers
         /\ (OneKeyboard <=> OneKeyboard') /\ (TwoDrivers <=> TwoDrivers') /\ Protocols' = Protocols
         /\ DriverMap' = DriverMap
<1>1. Interfaces' = Interfaces /\ Endpoints' = Endpoints /\ Drivers' = Drivers
  BY DEF Interfaces, Endpoints, Drivers
<1>2. \A e : DriversOf(e)' = DriversOf(e)
  BY <1>1 DEF DriversOf, Numbers
<1>3. OneKeyboard <=> OneKeyboard'
  BY <1>1 DEF OneKeyboard, Numbers
<1>4. DriverMap' = DriverMap
  BY <1>2 DEF DriverMap
<1>5. (TwoDrivers <=> TwoDrivers') /\ Protocols' = Protocols
  BY <1>1 DEF TwoDrivers, Protocols
<1> QED BY <1>1, <1>3, <1>4, <1>5

\* Get finds an entry if there is one.
LEMMA GetIs ==
  ASSUME NEW p, p # NULL
  PROVE  /\ Get(p) # NULL => Get(p) \in 1 .. MapSize /\ dict_[Get(p)].issuer = p
         /\ Get(p) = NULL => \A i \in 1 .. MapSize : dict_[i].issuer # p
<1> DEFINE found == {i \in 1 .. MapSize : dict_[i].issuer = p}
<1>1. Get(p) = IF found = {} THEN NULL ELSE Least(found)
  BY DEF Get
<1>2. found # {} => Least(found) \in found
  <2>1. found \subseteq Nat
    BY SizesOfRing
  <2> HIDE DEF found
  <2> QED BY <2>1, LeastIs
<1> QED BY <1>1, <1>2, SizesOfRing

LEMMA OneKeyboardIs ==
  ASSUME device \in Kinds
  PROVE  /\ Drivers \subseteq Interfaces /\ Interfaces \subseteq Nat \ {0} /\ IsFiniteSet(Drivers)
         /\ \A i \in Interfaces : 2 * i < RingSize
         /\ \A i \in Interfaces : device[i].in \subseteq 1 .. 15
         /\ OneKeyboard => \E d \in Drivers : Drivers = {d} /\ 1 \in device[d].in /\ d \in DriversOf(1)
         /\ TwoDrivers => Cardinality(Drivers) > 1
         /\ ~ TwoDrivers => \A i, j \in Drivers : i = j
<1>1. device \in Seq([keyboard : BOOLEAN, in : SUBSET (1 .. 15), out : SUBSET (1 .. 15)])
      /\ RingSize > 2 * Len(device) /\ RingSize \in Nat
  BY UsbDeviceAssumption
<1>2. Len(device) \in Nat /\ DOMAIN device = 1 .. Len(device) /\ Interfaces = 1 .. Len(device)
  BY <1>1 DEF Interfaces
<1>3. Drivers \subseteq Interfaces
  BY DEF Drivers
<1>4. IsFiniteSet(Interfaces)
  BY <1>2, FS_Interval
<1>5. IsFiniteSet(Drivers)
  BY <1>3, <1>4, FS_Subset
<1>6. Interfaces \subseteq Nat \ {0}
  BY <1>2
<1>7. \A i \in Interfaces : 2 * i < RingSize
  BY <1>1, <1>2
<1>8. \A i \in Interfaces : device[i].in \subseteq 1 .. 15
  <2>1. \A i \in 1 .. Len(device) :
          device[i] \in [keyboard : BOOLEAN, in : SUBSET (1 .. 15), out : SUBSET (1 .. 15)]
    BY <1>1, ElementOfSeq
  <2> QED BY <1>2, <2>1
<1>9. OneKeyboard => \E d \in Drivers : Drivers = {d} /\ 1 \in device[d].in /\ d \in DriversOf(1)
  <2>1. SUFFICES ASSUME OneKeyboard
        PROVE  \E d \in Drivers : Drivers = {d} /\ 1 \in device[d].in /\ d \in DriversOf(1)
    OBVIOUS
  <2>2. PICK d : Drivers = {d}
    BY <1>5, <2>1, FS_Singleton DEF OneKeyboard
  <2>3. 1 \in device[d].in /\ \A j \in Interfaces : j > d => 1 \notin Numbers(j)
    BY <2>1, <2>2 DEF OneKeyboard
  <2> QED BY <2>2, <2>3 DEF DriversOf, Numbers
<1>10. TwoDrivers => Cardinality(Drivers) > 1
  <2>1. SUFFICES ASSUME NEW i \in Drivers, NEW j \in Drivers, i # j
                 PROVE  Cardinality(Drivers) > 1
    BY DEF TwoDrivers
  <2>2. Cardinality({i}) = 1 /\ IsFiniteSet({i})
    BY FS_Singleton
  <2>3. Cardinality({i} \cup {j}) = 2
    <3> DEFINE S == {i}
    <3>1. j \notin S /\ Cardinality(S) = 1 /\ IsFiniteSet(S)
      BY <2>1, <2>2
    <3> HIDE DEF S
    <3>2. Cardinality(S \cup {j}) = Cardinality(S) + 1
      BY <3>1, FS_AddElement
    <3>3. Cardinality(S \cup {j}) = 2
      BY <3>1, <3>2
    <3> QED BY <3>3 DEF S
  <2>4. Cardinality({i} \cup {j}) <= Cardinality(Drivers) /\ Cardinality(Drivers) \in Nat
    BY <1>5, FS_Subset, FS_CardinalityType
  <2> QED BY <2>3, <2>4
<1>11. ~ TwoDrivers => \A i, j \in Drivers : i = j
  BY DEF TwoDrivers
<1> QED BY <1>3, <1>5, <1>6, <1>7, <1>8, <1>9, <1>10, <1>11

LEMMA MapIs ==
  /\ 1 \in 1 .. MapSize /\ 1 .. MapSize \subseteq Nat /\ 1 .. MapSize \subseteq 0 .. MapSize
  /\ 0 \in 0 .. MapSize /\ \A i \in 1 .. MapSize : i # NULL
BY SizesOfRing

LEMMA EmptyIs ==
  /\ \A S : <<>> \in Seq(S)
  /\ \A s : s = <<>> => DOMAIN s = {}
  /\ \A x \in {<<>>, <<FALSE>>} : Len(x) <= 1 /\ x # <<TRUE>>
  /\ Len(<<>>) = 0 /\ <<>> # <<TRUE>> /\ <<>> # <<FALSE>> /\ <<TRUE>> # <<FALSE>> /\ Len(<<TRUE>>) = 1 /\ Len(<<FALSE>>) = 1
OBVIOUS

LEMMA PositionIs ==
  /\ \A p \in Positions : p \in Nat /\ p # NULL /\ p # 0
  /\ 0 \in 0 .. RingSize /\ 1 \in 0 .. RingSize
BY SizesOfRing

LEMMA BackIs ==
  ASSUME DeviceTypes
  PROVE  /\ enqueue \in Positions /\ dequeue \in Positions
         /\ \A p \in Positions : Back(p) \in Int /\ 0 <= Back(p) /\ Back(p) < RingSize
         /\ \A p \in Positions : Before(p) \in Positions
         /\ RingSize \in Int
<1>1. enqueue \in Positions /\ dequeue \in Positions
  BY DEF DeviceTypes, TypeOK
<1>2. \A p \in Positions : Back(p) \in 0 .. RingSize - 1
  BY <1>1, BehindIs DEF Back
<1>3. \A p \in Positions : Before(p) \in Positions
  BY BeforeIs
<1>4. RingSize \in Int
  BY SizesOfRing
<1>5. \A p \in Positions : Back(p) \in Int /\ 0 <= Back(p) /\ Back(p) < RingSize
  BY <1>2, <1>4
<1> QED BY <1>1, <1>3, <1>4, <1>5

LEMMA TailIs ==
  ASSUME NEW S, NEW s \in Seq(S), s # <<>>
  PROVE  /\ Tail(s) \in Seq(S) /\ Len(Tail(s)) = Len(s) - 1 /\ DOMAIN Tail(s) = 1 .. Len(s) - 1
         /\ \A j \in DOMAIN Tail(s) : j + 1 \in DOMAIN s /\ Tail(s)[j] = s[j + 1]
         /\ Len(s) \in Nat /\ Len(s) > 0 /\ DOMAIN s = 1 .. Len(s) /\ 1 \in DOMAIN s /\ Head(s) = s[1] /\ s[1] \in S
         /\ Len(s) <= 1 => Tail(s) = <<>>
BY HeadTailProperties

\* While the init task sends the same and does not go back to a push, a transfer may be as far
\* behind as before.
LEMMA ReachGrows ==
  ASSUME DeviceTypes, todo' = todo, at' = at \/ at' # "push"
  PROVE  /\ Reach \in Int /\ Reach' \in Int /\ Reach <= Reach'
         /\ Configured' <=> Configured
<1>1. todo.index \in Nat
  BY DEF DeviceTypes, TypeOK, Setups
<1> QED BY <1>1 DEF Reach, Configured

\* What keeps the parts of the invariant, for the steps that leave most of it alone.
LEMMA KeepsPending ==
  ASSUME DeviceTypes, PendingInv, UNCHANGED <<device, ring, enqueue, dequeue>>,
         Configured' <=> Configured, Reach \in Int, Reach' \in Int, Reach <= Reach',
         ~ Configured /\ at' \in {"put", "put entry", "put setup"} => at \in {"put", "put entry", "put setup"} /\ todo' = todo
  PROVE  PendingInv'
<1>1. Behind(enqueue', dequeue') = Back(dequeue) /\ \A p \in Positions : Behind(enqueue', p) = Back(p)
  BY DEF Back
<1>2. Back(dequeue) \in Int
  BY BackIs
<1>3. Protocols' = Protocols
  BY SameDevice
<1>4. Configured =>
       /\ (Behind(enqueue', dequeue') % 2) = 0
       /\ \A p \in Positions :
            (Behind(enqueue', p) % 2) = 0 /\ 0 < Behind(enqueue', p) /\ Behind(enqueue', p) <= Behind(enqueue', dequeue') =>
              ring'[p].type = "setup" /\ ring'[p].setup \in Protocols
  BY <1>1 DEF PendingInv
<1>5. ~ Configured =>
       \/ dequeue' = enqueue'
       \/ /\ ring'[dequeue'].type = "setup"
          /\ Behind(enqueue', dequeue') = Len(Stages(ring'[dequeue'].setup.request))
          /\ at' \in {"put", "put entry", "put setup"} => ring'[dequeue'].setup = todo'
  BY <1>1 DEF PendingInv
<1>6. Behind(enqueue', dequeue') <= Reach'
  <2>1. Back(dequeue) <= Reach
    BY DEF PendingInv
  <2>2. Behind(enqueue', dequeue') <= Reach
    BY <1>1, <2>1
  <2>3. Behind(enqueue', dequeue') \in Int
    BY <1>1, <1>2
  <2>4. Reach \in Int /\ Reach' \in Int /\ Reach <= Reach'
    OBVIOUS
  <2> QED BY ONLY <2>2, <2>3, <2>4
<1> QED BY <1>3, <1>4, <1>5, <1>6 DEF PendingInv, Back

LEMMA KeepsEvents ==
  ASSUME DeviceTypes, EventInv, UNCHANGED <<device, ring, enqueue, dequeue>>,
         halted \subseteq halted', Configured' <=> Configured,
         Configured => class_drivers_' = class_drivers_,
         Reach \in Int, Reach' \in Int, Reach <= Reach',
         events' = events \/ (events # <<>> /\ events' = Tail(events)),
         handling' # Idle => \/ handling' = handling
                                    \/ /\ ring[handling'.setup].type = "setup"
                                       /\ Behind(enqueue, dequeue) < Behind(enqueue, handling'.setup)
                                       /\ Behind(enqueue, handling'.setup) <= Reach
                                       /\ Configured => ring[handling'.setup].setup \in Protocols
                                       /\ handling'.setup \in Positions,
         requests' # <<>> => requests # <<>> \/ Configured
  PROVE  EventInv'
<1>1. \E n \in {0, 1} : \A j \in DOMAIN events' : j \in Int /\ j + n \in DOMAIN events /\ events'[j] = events[j + n]
  <2>1. events \in Seq(EventType)
    BY DEF DeviceTypes
  <2>2. CASE events' = events
    <3>1. \A j \in DOMAIN events : j \in Int /\ j + 0 = j
      BY <2>1
    <3> QED BY <2>2, <3>1
  <2>3. CASE events # <<>> /\ events' = Tail(events)
    BY <2>1, <2>3, TailIs
  <2> QED BY <2>2, <2>3
<1>2. PICK n \in {0, 1} : \A j \in DOMAIN events' : j \in Int /\ j + n \in DOMAIN events /\ events'[j] = events[j + n]
  BY <1>1
<1>3. /\ Protocols' = Protocols /\ Back(dequeue)' = Back(dequeue) /\ Positions' = Positions
      /\ \A p \in Positions : Behind(enqueue', p) = Behind(enqueue, p) /\ Behind(enqueue, p) \in Int
      /\ \A p \in Positions : Before(p) \in Positions
  BY SameDevice, BackIs DEF Back
<1>4. \A j \in DOMAIN events' : ~ events'[j].ok => events'[j].endpoint \in halted'
  BY <1>2 DEF EventInv
<1>5. \A j \in DOMAIN events' : events'[j].endpoint = 1 => events'[j].issuer \in class_drivers_' /\ Configured'
  BY <1>2 DEF EventInv
<1>6. requests' # <<>> => Configured'
  BY DEF EventInv
<1>7. \A j \in DOMAIN events' : events'[j].endpoint = 0 =>
       /\ events'[j].issuer \in Positions
       /\ ring'[Before(events'[j].issuer)] = [type |-> "setup", setup |-> events'[j].setup]
       /\ Behind(enqueue', dequeue') < Behind(enqueue', Before(events'[j].issuer))
       /\ Behind(enqueue', Before(events'[j].issuer)) <= Reach'
       /\ Configured' => events'[j].setup \in Protocols'
  <2> DEFINE Good(v) ==
               /\ v.issuer \in Positions
               /\ ring'[Before(v.issuer)] = [type |-> "setup", setup |-> v.setup]
               /\ Behind(enqueue', dequeue') < Behind(enqueue', Before(v.issuer))
               /\ Behind(enqueue', Before(v.issuer)) <= Reach'
               /\ Configured' => v.setup \in Protocols'
  <2>1. SUFFICES ASSUME NEW j \in DOMAIN events', events'[j].endpoint = 0
                 PROVE  Good(events'[j])
    OBVIOUS
  <2>2. events'[j] = events[j + n] /\ j + n \in DOMAIN events
    BY <1>2
  <2> DEFINE v == events'[j]
  <2>3. /\ v.issuer \in Positions
        /\ ring[Before(v.issuer)] = [type |-> "setup", setup |-> v.setup]
        /\ Back(dequeue) < Back(Before(v.issuer)) /\ Back(Before(v.issuer)) <= Reach
        /\ Configured => v.setup \in Protocols
    BY <2>1, <2>2 DEF EventInv
  <2> HIDE DEF v
  <2>4. Behind(enqueue, Before(v.issuer)) <= Reach'
    BY <1>3, <2>3 DEF Back
  <2>5. Behind(enqueue', dequeue') < Behind(enqueue', Before(v.issuer))
    BY <2>3 DEF Back
  <2>6. ring' = ring /\ enqueue' = enqueue
    OBVIOUS
  <2> QED BY <1>3, <2>3, <2>4, <2>5, <2>6 DEF v
<1>8. \A j, k \in DOMAIN events' :
       j # k /\ events'[j].endpoint = 0 /\ events'[k].endpoint = 0 => events'[j].issuer # events'[k].issuer
  <2>1. SUFFICES ASSUME NEW j \in DOMAIN events', NEW k \in DOMAIN events', j # k,
                        events'[j].endpoint = 0, events'[k].endpoint = 0
                 PROVE  events'[j].issuer # events'[k].issuer
    OBVIOUS
  <2>2. j + n \in DOMAIN events /\ k + n \in DOMAIN events /\ j \in Int /\ k \in Int
    BY <1>2
  <2>3. events'[j] = events[j + n] /\ events'[k] = events[k + n] /\ j + n # k + n
    BY <1>2, <2>1, <2>2
  <2> QED BY <2>1, <2>2, <2>3 DEF EventInv
<1>9. handling' # Idle =>
       /\ ring'[handling'.setup].type = "setup"
       /\ Behind(enqueue', dequeue') < Behind(enqueue', handling'.setup) /\ Behind(enqueue', handling'.setup) <= Reach'
       /\ Configured' => ring'[handling'.setup].setup \in Protocols'
  <2>1. SUFFICES ASSUME handling' # Idle
                 PROVE  /\ ring'[handling'.setup].type = "setup"
                        /\ Behind(enqueue', dequeue') < Behind(enqueue', handling'.setup)
                        /\ Behind(enqueue', handling'.setup) <= Reach'
                        /\ Configured' => ring'[handling'.setup].setup \in Protocols'
    OBVIOUS
  <2> DEFINE p == handling'.setup
  <2>2. /\ p \in Positions /\ ring[p].type = "setup" /\ Behind(enqueue, dequeue) < Behind(enqueue, p)
        /\ Behind(enqueue, p) <= Reach /\ (Configured => ring[p].setup \in Protocols)
    <3>1. CASE handling' = handling
      BY <2>1, <3>1 DEF DeviceTypes, EventInv, Back
    <3>2. CASE handling' # handling
      BY <2>1, <3>2
    <3> QED BY <3>1, <3>2
  <2> HIDE DEF p
  <2>3. Behind(enqueue, p) <= Reach'
    BY <1>3, <2>2
  <2> QED BY <1>3, <2>2, <2>3 DEF p
<1> QED BY <1>3, <1>4, <1>5, <1>6, <1>7, <1>8, <1>9 DEF EventInv, Back

\* Handling an event leaves the others.
LEMMA EventsLeft ==
  ASSUME DeviceTypes, events' = events \/ (events # <<>> /\ events' = Tail(events))
  PROVE  \A j \in DOMAIN events' : \E k \in DOMAIN events : events'[j] = events[k]
<1>1. events \in Seq(EventType)
  BY DEF DeviceTypes
<1> QED BY <1>1, TailIs

LEMMA KeepsEntries ==
  ASSUME DeviceTypes, EntryInv, UNCHANGED <<device, dict_, raced, handling>>,
         events' = events \/ (events # <<>> /\ events' = Tail(events)),
         at' \in {"put", "put entry", "put setup"} =>
           at \in {"put", "put entry", "put setup"} /\ UNCHANGED <<enqueue, todo>>,
         at = "put setup" \/ at' = "put setup" =>
           \/ at' = at /\ place' = place
           \/ at' = "undefined" /\ handling = Idle,
         at = "undefined" => at' = "undefined"
  PROVE  EntryInv'
<1>1. \A j \in DOMAIN events' : \E k \in DOMAIN events : events'[j] = events[k]
  BY EventsLeft
<1>2. raced = {} => \A j \in DOMAIN events' : events'[j].endpoint = 0 /\ events'[j].ok =>
        \E i \in 1 .. MapSize : dict_[i].issuer = events'[j].issuer
  <2>1. SUFFICES ASSUME raced = {}, NEW j \in DOMAIN events', events'[j].endpoint = 0, events'[j].ok
                 PROVE  \E i \in 1 .. MapSize : dict_[i].issuer = events'[j].issuer
    OBVIOUS
  <2>2. PICK k \in DOMAIN events : events'[j] = events[k]
    BY <1>1, <2>1
  <2>3. events[k].endpoint = 0 /\ events[k].ok
    BY <2>1, <2>2
  <2>4. \E i \in 1 .. MapSize : dict_[i].issuer = events[k].issuer
    BY <2>1, <2>3 DEF EntryInv
  <2> QED BY <2>2, <2>4
<1>3. TwoDrivers' <=> TwoDrivers
  BY SameDevice
<1>4. raced = {} /\ at' \in {"put", "put entry", "put setup"} =>
        \A j \in DOMAIN events' : events'[j].endpoint = 0 /\ events'[j].ok => events'[j].issuer # Issuer'
  <2>1. at' \in {"put", "put entry", "put setup"} => Issuer' = Issuer
    BY DEF Issuer
  <2>2. raced = {} /\ at \in {"put", "put entry", "put setup"} =>
          \A j \in DOMAIN events : events[j].endpoint = 0 /\ events[j].ok => events[j].issuer # Issuer
    BY DEF EntryInv
  <2> QED BY <1>1, <2>1, <2>2
<1>5. CASE at' = "undefined" /\ handling = Idle
  BY <1>2, <1>3, <1>5 DEF EntryInv, Open
<1>6. CASE ~ (at' = "undefined" /\ handling = Idle)
  <2>1. \A i : Open(i)' <=> Open(i)
    BY <1>6 DEF Open
  <2>2. raced = {} /\ at' # "undefined" =>
          \A i \in 1 .. MapSize : dict_[i].issuer # NULL => Open(i) \/ dict_[i].setup # NULL
    BY DEF EntryInv
  <2> QED BY <1>2, <1>3, <1>4, <2>1, <2>2 DEF EntryInv
<1> QED BY <1>5, <1>6

LEMMA KeepsReports ==
  ASSUME ReportInv, UNCHANGED <<device, reported, typed, buf_, prev_keys_>>,
         OneKeyboard => (KeyEvent' <=> KeyEvent)
  PROVE  ReportInv'
<1>1. (OneKeyboard' <=> OneKeyboard) /\ Drivers' = Drivers /\ \A k \in DOMAIN typed : Typed(k)' = Typed(k)
  BY SameDevice DEF Typed
<1> QED BY <1>1 DEF ReportInv

-----------------------------------------------------------------------------
(* The init task's steps preserve the invariant.                           *)

\* Both phases that the init task begins, with the same request for another descriptor.
LEMMA PhaseBegins ==
  ASSUME DeviceInv, NEW n \in {0, 1}, at \in {"before", "start"}, n = 0 => at = "before",
         at' = "push", todo' = [request |-> "GetDescriptor(device)", index |-> n],
         initialize_phase_' = n, is_initialized_' = FALSE,
         UNCHANGED <<device, ep0, dict_, class_drivers_, ep_to_class_driver_map, transfer_rings_,
                     keyboard, events, inbox, place, handling, history, raced>>
  PROVE  DeviceInv'
<1> USE DEF DeviceInv, ep0, keyboard, history
<1>1. /\ ~ Configured /\ ~ Configured' /\ initialize_phase_ = 0 /\ ~ is_initialized_
      /\ n \in Nat /\ n \in 0 .. 4 /\ n < 3 /\ n # 4
  <2>1. ~ Configured
    BY DEF PhaseInv
  <2>2. ~ Configured'
    BY DEF Configured
  <2>3. initialize_phase_ = 0
    BY DEF PhaseInv
  <2>4. is_initialized_ \in BOOLEAN
    BY DEF DeviceTypes, TypeOK
  <2>5. ~ is_initialized_
    <3>1. initialize_phase_ # 4
      BY <2>3
    <3> QED BY <3>1 DEF PhaseInv
  <2>6. n \in Nat /\ n \in 0 .. 4 /\ n < 3 /\ n # 4
    OBVIOUS
  <2> QED BY <2>1, <2>2, <2>3, <2>5, <2>6
<1>2. Quiet /\ inbox = <<>> /\ NoIssuers /\ (at = "before" => ~ running)
  BY <1>1 DEF EarlyInv
<1>3. class_drivers_ = {}
  <2>1. initialize_phase_ < 3
    BY <1>1
  <2> QED BY <2>1 DEF PhaseInv
<1>4. DeviceTypes'
  <2>1. todo' \in Setups
    BY <1>1 DEF Setups
  <2>2. initialize_phase_' \in 0 .. 4 /\ is_initialized_' \in BOOLEAN
    BY <1>1
  <2>3. TypeOK'
    <3>1. TypeOK
      BY DEF DeviceTypes
    <3>2. Interfaces' = Interfaces /\ Endpoints' = Endpoints
      BY SameDevice
    <3> HIDE DEF DeviceInv
    <3> QED BY <2>1, <2>2, <3>1, <3>2 DEF TypeOK
  <2> QED BY <2>3 DEF DeviceTypes, Interfaces, Idle
<1>5. PhaseInv'
  <2>1. todo'.request = "GetDescriptor(device)" /\ todo'.index = n
    OBVIOUS
  <2>2. ~ (initialize_phase_' >= 3) /\ initialize_phase_' # 4 /\ initialize_phase_' = todo'.index
    BY <1>1, <2>1
  <2> HIDE DEF DeviceInv
  <2> QED BY <1>1, <1>3, <2>1, <2>2 DEF PhaseInv
<1>6. PendingInv'
  <2>1. Behind(enqueue', dequeue') = 0
    BY <1>2, BackIs, BehindIs DEF Quiet
  <2>2. Reach' = 3
    BY <1>1 DEF Reach, Configured
  <2> QED BY <1>1, <1>2, <2>1, <2>2 DEF PendingInv, Back, Quiet
<1>7. EventInv'
  BY <1>1, <1>2 DEF EventInv, Quiet, Idle
<1>8. EntryInv'
  BY SameDevice DEF EntryInv, Idle, Open, Issuer
<1>9. LoneInv'
  BY <1>1, <1>2 DEF LoneInv, Quiet, Waiting, Idle
<1>10. EarlyInv'
  BY <1>1, <1>2 DEF EarlyInv, Quiet, NoIssuers, Waiting, Idle, Open
<1>11. FirstInv' /\ ListenInv'
  BY <1>1 DEF FirstInv, ListenInv
<1>12. ReportInv'
  BY KeepsReports DEF KeyEvent
<1>13. UndefinedOnlyWithoutEndpoint1'
  BY DEF UndefinedOnlyWithoutEndpoint1
<1> QED BY <1>4, <1>5, <1>6, <1>7, <1>8, <1>9, <1>10, <1>11, <1>12, <1>13

LEMMA BeforeInitializeKeeps ==
  ASSUME DeviceInv, BeforeInitialize
  PROVE  DeviceInv'
<1>1. ~ is_initialized_
  BY DEF DeviceInv, PhaseInv, BeforeInitialize
<1>2. is_initialized_' = FALSE
  BY <1>1 DEF BeforeInitialize, DeviceInv, DeviceTypes, TypeOK
<1> QED BY <1>2, PhaseBegins DEF BeforeInitialize, Send

LEMMA StartInitializeKeeps ==
  ASSUME DeviceInv, StartInitialize
  PROVE  DeviceInv'
<1> DEFINE n == 1
<1>1. n \in {0, 1} /\ n # 0 /\ at = "start" /\ at' = "push" /\ initialize_phase_' = n /\ is_initialized_' = FALSE
      /\ todo' = [request |-> "GetDescriptor(device)", index |-> n]
  BY DEF StartInitialize, Send
<1>2. UNCHANGED <<device, ep0, dict_, class_drivers_, ep_to_class_driver_map, transfer_rings_,
                  keyboard, events, inbox, place, handling, history, raced>>
  BY DEF StartInitialize
<1> HIDE DEF n
<1> QED BY <1>1, <1>2, PhaseBegins

LEMMA ConfigureEndpointsKeeps ==
  ASSUME DeviceInv, ConfigureEndpoints
  PROVE  DeviceInv'
<1> USE DEF DeviceInv, ConfigureEndpoints, ep0, phases, keyboard, history
<1>1. ~ Configured /\ ~ Configured' /\ is_initialized_
  BY DEF PhaseInv, Configured, Nothing
<1>2. Quiet /\ inbox = <<>> /\ NoIssuers
  BY <1>1 DEF EarlyInv
<1>3. DeviceTypes'
  <2>1. todo' \in Setups
    BY DEF Setups, Nothing
  <2>2. TypeOK'
    BY <2>1 DEF DeviceTypes, TypeOK, Interfaces, Endpoints
  <2> QED BY <2>2 DEF DeviceTypes, Interfaces, Idle
<1>4. PhaseInv'
  BY <1>1, SameDevice DEF PhaseInv, Configured
<1>5. PendingInv'
  <2>1. Behind(enqueue', dequeue') = 0
    BY <1>2, BackIs, BehindIs DEF Quiet
  <2>2. Reach' = 3
    BY <1>1 DEF Reach, Configured
  <2> QED BY <1>1, <1>2, <2>1, <2>2 DEF PendingInv, Back, Quiet
<1>6. EventInv'
  BY <1>1, <1>2 DEF EventInv, Quiet, Idle
<1>7. EntryInv'
  BY SameDevice DEF EntryInv, Idle, Open, Issuer
<1>8. LoneInv'
  BY <1>1, <1>2 DEF LoneInv, Quiet, Waiting, Idle
<1>9. EarlyInv'
  BY <1>1, <1>2 DEF EarlyInv, Quiet, NoIssuers, Waiting, Idle, Open
<1>10. FirstInv' /\ ListenInv'
  BY <1>1 DEF FirstInv, ListenInv
<1>11. ReportInv'
  BY KeepsReports DEF KeyEvent
<1>12. UndefinedOnlyWithoutEndpoint1'
  BY DEF UndefinedOnlyWithoutEndpoint1
<1> QED BY <1>3, <1>4, <1>5, <1>6, <1>7, <1>8, <1>9, <1>10, <1>11, <1>12

\* A step that moves the init task on, once the drivers have their turn or when nothing is
\* under way.
LEMMA DoneKeeps ==
  ASSUME DeviceInv, at = "endpoints", at' = "done", {i \in class_drivers_ : i > todo.index} = {},
         UNCHANGED <<device, ep0, dict_, phases, transfer_rings_, keyboard, events, inbox, todo,
                     place, handling, history, raced>>
  PROVE  DeviceInv'
<1> USE DEF DeviceInv, ep0, phases, keyboard, history
<1>1. (Configured' <=> Configured) /\ Reach \in Int /\ Reach' \in Int /\ Reach <= Reach'
  BY ReachGrows
<1>2. ~ Configured => Quiet /\ inbox = <<>> /\ NoIssuers
  BY DEF EarlyInv
<1>3. ~ Configured => Drivers = {}
  <2>1. SUFFICES ASSUME ~ Configured PROVE Drivers = {}
    OBVIOUS
  <2>2. is_initialized_ /\ todo = Nothing
    BY <2>1 DEF PhaseInv
  <2>3. initialize_phase_ = 4
    BY <2>2 DEF PhaseInv
  <2>4. initialize_phase_ >= 3
    BY <2>3
  <2>5. class_drivers_ = Drivers
    BY <2>4 DEF PhaseInv
  <2>6. Drivers \subseteq Nat \ {0}
    BY OneKeyboardIs DEF DeviceTypes, TypeOK
  <2>7. todo.index = 0
    BY <2>2 DEF Nothing
  <2> HIDE DEF DeviceInv
  <2> QED BY <2>5, <2>6, <2>7
<1>4. DeviceTypes'
  <2>1. TypeOK'
    <3>1. TypeOK
      BY DEF DeviceTypes
    <3>2. Interfaces' = Interfaces /\ Endpoints' = Endpoints
      BY SameDevice
    <3> HIDE DEF DeviceInv
    <3> QED BY <3>1, <3>2 DEF TypeOK
  <2> QED BY <2>1 DEF DeviceTypes, Interfaces, Idle
<1>5. PhaseInv'
  BY <1>1, <1>3, SameDevice DEF PhaseInv
<1>6. PendingInv'
  BY <1>1, KeepsPending
<1>7. EventInv'
  BY <1>1, KeepsEvents
<1>8. EntryInv'
  BY KeepsEntries
<1>9. LoneInv'
  BY <1>1, SameDevice DEF LoneInv, Waiting, Back, Idle
<1>10. EarlyInv'
  BY <1>1, <1>2 DEF EarlyInv, Quiet, NoIssuers, Waiting, Idle, Open
<1>11. FirstInv' /\ ListenInv'
  BY <1>1, SameDevice DEF FirstInv, ListenInv, Waiting, Idle
<1>12. ReportInv'
  BY KeepsReports DEF KeyEvent
<1>13. UndefinedOnlyWithoutEndpoint1'
  BY DEF UndefinedOnlyWithoutEndpoint1
<1> QED BY <1>4, <1>5, <1>6, <1>7, <1>8, <1>9, <1>10, <1>11, <1>12, <1>13

\* The turn of the next driver: what was far behind before is not farther now.
LEMMA ProtocolBegins ==
  ASSUME DeviceInv, at = "endpoints", at' = "push", NEW n \in class_drivers_, n > todo.index,
         todo' = [request |-> "SetProtocol", index |-> n],
         UNCHANGED <<device, ep0, dict_, phases, transfer_rings_, keyboard, events, inbox,
                     place, handling, history, raced>>
  PROVE  DeviceInv'
<1> USE DEF DeviceInv, ep0, phases, keyboard, history
<1>1. /\ is_initialized_ /\ transfer_rings_ = Endpoints /\ class_drivers_ = Drivers
      /\ ep_to_class_driver_map = DriverMap
  <2>1. is_initialized_ /\ transfer_rings_ = Endpoints
    BY DEF PhaseInv
  <2>2. initialize_phase_ = 4
    BY <2>1 DEF PhaseInv
  <2>3. initialize_phase_ >= 3
    BY <2>2
  <2> QED BY <2>1, <2>3 DEF PhaseInv
<1>2. n \in Drivers /\ n \in Nat /\ n >= 1 /\ todo.index \in Nat /\ Configured' /\ todo'.index = n
  <2>1. n \in Drivers /\ Drivers \subseteq Nat \ {0}
    BY <1>1, OneKeyboardIs DEF DeviceTypes, TypeOK
  <2>2. todo.index \in Nat
    BY DEF DeviceTypes, TypeOK, Setups
  <2>3. Configured'
    BY DEF Configured
  <2> HIDE DEF DeviceInv
  <2> QED BY <2>1, <2>2, <2>3
<1>3. ~ Configured => Quiet /\ inbox = <<>> /\ NoIssuers
  BY DEF EarlyInv
<1>4. Reach \in Int /\ Reach' \in Int /\ Reach' = 2 * (n - 1) /\ Reach' >= 0 /\ (Configured => Reach <= Reach')
  <2>1. Reach' = 2 * (n - 1)
    BY <1>2 DEF Reach
  <2>2. Configured => Reach = 2 * todo.index
    BY DEF Reach
  <2>3. ~ Configured => Reach = 3
    BY DEF Reach
  <2> HIDE DEF DeviceInv
  <2> QED BY <1>2, <2>1, <2>2, <2>3
<1>5. DeviceTypes'
  <2>1. todo' \in Setups
    BY <1>2 DEF Setups
  <2>2. TypeOK'
    <3>1. TypeOK
      BY DEF DeviceTypes
    <3>2. Interfaces' = Interfaces /\ Endpoints' = Endpoints
      BY SameDevice
    <3> HIDE DEF DeviceInv
    <3> QED BY <2>1, <3>1, <3>2 DEF TypeOK
  <2> QED BY <2>2 DEF DeviceTypes, Interfaces, Idle
<1>6. PhaseInv'
  <2>1. /\ Drivers' = Drivers /\ Endpoints' = Endpoints /\ DriverMap' = DriverMap
    BY SameDevice
  <2>2. /\ is_initialized_ <=> initialize_phase_ = 4
        /\ initialize_phase_ < 3 => class_drivers_ = {}
    BY DEF PhaseInv
  <2> HIDE DEF DeviceInv
  <2> QED BY <1>1, <1>2, <2>1, <2>2 DEF PhaseInv
<1>7. ASSUME Configured PROVE PendingInv' /\ EventInv' /\ LoneInv' /\ FirstInv'
  <2>1. PendingInv'
    BY <1>2, <1>4, <1>7, KeepsPending
  <2>2. EventInv'
    BY <1>2, <1>4, <1>7, KeepsEvents
  <2>3. LoneInv'
    BY <1>2, <1>7, SameDevice DEF LoneInv, Waiting, Back, Idle
  <2>4. FirstInv'
    <3>1. todo.index \in Drivers /\ Drivers' = Drivers
      BY <1>7, SameDevice DEF PhaseInv
    <3>2. ~ \A i \in Drivers' : todo'.index <= i
      BY <1>2, <3>1
    <3> QED BY <3>2 DEF FirstInv
  <2> QED BY <2>1, <2>2, <2>3, <2>4
<1>8. ASSUME ~ Configured PROVE PendingInv' /\ EventInv' /\ LoneInv' /\ FirstInv'
  <2>1. Quiet /\ NoIssuers
    BY <1>3, <1>8
  <2>2. Behind(enqueue', dequeue') = 0 /\ \A p \in Positions : Behind(enqueue', p) \in 0 .. RingSize - 1
    BY <2>1, BackIs, BehindIs DEF Quiet
  <2>3. PendingInv'
    <3>1. (0 % 2) = 0
      BY SMT
    <3>2. \A p \in Positions : ~ (0 < Behind(enqueue', p) /\ Behind(enqueue', p) <= Behind(enqueue', dequeue'))
      BY <2>2, SizesOfRing
    <3> QED BY <1>2, <1>4, <2>2, <3>1, <3>2 DEF PendingInv, Back
  <2>4. EventInv'
    BY <1>2, <2>1 DEF EventInv, Quiet, Idle
  <2>5. LoneInv'
    BY <2>1, <2>2 DEF LoneInv, Quiet, Waiting, Idle, Back
  <2>6. FirstInv'
    BY <2>1 DEF FirstInv, Quiet, NoIssuers, Idle, Open
  <2> QED BY <2>3, <2>4, <2>5, <2>6
<1>9. EntryInv'
  BY KeepsEntries
<1>10. EarlyInv' /\ ListenInv'
  BY <1>2 DEF EarlyInv, ListenInv
<1>11. ReportInv'
  BY KeepsReports DEF KeyEvent
<1>12. UndefinedOnlyWithoutEndpoint1'
  BY DEF UndefinedOnlyWithoutEndpoint1
<1> QED BY <1>5, <1>6, <1>7, <1>8, <1>9, <1>10, <1>11, <1>12

LEMMA OnEndpointsConfiguredKeeps ==
  ASSUME DeviceInv, OnEndpointsConfigured
  PROVE  DeviceInv'
<1> DEFINE rest == {i \in class_drivers_ : i > todo.index}
<1>1. CASE rest = {}
  BY <1>1, DoneKeeps DEF OnEndpointsConfigured
<1>2. CASE rest # {}
  <2>1. rest \subseteq Nat
    BY OneKeyboardIs DEF DeviceInv, DeviceTypes, TypeOK
  <2>2. Least(rest) \in rest
    <3> HIDE DEF rest
    <3> QED BY <1>2, <2>1, LeastIs
  <2> DEFINE n == Least(rest)
  <2>3. at = "endpoints" /\ at' = "push" /\ todo' = [request |-> "SetProtocol", index |-> n]
    BY <1>2 DEF OnEndpointsConfigured, Send
  <2>4. UNCHANGED <<device, ep0, dict_, phases, transfer_rings_, keyboard, events, inbox,
                    place, handling, history, raced>>
    BY DEF OnEndpointsConfigured
  <2>5. n \in class_drivers_ /\ n > todo.index
    BY <2>2
  <2> HIDE DEF n
  <2> QED BY <2>3, <2>4, <2>5, ProtocolBegins
<1> QED BY <1>1, <1>2

LEMMA FindEntryKeeps ==
  ASSUME DeviceInv, FindEntry
  PROVE  DeviceInv'
<1> USE DEF DeviceInv, FindEntry, ep0, phases, keyboard, history
<1>1. /\ at = "put" /\ at' \in {"put entry", "failed"} /\ todo' = todo
      /\ (Configured' <=> Configured) /\ Reach \in Int /\ Reach' \in Int /\ Reach <= Reach'
  <2>1. at = "put" /\ at' \in {"put entry", "failed"} /\ todo' = todo
    OBVIOUS
  <2> QED BY <2>1, ReachGrows
<1>2. ~ Configured => NoIssuers
  BY <1>1 DEF EarlyInv
<1>3. NoIssuers => Free # {}
  <2>1. 1 \in 1 .. MapSize
    BY MapIs
  <2> HIDE DEF DeviceInv, FindEntry
  <2> QED BY <1>1, <2>1 DEF NoIssuers, Free, Open
<1>4. at' = "put entry" => place' \in 1 .. MapSize /\ dict_[place'].issuer = NULL
  <2>1. Free \subseteq Nat /\ Free \subseteq 1 .. MapSize
    <3> HIDE DEF DeviceInv, FindEntry
    <3>1. 1 .. MapSize \subseteq Nat
      BY MapIs
    <3> QED BY <3>1 DEF Free
  <2>2. Free # {} => Least(Free) \in Free
    BY <2>1, LeastIs
  <2>3. at' = "put entry" => place' = Least(Free) /\ Free # {}
    OBVIOUS
  <2> QED BY <2>1, <2>2, <2>3 DEF Free
<1>5. at' = "failed" => Configured /\ place' = place
  BY <1>2, <1>3
<1>6. DeviceTypes'
  <2>1. TypeOK'
    <3>1. TypeOK
      BY DEF DeviceTypes
    <3>2. Interfaces' = Interfaces /\ Endpoints' = Endpoints
      BY SameDevice
    <3>3. place' \in 0 .. MapSize
      <4>1. place \in 0 .. MapSize
        BY <3>1 DEF TypeOK
      <4>2. 1 .. MapSize \subseteq 0 .. MapSize
        BY MapIs
      <4> QED BY <1>1, <1>4, <1>5, <4>1, <4>2
    <3>4. at' \in {"before", "start", "push", "put", "put entry", "put setup", "ring", "wait", "configure",
             "endpoints", "done", "failed", "undefined"}
      BY <1>1
    <3> HIDE DEF DeviceInv
    <3> QED BY <3>1, <3>2, <3>3, <3>4 DEF TypeOK
  <2>2. at' = "put entry" => place' # NULL /\ dict_'[place'].issuer = NULL
    <3>1. \A i \in 1 .. MapSize : i # NULL
      BY MapIs
    <3>2. dict_' = dict_
      OBVIOUS
    <3> QED BY <1>4, <3>1, <3>2
  <2> QED BY <2>1, <2>2 DEF DeviceTypes, Interfaces, Idle
<1>7. PhaseInv'
  BY <1>1, <1>5, SameDevice DEF PhaseInv
<1>8. PendingInv'
  BY <1>1, KeepsPending
<1>9. EventInv'
  BY <1>1, KeepsEvents
<1>10. EntryInv'
  BY KeepsEntries
<1>11. LoneInv'
  BY <1>1, SameDevice DEF LoneInv, Waiting, Back, Idle
<1>12. EarlyInv'
  BY <1>1, <1>5 DEF EarlyInv, Quiet, NoIssuers, Waiting, Idle, Open
<1>13. FirstInv' /\ ListenInv'
  BY <1>1, SameDevice DEF FirstInv, ListenInv, Waiting, Idle, NoIssuers, Open
<1>14. ReportInv'
  BY KeepsReports DEF KeyEvent
<1>15. UndefinedOnlyWithoutEndpoint1'
  BY DEF UndefinedOnlyWithoutEndpoint1
<1> QED BY <1>6, <1>7, <1>8, <1>9, <1>10, <1>11, <1>12, <1>13, <1>14, <1>15

LEMMA RingDoorbellKeeps ==
  ASSUME DeviceInv, RingDoorbell
  PROVE  DeviceInv'
<1> USE DEF DeviceInv, RingDoorbell, phases, keyboard, history
<1>1. /\ at = "ring" /\ at' = (IF Configured THEN "endpoints" ELSE "wait") /\ todo' = todo
      /\ (Configured' <=> Configured) /\ Reach \in Int /\ Reach' \in Int /\ Reach <= Reach'
  <2>1. at = "ring" /\ at' = (IF Configured THEN "endpoints" ELSE "wait") /\ todo' = todo
    BY DEF Configured
  <2>2. at' # "push"
    BY <2>1
  <2> QED BY <2>1, <2>2, ReachGrows
<1>2. DeviceTypes'
  <2>1. TypeOK'
    <3>1. TypeOK
      BY DEF DeviceTypes
    <3>2. Interfaces' = Interfaces /\ Endpoints' = Endpoints
      BY SameDevice
    <3>3. place' \in 0 .. MapSize
      BY SizesOfRing DEF NULL
    <3>4. at' \in {"before", "start", "push", "put", "put entry", "put setup", "ring", "wait", "configure",
             "endpoints", "done", "failed", "undefined"}
      BY <1>1
    <3>5. running' \in BOOLEAN
      OBVIOUS
    <3> HIDE DEF DeviceInv
    <3> QED BY <3>1, <3>2, <3>3, <3>4, <3>5 DEF TypeOK
  <2> QED BY <1>1, <2>1 DEF DeviceTypes, Interfaces, Idle
<1>3. PhaseInv'
  BY <1>1, SameDevice DEF PhaseInv
<1>4. PendingInv'
  BY <1>1, KeepsPending
<1>5. EventInv'
  BY <1>1, KeepsEvents
<1>6. EntryInv'
  BY KeepsEntries
<1>7. LoneInv'
  BY <1>1, SameDevice DEF LoneInv, Waiting, Back, Idle
<1>8. EarlyInv'
  BY <1>1 DEF EarlyInv, Quiet, NoIssuers, Waiting, Idle, Open
<1>9. FirstInv' /\ ListenInv'
  BY <1>1, SameDevice DEF FirstInv, ListenInv, Waiting, Idle, NoIssuers
<1>10. ReportInv'
  BY KeepsReports DEF KeyEvent
<1>11. UndefinedOnlyWithoutEndpoint1'
  BY <1>1, SameDevice DEF UndefinedOnlyWithoutEndpoint1
<1> QED BY <1>2, <1>3, <1>4, <1>5, <1>6, <1>7, <1>8, <1>9, <1>10, <1>11

LEMMA WaitEventKeeps ==
  ASSUME DeviceInv, WaitEvent
  PROVE  DeviceInv'
<1> USE DEF DeviceInv, WaitEvent, ep0, phases, keyboard, history
<1>1. ~ Configured /\ at = "wait" /\ todo' = todo
  BY DEF PhaseInv
<1>2. Quiet /\ Len(inbox) = 1 /\ inbox' = <<>> /\ inbox \in Seq(BOOLEAN) /\ Head(inbox) = inbox[1]
  <2>1. inbox \in Seq(BOOLEAN) /\ inbox # <<>>
    BY DEF DeviceTypes, TypeOK
  <2>2. Len(inbox) <= 1 /\ Quiet
    BY <1>1 DEF EarlyInv
  <2>3. Len(inbox) \in Nat /\ Len(inbox) > 0 /\ (Len(inbox) <= 1 => Tail(inbox) = <<>>) /\ Head(inbox) = inbox[1]
    BY <2>1, TailIs
  <2>4. inbox' = Tail(inbox)
    OBVIOUS
  <2>5. Len(inbox) = 1
    <3> DEFINE l == Len(inbox)
    <3>1. l \in Nat /\ l > 0 /\ l <= 1
      BY <2>2, <2>3
    <3> HIDE DEF l
    <3>2. l = 1
      BY ONLY <3>1
    <3> QED BY <3>2 DEF l
  <2> HIDE DEF DeviceInv, WaitEvent
  <2> QED BY <2>1, <2>2, <2>3, <2>4, <2>5
<1>3. Head(inbox) => inbox = <<TRUE>>
  <2>1. SUFFICES ASSUME Head(inbox) PROVE inbox = <<TRUE>>
    OBVIOUS
  <2>2. inbox[1] \in BOOLEAN /\ inbox[1] = TRUE
    BY <1>2, <2>1, ElementOfSeq
  <2>3. inbox = <<inbox[1]>>
    <3> HIDE DEF DeviceInv, WaitEvent
    <3>1. inbox # <<>>
      BY <1>2
    <3> QED BY <1>2, <3>1, TailIs, HeadTailProperties
  <2> QED BY <2>2, <2>3
<1>4. Head(inbox) => NoIssuers /\ initialize_phase_ \in {0, 4}
  BY <1>1, <1>3 DEF EarlyInv
<1>5. todo.request = "GetDescriptor(device)" /\ todo.index \in {0, 1}
  BY <1>1 DEF PhaseInv
<1>6. /\ at' \in {"failed", "start", "configure"}
      /\ at' = "start" => Head(inbox) /\ initialize_phase_ = 0
      /\ at' = "configure" => Head(inbox) /\ is_initialized_
      /\ Configured' <=> Configured
  <2>1. /\ at' \in {"failed", "start", "configure"}
        /\ at' = "start" => Head(inbox) /\ todo.index = 0
        /\ at' = "configure" => Head(inbox) /\ todo.index # 0
    OBVIOUS
  <2>2. todo.index = 0 => initialize_phase_ = 0
    BY <1>1 DEF PhaseInv
  <2>3. todo.index # 0 => initialize_phase_ # 0
    BY <1>1, <1>5 DEF PhaseInv
  <2>4. initialize_phase_ = 4 <=> is_initialized_
    BY DEF PhaseInv
  <2>5. Configured' <=> Configured
    BY <1>1 DEF Configured
  <2> QED BY <1>4, <2>1, <2>2, <2>3, <2>4, <2>5
<1>7. Reach \in Int /\ Reach' \in Int /\ Reach <= Reach'
  BY <1>1, <1>6, ReachGrows
<1>8. DeviceTypes'
  <2>1. TypeOK'
    <3>1. TypeOK
      BY DEF DeviceTypes
    <3>2. Interfaces' = Interfaces /\ Endpoints' = Endpoints
      BY SameDevice
    <3>3. inbox' \in Seq(BOOLEAN)
      <4>1. <<>> \in Seq(BOOLEAN)
        BY EmptyIs
      <4> QED BY <1>2, <4>1
    <3>4. at' \in {"before", "start", "push", "put", "put entry", "put setup", "ring", "wait", "configure",
             "endpoints", "done", "failed", "undefined"}
      BY <1>6
    <3> HIDE DEF DeviceInv
    <3> QED BY <3>1, <3>2, <3>3, <3>4 DEF TypeOK
  <2> QED BY <1>6, <2>1 DEF DeviceTypes, Interfaces, Idle
<1>9. PhaseInv'
  <2>1. /\ Drivers' = Drivers /\ Endpoints' = Endpoints /\ DriverMap' = DriverMap
    BY SameDevice
  <2> QED BY <1>1, <1>6, <2>1 DEF PhaseInv
<1>10. PendingInv'
  BY <1>6, <1>7, KeepsPending
<1>11. EventInv'
  BY <1>6, <1>7, KeepsEvents
<1>12. EntryInv'
  BY KeepsEntries
<1>13. LoneInv'
  BY <1>1, <1>6, SameDevice DEF LoneInv, Waiting, Back, Idle
<1>14. EarlyInv'
  <2>1. inbox' = <<>> /\ Len(inbox') <= 1 /\ inbox' # <<TRUE>>
    <3> HIDE DEF DeviceInv, WaitEvent
    <3>1. Len(inbox') = 0 /\ inbox' # <<TRUE>>
      BY <1>2, EmptyIs
    <3> QED BY <1>2, <3>1
  <2>2. Quiet' /\ (Waiting' <=> Waiting)
    BY <1>2 DEF Quiet, Waiting, Idle
  <2>3. at' # "failed" => NoIssuers'
    BY <1>4, <1>6 DEF NoIssuers, Open
  <2>4. \A i, j \in 1 .. MapSize : dict_[i].issuer # NULL /\ dict_[j].issuer # NULL => i = j
    BY <1>1 DEF EarlyInv
  <2> HIDE DEF DeviceInv
  <2> QED BY <1>6, <2>1, <2>2, <2>3, <2>4 DEF EarlyInv, Quiet
<1>15. FirstInv' /\ ListenInv'
  BY <1>1, <1>6 DEF FirstInv, ListenInv
<1>16. ReportInv'
  BY KeepsReports DEF KeyEvent
<1>17. UndefinedOnlyWithoutEndpoint1'
  BY <1>6 DEF UndefinedOnlyWithoutEndpoint1
<1> QED BY <1>8, <1>9, <1>10, <1>11, <1>12, <1>13, <1>14, <1>15, <1>16, <1>17

LEMMA StopRunningKeeps ==
  ASSUME DeviceInv, StopRunning
  PROVE  DeviceInv'
<1> USE DEF DeviceInv, StopRunning, initTask, phases, keyboard, history
<1>1. /\ at' = at /\ todo' = todo
      /\ (Configured' <=> Configured) /\ Reach \in Int /\ Reach' \in Int /\ Reach <= Reach'
  BY ReachGrows
<1>2. DeviceTypes'
  <2>1. TypeOK'
    <3>1. TypeOK
      BY DEF DeviceTypes
    <3>2. Interfaces' = Interfaces /\ Endpoints' = Endpoints
      BY SameDevice
    <3>3. running' \in BOOLEAN
      OBVIOUS
    <3> HIDE DEF DeviceInv
    <3> QED BY <3>1, <3>2, <3>3 DEF TypeOK
  <2> QED BY <1>1, <2>1 DEF DeviceTypes, Interfaces, Idle, Issuer
<1>3. PhaseInv'
  BY <1>1, SameDevice DEF PhaseInv
<1>4. PendingInv'
  BY <1>1, KeepsPending
<1>5. EventInv'
  BY <1>1, KeepsEvents
<1>6. EntryInv'
  BY KeepsEntries
<1>7. LoneInv'
  BY <1>1, SameDevice DEF LoneInv, Waiting, Back, Idle
<1>8. EarlyInv'
  BY <1>1 DEF EarlyInv, Quiet, NoIssuers, Waiting, Idle, Open
<1>9. FirstInv' /\ ListenInv'
  BY <1>1, SameDevice DEF FirstInv, ListenInv, Waiting, Idle, NoIssuers, Quiet, Open
<1>10. ReportInv'
  BY KeepsReports DEF KeyEvent
<1>11. UndefinedOnlyWithoutEndpoint1'
  BY <1>1, SameDevice DEF UndefinedOnlyWithoutEndpoint1
<1> QED BY <1>2, <1>3, <1>4, <1>5, <1>6, <1>7, <1>8, <1>9, <1>10, <1>11

\* The TRB that raises the event, counted back from where the last push left the driver.
LEMMA IssuerIs ==
  ASSUME NEW e \in Positions, NEW n \in 2 .. 3
  PROVE  /\ Plus(e, RingSize - n + 1) \in Positions
         /\ \A d \in Positions : Behind(e, d) = n => Plus(e, RingSize - n + 1) = Plus(d, 1)
<1>1. RingSize \in Nat /\ RingSize > 6 /\ Positions = 1 .. RingSize /\ e \in 1 .. RingSize
  BY SizesOfRing
<1> DEFINE m == RingSize - n + 1
<1>2. m \in 0 .. RingSize
  BY <1>1
<1>3. Plus(e, m) \in Positions /\ Plus(e, m) = IF e + m <= RingSize THEN e + m ELSE e + m - RingSize
  <2> HIDE DEF m
  <2> QED BY <1>2, PlusIs
<1>4. ASSUME NEW d \in Positions, Behind(e, d) = n
      PROVE  Plus(e, m) = Plus(d, 1)
  <2>1. 1 \in 0 .. RingSize
    BY <1>1
  <2>2. Plus(d, 1) = IF d + 1 <= RingSize THEN d + 1 ELSE d + 1 - RingSize
    BY <2>1, PlusIs
  <2> DEFINE x == Plus(e, m)
             y == Plus(d, 1)
  <2>3. x = IF e + m <= RingSize THEN e + m ELSE e + m - RingSize
    BY <1>3
  <2>4. y = IF d + 1 <= RingSize THEN d + 1 ELSE d + 1 - RingSize
    BY <2>2
  <2> HIDE DEF x, y
  <2>5. d \in 1 .. RingSize /\ n = (IF d <= e THEN e - d ELSE e + RingSize - d)
    BY <1>1, <1>4 DEF Behind
  <2>6. x = y
    BY <1>1, <2>3, <2>4, <2>5
  <2> QED BY <2>6 DEF x, y
<1> QED BY <1>3, <1>4

\* The TRB that raises the event of what the init task sends, and who deletes meanwhile.
LEMMA IssuerOfTodo ==
  ASSUME DeviceTypes
  PROVE  /\ Issuer \in Positions /\ Issuer # NULL /\ Before(Issuer) \in Positions /\ Before(Issuer) # NULL
         /\ Plus(Issuer, RingSize - 1) = Before(Issuer)
         /\ \A d \in Positions : Back(d) = Len(Stages(todo.request)) => Issuer = Plus(d, 1) /\ Before(Issuer) = d
<1> DEFINE n == Len(Stages(todo.request))
<1>1. n \in 2 .. 3
  BY StagesOfRequest
<1>2. enqueue \in Positions
  BY BackIs
<1>3. Issuer = Plus(enqueue, RingSize - n + 1)
  BY DEF Issuer
<1> HIDE DEF n
<1>4. Issuer \in Positions /\ \A d \in Positions : Back(d) = n => Issuer = Plus(d, 1)
  BY <1>1, <1>2, <1>3, IssuerIs DEF Back
<1>5. Before(Issuer) \in Positions /\ Plus(Issuer, RingSize - 1) = Before(Issuer)
  BY <1>4, BeforeIs
<1>6. \A d \in Positions : Before(Plus(d, 1)) = d
  BY BeforeIs
<1>7. Issuer # NULL /\ Before(Issuer) # NULL
  BY <1>4, <1>5, SizesOfRing
<1> QED BY <1>4, <1>5, <1>6, <1>7 DEF n

LEMMA DeletedWhilePut ==
  ASSUME DeviceInv, at \in {"put entry", "put setup"}, handling # Idle
  PROVE  TwoDrivers
<1> USE DEF DeviceInv
<1>1. SUFFICES ASSUME ~ TwoDrivers PROVE FALSE
  OBVIOUS
<1>2. Configured
  BY DEF EarlyInv
<1>3. todo.index \in Drivers /\ \A i \in Drivers : i = todo.index /\ i \in Nat
  BY <1>1, <1>2, OneKeyboardIs DEF PhaseInv, DeviceTypes, TypeOK
<1>4. \A i \in Drivers : todo.index <= i
  <2>1. SUFFICES ASSUME NEW i \in Drivers PROVE todo.index <= i
    OBVIOUS
  <2>2. i = todo.index /\ i \in Nat
    BY <1>3
  <2> QED BY ONLY <2>2
<1> QED BY <1>2, <1>4 DEF FirstInv

\* The first half of the entry: it is open, and the event that is to come finds it.
LEMMA PutEntryKeeps ==
  ASSUME DeviceInv, PutEntry
  PROVE  DeviceInv'
<1> USE DEF DeviceInv, ep0, phases, keyboard, history
<1>1. /\ at = "put entry" /\ at' = "put setup" /\ todo' = todo
      /\ (Configured' <=> Configured) /\ Reach \in Int /\ Reach' \in Int /\ Reach <= Reach'
      /\ UNCHANGED <<device, ep0, phases, transfer_rings_, keyboard, events, inbox, todo, place,
                     handling, history, raced>>
  <2>1. at = "put entry" /\ at' = "put setup" /\ todo' = todo
        /\ UNCHANGED <<device, ep0, phases, transfer_rings_, keyboard, events, inbox, todo, place,
                       handling, history, raced>>
    BY DEF PutEntry
  <2> QED BY <2>1, ReachGrows
<1>2. /\ Issuer \in Positions /\ Issuer # NULL /\ Issuer' = Issuer
      /\ \A i : ~ Open(i) /\ (Open(i)' <=> i = place)
  <2>1. Issuer' = Issuer
    BY <1>1 DEF Issuer
  <2> QED BY <1>1, <2>1, IssuerOfTodo DEF Open
<1>3. dict_' = [dict_ EXCEPT ![place].issuer = Issuer]
  BY DEF PutEntry
<1>4. /\ dict_ \in [1 .. MapSize -> [issuer : Positions \cup {NULL}, setup : Positions \cup {NULL}]]
      /\ place \in 1 .. MapSize /\ place # NULL /\ dict_[place].issuer = NULL
  <2>1. place \in 0 .. MapSize /\ place # NULL /\ dict_[place].issuer = NULL
    BY <1>1 DEF DeviceTypes, TypeOK
  <2>2. place \in 1 .. MapSize
    BY <2>1, SizesOfRing
  <2> QED BY <2>1, <2>2 DEF DeviceTypes, TypeOK
<1>5. /\ dict_'[place].issuer = Issuer /\ dict_'[place].setup = dict_[place].setup
      /\ \A i \in 1 .. MapSize : i # place => dict_'[i] = dict_[i]
  BY <1>3, <1>4
<1>6. DeviceTypes'
  <2>1. TypeOK'
    <3>1. TypeOK
      BY DEF DeviceTypes
    <3>2. Interfaces' = Interfaces /\ Endpoints' = Endpoints
      BY <1>1, SameDevice
    <3>3. dict_' \in [1 .. MapSize -> [issuer : Positions \cup {NULL}, setup : Positions \cup {NULL}]]
      BY <1>2, <1>3, <1>4
    <3>4. at' \in {"before", "start", "push", "put", "put entry", "put setup", "ring", "wait", "configure",
             "endpoints", "done", "failed", "undefined"}
      BY <1>1
    <3> HIDE DEF DeviceInv
    <3> QED BY <1>1, <3>1, <3>2, <3>3, <3>4 DEF TypeOK
  <2> QED BY <1>1, <1>2, <1>4, <1>5, <2>1 DEF DeviceTypes, Interfaces, Idle
<1>7. PhaseInv'
  BY <1>1, SameDevice DEF PhaseInv
<1>8. PendingInv'
  BY <1>1, KeepsPending
<1>9. EventInv'
  BY <1>1, KeepsEvents
<1>10. EntryInv'
  <2>1. \A i \in 1 .. MapSize : dict_'[i].issuer # NULL /\ dict_'[i].setup # NULL =>
          Open(i)' \/ dict_'[i].setup = Before(dict_'[i].issuer)
    BY <1>2, <1>5 DEF EntryInv
  <2>2. raced = {} => \A i \in 1 .. MapSize : dict_'[i].issuer # NULL => Open(i)' \/ dict_'[i].setup # NULL
    BY <1>1, <1>2, <1>5 DEF EntryInv
  <2>3. \A i \in 1 .. MapSize : dict_'[i].issuer = NULL \/ Open(i)' =>
          dict_'[i].setup = NULL \/ (handling # Idle /\ handling.entry = i)
    BY <1>2, <1>4, <1>5 DEF EntryInv
  <2>4. raced = {} =>
          \A j \in DOMAIN events : events[j].endpoint = 0 /\ events[j].ok => events[j].issuer # Issuer'
    BY <1>1, <1>2 DEF EntryInv
  <2>5. raced = {} => \A j \in DOMAIN events : events[j].endpoint = 0 /\ events[j].ok =>
          \E i \in 1 .. MapSize : dict_'[i].issuer = events[j].issuer
    <3>1. SUFFICES ASSUME raced = {}, NEW j \in DOMAIN events, events[j].endpoint = 0, events[j].ok
                   PROVE  \E i \in 1 .. MapSize : dict_'[i].issuer = events[j].issuer
      OBVIOUS
    <3>2. PICK i \in 1 .. MapSize : dict_[i].issuer = events[j].issuer
      BY <3>1 DEF EntryInv
    <3>3. events[j].issuer # NULL
      BY <3>1, SizesOfRing DEF EventInv
    <3> QED BY <1>4, <1>5, <3>2, <3>3
  <2>6. TwoDrivers' <=> TwoDrivers
    BY <1>1, SameDevice
  <2>7. ("entry put while deleted" \in raced => TwoDrivers) /\ (handling # Idle => TwoDrivers)
    BY <1>1, DeletedWhilePut DEF EntryInv
  <2> HIDE DEF DeviceInv
  <2> QED BY <1>1, <2>1, <2>2, <2>3, <2>4, <2>5, <2>6, <2>7 DEF EntryInv, Idle
<1>11. LoneInv'
  BY <1>1, SameDevice DEF LoneInv, Waiting, Back, Idle
<1>12. NoIssuers => NoIssuers' /\ \A i \in 1 .. MapSize : dict_'[i].issuer # NULL => i = place
  BY <1>2, <1>5 DEF NoIssuers
<1>13. EarlyInv'
  <2>1. SUFFICES ASSUME ~ Configured PROVE EarlyInv'
    BY <1>1 DEF EarlyInv
  <2>2. NoIssuers /\ inbox # <<TRUE>> /\ handling = Idle
    BY <1>1, <2>1 DEF EarlyInv
  <2>3. NoIssuers' /\ \A i \in 1 .. MapSize : dict_'[i].issuer # NULL => i = place
    BY <1>12, <2>2
  <2>4. Len(inbox) <= 1 /\ (inbox # <<>> => Quiet)
    BY <2>1 DEF EarlyInv
  <2>5. todo.index = 0 => ~ running /\ events = <<>> /\ inbox = <<>>
    BY <1>1, <2>1 DEF EarlyInv
  <2> HIDE DEF DeviceInv
  <2> QED BY <1>1, <2>1, <2>2, <2>3, <2>4, <2>5 DEF EarlyInv, Quiet, Waiting, Idle
<1>14. FirstInv' /\ ListenInv'
  BY <1>1, <1>12, SameDevice DEF FirstInv, ListenInv, Waiting, Idle
<1>15. ReportInv'
  BY <1>1, KeepsReports DEF KeyEvent
<1>16. UndefinedOnlyWithoutEndpoint1'
  BY <1>1, SameDevice DEF UndefinedOnlyWithoutEndpoint1
<1> QED BY <1>6, <1>7, <1>8, <1>9, <1>10, <1>11, <1>13, <1>14, <1>15, <1>16

\* The second half pairs the event that is to come with the setup stage.
LEMMA PutSetupKeeps ==
  ASSUME DeviceInv, PutSetup
  PROVE  DeviceInv'
<1> USE DEF DeviceInv, ep0, phases, keyboard, history
<1>1. /\ at = "put setup" /\ at' = "ring" /\ todo' = todo
      /\ (Configured' <=> Configured) /\ Reach \in Int /\ Reach' \in Int /\ Reach <= Reach'
      /\ UNCHANGED <<device, ep0, phases, transfer_rings_, keyboard, events, inbox, todo, place,
                     handling, history, raced>>
  <2>1. at = "put setup" /\ at' = "ring" /\ todo' = todo
        /\ UNCHANGED <<device, ep0, phases, transfer_rings_, keyboard, events, inbox, todo, place,
                       handling, history, raced>>
    BY DEF PutSetup
  <2> QED BY <2>1, ReachGrows
<1>2. /\ Issuer \in Positions /\ Issuer # NULL /\ Before(Issuer) \in Positions /\ Before(Issuer) # NULL
      /\ \A d \in Positions : Back(d) = Len(Stages(todo.request)) => Issuer = Plus(d, 1) /\ Before(Issuer) = d
      /\ \A i : ~ Open(i)' /\ (Open(i) <=> i = place)
  BY <1>1, IssuerOfTodo DEF Open
<1> DEFINE entry == [issuer |-> Issuer, setup |-> Before(Issuer)]
<1>3. dict_' = [dict_ EXCEPT ![place].setup = Before(Issuer)]
  BY IssuerOfTodo DEF PutSetup
<1>4. /\ dict_ \in [1 .. MapSize -> [issuer : Positions \cup {NULL}, setup : Positions \cup {NULL}]]
      /\ place \in 1 .. MapSize /\ dict_[place].issuer = Issuer
  <2>1. place \in 0 .. MapSize /\ place # NULL /\ dict_[place].issuer = Issuer
    BY <1>1 DEF DeviceTypes, TypeOK
  <2>2. place \in 1 .. MapSize
    BY <2>1, SizesOfRing
  <2> QED BY <2>1, <2>2 DEF DeviceTypes, TypeOK
<1>5. /\ dict_'[place] = entry /\ entry.issuer = Issuer /\ entry.setup = Before(Issuer)
      /\ \A i \in 1 .. MapSize : i # place => dict_'[i] = dict_[i]
  BY <1>3, <1>4
<1> HIDE DEF entry
<1>6. DeviceTypes'
  <2>1. TypeOK'
    <3>1. TypeOK
      BY DEF DeviceTypes
    <3>2. Interfaces' = Interfaces /\ Endpoints' = Endpoints
      BY <1>1, SameDevice
    <3>3. dict_' \in [1 .. MapSize -> [issuer : Positions \cup {NULL}, setup : Positions \cup {NULL}]]
      BY <1>2, <1>3, <1>4
    <3>4. at' \in {"before", "start", "push", "put", "put entry", "put setup", "ring", "wait", "configure",
             "endpoints", "done", "failed", "undefined"}
      BY <1>1
    <3> HIDE DEF DeviceInv
    <3> QED BY <1>1, <3>1, <3>2, <3>3, <3>4 DEF TypeOK
  <2> QED BY <1>1, <2>1 DEF DeviceTypes, Interfaces, Idle
<1>7. PhaseInv'
  <2>1. /\ Drivers' = Drivers /\ Endpoints' = Endpoints /\ DriverMap' = DriverMap
    BY <1>1, SameDevice
  <2>2. ~ Configured => todo.index \in {0, 1} /\ initialize_phase_ = todo.index
    BY <1>1 DEF PhaseInv
  <2>3. ~ Configured => initialize_phase_ # 4 /\ (todo.index = 1 => initialize_phase_ # 0)
    BY <2>2
  <2> QED BY <1>1, <2>1, <2>2, <2>3 DEF PhaseInv
<1>8. PendingInv'
  BY <1>1, KeepsPending
<1>9. EventInv'
  BY <1>1, KeepsEvents
<1>10. EntryInv'
  <2>1. \A i \in 1 .. MapSize : dict_'[i].issuer # NULL /\ dict_'[i].setup # NULL =>
          dict_'[i].setup = Before(dict_'[i].issuer)
    <3>1. \A i \in 1 .. MapSize : i # place =>
            (dict_[i].issuer # NULL /\ dict_[i].setup # NULL => dict_[i].setup = Before(dict_[i].issuer))
      BY <1>2 DEF EntryInv
    <3> HIDE DEF DeviceInv
    <3> QED BY <1>5, <3>1
  <2>2. raced = {} => \A i \in 1 .. MapSize : dict_'[i].issuer # NULL => dict_'[i].setup # NULL
    <3>1. raced = {} => \A i \in 1 .. MapSize : i # place => (dict_[i].issuer # NULL => dict_[i].setup # NULL)
      BY <1>1, <1>2 DEF EntryInv
    <3> HIDE DEF DeviceInv
    <3> QED BY <1>2, <1>5, <3>1
  <2>3. \A i \in 1 .. MapSize : dict_'[i].issuer = NULL =>
          dict_'[i].setup = NULL \/ (handling # Idle /\ handling.entry = i)
    BY <1>2, <1>5 DEF EntryInv
  <2>4. raced = {} => \A j \in DOMAIN events : events[j].endpoint = 0 /\ events[j].ok =>
          \E i \in 1 .. MapSize : dict_'[i].issuer = events[j].issuer
    <3>1. \A i \in 1 .. MapSize : dict_'[i].issuer = dict_[i].issuer
      BY <1>4, <1>5
    <3>2. raced = {} => \A j \in DOMAIN events : events[j].endpoint = 0 /\ events[j].ok =>
            \E i \in 1 .. MapSize : dict_[i].issuer = events[j].issuer
      BY DEF EntryInv
    <3> HIDE DEF DeviceInv
    <3> QED BY <3>1, <3>2
  <2>5. TwoDrivers' <=> TwoDrivers
    BY <1>1, SameDevice
  <2>6. ("entry put while deleted" \in raced => TwoDrivers) /\ (handling # Idle => TwoDrivers)
    BY <1>1, DeletedWhilePut DEF EntryInv
  <2> HIDE DEF DeviceInv
  <2> QED BY <1>1, <1>2, <2>1, <2>2, <2>3, <2>4, <2>5, <2>6 DEF EntryInv, Idle
<1>11. LoneInv'
  BY <1>1, SameDevice DEF LoneInv, Waiting, Back, Idle
<1>12. EarlyInv'
  <2>1. SUFFICES ASSUME ~ Configured PROVE EarlyInv'
    BY <1>1 DEF EarlyInv
  <2>2. NoIssuers /\ inbox # <<TRUE>> /\ handling = Idle
    BY <1>1, <2>1 DEF EarlyInv
  <2>3. \A i \in 1 .. MapSize : dict_'[i].issuer # NULL => i = place
    BY <1>2, <1>5, <2>2 DEF NoIssuers
  <2>4. Len(inbox) <= 1 /\ (inbox # <<>> => Quiet)
    BY <2>1 DEF EarlyInv
  <2>5. todo.index = 0 => events = <<>>
    BY <1>1, <2>1 DEF EarlyInv
  <2>6. Waiting => dict_'[place] = [issuer |-> Plus(dequeue, 1), setup |-> dequeue]
    <3>1. SUFFICES ASSUME Waiting PROVE dict_'[place] = [issuer |-> Plus(dequeue, 1), setup |-> dequeue]
      OBVIOUS
    <3>2. Back(dequeue) = Len(Stages(ring[dequeue].setup.request)) /\ ring[dequeue].setup = todo
      BY <1>1, <2>1, <3>1 DEF PendingInv, Waiting
    <3>3. Back(dequeue) = Len(Stages(todo.request)) /\ dequeue \in Positions
      BY <3>2, BackIs
    <3>4. Issuer = Plus(dequeue, 1) /\ Before(Issuer) = dequeue
      BY <1>2, <3>3
    <3> QED BY <1>5, <3>4 DEF entry
  <2> HIDE DEF DeviceInv
  <2> QED BY <1>1, <1>4, <2>1, <2>2, <2>3, <2>4, <2>5, <2>6 DEF EarlyInv, Quiet, Waiting, Idle
<1>13. FirstInv' /\ ListenInv'
  BY <1>1, SameDevice DEF FirstInv, ListenInv, Waiting, Idle
<1>14. ReportInv'
  BY <1>1, KeepsReports DEF KeyEvent
<1>15. UndefinedOnlyWithoutEndpoint1'
  BY <1>1, SameDevice DEF UndefinedOnlyWithoutEndpoint1
<1> QED BY <1>6, <1>7, <1>8, <1>9, <1>10, <1>11, <1>12, <1>13, <1>14, <1>15

\* The transfers of the drivers have two TRBs each, so positions keep their parity.
LEMMA EvenIs ==
  ASSUME NEW x \in Int
  PROVE  /\ ((x + 2) % 2) = (x % 2) /\ ((x - 2) % 2) = (x % 2) /\ (0 % 2) = 0 /\ (2 % 2) = 0
         /\ (x % 2) = 0 /\ x > 0 => x >= 2
OBVIOUS

\* When nothing is under way, the invariants of events and transfers ask for little.
LEMMA PushedAlone ==
  ASSUME DeviceTypes, DeviceTypes', dequeue = enqueue, dequeue' = dequeue,
         NEW setup \in Setups, PushStages(setup), ~ Configured',
         at' \in {"put", "put entry", "put setup"} => setup = todo',
         events' = <<>>, handling' = Idle, requests' = <<>>
  PROVE  PendingInv' /\ EventInv' /\ Waiting'
<1> DEFINE n == Len(Stages(setup.request))
<1>1. /\ n \in 2 .. 3 /\ ring'[enqueue] = [type |-> "setup", setup |-> setup]
      /\ Behind(enqueue', enqueue) = n
  BY PushedStages DEF DeviceTypes, TypeOK, TRBType
<1>2. dequeue' = enqueue
  OBVIOUS
<1> HIDE DEF n
<1>3. /\ ring'[dequeue'].type = "setup" /\ ring'[dequeue'].setup = setup
      /\ Behind(enqueue', dequeue') = n /\ n <= 3 /\ n # 0
  <2>1. ring'[dequeue'] = [type |-> "setup", setup |-> setup]
    BY <1>1, <1>2
  <2>2. Behind(enqueue', dequeue') = n
    BY <1>1, <1>2
  <2>3. n \in 2 .. 3
    BY <1>1
  <2>4. n <= 3 /\ n # 0
    BY ONLY <2>3
  <2>5. ring'[dequeue'].type = "setup" /\ ring'[dequeue'].setup = setup
    <3> DEFINE v == ring'[dequeue']
    <3>1. v = [type |-> "setup", setup |-> setup]
      BY <2>1
    <3> HIDE DEF v
    <3>2. v.type = "setup" /\ v.setup = setup
      BY ONLY <3>1
    <3> QED BY <3>2 DEF v
  <2> QED BY <2>2, <2>4, <2>5
<1>4. Reach' = 3
  BY DEF Reach
<1>5. PendingInv'
  BY <1>3, <1>4 DEF PendingInv, Back, n
<1>6. EventInv'
  <2>1. DOMAIN events' = {}
    BY EmptyIs
  <2> QED BY <2>1 DEF EventInv
<1>7. Waiting'
  <2>1. enqueue' \in Positions
    BY DEF DeviceTypes, TypeOK
  <2>2. Behind(enqueue', enqueue') = 0
    BY <2>1, BehindIs
  <2> QED BY <1>3, <2>2 DEF Waiting
<1> QED BY <1>5, <1>6, <1>7

\* The transfers of the drivers follow each other.
LEMMA PushedBehind ==
  ASSUME DeviceTypes, PendingInv, EventInv, Configured, at = "push", todo.index \in Drivers,
         PushStages(todo), at' = "put", todo' = todo,
         UNCHANGED <<device, dequeue, halted, events, handling, requests, class_drivers_>>
  PROVE  PendingInv' /\ EventInv' /\ Waiting' /\ Behind(enqueue', dequeue') = Back(dequeue) + 2
<1> DEFINE i == todo.index
<1>1. i \in Int /\ i >= 1 /\ 2 * i < RingSize /\ RingSize \in Int
  <2>1. i \in Nat \ {0} /\ 2 * i < RingSize
    BY OneKeyboardIs DEF DeviceTypes, TypeOK
  <2> HIDE DEF i
  <2> QED BY <2>1, SizesOfRing
<1>2. Reach = 2 * (i - 1) /\ Reach' = 2 * i /\ Configured'
  BY DEF Reach, Configured
<1>3. /\ enqueue' \in Positions /\ enqueue \in Positions /\ dequeue \in Positions
      /\ ring'[enqueue] = [type |-> "setup", setup |-> todo] /\ Behind(enqueue', enqueue) = 2
      /\ \A p \in Positions : Back(p) > 0 /\ Back(p) + 2 < RingSize =>
           ring'[p] = ring[p] /\ Behind(enqueue', p) = Back(p) + 2
      /\ \A p \in Positions : Behind(enqueue', p) >= 2 => Back(p) = Behind(enqueue', p) - 2
  <2>1. Len(Stages(todo.request)) = 2
    <3>1. Len(Stages(todo.request)) \in 2 .. 3 /\ todo.request = "SetProtocol"
      BY StagesOfRequest DEF Configured
    <3>2. Stages("SetProtocol") = <<"setup", "status">>
      BY DEF Stages
    <3> QED BY <3>1, <3>2
  <2>2. /\ enqueue \in Positions /\ dequeue \in Positions /\ ring \in [Positions -> TRBType] /\ todo \in Setups
    BY DEF DeviceTypes, TypeOK, TRBType
  <2> QED BY <2>1, <2>2, PushedStages
<1> HIDE DEF i
<1>4. \A p \in Positions : Back(p) \in Int /\ Behind(enqueue', p) \in Int /\ Back(p) >= 0 /\ Before(p) \in Positions
      /\ (Back(p) = 0 <=> p = enqueue)
  <2>1. \A p \in Positions : Behind(enqueue', p) \in Int
    BY <1>3, BehindIs, SizesOfRing
  <2>2. \A p \in Positions : Back(p) = 0 <=> p = enqueue
    BY <1>3, BehindIs DEF Back
  <2> QED BY <2>1, <2>2, BackIs
<1>5. \A p \in Positions : Back(p) > 0 /\ Back(p) <= Reach =>
        ring'[p] = ring[p] /\ Behind(enqueue', p) = Back(p) + 2 /\ Back(p) + 2 <= Reach'
  <2>1. SUFFICES ASSUME NEW p \in Positions, Back(p) > 0, Back(p) <= Reach
                 PROVE  Back(p) + 2 <= Reach' /\ Back(p) + 2 < RingSize
    BY <1>3
  <2> DEFINE b == Back(p)
  <2>2. b \in Int /\ b <= 2 * (i - 1)
    BY <1>2, <1>4, <2>1
  <2> HIDE DEF b
  <2>3. b + 2 <= 2 * i /\ b + 2 < RingSize
    BY <1>1, <2>2
  <2> QED BY <1>2, <2>3 DEF b
<1>6. Back(dequeue) <= Reach /\ (Back(dequeue) % 2) = 0
  BY DEF PendingInv
<1>7. Behind(enqueue', dequeue) = Back(dequeue) + 2 /\ Back(dequeue) + 2 <= Reach'
  <2>1. CASE dequeue = enqueue
    <3>1. Back(dequeue) = 0 /\ 0 + 2 <= 2 * i
      BY <1>1, <1>3, <1>4, <2>1
    <3> QED BY <1>2, <1>3, <2>1, <3>1
  <2>2. CASE dequeue # enqueue
    <3>1. Back(dequeue) > 0
      BY <1>3, <1>4, <2>2
    <3> QED BY <1>3, <1>5, <1>6, <3>1
  <2> QED BY <2>1, <2>2
<1>8. todo \in Protocols
  BY DEF Protocols, Configured, DeviceTypes, TypeOK
<1>9. Protocols' = Protocols
  BY SameDevice
<1>10. PendingInv'
  <2>1. (Behind(enqueue', dequeue') % 2) = 0
    <3>1. ((Back(dequeue) + 2) % 2) = (Back(dequeue) % 2)
      BY <1>3, <1>4, EvenIs
    <3> QED BY <1>6, <1>7, <3>1
  <2>2. ASSUME NEW p \in Positions, (Behind(enqueue', p) % 2) = 0, 0 < Behind(enqueue', p),
               Behind(enqueue', p) <= Behind(enqueue', dequeue)
        PROVE  ring'[p].type = "setup" /\ ring'[p].setup \in Protocols
    <3> DEFINE b == Behind(enqueue', p)
               d == Back(dequeue)
    <3>1. b \in Int /\ b >= 2 /\ d \in Int /\ b <= d + 2 /\ (b % 2) = 0
      BY <1>3, <1>4, <1>7, <2>2, EvenIs
    <3>2. Back(p) = b - 2
      BY <1>3, <3>1
    <3> HIDE DEF b, d
    <3>3. CASE b = 2
      <4>1. Back(p) = 0
        BY <3>2, <3>3
      <4> QED BY <1>3, <1>4, <1>8, <4>1
    <3>4. CASE b # 2
      <4>1. b - 2 > 0 /\ b - 2 <= d /\ ((b - 2) % 2) = 0
        <5>1. ((b - 2) % 2) = (b % 2)
          BY <3>1, EvenIs
        <5> QED BY <3>1, <3>4, <5>1
      <4>2. Back(p) > 0 /\ Back(p) <= Back(dequeue) /\ (Back(p) % 2) = 0
        BY <3>2, <4>1 DEF d
      <4>3. Back(p) <= Reach
        <5>1. Back(p) \in Int /\ Back(dequeue) \in Int /\ Reach \in Int
          BY <1>1, <1>2, <1>3, <1>4
        <5> QED BY ONLY <1>6, <4>2, <5>1
      <4>4. ring[p].type = "setup" /\ ring[p].setup \in Protocols
        BY <4>2 DEF PendingInv
      <4> QED BY <1>5, <4>2, <4>3, <4>4
    <3> QED BY <3>3, <3>4
  <2> QED BY <1>2, <1>7, <1>9, <2>1, <2>2 DEF PendingInv, Back
<1>11. EventInv'
  <2>1. ASSUME NEW p \in Positions, Back(dequeue) < Back(p), Back(p) <= Reach
        PROVE  ring'[p] = ring[p] /\ Behind(enqueue', dequeue) < Behind(enqueue', p) /\ Behind(enqueue', p) <= Reach'
    <3> DEFINE b == Back(p)
               d == Back(dequeue)
    <3>1. b \in Int /\ d \in Int /\ d >= 0 /\ d < b
      BY <1>3, <1>4, <2>1
    <3>2. b > 0 /\ d + 2 < b + 2
      <4> HIDE DEF b, d
      <4> QED BY <3>1
    <3>3. ring'[p] = ring[p] /\ Behind(enqueue', p) = b + 2 /\ b + 2 <= Reach'
      BY <1>5, <2>1, <3>2
    <3> QED BY <1>7, <3>2, <3>3
  <2>2. ASSUME NEW j \in DOMAIN events, events[j].endpoint = 0
        PROVE  /\ events[j].issuer \in Positions
               /\ ring'[Before(events[j].issuer)] = [type |-> "setup", setup |-> events[j].setup]
               /\ Behind(enqueue', dequeue) < Behind(enqueue', Before(events[j].issuer))
               /\ Behind(enqueue', Before(events[j].issuer)) <= Reach'
               /\ events[j].setup \in Protocols
    <3> DEFINE p == Before(events[j].issuer)
    <3>1. /\ events[j].issuer \in Positions /\ events[j].setup \in Protocols
          /\ ring[p] = [type |-> "setup", setup |-> events[j].setup]
          /\ Back(dequeue) < Back(p) /\ Back(p) <= Reach
      BY <2>2 DEF EventInv
    <3>2. p \in Positions
      BY <1>4, <3>1
    <3> QED BY <2>1, <3>1, <3>2
  <2>3. handling # Idle =>
          /\ ring'[handling.setup].type = "setup"
          /\ Behind(enqueue', dequeue) < Behind(enqueue', handling.setup)
          /\ Behind(enqueue', handling.setup) <= Reach'
          /\ ring'[handling.setup].setup \in Protocols
    <3>1. SUFFICES ASSUME handling # Idle
                   PROVE  /\ ring'[handling.setup].type = "setup"
                          /\ Behind(enqueue', dequeue) < Behind(enqueue', handling.setup)
                          /\ Behind(enqueue', handling.setup) <= Reach'
                          /\ ring'[handling.setup].setup \in Protocols
      OBVIOUS
    <3>2. handling.setup \in Positions
      BY <3>1 DEF DeviceTypes
    <3>3. /\ ring[handling.setup].type = "setup" /\ Back(dequeue) < Back(handling.setup)
          /\ Back(handling.setup) <= Reach /\ ring[handling.setup].setup \in Protocols
      BY <3>1 DEF EventInv
    <3> QED BY <2>1, <3>2, <3>3
  <2>4. /\ \A j \in DOMAIN events : ~ events[j].ok => events[j].endpoint \in halted
        /\ \A j \in DOMAIN events : events[j].endpoint = 1 => events[j].issuer \in class_drivers_
        /\ \A j, k \in DOMAIN events :
             j # k /\ events[j].endpoint = 0 /\ events[k].endpoint = 0 => events[j].issuer # events[k].issuer
    BY DEF EventInv
  <2> QED BY <1>2, <1>9, <2>2, <2>3, <2>4 DEF EventInv, Back, Idle
<1>12. Waiting'
  <2>1. Behind(enqueue', enqueue') = 0
    BY <1>3, BehindIs
  <2>2. Behind(enqueue', dequeue) # 0
    <3> DEFINE d == Back(dequeue)
    <3>1. d \in Int /\ d >= 0
      BY <1>3, <1>4
    <3> HIDE DEF d
    <3>2. d + 2 # 0
      BY <3>1
    <3> QED BY <1>7, <3>2 DEF d
  <2> QED BY <2>1, <2>2 DEF Waiting
<1> QED BY <1>7, <1>10, <1>11, <1>12

LEMMA PushKeeps ==
  ASSUME DeviceInv, Push
  PROVE  DeviceInv'
<1> USE DEF DeviceInv, phases, keyboard, history
<1>1. /\ at = "push" /\ at' = "put" /\ PushStages(todo) /\ todo' = todo /\ todo \in Setups
      /\ UNCHANGED <<device, dequeue, running, halted, dict_, phases, transfer_rings_, keyboard,
                     events, inbox, todo, place, handling, history, raced>>
      /\ (Configured' <=> Configured)
  BY DEF Push, Configured, DeviceTypes, TypeOK
<1>2. enqueue' \in Positions /\ ring' \in [Positions -> TRBType]
  BY <1>1, PushedStages DEF DeviceTypes, TypeOK, TRBType
<1>3. DeviceTypes'
  <2>1. TypeOK'
    <3>1. TypeOK
      BY DEF DeviceTypes
    <3>2. Interfaces' = Interfaces /\ Endpoints' = Endpoints
      BY <1>1, SameDevice
    <3>3. at' \in {"before", "start", "push", "put", "put entry", "put setup", "ring", "wait", "configure",
             "endpoints", "done", "failed", "undefined"}
      BY <1>1
    <3> HIDE DEF DeviceInv
    <3> QED BY <1>1, <1>2, <3>1, <3>2, <3>3 DEF TypeOK, TRBType
  <2> QED BY <1>1, <2>1 DEF DeviceTypes, Interfaces, Idle
<1>4. PhaseInv'
  <2>1. /\ Drivers' = Drivers /\ Endpoints' = Endpoints /\ DriverMap' = DriverMap
    BY <1>1, SameDevice
  <2> QED BY <1>1, <2>1 DEF PhaseInv
<1>5. ~ Configured => Quiet /\ inbox = <<>> /\ NoIssuers /\ (todo.index = 0 => ~ running)
  BY <1>1 DEF EarlyInv
<1>6. Configured /\ OneKeyboard => Quiet
  <2>1. SUFFICES ASSUME Configured, OneKeyboard PROVE Quiet
    OBVIOUS
  <2>2. todo.index \in Drivers
    BY <2>1 DEF PhaseInv
  <2>3. /\ \E d \in Drivers : Drivers = {d}
        /\ Drivers \subseteq Interfaces /\ Interfaces \subseteq Nat \ {0}
    BY <2>1, OneKeyboardIs DEF DeviceTypes, TypeOK
  <2> HIDE DEF DeviceInv
  <2>4. \A i \in Drivers : i = todo.index /\ i \in Nat
    BY <2>2, <2>3
  <2>5. \A i \in Drivers : todo.index <= i
    BY <2>4
  <2> QED BY <1>1, <2>1, <2>5 DEF FirstInv, DeviceInv
<1>7. PendingInv' /\ EventInv' /\ Waiting' /\ (Configured => Behind(enqueue', dequeue') = Back(dequeue) + 2)
  <2>1. CASE ~ Configured
    <3>1. /\ dequeue = enqueue /\ dequeue' = dequeue /\ ~ Configured' /\ todo = todo'
          /\ events' = <<>> /\ handling' = Idle /\ requests' = <<>>
      BY <1>1, <1>5, <2>1 DEF Quiet
    <3>2. DeviceTypes
      OBVIOUS
    <3> HIDE DEF DeviceInv
    <3> QED BY <1>1, <1>3, <2>1, <3>1, <3>2, PushedAlone
  <2>2. CASE Configured
    <3>1. todo.index \in Drivers
      BY <2>2 DEF PhaseInv
    <3> QED BY <1>1, <2>2, <3>1, PushedBehind
  <2> QED BY <2>1, <2>2
<1>8. EntryInv'
  <2>1. Issuer' = Plus(enqueue, 1) /\ Before(Plus(enqueue, 1)) = enqueue
    <3> DEFINE n == Len(Stages(todo.request))
    <3>1. n \in 2 .. 3 /\ enqueue \in Positions /\ Behind(enqueue', enqueue) = n
      BY <1>1, PushedStages DEF DeviceTypes, TypeOK, TRBType
    <3>2. Issuer' = Plus(enqueue', RingSize - n + 1)
      BY <1>1 DEF Issuer
    <3> HIDE DEF DeviceInv, n
    <3> QED BY <1>2, <3>1, <3>2, IssuerIs, BeforeIs
  <2>2. \A j \in DOMAIN events : events[j].endpoint = 0 => events[j].issuer # Issuer'
    <3>1. SUFFICES ASSUME NEW j \in DOMAIN events, events[j].endpoint = 0, events[j].issuer = Issuer'
                   PROVE  FALSE
      OBVIOUS
    <3>2. Back(dequeue) < Back(Before(events[j].issuer))
      BY <3>1 DEF EventInv
    <3>3. Back(dequeue) < Back(enqueue) /\ Back(enqueue) = 0
      BY <2>1, <3>1, <3>2, BackIs, BehindIs DEF Back
    <3>4. Back(dequeue) \in Int /\ 0 <= Back(dequeue)
      BY BackIs
    <3> QED BY ONLY <3>3, <3>4
  <2>3. \A i : ~ Open(i) /\ ~ Open(i)'
    BY <1>1 DEF Open
  <2>4. TwoDrivers' <=> TwoDrivers
    BY <1>1, SameDevice
  <2>5. EntryInv /\ at # "undefined"
    BY <1>1
  <2> HIDE DEF DeviceInv
  <2> QED BY <1>1, <2>2, <2>3, <2>4, <2>5 DEF EntryInv, Idle
<1>9. LoneInv'
  <2>1. Quiet => Back(dequeue) = 0
    BY BackIs, BehindIs DEF Quiet, Back
  <2>2. Configured /\ OneKeyboard => Behind(enqueue', dequeue') <= 2
    <3>1. SUFFICES ASSUME Configured, OneKeyboard PROVE Behind(enqueue', dequeue') <= 2
      OBVIOUS
    <3>2. Back(dequeue) = 0 /\ Behind(enqueue', dequeue') = Back(dequeue) + 2
      BY <1>6, <1>7, <2>1, <3>1
    <3> QED BY ONLY <3>2
  <2>3. ~ Configured \/ OneKeyboard => Quiet
    BY <1>5, <1>6
  <2>4. OneKeyboard' <=> OneKeyboard
    BY <1>1, SameDevice
  <2>5. Len(<<>>) <= 1
    BY EmptyIs
  <2> HIDE DEF DeviceInv
  <2> QED BY <1>1, <2>2, <2>3, <2>4, <2>5 DEF LoneInv, Quiet, Back, Idle
<1>10. EarlyInv'
  <2>1. SUFFICES ASSUME ~ Configured PROVE EarlyInv'
    BY <1>1 DEF EarlyInv
  <2>2. Quiet /\ inbox = <<>> /\ NoIssuers /\ (todo.index = 0 => ~ running)
    BY <1>5, <2>1
  <2>3. Len(inbox) <= 1 /\ inbox # <<TRUE>>
    BY <2>2, EmptyIs
  <2> HIDE DEF DeviceInv
  <2> QED BY <1>1, <2>1, <2>2, <2>3 DEF EarlyInv, Quiet, NoIssuers, Idle, Open
<1>11. FirstInv'
  <2>1. Drivers' = Drivers
    BY <1>1, SameDevice
  <2>2. Configured /\ (\A i \in Drivers : todo.index <= i) => Quiet /\ NoIssuers
    BY <1>1 DEF FirstInv
  <2> HIDE DEF DeviceInv
  <2> QED BY <1>1, <2>1, <2>2 DEF FirstInv, Quiet, NoIssuers, Idle, Open
<1>12. ListenInv'
  BY <1>7 DEF ListenInv
<1>13. ReportInv'
  BY <1>1, KeepsReports DEF KeyEvent
<1>14. UndefinedOnlyWithoutEndpoint1'
  BY <1>1, SameDevice DEF UndefinedOnlyWithoutEndpoint1
<1> QED BY <1>3, <1>4, <1>7, <1>8, <1>9, <1>10, <1>11, <1>12, <1>13, <1>14

-----------------------------------------------------------------------------
(* And those of the controller.                                            *)

LEMMA AppendIs ==
  ASSUME NEW S, NEW s \in Seq(S), NEW e \in S
  PROVE  /\ Append(s, e) \in Seq(S) /\ Append(s, e) # <<>> /\ Len(Append(s, e)) = Len(s) + 1 /\ Len(s) \in Nat
         /\ DOMAIN s = 1 .. Len(s) /\ DOMAIN Append(s, e) = DOMAIN s \cup {Len(s) + 1} /\ Len(s) + 1 \notin DOMAIN s
         /\ \A j \in DOMAIN s : Append(s, e)[j] = s[j]
         /\ Append(s, e)[Len(s) + 1] = e
         /\ s = <<>> => Append(s, e) = <<e>> /\ Append(s, e)[1] = e /\ Len(Append(s, e)) = 1
<1>1. /\ Append(s, e) \in Seq(S) /\ Len(Append(s, e)) = Len(s) + 1 /\ Len(s) \in Nat /\ DOMAIN s = 1 .. Len(s)
      /\ \A j \in 1 .. Len(s) : Append(s, e)[j] = s[j]
      /\ Append(s, e)[Len(s) + 1] = e
  OBVIOUS
<1>2. DOMAIN Append(s, e) = 1 .. Len(s) + 1
  BY <1>1
<1>3. 1 .. Len(s) + 1 = 1 .. Len(s) \cup {Len(s) + 1} /\ Len(s) + 1 \notin 1 .. Len(s)
  BY <1>1
<1>4. s = <<>> => Append(s, e) = <<e>> /\ Append(s, e)[1] = e /\ Len(Append(s, e)) = 1
  OBVIOUS
<1>5. Append(s, e) # <<>>
  <2>1. Len(s) + 1 \in DOMAIN Append(s, e)
    BY <1>2, <1>3
  <2> QED BY <2>1, EmptyIs
<1> QED BY <1>1, <1>2, <1>3, <1>4, <1>5

\* What the controller fetches.
LEMMA Fetched ==
  ASSUME DeviceTypes, PendingInv, Waiting
  PROVE  LET setup == ring[dequeue].setup
             n == Len(Stages(setup.request))
         IN /\ ring[dequeue] = [type |-> "setup", setup |-> setup] /\ setup \in Setups
            /\ Plus(dequeue, 1) \in Positions /\ Before(Plus(dequeue, 1)) = dequeue
            /\ Plus(dequeue, n) \in Positions /\ Behind(enqueue, Plus(dequeue, n)) < Back(dequeue)
            /\ Behind(enqueue, Plus(dequeue, n)) \in Int
            /\ Configured => setup \in Protocols /\ Behind(enqueue, Plus(dequeue, n)) = Back(dequeue) - 2
            /\ ~ Configured => Plus(dequeue, n) = enqueue
<1> DEFINE setup == ring[dequeue].setup
           n == Len(Stages(setup.request))
           b == Back(dequeue)
<1>1. /\ enqueue \in Positions /\ dequeue \in Positions /\ b \in Int /\ b >= 0
  BY BackIs
<1>2. b # 0
  BY <1>1, BehindIs DEF Back, Waiting
<1>3. ring[dequeue] \in TRBType
  BY <1>1 DEF DeviceTypes, TypeOK, TRBType
<1>4. n \in 1 .. 3 /\ n \in 0 .. RingSize
  <2> DEFINE m == Len(Stages(setup.request))
  <2>1. m \in 2 .. 3
    BY StagesOfRequest
  <2> HIDE DEF m
  <2>2. m \in 1 .. 3 /\ m \in 0 .. RingSize
    BY <2>1, SizesOfRing
  <2> QED BY <2>2 DEF m
<1>5. Plus(dequeue, 1) \in Positions /\ Before(Plus(dequeue, 1)) = dequeue
  <2>1. 1 \in 0 .. RingSize
    BY SizesOfRing
  <2> QED BY <1>1, <2>1, PlusIs, BeforeIs
<1>6. /\ ring[dequeue].type = "setup" /\ n <= b
      /\ (Configured => setup \in Protocols /\ n = 2) /\ (~ Configured => n = b)
  <2>1. CASE ~ Configured
    <3>1. ring[dequeue].type = "setup" /\ b = n
      BY <2>1 DEF PendingInv, Waiting
    <3> HIDE DEF b, n
    <3> QED BY <1>1, <2>1, <3>1
  <2>2. CASE Configured
    <3>1. b > 0 /\ (b % 2) = 0
      <4>1. (b % 2) = 0
        BY <2>2 DEF PendingInv
      <4> HIDE DEF b
      <4> QED BY <1>1, <1>2, <4>1
    <3>2. b >= 2
      <4> HIDE DEF b
      <4> QED BY <1>1, <3>1, EvenIs
    <3>3. ring[dequeue].type = "setup" /\ setup \in Protocols
      <4>1. Back(dequeue) <= Back(dequeue)
        BY <1>1
      <4> QED BY <1>1, <2>2, <3>1, <4>1 DEF PendingInv
    <3>4. n = 2
      <4>1. setup.request = "SetProtocol"
        BY <3>3 DEF Protocols
      <4>2. Stages("SetProtocol") = <<"setup", "status">>
        BY DEF Stages
      <4>3. Len(<<"setup", "status">>) = 2
        OBVIOUS
      <4> QED BY <4>1, <4>2, <4>3
    <3> HIDE DEF b, n
    <3> QED BY <1>1, <2>2, <3>2, <3>3, <3>4
  <2> QED BY <2>1, <2>2
<1>7. ring[dequeue] = [type |-> "setup", setup |-> setup] /\ setup \in Setups
  BY <1>3, <1>6 DEF TRBType
<1> HIDE DEF n
<1>8. Plus(dequeue, n) \in Positions /\ Behind(enqueue, Plus(dequeue, n)) = b - n
  <2>1. Plus(dequeue, n) \in Positions
    BY <1>1, <1>4, PlusIs
  <2> QED BY <1>1, <1>4, <1>6, <2>1, ControllerWalks DEF Back
<1>9. ~ Configured => Plus(dequeue, n) = enqueue
  <2>1. SUFFICES ASSUME ~ Configured PROVE Plus(dequeue, n) = enqueue
    OBVIOUS
  <2>2. Behind(enqueue, Plus(dequeue, n)) = 0
    <3> HIDE DEF b
    <3> QED BY <1>1, <1>6, <1>8, <2>1
  <2> QED BY <1>1, <1>8, <2>2, BehindIs
<1>10. b - n < b /\ b - n \in Int /\ (Configured => b - n = b - 2)
  <2> HIDE DEF b
  <2> QED BY <1>1, <1>4, <1>6
<1> QED BY <1>5, <1>6, <1>7, <1>8, <1>9, <1>10 DEF n

\* The controller takes the oldest transfer; its setup stage stays in the ring.
LEMMA CompleteControlKeeps ==
  ASSUME DeviceInv, CompleteControl
  PROVE  DeviceInv'
<1> USE DEF DeviceInv, initTask, phases, keyboard, history
<1> DEFINE setup == ring[dequeue].setup
           issuer == Plus(dequeue, 1)
           n == Len(Stages(setup.request))
<1>1. /\ running /\ Waiting /\ dequeue' = Plus(dequeue, n)
      /\ UNCHANGED <<device, ring, enqueue, dict_, phases, transfer_rings_, keyboard, inbox,
                     initTask, handling, history>>
  BY DEF CompleteControl
<1>2. PICK ok \in BOOLEAN :
        /\ events' = Append(events, [endpoint |-> 0, issuer |-> issuer, ok |-> ok, setup |-> setup])
        /\ running' = ok
        /\ halted' = IF ok THEN halted ELSE halted \cup {0}
        /\ raced' = IF ok /\ (BeforePut(issuer) \/ Get(issuer) = NULL) THEN raced \cup {"event before Put"} ELSE raced
  BY DEF CompleteControl
<1> DEFINE e == [endpoint |-> 0, issuer |-> issuer, ok |-> ok, setup |-> setup]
<1>3. /\ ring[dequeue] = [type |-> "setup", setup |-> setup] /\ setup \in Setups
      /\ issuer \in Positions /\ Before(issuer) = dequeue
      /\ dequeue' \in Positions /\ Behind(enqueue, dequeue') < Back(dequeue)
      /\ Behind(enqueue, dequeue') \in Int
      /\ Configured => setup \in Protocols /\ Behind(enqueue, dequeue') = Back(dequeue) - 2
      /\ ~ Configured => dequeue' = enqueue
  BY <1>1, Fetched
<1>4. issuer # NULL /\ issuer \in Nat
  BY <1>3, PositionIs
<1>5. e \in EventType
  BY <1>3, <1>4 DEF EventType
<1> DEFINE l == Len(events) + 1
<1>6. /\ events' = Append(events, e) /\ events' \in Seq(EventType) /\ events' # <<>>
      /\ Len(events') = l /\ DOMAIN events' = DOMAIN events \cup {l} /\ l \notin DOMAIN events
      /\ \A j \in DOMAIN events : events'[j] = events[j]
      /\ events'[l] = e
      /\ events = <<>> => events'[1] = e /\ Len(events') = 1 /\ DOMAIN events' = {1}
  <2>1. events \in Seq(EventType)
    BY DEF DeviceTypes
  <2>2. events' = Append(events, e)
    BY <1>2
  <2> HIDE DEF e, DeviceInv
  <2>3. /\ events' \in Seq(EventType) /\ events' # <<>>
        /\ Len(events') = l /\ DOMAIN events' = DOMAIN events \cup {l} /\ l \notin DOMAIN events
        /\ \A j \in DOMAIN events : events'[j] = events[j]
        /\ events'[l] = e
    BY <1>5, <2>1, <2>2, AppendIs
  <2>4. events = <<>> => events'[1] = e /\ Len(events') = 1 /\ DOMAIN events' = {1}
    <3>1. SUFFICES ASSUME events = <<>> PROVE events'[1] = e /\ Len(events') = 1 /\ DOMAIN events' = {1}
      OBVIOUS
    <3>2. events' = <<e>>
      BY <2>2, <3>1
    <3> QED BY <3>2
  <2> QED BY <2>2, <2>3, <2>4
<1>7. e.endpoint = 0 /\ e.issuer = issuer /\ e.ok = ok /\ e.setup = setup
  OBVIOUS
<1> HIDE DEF e, l, issuer, setup, n
<1>8. Configured' <=> Configured
  BY <1>1 DEF Configured
<1>9. Reach' = Reach /\ Reach \in Int /\ Back(dequeue) <= Reach /\ Back(dequeue) \in Int
  <2>1. Reach \in Int
    BY <1>1, ReachGrows
  <2>2. Reach' = Reach
    BY <1>1 DEF Reach, Configured
  <2>3. Back(dequeue) <= Reach
    BY DEF PendingInv
  <2> QED BY <2>1, <2>2, <2>3, BackIs
<1>10. DeviceTypes'
  <2>1. TypeOK'
    <3>1. TypeOK
      BY DEF DeviceTypes
    <3>2. Interfaces' = Interfaces /\ Endpoints' = Endpoints
      BY <1>1, SameDevice
    <3>3. running' \in BOOLEAN /\ halted' \subseteq {0, 1}
      BY <1>2, <3>1 DEF TypeOK
    <3> HIDE DEF DeviceInv
    <3> QED BY <1>1, <1>3, <3>1, <3>2, <3>3 DEF TypeOK
  <2>2. raced' \subseteq {"event before Put", "entry put while deleted"}
    BY <1>2 DEF DeviceTypes
  <2> QED BY <1>1, <1>6, <2>1, <2>2 DEF DeviceTypes, Interfaces, Idle, Issuer
<1>11. PhaseInv'
  <2>1. /\ Drivers' = Drivers /\ Endpoints' = Endpoints /\ DriverMap' = DriverMap
    BY <1>1, SameDevice
  <2> QED BY <1>1, <1>8, <2>1 DEF PhaseInv
<1>12. PendingInv'
  <2>1. Protocols' = Protocols
    BY <1>1, SameDevice
  <2>2. Behind(enqueue, dequeue') <= Reach
    <3> DEFINE x == Behind(enqueue, dequeue')
               y == Back(dequeue)
               z == Reach
    <3>1. x \in Int /\ y \in Int /\ z \in Int /\ x < y /\ y <= z
      BY <1>3, <1>9
    <3> HIDE DEF x, y, z
    <3>2. x <= z
      BY ONLY <3>1
    <3> QED BY <3>2 DEF x, z
  <2>3. ASSUME Configured
        PROVE  /\ (Behind(enqueue, dequeue') % 2) = 0
               /\ \A p \in Positions :
                    (Behind(enqueue, p) % 2) = 0 /\ 0 < Behind(enqueue, p) /\ Behind(enqueue, p) <= Behind(enqueue, dequeue') =>
                      ring[p].type = "setup" /\ ring[p].setup \in Protocols
    <3>1. (Back(dequeue) % 2) = 0
      BY <2>3 DEF PendingInv
    <3>2. ((Back(dequeue) - 2) % 2) = (Back(dequeue) % 2)
      BY <1>9, EvenIs
    <3>3. (Behind(enqueue, dequeue') % 2) = 0
      BY <1>3, <2>3, <3>1, <3>2
    <3>4. ASSUME NEW p \in Positions, Behind(enqueue, p) <= Behind(enqueue, dequeue')
          PROVE  Back(p) <= Back(dequeue)
      <4> DEFINE x == Behind(enqueue, dequeue')
                 y == Back(dequeue)
                 z == Behind(enqueue, p)
      <4>1. x \in Int /\ y \in Int /\ z \in Int /\ x < y /\ z <= x
        BY <1>3, <1>9, <3>4, BackIs DEF Back
      <4> HIDE DEF x, y, z
      <4>2. z <= y
        BY ONLY <4>1
      <4> QED BY <4>2 DEF y, z, Back
    <3> QED BY <2>3, <3>3, <3>4 DEF PendingInv, Back
  <2> HIDE DEF DeviceInv
  <2> QED BY <1>1, <1>3, <1>8, <1>9, <2>1, <2>2, <2>3 DEF PendingInv, Back
<1>13. \A j \in DOMAIN events : events[j].endpoint = 0 =>
         /\ events[j].issuer \in Positions
         /\ ring[Before(events[j].issuer)] = [type |-> "setup", setup |-> events[j].setup]
         /\ Behind(enqueue, dequeue') < Behind(enqueue, Before(events[j].issuer))
         /\ Behind(enqueue, Before(events[j].issuer)) <= Reach
         /\ Configured => events[j].setup \in Protocols
         /\ events[j].issuer # issuer
  <2>1. SUFFICES ASSUME NEW j \in DOMAIN events, events[j].endpoint = 0
                 PROVE  /\ events[j].issuer \in Positions
                        /\ ring[Before(events[j].issuer)] = [type |-> "setup", setup |-> events[j].setup]
                        /\ Behind(enqueue, dequeue') < Behind(enqueue, Before(events[j].issuer))
                        /\ Behind(enqueue, Before(events[j].issuer)) <= Reach
                        /\ Configured => events[j].setup \in Protocols
                        /\ events[j].issuer # issuer
    OBVIOUS
  <2> DEFINE p == Before(events[j].issuer)
  <2>2. /\ events[j].issuer \in Positions /\ p \in Positions
        /\ ring[p] = [type |-> "setup", setup |-> events[j].setup]
        /\ Back(dequeue) < Back(p) /\ Back(p) <= Reach
        /\ Configured => events[j].setup \in Protocols
    BY <2>1, BeforeIs DEF EventInv
  <2>3. Behind(enqueue, dequeue') < Behind(enqueue, p) /\ p # dequeue
    <3> DEFINE x == Behind(enqueue, dequeue')
               y == Back(dequeue)
               z == Behind(enqueue, p)
    <3>1. x \in Int /\ y \in Int /\ z \in Int /\ x < y /\ y < z
      BY <1>3, <1>9, <2>2, BackIs DEF Back
    <3>2. x < z /\ z # y
      <4> HIDE DEF x, y, z
      <4> QED BY ONLY <3>1
    <3> QED BY <3>2 DEF Back
  <2> QED BY <1>3, <2>2, <2>3 DEF Back
<1>14. EventInv'
  <2>1. Protocols' = Protocols
    BY <1>1, SameDevice
  <2>2. \A j \in DOMAIN events' : ~ events'[j].ok => events'[j].endpoint \in halted'
    BY <1>2, <1>6, <1>7 DEF EventInv
  <2>3. \A j \in DOMAIN events' : events'[j].endpoint = 1 => events'[j].issuer \in class_drivers_ /\ Configured
    BY <1>6, <1>7 DEF EventInv
  <2>4. requests # <<>> => Configured
    BY DEF EventInv
  <2>5. \A j \in DOMAIN events' : events'[j].endpoint = 0 =>
         /\ events'[j].issuer \in Positions
         /\ ring[Before(events'[j].issuer)] = [type |-> "setup", setup |-> events'[j].setup]
         /\ Behind(enqueue, dequeue') < Behind(enqueue, Before(events'[j].issuer))
         /\ Behind(enqueue, Before(events'[j].issuer)) <= Reach
         /\ Configured => events'[j].setup \in Protocols
    <3>1. /\ e.issuer \in Positions
          /\ ring[Before(e.issuer)] = [type |-> "setup", setup |-> e.setup]
          /\ Behind(enqueue, dequeue') < Behind(enqueue, Before(e.issuer))
          /\ Behind(enqueue, Before(e.issuer)) <= Reach
          /\ Configured => e.setup \in Protocols
      BY <1>3, <1>7, <1>9 DEF Back
    <3> HIDE DEF DeviceInv
    <3> QED BY <1>6, <1>13, <3>1
  <2>6. \A j, k \in DOMAIN events' :
          j # k /\ events'[j].endpoint = 0 /\ events'[k].endpoint = 0 => events'[j].issuer # events'[k].issuer
    <3>1. \A j, k \in DOMAIN events :
          j # k /\ events[j].endpoint = 0 /\ events[k].endpoint = 0 => events[j].issuer # events[k].issuer
      BY DEF EventInv
    <3>2. SUFFICES ASSUME NEW j \in DOMAIN events', NEW k \in DOMAIN events', j # k,
                          events'[j].endpoint = 0, events'[k].endpoint = 0
                   PROVE  events'[j].issuer # events'[k].issuer
      OBVIOUS
    <3> HIDE DEF DeviceInv
    <3>3. CASE j = l
      <4>1. k \in DOMAIN events /\ events'[k] = events[k] /\ events'[j] = e
        BY <1>6, <3>2, <3>3
      <4> QED BY <1>7, <1>13, <3>2, <4>1
    <3>4. CASE k = l
      <4>1. j \in DOMAIN events /\ events'[j] = events[j] /\ events'[k] = e
        BY <1>6, <3>2, <3>4
      <4> QED BY <1>7, <1>13, <3>2, <4>1
    <3>5. CASE j # l /\ k # l
      <4>1. j \in DOMAIN events /\ events'[j] = events[j] /\ k \in DOMAIN events /\ events'[k] = events[k]
        BY <1>6, <3>5
      <4> QED BY <3>1, <3>2, <4>1
    <3> QED BY <3>3, <3>4, <3>5
  <2>7. handling # Idle =>
          /\ ring[handling.setup].type = "setup"
          /\ Behind(enqueue, dequeue') < Behind(enqueue, handling.setup)
          /\ Behind(enqueue, handling.setup) <= Reach
          /\ Configured => ring[handling.setup].setup \in Protocols
    <3>1. SUFFICES ASSUME handling # Idle
                   PROVE  /\ ring[handling.setup].type = "setup"
                          /\ Behind(enqueue, dequeue') < Behind(enqueue, handling.setup)
                          /\ Behind(enqueue, handling.setup) <= Reach
                          /\ Configured => ring[handling.setup].setup \in Protocols
      OBVIOUS
    <3> DEFINE p == handling.setup
    <3>2. /\ ring[p].type = "setup" /\ Back(dequeue) < Back(p)
          /\ Back(p) <= Reach /\ (Configured => ring[p].setup \in Protocols)
      BY <3>1 DEF EventInv
    <3>3. p \in Positions
      BY <3>1 DEF DeviceTypes
    <3>4. Behind(enqueue, dequeue') < Behind(enqueue, p)
      <4> DEFINE x == Behind(enqueue, dequeue')
                 y == Back(dequeue)
                 z == Behind(enqueue, p)
      <4>1. x \in Int /\ y \in Int /\ z \in Int /\ x < y /\ y < z
        BY <1>3, <1>9, <3>2, <3>3, BackIs DEF Back
      <4> HIDE DEF x, y, z
      <4>2. x < z
        BY ONLY <4>1
      <4> QED BY <4>2 DEF x, z
    <3> QED BY <3>2, <3>4 DEF Back
  <2> HIDE DEF DeviceInv
  <2> QED BY <1>1, <1>8, <1>9, <2>1, <2>2, <2>3, <2>4, <2>5, <2>6, <2>7 DEF EventInv, Back, Idle
<1>15. EntryInv'
  <2>1. raced' = {} => raced = {} /\ (ok => ~ BeforePut(issuer) /\ \E i \in 1 .. MapSize : dict_[i].issuer = issuer)
    BY <1>2, <1>4, GetIs
  <2>2. raced' = {} => \A j \in DOMAIN events' : events'[j].endpoint = 0 /\ events'[j].ok =>
          \E i \in 1 .. MapSize : dict_[i].issuer = events'[j].issuer
    <3>1. SUFFICES ASSUME raced' = {}, NEW j \in DOMAIN events', events'[j].endpoint = 0, events'[j].ok
                   PROVE  \E i \in 1 .. MapSize : dict_[i].issuer = events'[j].issuer
      OBVIOUS
    <3>2. CASE j = l
      <4>1. events'[j] = e
        BY <1>6, <3>2
      <4> HIDE DEF DeviceInv
      <4> QED BY <1>7, <2>1, <3>1, <4>1
    <3>3. CASE j # l
      <4>1. j \in DOMAIN events /\ events'[j] = events[j]
        BY <1>6, <3>3
      <4>2. raced = {}
        BY <2>1, <3>1
      <4>3. events[j].endpoint = 0 /\ events[j].ok
        BY <3>1, <4>1
      <4>4. \A k \in DOMAIN events : events[k].endpoint = 0 /\ events[k].ok =>
              \E i \in 1 .. MapSize : dict_[i].issuer = events[k].issuer
        BY <4>2 DEF EntryInv
      <4> HIDE DEF DeviceInv
      <4> QED BY <4>1, <4>3, <4>4
    <3> QED BY <3>2, <3>3
  <2>3. TwoDrivers' <=> TwoDrivers
    BY <1>1, SameDevice
  <2>4. "entry put while deleted" \in raced' => "entry put while deleted" \in raced
    BY <1>2
  <2>5. Issuer' = Issuer /\ \A i : Open(i)' <=> Open(i)
    BY <1>1 DEF Issuer, Open
  <2>6. raced' = {} /\ at \in {"put", "put entry", "put setup"} =>
          \A j \in DOMAIN events' : events'[j].endpoint = 0 /\ events'[j].ok => events'[j].issuer # Issuer
    <3>1. SUFFICES ASSUME raced' = {}, at \in {"put", "put entry", "put setup"},
                          NEW j \in DOMAIN events', events'[j].endpoint = 0, events'[j].ok
                   PROVE  events'[j].issuer # Issuer
      OBVIOUS
    <3>2. CASE j = l
      <4>1. events'[j] = e
        BY <1>6, <3>2
      <4> HIDE DEF DeviceInv
      <4> QED BY <1>7, <2>1, <3>1, <4>1 DEF BeforePut
    <3>3. CASE j # l
      <4>1. j \in DOMAIN events /\ events'[j] = events[j]
        BY <1>6, <3>3
      <4>2. raced = {}
        BY <2>1, <3>1
      <4> QED BY <3>1, <4>1, <4>2 DEF EntryInv
    <3> QED BY <3>2, <3>3
  <2>7. EntryInv
    OBVIOUS
  <2> HIDE DEF DeviceInv
  <2> QED BY <1>1, <2>1, <2>2, <2>3, <2>4, <2>5, <2>6, <2>7 DEF EntryInv, Idle
<1>16. ~ Configured \/ OneKeyboard => events = <<>> /\ handling = Idle /\ requests = <<>> /\ ~ Waiting'
  <2>1. SUFFICES ASSUME ~ Configured \/ OneKeyboard
                 PROVE  events = <<>> /\ handling = Idle /\ requests = <<>> /\ ~ Waiting'
    OBVIOUS
  <2>2. events = <<>> /\ handling = Idle /\ requests = <<>> /\ (Configured => Back(dequeue) <= 2)
    BY <1>1, <2>1 DEF LoneInv
  <2>3. dequeue' = enqueue
    <3>1. CASE ~ Configured
      BY <1>3, <3>1
    <3>2. CASE Configured
      <4>1. Behind(enqueue, dequeue') = 0
        <5> DEFINE x == Behind(enqueue, dequeue')
                   y == Back(dequeue)
        <5>1. x = y - 2 /\ y \in Int /\ y <= 2
          BY <1>3, <1>9, <2>2, <3>2
        <5>2. x >= 0
          BY <1>3, BackIs DEF Back
        <5> HIDE DEF x, y
        <5>3. x = 0
          BY ONLY <5>1, <5>2
        <5> QED BY <5>3 DEF x
      <4> QED BY <1>3, <4>1, BackIs, BehindIs
    <3> QED BY <3>1, <3>2
  <2> QED BY <1>1, <2>2, <2>3 DEF Waiting
<1>17. LoneInv'
  <2>1. ~ Configured \/ OneKeyboard => Len(events') = 1 /\ Len(requests) <= 1
    BY <1>6, <1>16, EmptyIs
  <2>2. OneKeyboard' <=> OneKeyboard
    BY <1>1, SameDevice
  <2>3. Configured /\ OneKeyboard => Behind(enqueue', dequeue') <= 2
    <3>1. SUFFICES ASSUME Configured, OneKeyboard PROVE Behind(enqueue, dequeue') <= 2
      BY <1>1
    <3>2. Back(dequeue) <= 2
      BY <3>1 DEF LoneInv
    <3> DEFINE x == Behind(enqueue, dequeue')
               y == Back(dequeue)
    <3>3. x = y - 2 /\ y \in Int /\ y <= 2
      BY <1>3, <1>9, <3>1, <3>2
    <3> HIDE DEF x, y
    <3>4. x <= 2
      BY ONLY <3>3
    <3> QED BY <3>4 DEF x
  <2> HIDE DEF DeviceInv
  <2> QED BY <1>1, <1>8, <1>16, <2>1, <2>2, <2>3 DEF LoneInv, Back, Idle
<1>18. EarlyInv'
  <2>1. SUFFICES ASSUME ~ Configured PROVE EarlyInv'
    BY <1>8 DEF EarlyInv
  <2>2. events = <<>> /\ handling = Idle /\ requests = <<>> /\ ~ Waiting'
    BY <1>16, <2>1
  <2>3. ~ Quiet /\ inbox = <<>>
    BY <1>1, <2>1 DEF EarlyInv, Quiet, Waiting
  <2>4. /\ at \notin {"before", "start", "push", "configure", "endpoints", "done", "failed"}
        /\ ~ (at \in {"put", "put entry", "put setup"} /\ todo.index = 0)
    BY <1>1, <2>1, <2>3 DEF EarlyInv
  <2>5. at \in {"put", "put entry", "put setup"} => NoIssuers
    BY <2>1 DEF EarlyInv
  <2>6. at \in {"ring", "wait"} /\ todo.index = 0 =>
          \E i \in 1 .. MapSize : dict_[i].issuer = events'[1].issuer /\ dict_[i].setup # NULL
    <3>1. SUFFICES ASSUME at \in {"ring", "wait"}, todo.index = 0
                   PROVE  \E i \in 1 .. MapSize : dict_[i].issuer = events'[1].issuer /\ dict_[i].setup # NULL
      OBVIOUS
    <3>2. PICK i \in 1 .. MapSize : dict_[i] = [issuer |-> Plus(dequeue, 1), setup |-> dequeue]
      BY <1>1, <2>1, <3>1 DEF EarlyInv
    <3>3. dequeue # NULL
      BY BackIs, SizesOfRing
    <3>4. events'[1].issuer = Plus(dequeue, 1)
      BY <1>6, <1>7, <2>2 DEF issuer
    <3> QED BY <3>2, <3>3, <3>4
  <2>7. \A i, j \in 1 .. MapSize : dict_[i].issuer # NULL /\ dict_[j].issuer # NULL => i = j
    BY <2>1 DEF EarlyInv
  <2>8. Len(inbox) <= 1 /\ inbox # <<TRUE>>
    BY <2>3, EmptyIs
  <2> HIDE DEF DeviceInv
  <2> QED BY <1>1, <1>8, <2>1, <2>2, <2>3, <2>4, <2>5, <2>6, <2>7, <2>8 DEF EarlyInv, NoIssuers, Idle, Open
<1>19. FirstInv'
  <2>1. Drivers' = Drivers
    BY <1>1, SameDevice
  <2>2. Configured /\ (\A i \in Drivers : todo.index <= i) => at # "push"
    BY <1>1 DEF FirstInv, Quiet, Waiting
  <2>3. Configured /\ (\A i \in Drivers : todo.index <= i) =>
          (at \in {"put", "put entry", "put setup"} => NoIssuers /\ handling = Idle)
    BY DEF FirstInv
  <2> HIDE DEF DeviceInv
  <2> QED BY <1>1, <1>8, <2>1, <2>2, <2>3 DEF FirstInv, NoIssuers, Idle, Open
<1>20. ListenInv'
  BY <1>6 DEF ListenInv
<1>21. ReportInv'
  <2>1. OneKeyboard => ~ KeyEvent' /\ ~ KeyEvent
    BY <1>6, <1>7, <1>16 DEF KeyEvent
  <2> QED BY <1>1, <2>1, KeepsReports
<1>22. UndefinedOnlyWithoutEndpoint1'
  BY <1>1, SameDevice DEF UndefinedOnlyWithoutEndpoint1
<1> QED BY <1>10, <1>11, <1>12, <1>14, <1>15, <1>17, <1>18, <1>19, <1>20, <1>21, <1>22

\* A report, or an error, of a driver that has asked for one.
LEMMA CompleteInterruptKeeps ==
  ASSUME DeviceInv, CompleteInterrupt
  PROVE  DeviceInv'
<1> USE DEF DeviceInv, ep0, initTask, phases
<1> DEFINE h == Head(requests)
<1>1. /\ requests # <<>> /\ requests' = Tail(requests)
      /\ UNCHANGED <<device, ring, enqueue, dequeue, running, dict_, phases, transfer_rings_,
                     prev_keys_, inbox, initTask, handling, typed, raced>>
  BY DEF CompleteInterrupt
<1>2. PICK ok \in BOOLEAN :
        /\ events' = Append(events, [endpoint |-> 1, issuer |-> h, ok |-> ok, setup |-> Nothing])
        /\ halted' = IF ok THEN halted ELSE halted \cup {1}
        /\ ok => \E keys \in SUBSET Keys : reported' = Append(reported, keys) /\ buf_' = [buf_ EXCEPT ![h] = keys]
        /\ ~ ok => reported' = reported /\ buf_' = buf_
  BY DEF CompleteInterrupt
<1> DEFINE e == [endpoint |-> 1, issuer |-> h, ok |-> ok, setup |-> Nothing]
<1>3. Configured /\ (Configured' <=> Configured)
  BY <1>1 DEF EventInv, Configured
<1>4. is_initialized_ /\ class_drivers_ = Drivers /\ class_drivers_' = Drivers /\ Drivers' = Drivers
  <2>1. is_initialized_
    BY <1>3 DEF PhaseInv
  <2>2. initialize_phase_ >= 3
    <3>1. initialize_phase_ = 4
      BY <2>1 DEF PhaseInv
    <3> QED BY <3>1
  <2> QED BY <1>1, <2>1, <2>2, SameDevice DEF PhaseInv
<1>5. /\ h \in Drivers /\ Drivers \subseteq Interfaces /\ Interfaces \subseteq Nat \ {0}
      /\ requests \in Seq(Drivers) /\ Tail(requests) \in Seq(Drivers)
      /\ Len(requests) <= 1 => Tail(requests) = <<>>
  <2>1. Drivers \subseteq Interfaces /\ Interfaces \subseteq Nat \ {0}
    BY OneKeyboardIs DEF DeviceTypes, TypeOK
  <2>2. requests \in Seq(Drivers)
    BY <1>4 DEF DeviceTypes, TypeOK
  <2> HIDE DEF DeviceInv
  <2>3. h \in Drivers /\ Tail(requests) \in Seq(Drivers) /\ (Len(requests) <= 1 => Tail(requests) = <<>>)
    BY <1>1, <2>2, TailIs
  <2> QED BY <2>1, <2>2, <2>3
<1>6. e \in EventType
  <2>1. Nothing \in Setups /\ h \in Nat
    BY <1>5 DEF Nothing, Setups
  <2> HIDE DEF h, DeviceInv
  <2> QED BY <2>1 DEF EventType
<1> DEFINE l == Len(events) + 1
<1>7. /\ events' \in Seq(EventType) /\ events' # <<>>
      /\ DOMAIN events' = DOMAIN events \cup {l} /\ l \notin DOMAIN events
      /\ \A j \in DOMAIN events : events'[j] = events[j]
      /\ events'[l] = e
      /\ events = <<>> => events'[1] = e /\ Len(events') = 1
  <2>1. events \in Seq(EventType)
    BY DEF DeviceTypes
  <2>2. events' = Append(events, e)
    BY <1>2
  <2> HIDE DEF e, DeviceInv
  <2> QED BY <1>6, <2>1, <2>2, AppendIs
<1>8. e.endpoint = 1 /\ e.issuer = h /\ e.ok = ok
  OBVIOUS
<1> HIDE DEF e, l, h
<1>9. Reach' = Reach /\ Reach \in Int /\ Reach <= Reach'
  <2>1. Reach \in Int
    BY <1>1, ReachGrows
  <2>2. Reach' = Reach
    BY <1>1 DEF Reach, Configured
  <2> QED BY <2>1, <2>2
<1>10. /\ buf_' \in [Interfaces -> SUBSET Keys] /\ reported' \in Seq(SUBSET Keys)
       /\ reported \in Seq(SUBSET Keys) /\ buf_ \in [Interfaces -> SUBSET Keys]
       /\ typed \in Seq(SUBSET Keys) /\ prev_keys_ \in [Interfaces -> SUBSET Keys]
  <2>1. buf_ \in [Interfaces -> SUBSET Keys] /\ reported \in Seq(SUBSET Keys)
        /\ typed \in Seq(SUBSET Keys) /\ prev_keys_ \in [Interfaces -> SUBSET Keys]
    BY DEF DeviceTypes
  <2> HIDE DEF DeviceInv
  <2>2. CASE ok
    <3>1. PICK keys \in SUBSET Keys : reported' = Append(reported, keys) /\ buf_' = [buf_ EXCEPT ![h] = keys]
      BY <1>2, <2>2
    <3>2. reported' \in Seq(SUBSET Keys)
      BY <2>1, <3>1, AppendIs
    <3>3. buf_' \in [Interfaces -> SUBSET Keys]
      BY <1>5, <2>1, <3>1
    <3> QED BY <2>1, <3>2, <3>3
  <2>3. CASE ~ ok
    BY <1>2, <2>1, <2>3
  <2> QED BY <2>1, <2>2, <2>3
<1>11. DeviceTypes'
  <2>1. Interfaces' = Interfaces /\ Endpoints' = Endpoints
    BY <1>1, SameDevice
  <2>2. TypeOK'
    <3>1. TypeOK
      BY DEF DeviceTypes
    <3>2. halted' \subseteq {0, 1}
      BY <1>2, <3>1 DEF TypeOK
    <3>3. requests' \in Seq(class_drivers_')
      BY <1>1, <1>4, <1>5
    <3> HIDE DEF DeviceInv
    <3> QED BY <1>1, <2>1, <3>1, <3>2, <3>3 DEF TypeOK
  <2> QED BY <1>1, <1>7, <1>10, <2>1, <2>2 DEF DeviceTypes, Idle, Issuer
<1>12. PhaseInv'
  <2>1. /\ Drivers' = Drivers /\ Endpoints' = Endpoints /\ DriverMap' = DriverMap
    BY <1>1, SameDevice
  <2> QED BY <1>1, <1>3, <2>1 DEF PhaseInv
<1>13. PendingInv'
  BY <1>1, <1>3, <1>9, KeepsPending
<1>14. EventInv'
  <2>1. \A j \in DOMAIN events' : events'[j].endpoint = 0 => j \in DOMAIN events /\ events'[j] = events[j]
    BY <1>7, <1>8
  <2>2. Protocols' = Protocols
    BY <1>1, SameDevice
  <2>3. \A j \in DOMAIN events' : ~ events'[j].ok => events'[j].endpoint \in halted'
    BY <1>2, <1>7, <1>8 DEF EventInv
  <2>4. \A j \in DOMAIN events' : events'[j].endpoint = 1 => events'[j].issuer \in class_drivers_
    BY <1>4, <1>5, <1>7, <1>8 DEF EventInv
  <2>5. \A j \in DOMAIN events : events[j].endpoint = 0 =>
         /\ events[j].issuer \in Positions
         /\ ring[Before(events[j].issuer)] = [type |-> "setup", setup |-> events[j].setup]
         /\ Behind(enqueue, dequeue) < Behind(enqueue, Before(events[j].issuer))
         /\ Behind(enqueue, Before(events[j].issuer)) <= Reach
         /\ events[j].setup \in Protocols
    BY <1>3 DEF EventInv, Back
  <2>6. \A j, k \in DOMAIN events :
          j # k /\ events[j].endpoint = 0 /\ events[k].endpoint = 0 => events[j].issuer # events[k].issuer
    BY DEF EventInv
  <2>7. handling # Idle =>
          /\ ring[handling.setup].type = "setup"
          /\ Behind(enqueue, dequeue) < Behind(enqueue, handling.setup)
          /\ Behind(enqueue, handling.setup) <= Reach
          /\ ring[handling.setup].setup \in Protocols
    BY <1>3 DEF EventInv, Back
  <2>8. \A j, k \in DOMAIN events' :
          j # k /\ events'[j].endpoint = 0 /\ events'[k].endpoint = 0 => events'[j].issuer # events'[k].issuer
    <3> HIDE DEF DeviceInv
    <3> QED BY <2>1, <2>6
  <2>9. \A j \in DOMAIN events' : events'[j].endpoint = 0 =>
         /\ events'[j].issuer \in Positions
         /\ ring[Before(events'[j].issuer)] = [type |-> "setup", setup |-> events'[j].setup]
         /\ Behind(enqueue, dequeue) < Behind(enqueue, Before(events'[j].issuer))
         /\ Behind(enqueue, Before(events'[j].issuer)) <= Reach
         /\ events'[j].setup \in Protocols
    <3> HIDE DEF DeviceInv
    <3> QED BY <2>1, <2>5
  <2> HIDE DEF DeviceInv
  <2> QED BY <1>1, <1>3, <1>9, <2>2, <2>3, <2>4, <2>7, <2>8, <2>9 DEF EventInv, Back, Idle
<1>15. EntryInv'
  <2>1. raced = {} => \A j \in DOMAIN events' : events'[j].endpoint = 0 /\ events'[j].ok =>
          \E i \in 1 .. MapSize : dict_[i].issuer = events'[j].issuer
    <3>1. \A j \in DOMAIN events' : events'[j].endpoint = 0 => j \in DOMAIN events /\ events'[j] = events[j]
      BY <1>7, <1>8
    <3>2. raced = {} => \A j \in DOMAIN events : events[j].endpoint = 0 /\ events[j].ok =>
            \E i \in 1 .. MapSize : dict_[i].issuer = events[j].issuer
      BY DEF EntryInv
    <3> HIDE DEF DeviceInv
    <3> QED BY <3>1, <3>2
  <2>2. TwoDrivers' <=> TwoDrivers
    BY <1>1, SameDevice
  <2>3. Issuer' = Issuer /\ \A i : Open(i)' <=> Open(i)
    BY <1>1 DEF Issuer, Open
  <2>4. raced = {} /\ at \in {"put", "put entry", "put setup"} =>
          \A j \in DOMAIN events' : events'[j].endpoint = 0 /\ events'[j].ok => events'[j].issuer # Issuer
    <3>1. \A j \in DOMAIN events' : events'[j].endpoint = 0 => j \in DOMAIN events /\ events'[j] = events[j]
      BY <1>7, <1>8
    <3>2. EntryInv
      OBVIOUS
    <3> HIDE DEF DeviceInv
    <3> QED BY <3>1, <3>2 DEF EntryInv
  <2>5. EntryInv
    OBVIOUS
  <2> HIDE DEF DeviceInv
  <2> QED BY <1>1, <2>1, <2>2, <2>3, <2>4, <2>5 DEF EntryInv, Idle
<1>16. OneKeyboard => events = <<>> /\ handling = Idle /\ Len(requests) <= 1 /\ ~ Waiting /\ requests' = <<>>
  <2>1. OneKeyboard => events = <<>> /\ handling = Idle /\ Len(requests) <= 1 /\ ~ Waiting
    BY <1>1 DEF LoneInv
  <2> QED BY <1>1, <1>5, <2>1
<1>17. LoneInv'
  <2>1. OneKeyboard => Len(events') = 1 /\ Len(requests') <= 1
    BY <1>7, <1>16, EmptyIs
  <2>2. OneKeyboard' <=> OneKeyboard
    BY <1>1, SameDevice
  <2>3. OneKeyboard => Behind(enqueue, dequeue) <= 2
    BY <1>3 DEF LoneInv, Back
  <2>4. Waiting' <=> Waiting
    BY <1>1 DEF Waiting
  <2> HIDE DEF DeviceInv
  <2> QED BY <1>1, <1>3, <1>16, <2>1, <2>2, <2>3, <2>4 DEF LoneInv, Back, Idle
<1>18. EarlyInv'
  BY <1>3 DEF EarlyInv
<1>19. FirstInv'
  <2>1. (\A i \in Drivers : todo.index <= i) => at # "push"
    BY <1>1, <1>3 DEF FirstInv, Quiet
  <2> QED BY <1>1, <1>3, <1>4, <2>1 DEF FirstInv, NoIssuers, Idle, Open
<1>20. ListenInv'
  BY <1>7 DEF ListenInv
<1>21. ReportInv'
  <2>1. SUFFICES ASSUME OneKeyboard PROVE ReportInv'
    BY <1>1, SameDevice DEF ReportInv
  <2>2. PICK d \in Drivers : Drivers = {d}
    BY <2>1, OneKeyboardIs DEF DeviceTypes, TypeOK
  <2>3. events = <<>> /\ ~ KeyEvent /\ (KeyEvent' <=> ok) /\ h = d
    <3>1. events = <<>> /\ ~ KeyEvent
      BY <1>16, <2>1 DEF KeyEvent
    <3>2. KeyEvent' <=> ok
      BY <1>7, <1>8, <3>1 DEF KeyEvent
    <3> QED BY <1>5, <2>2, <3>1, <3>2
  <2>4. /\ Len(reported) = Len(typed) /\ Len(typed) \in Nat /\ DOMAIN typed = 1 .. Len(typed)
        /\ reported # <<>> => buf_[d] = reported[Len(reported)]
        /\ prev_keys_[d] = IF typed = <<>> THEN {} ELSE reported[Len(typed)]
        /\ \A k \in DOMAIN typed : typed[k] = Typed(k)
    <3>1. Len(typed) \in Nat /\ DOMAIN typed = 1 .. Len(typed)
      BY <1>10
    <3>2. /\ Len(reported) = Len(typed) + 0
          /\ reported # <<>> => buf_[d] = reported[Len(reported)]
          /\ prev_keys_[d] = IF typed = <<>> THEN {} ELSE reported[Len(typed)]
          /\ \A k \in DOMAIN typed : typed[k] = Typed(k)
      BY <2>1, <2>2, <2>3 DEF ReportInv
    <3> QED BY <3>1, <3>2
  <2> HIDE DEF DeviceInv
  <2>5. CASE ~ ok
    <3>1. reported' = reported /\ buf_' = buf_ /\ typed' = typed /\ prev_keys_' = prev_keys_ /\ ~ KeyEvent'
      BY <1>1, <1>2, <2>3, <2>5
    <3>2. \A k \in DOMAIN typed : Typed(k)' = Typed(k)
      BY <3>1 DEF Typed
    <3>3. Len(typed) + 0 = Len(typed)
      BY <2>4
    <3> QED BY <1>4, <2>2, <2>4, <3>1, <3>2, <3>3 DEF ReportInv
  <2>6. CASE ok
    <3>1. PICK keys \in SUBSET Keys : reported' = Append(reported, keys) /\ buf_' = [buf_ EXCEPT ![h] = keys]
      BY <1>2, <2>6
    <3>2. /\ Len(reported') = Len(typed) + 1 /\ reported'[Len(reported')] = keys
          /\ \A k \in 1 .. Len(typed) : reported'[k] = reported[k]
      BY <1>10, <2>4, <3>1, AppendIs
    <3>3. buf_'[d] = keys
      BY <1>5, <1>10, <2>3, <3>1
    <3>4. typed # <<>> => Len(typed) \in 1 .. Len(typed)
      BY <1>10, <2>4, TailIs
    <3>5. \A k \in 1 .. Len(typed) : k # 1 => k - 1 \in 1 .. Len(typed)
      BY <2>4
    <3>6. \A k \in DOMAIN typed : Typed(k)' = Typed(k)
      BY <2>4, <3>2, <3>5 DEF Typed
    <3>7. typed' = typed /\ prev_keys_' = prev_keys_ /\ KeyEvent'
      BY <1>1, <2>3, <2>6
    <3>8. prev_keys_[d] = IF typed = <<>> THEN {} ELSE reported'[Len(typed)]
      BY <2>4, <3>2, <3>4
    <3> QED BY <1>4, <2>2, <2>4, <3>2, <3>3, <3>6, <3>7, <3>8 DEF ReportInv
  <2> QED BY <2>5, <2>6
<1>22. UndefinedOnlyWithoutEndpoint1'
  BY <1>1, SameDevice DEF UndefinedOnlyWithoutEndpoint1
<1> QED BY <1>11, <1>12, <1>13, <1>14, <1>15, <1>17, <1>18, <1>19, <1>20, <1>21, <1>22

-----------------------------------------------------------------------------
(* And those of the main task.                                             *)

\* The event that is taken from the event ring.
LEMMA Taken ==
  ASSUME DeviceInv, NEW endpoint, Event(endpoint)
  PROVE  /\ events # <<>> /\ events' = Tail(events) /\ events' \in Seq(EventType)
         /\ Head(events) = events[1] /\ 1 \in DOMAIN events /\ events[1] \in EventType
         /\ Head(events).endpoint = endpoint /\ handling = Idle /\ at # "undefined" /\ ~ Quiet
         /\ \A j \in DOMAIN events' : j + 1 \in DOMAIN events /\ events'[j] = events[j + 1] /\ j + 1 # 1
         /\ ~ Configured \/ OneKeyboard => events' = <<>> /\ Len(events) = 1 /\ ~ Waiting /\ requests = <<>>
         /\ ~ Configured => inbox = <<>> /\ at \in {"put", "put entry", "put setup", "ring", "wait"}
<1>1. events # <<>> /\ events' = Tail(events) /\ Head(events).endpoint = endpoint /\ handling = Idle
      /\ at # "undefined"
  BY DEF Event
<1>2. events \in Seq(EventType)
  BY DEF DeviceInv, DeviceTypes
<1>3. /\ Tail(events) \in Seq(EventType) /\ DOMAIN Tail(events) = 1 .. Len(events) - 1
      /\ \A j \in DOMAIN Tail(events) : j + 1 \in DOMAIN events /\ Tail(events)[j] = events[j + 1]
      /\ 1 \in DOMAIN events /\ Head(events) = events[1] /\ events[1] \in EventType
      /\ Len(events) <= 1 => Tail(events) = <<>>
      /\ Len(events) \in Nat
  BY <1>1, <1>2, TailIs
<1>4. \A j \in DOMAIN Tail(events) : j + 1 # 1
  BY <1>3
<1>5. ~ Configured \/ OneKeyboard => events' = <<>> /\ Len(events) = 1 /\ ~ Waiting /\ requests = <<>>
  <2>1. SUFFICES ASSUME ~ Configured \/ OneKeyboard
                 PROVE  events' = <<>> /\ Len(events) = 1 /\ ~ Waiting /\ requests = <<>>
    OBVIOUS
  <2>2. Len(events) = 1 /\ ~ Waiting /\ requests = <<>>
    BY <1>1, <2>1 DEF LoneInv, DeviceInv
  <2>3. Len(events) <= 1
    BY <2>2
  <2> QED BY <1>1, <1>3, <2>2, <2>3
<1>6. ~ Quiet
  BY <1>1 DEF Quiet
<1>7. ~ Configured => inbox = <<>> /\ at \in {"put", "put entry", "put setup", "ring", "wait"}
  <2>1. SUFFICES ASSUME ~ Configured
                 PROVE  inbox = <<>> /\ at \in {"put", "put entry", "put setup", "ring", "wait"}
    OBVIOUS
  <2>2. inbox = <<>> /\ at \notin {"before", "start", "push", "configure", "endpoints", "done", "failed"}
    BY <1>6, <2>1 DEF DeviceInv, EarlyInv
  <2> QED BY <1>1, <2>2 DEF DeviceInv, DeviceTypes, TypeOK
<1> QED BY <1>1, <1>3, <1>4, <1>5, <1>6, <1>7

\* What the init task is told.
LEMMA Told ==
  ASSUME NEW ok \in BOOLEAN, NEW phase, NEW initialized, Tell(ok, phase, initialized), inbox \in Seq(BOOLEAN)
  PROVE  /\ inbox' \in Seq(BOOLEAN) /\ (inbox # <<>> => inbox' # <<>>)
         /\ inbox = <<>> => inbox' = <<>> \/ inbox' = <<ok>>
         /\ inbox' = inbox \/ inbox' = Append(inbox, ok)
         /\ ok /\ ~ initialized /\ phase # 0 => inbox' = inbox
         /\ at \notin {"done", "failed"} /\ (~ ok \/ initialized \/ phase = 0) => inbox' = Append(inbox, ok)
<1>1. inbox' = inbox \/ inbox' = Append(inbox, ok)
  BY DEF Tell
<1>2. Append(inbox, ok) \in Seq(BOOLEAN) /\ Append(inbox, ok) # <<>> /\ (inbox = <<>> => Append(inbox, ok) = <<ok>>)
  BY AppendIs
<1>3. ok /\ ~ initialized /\ phase # 0 => inbox' = inbox
  BY DEF Tell
<1>4. at \notin {"done", "failed"} /\ (~ ok \/ initialized \/ phase = 0) => inbox' = Append(inbox, ok)
  BY DEF Tell
<1> QED BY <1>1, <1>2, <1>3, <1>4

\* An error halts its endpoint for good, so nothing more is promised of it.
LEMMA OnErrorKeeps ==
  ASSUME DeviceInv, OnError
  PROVE  DeviceInv'
<1> USE DEF DeviceInv, ep0, initTask, phases, keyboard, history
<1>1. /\ ~ Head(events).ok /\ at' = at /\ todo' = todo
      /\ Tell(FALSE, initialize_phase_, is_initialized_)
      /\ UNCHANGED <<device, ep0, dict_, phases, transfer_rings_, keyboard, initTask, handling,
                     history, raced>>
  BY DEF OnError
<1>2. PICK endpoint \in {0, 1} : Event(endpoint)
  BY DEF OnError
<1>3. /\ events # <<>> /\ events' = Tail(events) /\ events' \in Seq(EventType)
      /\ Head(events) = events[1] /\ 1 \in DOMAIN events
      /\ handling = Idle /\ ~ Quiet
      /\ ~ Configured \/ OneKeyboard => events' = <<>> /\ ~ Waiting /\ requests = <<>>
      /\ ~ Configured => inbox = <<>> /\ at \in {"put", "put entry", "put setup", "ring", "wait"}
  BY <1>2, Taken
<1>4. inbox' \in Seq(BOOLEAN) /\ (inbox # <<>> => inbox' # <<>>) /\ (inbox = <<>> => inbox' \in {<<>>, <<FALSE>>})
  BY <1>1, Told DEF DeviceTypes, TypeOK
<1>5. (Configured' <=> Configured) /\ Reach \in Int /\ Reach' \in Int /\ Reach <= Reach'
  BY <1>1, ReachGrows
<1>6. DeviceTypes'
  <2>1. TypeOK'
    <3>1. TypeOK
      BY DEF DeviceTypes
    <3>2. Interfaces' = Interfaces /\ Endpoints' = Endpoints
      BY <1>1, SameDevice
    <3> HIDE DEF DeviceInv
    <3> QED BY <1>1, <1>4, <3>1, <3>2 DEF TypeOK
  <2> QED BY <1>1, <1>3, <2>1 DEF DeviceTypes, Interfaces, Idle, Issuer
<1>7. PhaseInv'
  <2>1. /\ Drivers' = Drivers /\ Endpoints' = Endpoints /\ DriverMap' = DriverMap
    BY <1>1, SameDevice
  <2> QED BY <1>1, <1>4, <1>5, <2>1 DEF PhaseInv
<1>8. PendingInv'
  BY <1>1, <1>5, KeepsPending
<1>9. EventInv'
  BY <1>1, <1>3, <1>5, KeepsEvents
<1>10. EntryInv'
  BY <1>1, <1>3, KeepsEntries
<1>11. LoneInv'
  <2>1. OneKeyboard' <=> OneKeyboard
    BY <1>1, SameDevice
  <2>2. Configured /\ OneKeyboard => Back(dequeue) <= 2
    BY DEF LoneInv
  <2>3. Len(<<>>) <= 1
    BY EmptyIs
  <2> HIDE DEF DeviceInv
  <2> QED BY <1>1, <1>3, <1>5, <2>1, <2>2, <2>3 DEF LoneInv, Waiting, Back, Idle
<1>12. EarlyInv'
  <2>1. SUFFICES ASSUME ~ Configured PROVE EarlyInv'
    BY <1>5 DEF EarlyInv
  <2>2. inbox' \in {<<>>, <<FALSE>>} /\ Len(inbox') <= 1 /\ inbox' # <<TRUE>>
    <3>1. inbox' \in {<<>>, <<FALSE>>}
      BY <1>3, <1>4, <2>1
    <3> QED BY <3>1, EmptyIs
  <2>3. /\ events' = <<>> /\ ~ Waiting' /\ Quiet'
    BY <1>1, <1>3, <2>1 DEF Quiet, Waiting, Idle
  <2>4. /\ at \in {"put", "put entry", "put setup"} => NoIssuers /\ todo.index # 0
        /\ \A i, j \in 1 .. MapSize : dict_[i].issuer # NULL /\ dict_[j].issuer # NULL => i = j
    BY <1>3, <2>1 DEF EarlyInv
  <2> HIDE DEF DeviceInv
  <2> QED BY <1>1, <1>3, <1>5, <2>1, <2>2, <2>3, <2>4 DEF EarlyInv, NoIssuers, Idle, Open
<1>13. FirstInv' /\ ListenInv'
  <2>1. Drivers' = Drivers
    BY <1>1, SameDevice
  <2>2. halted' # {}
    BY <1>1, <1>3 DEF EventInv
  <2>3. FirstInv'
    BY <1>1, <1>3, <1>5, <2>1 DEF FirstInv, NoIssuers, Idle, Open
  <2> QED BY <2>2, <2>3 DEF ListenInv
<1>14. ReportInv'
  <2>1. OneKeyboard => ~ KeyEvent' /\ ~ KeyEvent
    BY <1>1, <1>3 DEF KeyEvent
  <2> QED BY <1>1, <2>1, KeepsReports
<1>15. UndefinedOnlyWithoutEndpoint1'
  BY <1>1, SameDevice DEF UndefinedOnlyWithoutEndpoint1
<1> QED BY <1>6, <1>7, <1>8, <1>9, <1>10, <1>11, <1>12, <1>13, <1>14, <1>15

\* The entry is found unless the tasks have met; taking its issuer leaves its setup stage.
LEMMA OnControlTransferKeeps ==
  ASSUME DeviceInv, OnControlTransfer
  PROVE  DeviceInv'
<1> USE DEF DeviceInv, ep0, initTask, phases, keyboard, history
<1> DEFINE p == Head(events).issuer
           i == Get(p)
           found == ~ (i = NULL \/ dict_[i].setup = NULL)
<1>1. /\ Event(0) /\ Head(events).ok /\ at' = at /\ todo' = todo
      /\ UNCHANGED <<device, ep0, phases, transfer_rings_, keyboard, initTask, history, raced>>
      /\ ~ found => Tell(TRUE, initialize_phase_, is_initialized_) /\ UNCHANGED <<dict_, handling>>
      /\ found => /\ handling' = [entry |-> i, setup |-> dict_[i].setup]
                  /\ dict_' = [dict_ EXCEPT ![i].issuer = NULL]
                  /\ inbox' = inbox
  BY DEF OnControlTransfer
<1>2. /\ events # <<>> /\ events' = Tail(events) /\ events' \in Seq(EventType)
      /\ Head(events) = events[1] /\ 1 \in DOMAIN events /\ events[1].endpoint = 0 /\ events[1].ok
      /\ handling = Idle /\ ~ Quiet /\ at # "undefined"
      /\ \A j \in DOMAIN events' : j + 1 \in DOMAIN events /\ events'[j] = events[j + 1] /\ j + 1 # 1
      /\ ~ Configured \/ OneKeyboard => events' = <<>> /\ ~ Waiting /\ requests = <<>>
      /\ ~ Configured => inbox = <<>> /\ at \in {"put", "put entry", "put setup", "ring", "wait"}
  BY <1>1, Taken DEF Event
<1>3. /\ p = events[1].issuer /\ p \in Positions /\ p # NULL /\ Before(p) \in Positions
      /\ ring[Before(p)].type = "setup" /\ (Configured => ring[Before(p)].setup \in Protocols)
      /\ Behind(enqueue, dequeue) < Behind(enqueue, Before(p)) /\ Behind(enqueue, Before(p)) <= Reach
      /\ \A j \in DOMAIN events' : events'[j].endpoint = 0 => events'[j].issuer # p
  <2>1. p = events[1].issuer
    BY <1>2
  <2>2. /\ p \in Positions /\ ring[Before(p)] = [type |-> "setup", setup |-> events[1].setup]
        /\ (Configured => events[1].setup \in Protocols)
        /\ Behind(enqueue, dequeue) < Behind(enqueue, Before(p)) /\ Behind(enqueue, Before(p)) <= Reach
    BY <1>2, <2>1 DEF EventInv, Back
  <2>3. ASSUME NEW j \in DOMAIN events', events'[j].endpoint = 0 PROVE events'[j].issuer # p
    <3>1. j + 1 \in DOMAIN events /\ events'[j] = events[j + 1] /\ j + 1 # 1
      BY <1>2
    <3>2. \A k, m \in DOMAIN events : k # m /\ events[k].endpoint = 0 /\ events[m].endpoint = 0 =>
            events[k].issuer # events[m].issuer
      BY DEF EventInv
    <3> HIDE DEF DeviceInv
    <3> DEFINE k == j + 1
    <3>3. k \in DOMAIN events /\ events'[j] = events[k] /\ k # 1 /\ 1 \in DOMAIN events /\ events[1].endpoint = 0
      BY <1>2, <3>1
    <3> HIDE DEF k, p
    <3>4. events[k].issuer # events[1].issuer
      BY <2>3, <3>2, <3>3
    <3> QED BY <2>1, <3>3, <3>4
  <2> HIDE DEF DeviceInv, p
  <2> QED BY <2>1, <2>2, <2>3, PositionIs, BeforeIs
<1>4. /\ i # NULL => i \in 1 .. MapSize /\ dict_[i].issuer = p
      /\ i = NULL => \A k \in 1 .. MapSize : dict_[k].issuer # p
  BY <1>3, GetIs
<1>5. /\ dict_ \in [1 .. MapSize -> [issuer : Positions \cup {NULL}, setup : Positions \cup {NULL}]]
      /\ inbox \in Seq(BOOLEAN)
  BY DEF DeviceTypes, TypeOK
<1>6. found => /\ i \in 1 .. MapSize /\ i # NULL /\ ~ Open(i)
               /\ dict_[i].setup = Before(p) /\ dict_[i].issuer = p
  <2>1. SUFFICES ASSUME found PROVE /\ i \in 1 .. MapSize /\ i # NULL /\ ~ Open(i)
                                    /\ dict_[i].setup = Before(p) /\ dict_[i].issuer = p
    OBVIOUS
  <2>2. i \in 1 .. MapSize /\ i # NULL /\ dict_[i].issuer = p /\ dict_[i].setup # NULL
    BY <1>4, <2>1
  <2>3. ~ Open(i)
    BY <1>2, <2>2 DEF EntryInv
  <2>4. dict_[i].setup = Before(p)
    BY <1>3, <2>2, <2>3 DEF EntryInv
  <2> QED BY <2>2, <2>3, <2>4
<1> HIDE DEF p, i, found
<1>7. /\ found => /\ handling' = [entry |-> i, setup |-> Before(p)]
                  /\ dict_'[i].issuer = NULL /\ dict_'[i].setup = dict_[i].setup
                  /\ \A k \in 1 .. MapSize : k # i => dict_'[k] = dict_[k]
      /\ dict_' \in [1 .. MapSize -> [issuer : Positions \cup {NULL}, setup : Positions \cup {NULL}]]
      /\ ~ found => dict_' = dict_ /\ handling' = Idle
      /\ \A k \in 1 .. MapSize : /\ dict_'[k].setup = dict_[k].setup
                                 /\ dict_'[k].issuer # NULL => dict_'[k].issuer = dict_[k].issuer
  <2> HIDE DEF DeviceInv
  <2>1. CASE found
    <3>1. dict_' = [dict_ EXCEPT ![i].issuer = NULL] /\ i \in 1 .. MapSize
      BY <1>1, <1>6, <2>1
    <3>2. /\ dict_'[i].issuer = NULL /\ dict_'[i].setup = dict_[i].setup
          /\ \A k \in 1 .. MapSize : k # i => dict_'[k] = dict_[k]
          /\ dict_' \in [1 .. MapSize -> [issuer : Positions \cup {NULL}, setup : Positions \cup {NULL}]]
      BY <1>5, <3>1
    <3> QED BY <1>1, <1>6, <2>1, <3>2
  <2>2. CASE ~ found
    BY <1>1, <1>2, <1>5, <2>2
  <2> QED BY <2>1, <2>2
<1>7a. Issuer' = Issuer /\ \A k : Open(k)' <=> Open(k)
  BY <1>1 DEF Issuer, Open
<1>8. (Configured' <=> Configured) /\ Reach \in Int /\ Reach' \in Int /\ Reach' = Reach
  <2>1. Reach' = Reach
    BY <1>1 DEF Reach, Configured
  <2> QED BY <1>1, <2>1, ReachGrows
<1>9. ~ found => inbox' \in Seq(BOOLEAN) /\ (inbox # <<>> => inbox' # <<>>)
  BY <1>1, <1>5, Told
<1>10. found => handling' # Idle /\ handling'.entry = i /\ handling'.setup = Before(p)
  BY <1>6, <1>7 DEF Idle
<1>11. DeviceTypes'
  <2>1. TypeOK'
    <3>1. TypeOK
      BY DEF DeviceTypes
    <3>2. Interfaces' = Interfaces /\ Endpoints' = Endpoints
      BY <1>1, SameDevice
    <3>3. inbox' \in Seq(BOOLEAN)
      BY <1>1, <1>5, <1>9
    <3> HIDE DEF DeviceInv
    <3> QED BY <1>1, <1>7, <3>1, <3>2, <3>3 DEF TypeOK
  <2>2. handling' \in [entry : 0 .. MapSize, setup : Positions \cup {NULL}]
    <3>1. i \in 1 .. MapSize => i \in 0 .. MapSize
      BY MapIs
    <3>2. handling \in [entry : 0 .. MapSize, setup : Positions \cup {NULL}]
      BY DEF DeviceTypes
    <3> HIDE DEF DeviceInv
    <3>3. found => i \in 0 .. MapSize /\ Before(p) \in Positions
      BY <1>3, <1>6, <3>1
    <3>4. CASE found
      BY <1>7, <3>3, <3>4
    <3>5. CASE ~ found
      BY <1>2, <1>7, <3>2, <3>5
    <3> QED BY <3>4, <3>5
  <2>3. handling' # Idle => handling'.entry # NULL /\ handling'.setup # NULL
    <3>1. Before(p) # NULL
      BY <1>3, PositionIs
    <3> QED BY <1>2, <1>6, <1>7, <1>10, <3>1
  <2>4. at = "put entry" => place # NULL /\ dict_'[place].issuer = NULL
    <3>1. SUFFICES ASSUME at = "put entry" PROVE place # NULL /\ dict_'[place].issuer = NULL
      OBVIOUS
    <3>2. place # NULL /\ dict_[place].issuer = NULL /\ place \in 0 .. MapSize
      BY <3>1 DEF DeviceTypes, TypeOK
    <3>3. place \in 1 .. MapSize
      BY <3>2, SizesOfRing
    <3> HIDE DEF DeviceInv
    <3> QED BY <1>7, <3>2, <3>3
  <2>5. at = "put setup" => place # NULL /\ dict_'[place].issuer = Issuer'
    <3>1. SUFFICES ASSUME at = "put setup" PROVE place # NULL /\ dict_'[place].issuer = Issuer
      BY <1>7a
    <3>2. place # NULL /\ dict_[place].issuer = Issuer /\ place \in 0 .. MapSize
      BY <3>1 DEF DeviceTypes, TypeOK
    <3>3. place \in 1 .. MapSize
      BY <3>2, SizesOfRing
    <3>4. found => i # place
      BY <1>6, <3>1 DEF Open
    <3> HIDE DEF DeviceInv
    <3> QED BY <1>7, <3>2, <3>3, <3>4
  <2>6. Interfaces' = Interfaces
    BY <1>1, SameDevice
  <2> QED BY <1>1, <1>2, <2>1, <2>2, <2>3, <2>4, <2>5, <2>6 DEF DeviceTypes, Idle
<1>12. ~ Configured => inbox' = <<>> /\ (at \in {"put", "put entry", "put setup"} => ~ found)
  <2>1. SUFFICES ASSUME ~ Configured PROVE inbox' = <<>> /\ (at \in {"put", "put entry", "put setup"} => ~ found)
    OBVIOUS
  <2>2. inbox = <<>> /\ at \in {"put", "put entry", "put setup", "ring", "wait"}
    BY <1>2, <2>1
  <2>3. at \in {"put", "put entry", "put setup"} => ~ found /\ todo.index # 0
    BY <1>2, <1>3, <1>6, <2>1 DEF EarlyInv, NoIssuers
  <2>4. at \in {"ring", "wait"} /\ todo.index = 0 => found
    <3>1. SUFFICES ASSUME at \in {"ring", "wait"}, todo.index = 0 PROVE found
      OBVIOUS
    <3>2. PICK k \in 1 .. MapSize : dict_[k].issuer = p /\ dict_[k].setup # NULL
      BY <1>2, <1>3, <2>1, <3>1 DEF EarlyInv
    <3>3. i # NULL /\ dict_[i].issuer = p /\ i \in 1 .. MapSize
      BY <1>4, <3>2
    <3>4. i = k
      BY <1>3, <2>1, <3>2, <3>3 DEF EarlyInv
    <3> QED BY <3>2, <3>3, <3>4 DEF found
  <2>5. todo.index # 0 => todo.index = 1 /\ initialize_phase_ # 0
    <3>1. SUFFICES ASSUME todo.index # 0 PROVE todo.index = 1 /\ initialize_phase_ # 0
      OBVIOUS
    <3>2. todo.index = 1
      BY <2>1, <2>2, <3>1 DEF PhaseInv
    <3>3. at \in {"put", "put entry", "put setup"} => initialize_phase_ = todo.index
      BY <2>1 DEF PhaseInv
    <3>4. at \in {"ring", "wait"} => initialize_phase_ # 0
      BY <2>1, <3>2 DEF PhaseInv
    <3> QED BY <2>2, <3>1, <3>2, <3>3, <3>4
  <2>6. ~ is_initialized_
    <3>1. initialize_phase_ # 4
      <4>1. todo.index \in {0, 1}
        BY <2>1, <2>2 DEF PhaseInv
      <4>2. CASE at \in {"put", "put entry", "put setup"}
        <5>1. initialize_phase_ = todo.index
          BY <2>1, <4>2 DEF PhaseInv
        <5> HIDE DEF DeviceInv
        <5> QED BY <4>1, <5>1
      <4>3. CASE at \in {"ring", "wait"}
        BY <2>1, <2>2, <4>3 DEF PhaseInv
      <4> QED BY <2>2, <4>2, <4>3
    <3> QED BY <3>1 DEF PhaseInv
  <2>7. ~ found => inbox' = inbox
    <3>1. SUFFICES ASSUME ~ found PROVE inbox' = inbox
      OBVIOUS
    <3>2. initialize_phase_ # 0
      BY <2>2, <2>3, <2>4, <2>5, <3>1
    <3>3. Tell(TRUE, initialize_phase_, is_initialized_)
      BY <1>1, <3>1
    <3> HIDE DEF DeviceInv
    <3> QED BY <2>6, <3>2, <3>3 DEF Tell
  <2>8. found => inbox' = inbox
    BY <1>1
  <2> QED BY <2>2, <2>3, <2>7, <2>8
<1>13. PhaseInv'
  <2>1. /\ Drivers' = Drivers /\ Endpoints' = Endpoints /\ DriverMap' = DriverMap
    BY <1>1, SameDevice
  <2>2. inbox # <<>> => inbox' # <<>>
    BY <1>1, <1>9
  <2> QED BY <1>1, <1>8, <2>1, <2>2 DEF PhaseInv
<1>14. PendingInv'
  <2>1. Reach <= Reach'
    BY <1>8
  <2> QED BY <1>1, <1>8, <2>1, KeepsPending
<1>15. EventInv'
  <2>1. Reach <= Reach'
    BY <1>8
  <2>2. handling' # Idle =>
          /\ ring[handling'.setup].type = "setup"
          /\ Behind(enqueue, dequeue) < Behind(enqueue, handling'.setup)
          /\ Behind(enqueue, handling'.setup) <= Reach
          /\ Configured => ring[handling'.setup].setup \in Protocols
          /\ handling'.setup \in Positions
    BY <1>3, <1>7, <1>10
  <2>3. DeviceTypes /\ EventInv
    OBVIOUS
  <2> HIDE DEF DeviceInv
  <2> QED BY <1>1, <1>2, <1>8, <2>1, <2>2, <2>3, KeepsEvents
<1>16. EntryInv'
  <2>1. \A k \in 1 .. MapSize : dict_'[k].issuer # NULL /\ dict_'[k].setup # NULL =>
          Open(k) \/ dict_'[k].setup = Before(dict_'[k].issuer)
    BY <1>7 DEF EntryInv
  <2>2. raced = {} => \A k \in 1 .. MapSize : dict_'[k].issuer # NULL => Open(k) \/ dict_'[k].setup # NULL
    <3>1. raced = {} => \A k \in 1 .. MapSize : dict_[k].issuer # NULL => Open(k) \/ dict_[k].setup # NULL
      BY <1>2 DEF EntryInv
    <3> HIDE DEF DeviceInv
    <3> QED BY <1>7, <3>1
  <2>3. \A k \in 1 .. MapSize : dict_'[k].issuer = NULL \/ Open(k) =>
          dict_'[k].setup = NULL \/ (handling' # Idle /\ handling'.entry = k)
    <3>1. \A k \in 1 .. MapSize : dict_[k].issuer = NULL \/ Open(k) => dict_[k].setup = NULL
      BY <1>2 DEF EntryInv
    <3> HIDE DEF DeviceInv
    <3>2. CASE found
      BY <1>6, <1>7, <1>10, <3>1, <3>2
    <3>3. CASE ~ found
      BY <1>7, <3>1, <3>3
    <3> QED BY <3>2, <3>3
  <2>4. raced = {} => \A j \in DOMAIN events' : events'[j].endpoint = 0 /\ events'[j].ok =>
          /\ \E k \in 1 .. MapSize : dict_'[k].issuer = events'[j].issuer
          /\ at \in {"put", "put entry", "put setup"} => events'[j].issuer # Issuer
    <3>1. SUFFICES ASSUME raced = {}, NEW j \in DOMAIN events', events'[j].endpoint = 0, events'[j].ok
                   PROVE  /\ \E k \in 1 .. MapSize : dict_'[k].issuer = events'[j].issuer
                          /\ at \in {"put", "put entry", "put setup"} => events'[j].issuer # Issuer
      OBVIOUS
    <3>2. PICK m \in DOMAIN events : events'[j] = events[m]
      BY <1>2
    <3>3. events[m].endpoint = 0 /\ events[m].ok
      BY <3>1, <3>2
    <3>4. PICK k \in 1 .. MapSize : dict_[k].issuer = events[m].issuer
      BY <3>1, <3>3 DEF EntryInv
    <3>5. events'[j].issuer # p
      BY <1>3, <3>1
    <3>6. found => k # i
      BY <1>6, <3>2, <3>4, <3>5
    <3>7. dict_'[k].issuer = events'[j].issuer
      BY <1>7, <3>2, <3>4, <3>6
    <3>8. at \in {"put", "put entry", "put setup"} => events[m].issuer # Issuer
      BY <3>1, <3>3 DEF EntryInv
    <3> QED BY <3>2, <3>7, <3>8
  <2>5. handling' # Idle /\ dict_'[handling'.entry].issuer # NULL => TwoDrivers
    BY <1>7, <1>10
  <2>6. "entry put while deleted" \in raced => TwoDrivers
    BY DEF EntryInv
  <2>7. TwoDrivers' <=> TwoDrivers
    BY <1>1, SameDevice
  <2> HIDE DEF DeviceInv
  <2> QED BY <1>1, <1>7a, <2>1, <2>2, <2>3, <2>4, <2>5, <2>6, <2>7 DEF EntryInv, Idle
<1>17. LoneInv'
  <2>1. OneKeyboard' <=> OneKeyboard
    BY <1>1, SameDevice
  <2>2. Configured /\ OneKeyboard => Back(dequeue) <= 2
    BY DEF LoneInv
  <2>3. Len(<<>>) <= 1
    BY EmptyIs
  <2> HIDE DEF DeviceInv
  <2> QED BY <1>1, <1>2, <1>8, <2>1, <2>2, <2>3 DEF LoneInv, Waiting, Back
<1>18. EarlyInv'
  <2>1. SUFFICES ASSUME ~ Configured PROVE EarlyInv'
    BY <1>8 DEF EarlyInv
  <2>2. inbox' = <<>> /\ Len(inbox') <= 1 /\ inbox' # <<TRUE>>
    <3>1. inbox' \in {<<>>, <<FALSE>>} /\ inbox' = <<>>
      BY <1>12, <2>1
    <3> QED BY <3>1, EmptyIs
  <2>3. events' = <<>> /\ ~ Waiting'
    BY <1>1, <1>2, <2>1 DEF Waiting
  <2>4. /\ at \in {"put", "put entry", "put setup"} => NoIssuers /\ todo.index # 0
        /\ \A j, k \in 1 .. MapSize : dict_[j].issuer # NULL /\ dict_[k].issuer # NULL => j = k
    BY <1>2, <2>1 DEF EarlyInv
  <2>5. found => NoIssuers'
    <3>1. SUFFICES ASSUME found, NEW k \in 1 .. MapSize PROVE dict_'[k].issuer = NULL
      BY DEF NoIssuers
    <3>2. dict_[i].issuer # NULL /\ i \in 1 .. MapSize
      BY <1>3, <1>6, <3>1
    <3>3. k # i => dict_[k].issuer = NULL
      BY <2>4, <3>2
    <3> QED BY <1>7, <3>1, <3>3
  <2>6. at \in {"put", "put entry", "put setup"} => NoIssuers' /\ handling' = Idle
    BY <1>7, <1>12, <1>7a, <2>1, <2>4 DEF NoIssuers
  <2>7. handling' # Idle => NoIssuers'
    BY <1>7, <2>5
  <2>8. \A j, k \in 1 .. MapSize : dict_'[j].issuer # NULL /\ dict_'[k].issuer # NULL => j = k
    BY <1>7, <2>4
  <2>9. at \in {"put", "put entry", "put setup", "ring", "wait"}
    BY <1>2, <2>1
  <2> HIDE DEF DeviceInv
  <2> QED BY <1>1, <1>8, <2>1, <2>2, <2>3, <2>4, <2>6, <2>7, <2>8, <2>9 DEF EarlyInv, Idle
<1>19. FirstInv'
  <2>1. Drivers' = Drivers
    BY <1>1, SameDevice
  <2>2. SUFFICES ASSUME Configured, \A k \in Drivers : todo.index <= k
                 PROVE  FirstInv'
    BY <1>1, <1>8, <2>1 DEF FirstInv
  <2>3. at # "push"
    BY <1>2, <2>2 DEF FirstInv
  <2>4. at \in {"put", "put entry", "put setup"} => NoIssuers
    BY <2>2 DEF FirstInv
  <2>5. at \in {"put", "put entry", "put setup"} => ~ found
    BY <1>3, <1>6, <2>4 DEF NoIssuers
  <2> QED BY <1>1, <1>7, <1>7a, <2>3, <2>4, <2>5 DEF FirstInv, NoIssuers, Idle
<1>20. ListenInv'
  <2>1. raced = {} => found
    <3>1. SUFFICES ASSUME raced = {} PROVE found
      OBVIOUS
    <3>2. \E k \in 1 .. MapSize : dict_[k].issuer = p
      BY <1>2, <1>3, <3>1 DEF EntryInv
    <3>3. i # NULL /\ i \in 1 .. MapSize /\ dict_[i].issuer = p
      BY <1>4, <3>2
    <3>4. at \in {"put", "put entry", "put setup"} => p # Issuer
      BY <1>2, <1>3, <3>1 DEF EntryInv
    <3>5. ~ Open(i)
      BY <3>3, <3>4 DEF Open, DeviceTypes
    <3>6. dict_[i].setup # NULL
      BY <1>2, <1>3, <3>1, <3>3, <3>5 DEF EntryInv
    <3> QED BY <3>3, <3>6 DEF found
  <2>2. found => handling' # Idle'
    BY <1>10 DEF Idle
  <2> QED BY <1>1, <2>1, <2>2 DEF ListenInv
<1>21. ReportInv'
  <2>1. OneKeyboard => ~ KeyEvent' /\ ~ KeyEvent
    <3>1. events[1].endpoint # 1
      <4> DEFINE x == events[1].endpoint
      <4>1. x = 0
        BY <1>2
      <4> HIDE DEF x
      <4>2. x # 1
        BY ONLY <4>1
      <4> QED BY <4>2 DEF x
    <3> QED BY <1>2, <3>1 DEF KeyEvent
  <2> QED BY <1>1, <2>1, KeepsReports
<1>22. UndefinedOnlyWithoutEndpoint1'
  BY <1>1, SameDevice DEF UndefinedOnlyWithoutEndpoint1
<1> QED BY <1>11, <1>13, <1>14, <1>15, <1>16, <1>17, <1>18, <1>19, <1>20, <1>21, <1>22

\* When the drivers have their turn the phases are over.
LEMMA DriversKnown ==
  ASSUME DeviceInv, Configured
  PROVE  /\ is_initialized_ /\ class_drivers_ = Drivers /\ transfer_rings_ = Endpoints
         /\ ep_to_class_driver_map = DriverMap
         /\ Drivers \subseteq Interfaces /\ Interfaces \subseteq Nat \ {0}
<1> USE DEF DeviceInv
<1>1. is_initialized_ /\ transfer_rings_ = Endpoints
  BY DEF PhaseInv
<1>2. initialize_phase_ = 4
  BY <1>1 DEF PhaseInv
<1>3. initialize_phase_ >= 3
  BY <1>2
<1>4. class_drivers_ = Drivers /\ ep_to_class_driver_map = DriverMap
  BY <1>3 DEF PhaseInv
<1>5. Drivers \subseteq Interfaces /\ Interfaces \subseteq Nat \ {0}
  BY OneKeyboardIs DEF DeviceTypes, TypeOK
<1> QED BY <1>1, <1>4, <1>5

\* A report is typed and the next one is asked for.
LEMMA OnInterruptTransferKeeps ==
  ASSUME DeviceInv, OnInterruptTransfer
  PROVE  DeviceInv'
<1> USE DEF DeviceInv, ep0, phases, history
<1> DEFINE i == ep_to_class_driver_map[1]
           keys == buf_[Head(events).issuer]
           prev == prev_keys_[i]
           x == IF keys = prev THEN keys ELSE keys \ prev
<1>1. /\ Event(1) /\ Head(events).ok /\ todo' = todo
      /\ Tell(TRUE, initialize_phase_, is_initialized_)
      /\ i = NULL => UNCHANGED <<typed, prev_keys_, requests, at>>
      /\ i # NULL => /\ typed' = Append(typed, x)
                     /\ prev_keys_' = [prev_keys_ EXCEPT ![i] = keys]
                     /\ RequestKeyCodeViaIntEP(i)
      /\ UNCHANGED <<device, ep0, dict_, phases, transfer_rings_, buf_, todo, place, handling,
                     reported, raced>>
  BY DEF OnInterruptTransfer
<1>2. /\ events # <<>> /\ events' = Tail(events) /\ events' \in Seq(EventType)
      /\ Head(events) = events[1] /\ 1 \in DOMAIN events /\ events[1].endpoint = 1 /\ events[1].ok
      /\ handling = Idle /\ at # "undefined" /\ ~ Quiet
      /\ ~ Configured \/ OneKeyboard => events' = <<>> /\ ~ Waiting /\ requests = <<>>
  BY <1>1, Taken
<1>3. Configured /\ Configured' /\ events[1].issuer \in class_drivers_
  BY <1>1, <1>2 DEF EventInv, Configured
<1>4. /\ is_initialized_ /\ class_drivers_ = Drivers /\ transfer_rings_ = Endpoints
      /\ ep_to_class_driver_map = DriverMap
      /\ Drivers \subseteq Interfaces /\ Interfaces \subseteq Nat \ {0}
  BY <1>3, DriversKnown
<1>5. /\ i # NULL => i \in Drivers
      /\ i = NULL => DriversOf(1) = {}
  <2>1. i = IF DriversOf(1) = {} THEN NULL ELSE Least(DriversOf(1))
    BY <1>4 DEF DriverMap
  <2>2. DriversOf(1) \subseteq Nat
    BY <1>4 DEF DriversOf
  <2>3. DriversOf(1) # {} => Least(DriversOf(1)) \in DriversOf(1) /\ Least(DriversOf(1)) # NULL
    BY <1>4, <2>2, LeastIs DEF DriversOf, NULL
  <2> HIDE DEF i, DeviceInv
  <2> QED BY <2>1, <2>3 DEF DriversOf
<1>6. /\ at' = at \/ (at' = "undefined" /\ 1 \notin Endpoints)
      /\ requests' = requests \/ (i # NULL /\ requests' = Append(requests, i))
      /\ i # NULL /\ 1 \in Endpoints => requests' = Append(requests, i)
  BY <1>1, <1>4 DEF RequestKeyCodeViaIntEP
<1>7. /\ keys \in SUBSET Keys /\ (i # NULL => prev \in SUBSET Keys /\ x \in SUBSET Keys)
      /\ keys = buf_[events[1].issuer] /\ typed \in Seq(SUBSET Keys)
      /\ prev_keys_ \in [Interfaces -> SUBSET Keys]
  BY <1>2, <1>3, <1>4, <1>5 DEF DeviceTypes
<1> HIDE DEF i, x, keys, prev
<1>8. /\ requests \in Seq(Drivers) /\ requests' \in Seq(Drivers) /\ typed' \in Seq(SUBSET Keys)
      /\ prev_keys_' \in [Interfaces -> SUBSET Keys]
      /\ requests = <<>> => Len(requests') <= 1
      /\ requests = <<>> /\ i # NULL /\ 1 \in Endpoints => requests' # <<>>
  <2>1. requests \in Seq(Drivers) /\ inbox \in Seq(BOOLEAN)
    BY <1>4 DEF DeviceTypes, TypeOK
  <2> HIDE DEF DeviceInv
  <2>2. CASE i = NULL
    <3>1. Len(<<>>) <= 1
      BY EmptyIs
    <3> QED BY <1>1, <1>6, <1>7, <2>1, <2>2, <3>1
  <2>3. CASE i # NULL
    <3>1. /\ requests' \in Seq(Drivers) /\ (requests = <<>> => Len(requests') \in {0, 1})
          /\ 1 \in Endpoints => requests' # <<>>
      <4>1. /\ Append(requests, i) \in Seq(Drivers) /\ Append(requests, i) # <<>>
            /\ requests = <<>> => Len(Append(requests, i)) = 1
        BY <1>5, <2>1, <2>3, AppendIs
      <4>2. requests = <<>> => Len(requests) = 0
        BY EmptyIs
      <4>3. CASE 1 \in Endpoints
        BY <1>6, <2>3, <4>1, <4>3
      <4>4. CASE 1 \notin Endpoints
        BY <1>6, <2>1, <4>1, <4>2, <4>4
      <4> QED BY <4>3, <4>4
    <3>2. typed' \in Seq(SUBSET Keys)
      BY <1>1, <1>7, <2>3, AppendIs
    <3>3. prev_keys_' \in [Interfaces -> SUBSET Keys]
      BY <1>1, <1>7, <2>3
    <3>4. requests = <<>> => Len(requests') <= 1
      <4>1. \A n \in {0, 1} : n <= 1
        OBVIOUS
      <4> QED BY <3>1, <4>1
    <3>5. requests' \in Seq(Drivers) /\ (1 \in Endpoints => requests' # <<>>)
      BY <3>1
    <3> QED BY ONLY <2>1, <3>2, <3>3, <3>4, <3>5
  <2> QED BY <2>2, <2>3
<1>9. inbox' \in Seq(BOOLEAN) /\ (inbox # <<>> => inbox' # <<>>)
  <2>1. inbox \in Seq(BOOLEAN)
    BY DEF DeviceTypes, TypeOK
  <2> HIDE DEF DeviceInv
  <2> QED BY <1>1, <2>1, Told
<1>10. Reach \in Int /\ Reach' \in Int /\ Reach <= Reach'
  <2>1. at' = at \/ at' # "push"
    BY <1>6
  <2> QED BY <1>1, <2>1, ReachGrows
<1>11. DeviceTypes'
  <2>1. Interfaces' = Interfaces /\ Endpoints' = Endpoints
    BY <1>1, SameDevice
  <2>2. TypeOK'
    <3>1. TypeOK
      BY DEF DeviceTypes
    <3> HIDE DEF DeviceInv
    <3> QED BY <1>1, <1>4, <1>6, <1>8, <1>9, <2>1, <3>1 DEF TypeOK
  <2> QED BY <1>1, <1>2, <1>6, <1>8, <2>1, <2>2 DEF DeviceTypes, Idle, Issuer
<1>12. PhaseInv'
  <2>1. /\ Drivers' = Drivers /\ Endpoints' = Endpoints /\ DriverMap' = DriverMap
    BY <1>1, SameDevice
  <2> QED BY <1>1, <1>3, <1>6, <2>1 DEF PhaseInv
<1>13. PendingInv'
  BY <1>1, <1>3, <1>10, KeepsPending
<1>14. EventInv'
  BY <1>1, <1>2, <1>3, <1>10, KeepsEvents
<1>15. EntryInv'
  <2>1. EntryInv /\ DeviceTypes
    OBVIOUS
  <2> HIDE DEF DeviceInv
  <2>2. /\ at' = at \/ (at' = "undefined" /\ handling = Idle)
        /\ at' = at => place' = place /\ UNCHANGED <<enqueue, todo>>
    BY <1>1, <1>2, <1>6
  <2> QED BY <1>1, <1>2, <2>1, <2>2, KeepsEntries
<1>16. LoneInv'
  <2>1. OneKeyboard' <=> OneKeyboard
    BY <1>1, SameDevice
  <2>2. OneKeyboard => Behind(enqueue, dequeue) <= 2
    BY <1>3 DEF LoneInv, Back
  <2>3. Waiting' <=> Waiting
    BY <1>1 DEF Waiting
  <2> HIDE DEF DeviceInv
  <2> QED BY <1>1, <1>2, <1>3, <1>8, <2>1, <2>2, <2>3 DEF LoneInv, Back
<1>17. EarlyInv'
  BY <1>3 DEF EarlyInv
<1>18. FirstInv'
  <2>1. Drivers' = Drivers
    BY <1>1, SameDevice
  <2> QED BY <1>1, <1>2, <1>3, <1>6, <2>1 DEF FirstInv, NoIssuers, Idle, Open
<1>19. OneKeyboard => /\ i \in Drivers /\ Drivers = {i} /\ i # NULL /\ events[1].issuer = i
                      /\ 1 \in Endpoints
  <2>1. SUFFICES ASSUME OneKeyboard
                 PROVE  i \in Drivers /\ Drivers = {i} /\ i # NULL /\ events[1].issuer = i /\ 1 \in Endpoints
    OBVIOUS
  <2>2. PICK d \in Drivers : Drivers = {d} /\ 1 \in device[d].in /\ d \in DriversOf(1)
    BY <2>1, OneKeyboardIs DEF DeviceTypes, TypeOK
  <2> HIDE DEF DeviceInv
  <2>3. 1 \in Endpoints
    BY <1>4, <2>2 DEF Endpoints
  <2> QED BY <1>3, <1>4, <1>5, <2>2, <2>3
<1>20. ListenInv'
  <2>1. OneKeyboard' => requests' # <<>>
    BY <1>1, <1>2, <1>8, <1>19, SameDevice
  <2> QED BY <2>1 DEF ListenInv
<1>21. ReportInv'
  <2>1. SUFFICES ASSUME OneKeyboard PROVE ReportInv'
    BY <1>1, SameDevice DEF ReportInv
  <2>2. /\ Drivers = {i} /\ i \in Drivers /\ i \in Interfaces /\ Drivers' = {i} /\ i # NULL
    BY <1>1, <1>4, <1>19, <2>1, SameDevice
  <2>3. KeyEvent /\ ~ KeyEvent'
    BY <1>2, <2>1 DEF KeyEvent
  <2>4. /\ Len(reported) = Len(typed) + 1
        /\ reported # <<>> => buf_[i] = reported[Len(reported)]
        /\ prev_keys_[i] = IF typed = <<>> THEN {} ELSE reported[Len(typed)]
        /\ \A k \in DOMAIN typed : typed[k] = Typed(k)
    BY <2>1, <2>2, <2>3 DEF ReportInv
  <2>5. /\ Len(typed) \in Nat /\ DOMAIN typed = 1 .. Len(typed) /\ reported' = reported /\ buf_' = buf_
        /\ reported \in Seq(SUBSET Keys)
    <3>1. reported \in Seq(SUBSET Keys)
      BY DEF DeviceTypes
    <3>2. typed \in Seq(SUBSET Keys)
      BY <1>7
    <3> HIDE DEF DeviceInv
    <3>3. Len(typed) \in Nat /\ DOMAIN typed = 1 .. Len(typed)
      BY <3>2, LenProperties
    <3> QED BY <1>1, <3>1, <3>3
  <2>6. keys = buf_[i] /\ prev = prev_keys_[i]
    BY <1>7, <1>19, <2>1 DEF prev
  <2> HIDE DEF DeviceInv
  <2> DEFINE l == Len(typed) + 1
  <2>7. /\ typed' = Append(typed, x) /\ typed' \in Seq(SUBSET Keys) /\ typed' # <<>> /\ Len(typed') = l
        /\ DOMAIN typed' = DOMAIN typed \cup {l} /\ typed'[l] = x
        /\ \A k \in DOMAIN typed : typed'[k] = typed[k]
    BY <1>1, <1>7, <2>2, AppendIs
  <2>8. prev_keys_'[i] = keys
    BY <1>1, <1>7, <2>2
  <2>9. reported # <<>>
    BY <2>4, <2>5, EmptyIs
  <2>10. keys = reported[l] /\ Len(reported) = l
    BY <2>4, <2>6, <2>9
  <2>11. prev = IF l = 1 THEN {} ELSE reported[l - 1]
    <3>1. typed = <<>> <=> l = 1
      BY <1>7, <2>5, EmptyIs
    <3>2. l - 1 = Len(typed)
      BY <2>5
    <3> QED BY <2>4, <2>6, <3>1, <3>2
  <2>12. x = Typed(l)
    BY <2>10, <2>11 DEF Typed, x
  <2>13. \A k \in DOMAIN typed' : typed'[k] = Typed(k)
    BY <2>4, <2>7, <2>12
  <2>14. \A k \in DOMAIN typed' : Typed(k)' = Typed(k)
    BY <2>5 DEF Typed
  <2>15. l + 0 = l
    BY <2>5
  <2> HIDE DEF l
  <2> QED BY <2>2, <2>3, <2>4, <2>5, <2>7, <2>8, <2>9, <2>10, <2>13, <2>14, <2>15 DEF ReportInv
<1>22. UndefinedOnlyWithoutEndpoint1'
  BY <1>1, <1>6, SameDevice DEF UndefinedOnlyWithoutEndpoint1
<1> QED BY <1>11, <1>12, <1>13, <1>14, <1>15, <1>16, <1>17, <1>18, <1>20, <1>21, <1>22

\* While an entry is being deleted: the phases have one transfer, whose event was handled.
LEMMA HandlingIs ==
  ASSUME DeviceInv, handling # Idle
  PROVE  /\ ~ Quiet /\ handling.entry \in 1 .. MapSize /\ handling.setup \in Positions
         /\ ~ Configured \/ OneKeyboard => ~ Waiting /\ events = <<>> /\ requests = <<>>
         /\ ~ Configured => /\ at \in {"ring", "wait"} /\ inbox = <<>> /\ NoIssuers /\ ~ is_initialized_
                            /\ todo.index \in {0, 1} /\ (initialize_phase_ = 0 <=> todo.index = 0)
         /\ dict_[handling.entry].issuer # NULL => TwoDrivers
         /\ ring[handling.setup].setup \in Setups
         /\ Configured => ring[handling.setup].setup \in Protocols
<1> USE DEF DeviceInv
<1>1. ~ Quiet
  BY DEF Quiet
<1>2. handling.entry \in 1 .. MapSize /\ handling.setup \in Positions
  <2>1. handling.entry \in 0 .. MapSize /\ handling.entry # NULL /\ handling.setup \in Positions
    BY DEF DeviceTypes
  <2> HIDE DEF DeviceInv
  <2> QED BY <2>1, SizesOfRing
<1>3. ~ Configured \/ OneKeyboard => ~ Waiting /\ events = <<>> /\ requests = <<>>
  BY DEF LoneInv
<1>4. ASSUME ~ Configured
      PROVE  /\ at \in {"ring", "wait"} /\ inbox = <<>> /\ NoIssuers /\ ~ is_initialized_
             /\ todo.index \in {0, 1} /\ (initialize_phase_ = 0 <=> todo.index = 0)
  <2>1. inbox = <<>> /\ NoIssuers
    BY <1>1, <1>4 DEF EarlyInv
  <2>2. at \in {"ring", "wait"}
    <3>1. at \notin {"before", "start", "push", "configure", "endpoints", "done", "failed", "put", "put entry", "put setup"}
      BY <1>1, <1>4 DEF EarlyInv
    <3>2. at # "undefined"
      BY <1>4 DEF PhaseInv
    <3>3. at \in {"before", "start", "push", "put", "put entry", "put setup", "ring", "wait", "configure",
             "endpoints", "done", "failed", "undefined"}
      BY DEF DeviceTypes, TypeOK
    <3> QED BY <3>1, <3>2, <3>3
  <2>3. todo.index \in {0, 1} /\ (initialize_phase_ = 0 <=> todo.index = 0)
    BY <1>4, <2>2 DEF PhaseInv
  <2>4. initialize_phase_ # 4
    BY <1>4, <2>1, <2>2 DEF PhaseInv
  <2>5. ~ is_initialized_
    BY <2>4 DEF PhaseInv
  <2> QED BY <2>1, <2>2, <2>3, <2>5
<1>5. dict_[handling.entry].issuer # NULL => TwoDrivers
  BY DEF EntryInv
<1>6. ring[handling.setup].setup \in Setups
  BY <1>2 DEF DeviceTypes, TypeOK
<1>7. Configured => ring[handling.setup].setup \in Protocols
  BY DEF EventInv
<1> QED BY <1>1, <1>2, <1>3, <1>4, <1>5, <1>6, <1>7

\* The map without the setup stage of the entry.
Deleted == [dict_ EXCEPT ![handling.entry].setup = NULL]
Met == IF dict_[handling.entry].issuer # NULL THEN raced \cup {"entry put while deleted"} ELSE raced

\* Nothing but a setup stage is gone, and that of a used entry only with two keyboards.
LEMMA DeletedIs ==
  ASSUME DeviceInv, handling # Idle
  PROVE  /\ Deleted \in [1 .. MapSize -> [issuer : Positions \cup {NULL}, setup : Positions \cup {NULL}]]
         /\ \A i \in 1 .. MapSize : /\ Deleted[i].issuer = dict_[i].issuer
                                    /\ Deleted[i].setup # NULL => Deleted[i] = dict_[i]
                                    /\ i # handling.entry => Deleted[i] = dict_[i]
         /\ Deleted[handling.entry].setup = NULL
         /\ Met \subseteq {"event before Put", "entry put while deleted"}
         /\ Met = {} => raced = {} /\ dict_[handling.entry].issuer = NULL
         /\ "entry put while deleted" \in Met => TwoDrivers
         /\ ~ Configured => Met = raced
<1>1. /\ dict_ \in [1 .. MapSize -> [issuer : Positions \cup {NULL}, setup : Positions \cup {NULL}]]
      /\ raced \subseteq {"event before Put", "entry put while deleted"}
      /\ "entry put while deleted" \in raced => TwoDrivers
  BY DEF DeviceInv, DeviceTypes, TypeOK, EntryInv
<1>2. /\ handling.entry \in 1 .. MapSize /\ (dict_[handling.entry].issuer # NULL => TwoDrivers)
      /\ ~ Configured => dict_[handling.entry].issuer = NULL
  BY HandlingIs DEF NoIssuers, Open
<1>3. ~ Configured => Met = raced
  BY <1>2 DEF Met
<1>4. Deleted \in [1 .. MapSize -> [issuer : Positions \cup {NULL}, setup : Positions \cup {NULL}]]
  BY <1>1, <1>2 DEF Deleted
<1>5. ASSUME NEW i \in 1 .. MapSize
      PROVE  /\ Deleted[i].issuer = dict_[i].issuer
             /\ Deleted[i].setup # NULL => Deleted[i] = dict_[i]
             /\ i # handling.entry => Deleted[i] = dict_[i]
  BY <1>1, <1>2 DEF Deleted
<1>6. /\ Met \subseteq {"event before Put", "entry put while deleted"}
      /\ Met = {} => raced = {} /\ dict_[handling.entry].issuer = NULL
      /\ "entry put while deleted" \in Met => TwoDrivers
  BY <1>1, <1>2 DEF Met
<1>7. Deleted[handling.entry].setup = NULL
  BY <1>1, <1>2 DEF Deleted
<1> QED BY <1>3, <1>4, <1>5, <1>6, <1>7

\* The map after the second half of Delete, before anything is sent.
LEMMA DeletedKeeps ==
  ASSUME DeviceInv, handling # Idle, handling' = Idle, dict_' = Deleted,
         raced' = Met, events' = events, device' = device,
         at' = "undefined" \/ UNCHANGED <<at, place, enqueue, todo>>
  PROVE  EntryInv'
<1>1. /\ \A i \in 1 .. MapSize : /\ dict_'[i].issuer = dict_[i].issuer
                                 /\ dict_'[i].setup # NULL => dict_'[i] = dict_[i]
                                 /\ i # handling.entry => dict_'[i] = dict_[i]
      /\ raced' = {} => raced = {} /\ dict_[handling.entry].issuer = NULL
      /\ "entry put while deleted" \in raced' => TwoDrivers
  BY DeletedIs
<1>2. EntryInv
  BY DEF DeviceInv
<1>3. /\ \A i \in 1 .. MapSize : dict_[i].issuer # NULL /\ dict_[i].setup # NULL =>
           Open(i) \/ dict_[i].setup = Before(dict_[i].issuer)
      /\ raced = {} /\ at # "undefined" =>
           \A i \in 1 .. MapSize : dict_[i].issuer # NULL => Open(i) \/ dict_[i].setup # NULL
      /\ \A i \in 1 .. MapSize : dict_[i].issuer = NULL \/ Open(i) =>
           dict_[i].setup = NULL \/ handling.entry = i
  BY <1>2 DEF EntryInv
<1>4. \A i \in 1 .. MapSize : dict_'[i].issuer = NULL \/ Open(i) => dict_'[i].setup = NULL
  <2>1. SUFFICES ASSUME NEW i \in 1 .. MapSize, dict_'[i].issuer = NULL \/ Open(i), dict_'[i].setup # NULL
                 PROVE  FALSE
    OBVIOUS
  <2>2. dict_'[i] = dict_[i] /\ handling.entry = i
    BY <1>1, <1>3, <2>1
  <2>3. dict_'[handling.entry].setup = NULL
    BY DeletedIs
  <2> QED BY <2>1, <2>2, <2>3
<1>5. raced' = {} => \A j \in DOMAIN events : events[j].endpoint = 0 /\ events[j].ok =>
        \E i \in 1 .. MapSize : dict_'[i].issuer = events[j].issuer
  <2>1. SUFFICES ASSUME raced' = {}, NEW j \in DOMAIN events, events[j].endpoint = 0, events[j].ok
                 PROVE  \E i \in 1 .. MapSize : dict_'[i].issuer = events[j].issuer
    OBVIOUS
  <2>2. raced = {}
    BY <1>1, <2>1
  <2>3. PICK i \in 1 .. MapSize : dict_[i].issuer = events[j].issuer
    BY <1>2, <2>1, <2>2 DEF EntryInv
  <2> QED BY <1>1, <2>3
<1>6. TwoDrivers' <=> TwoDrivers
  BY SameDevice
<1>7. \A i \in 1 .. MapSize : dict_'[i].issuer # NULL /\ dict_'[i].setup # NULL =>
        ~ Open(i) /\ dict_'[i].setup = Before(dict_'[i].issuer)
  BY <1>1, <1>3, <1>4
<1>8. CASE at' = "undefined"
  BY <1>1, <1>4, <1>5, <1>6, <1>7, <1>8 DEF EntryInv, Open
<1>9. CASE at' # "undefined"
  <2>1. Issuer' = Issuer /\ at' = at /\ \A i : Open(i)' <=> Open(i)
    BY <1>9 DEF Issuer, Open
  <2>2. raced' = {} => \A i \in 1 .. MapSize : dict_'[i].issuer # NULL => Open(i) \/ dict_'[i].setup # NULL
    <3>1. SUFFICES ASSUME raced' = {}, NEW i \in 1 .. MapSize, dict_'[i].issuer # NULL, ~ Open(i)
                   PROVE  dict_'[i].setup # NULL
      OBVIOUS
    <3>2. i # handling.entry /\ dict_'[i] = dict_[i]
      BY <1>1, <3>1
    <3> QED BY <1>1, <1>3, <1>9, <2>1, <3>1, <3>2
  <2>3. raced' = {} /\ at \in {"put", "put entry", "put setup"} =>
          \A j \in DOMAIN events : events[j].endpoint = 0 /\ events[j].ok => events[j].issuer # Issuer
    BY <1>1, <1>2 DEF EntryInv
  <2> QED BY <1>1, <1>4, <1>5, <1>6, <1>7, <2>1, <2>2, <2>3 DEF EntryInv
<1> QED BY <1>8, <1>9

\* After the phases the driver of the interface asks for a report.
LEMMA DriverDoneKeeps ==
  ASSUME DeviceInv, OnControlDone, is_initialized_
  PROVE  DeviceInv'
<1> USE DEF DeviceInv, phases, history
<1> DEFINE d == ring[handling.setup].setup.index
<1>1. /\ handling # Idle /\ handling' = Idle /\ raced' = Met
      /\ OnControlCompleted(ring[handling.setup].setup, Deleted)
      /\ Tell(TRUE, initialize_phase_', is_initialized_')
      /\ UNCHANGED <<device, dequeue, halted, transfer_rings_, buf_, prev_keys_, events, todo,
                     place, history>>
  BY DEF OnControlDone, Met, Deleted
<1>2. /\ Configured /\ ~ Quiet
      /\ OneKeyboard => ~ Waiting /\ events = <<>> /\ requests = <<>>
      /\ d \in Drivers /\ ring[handling.setup].setup.request = "SetProtocol"
  BY <1>1, HandlingIs DEF Protocols
<1>3. class_drivers_ = Drivers /\ transfer_rings_ = Endpoints /\ d \in Interfaces
  BY <1>2, DriversKnown
<1>4. /\ RequestKeyCodeViaIntEP(d) /\ dict_' = Deleted
      /\ UNCHANGED <<ring, enqueue, running, phases>>
  <2> HIDE DEF DeviceInv
  <2> QED BY <1>1, <1>2, <1>3 DEF OnControlCompleted
<1> HIDE DEF d
<1>5. /\ at' = at \/ (at' = "undefined" /\ 1 \notin Endpoints)
      /\ requests' = requests \/ requests' = Append(requests, d)
      /\ 1 \in Endpoints => requests' = Append(requests, d)
  BY <1>3, <1>4 DEF RequestKeyCodeViaIntEP
<1>6. /\ requests' \in Seq(Drivers) /\ (requests = <<>> => Len(requests') <= 1)
      /\ 1 \in Endpoints => requests' # <<>>
  <2>1. requests \in Seq(Drivers)
    BY <1>3 DEF DeviceTypes, TypeOK
  <2> HIDE DEF DeviceInv
  <2>2. /\ Append(requests, d) \in Seq(Drivers) /\ Append(requests, d) # <<>>
        /\ requests = <<>> => Len(Append(requests, d)) = 1
    BY <1>2, <2>1, AppendIs
  <2>3. Len(<<>>) <= 1 /\ 1 <= 1
    BY EmptyIs
  <2> QED BY <1>5, <2>1, <2>2, <2>3
<1>7. inbox' \in Seq(BOOLEAN)
  <2>1. inbox \in Seq(BOOLEAN)
    BY DEF DeviceTypes, TypeOK
  <2> HIDE DEF DeviceInv
  <2> QED BY <1>1, <2>1, Told
<1>8. (Configured' <=> Configured) /\ Reach \in Int /\ Reach' \in Int /\ Reach <= Reach'
  <2>1. at' = at \/ at' # "push"
    BY <1>5
  <2> QED BY <1>1, <2>1, ReachGrows
<1>9. /\ dict_' \in [1 .. MapSize -> [issuer : Positions \cup {NULL}, setup : Positions \cup {NULL}]]
      /\ \A i \in 1 .. MapSize : dict_'[i].issuer = dict_[i].issuer
      /\ raced' \subseteq {"event before Put", "entry put while deleted"}
      /\ raced' = {} => raced = {}
  BY <1>1, <1>4, DeletedIs
<1>10. DeviceTypes'
  <2>1. Interfaces' = Interfaces /\ Endpoints' = Endpoints
    BY <1>1, SameDevice
  <2>2. TypeOK'
    <3>1. TypeOK
      BY DEF DeviceTypes
    <3> HIDE DEF DeviceInv
    <3> QED BY <1>1, <1>3, <1>4, <1>5, <1>6, <1>7, <1>9, <2>1, <3>1 DEF TypeOK
  <2>3. at' = "put entry" => place' # NULL /\ dict_'[place'].issuer = NULL
    <3>1. SUFFICES ASSUME at' = "put entry" PROVE place # NULL /\ dict_'[place].issuer = NULL
      BY <1>1
    <3>2. at = "put entry"
      BY <1>5, <3>1
    <3>3. place # NULL /\ dict_[place].issuer = NULL /\ place \in 0 .. MapSize
      BY <3>2 DEF DeviceTypes, TypeOK
    <3>4. place \in 1 .. MapSize
      BY <3>3, SizesOfRing
    <3> QED BY <1>9, <3>3, <3>4
  <2>4. handling' \in [entry : 0 .. MapSize, setup : Positions \cup {NULL}]
    BY <1>1, MapIs DEF Idle, NULL
  <2>5. at' = "put setup" => place' # NULL /\ dict_'[place'].issuer = Issuer'
    <3>1. SUFFICES ASSUME at' = "put setup" PROVE place # NULL /\ dict_'[place].issuer = Issuer'
      BY <1>1
    <3>2. at = "put setup"
      BY <1>5, <3>1
    <3>3. place # NULL /\ dict_[place].issuer = Issuer /\ place \in 0 .. MapSize
      BY <3>2 DEF DeviceTypes, TypeOK
    <3>4. place \in 1 .. MapSize
      BY <3>3, SizesOfRing
    <3>5. Issuer' = Issuer
      BY <1>1, <1>4 DEF Issuer
    <3> QED BY <1>9, <3>3, <3>4, <3>5
  <2> QED BY <1>1, <1>9, <2>1, <2>2, <2>3, <2>4, <2>5 DEF DeviceTypes, Idle
<1>11. PhaseInv'
  <2>1. /\ Drivers' = Drivers /\ Endpoints' = Endpoints /\ DriverMap' = DriverMap
    BY <1>1, SameDevice
  <2> QED BY <1>1, <1>2, <1>4, <1>5, <1>8, <2>1 DEF PhaseInv
<1>12. PendingInv'
  BY <1>1, <1>2, <1>4, <1>8, KeepsPending
<1>13. EventInv'
  <2>1. handling' = Idle' /\ Idle' = Idle
    BY <1>1 DEF Idle
  <2>2. DeviceTypes /\ EventInv
    OBVIOUS
  <2> HIDE DEF DeviceInv
  <2> QED BY <1>1, <1>2, <1>4, <1>8, <2>1, <2>2, KeepsEvents
<1>14. EntryInv'
  <2>1. at' = "undefined" \/ UNCHANGED <<at, place, enqueue, todo>>
    BY <1>1, <1>4, <1>5
  <2> QED BY <1>1, <1>4, <2>1, DeletedKeeps
<1>15. LoneInv'
  <2>1. OneKeyboard' <=> OneKeyboard
    BY <1>1, SameDevice
  <2>2. OneKeyboard => Behind(enqueue, dequeue) <= 2
    BY <1>2 DEF LoneInv, Back
  <2>3. Waiting' <=> Waiting
    BY <1>1, <1>4 DEF Waiting
  <2> HIDE DEF DeviceInv
  <2> QED BY <1>1, <1>2, <1>4, <1>6, <1>8, <2>1, <2>2, <2>3 DEF LoneInv, Back, Idle
<1>16. EarlyInv'
  BY <1>2, <1>8 DEF EarlyInv
<1>17. FirstInv'
  <2>1. Drivers' = Drivers
    BY <1>1, SameDevice
  <2>2. Configured /\ (\A i \in Drivers : todo.index <= i) => at \notin {"push", "put", "put entry", "put setup"}
    BY <1>1, <1>2 DEF FirstInv
  <2> HIDE DEF DeviceInv
  <2> QED BY <1>1, <1>5, <1>8, <2>1, <2>2 DEF FirstInv
<1>18. ListenInv'
  <2>1. OneKeyboard => 1 \in Endpoints
    <3>1. OneKeyboard => \E i \in Drivers : 1 \in device[i].in
      BY OneKeyboardIs DEF DeviceTypes, TypeOK
    <3> HIDE DEF DeviceInv
    <3> QED BY <3>1 DEF Endpoints, Drivers
  <2>2. OneKeyboard' => requests' # <<>>
    BY <1>1, <1>6, <2>1, SameDevice
  <2> QED BY <2>2 DEF ListenInv
<1>19. ReportInv'
  BY <1>1, KeepsReports DEF KeyEvent
<1>20. UndefinedOnlyWithoutEndpoint1'
  BY <1>1, <1>5, SameDevice DEF UndefinedOnlyWithoutEndpoint1
<1> QED BY <1>10, <1>11, <1>12, <1>13, <1>14, <1>15, <1>16, <1>17, <1>18, <1>19, <1>20

\* The transfer of the first descriptor, and the last one of the phases: the init task is told.
LEMMA PhaseDoneKeeps ==
  ASSUME DeviceInv, OnControlDone, ~ is_initialized_, initialize_phase_ \in {0, 3}
  PROVE  DeviceInv'
<1> USE DEF DeviceInv, history
<1>1. /\ handling # Idle /\ handling' = Idle /\ raced' = Met
      /\ OnControlCompleted(ring[handling.setup].setup, Deleted)
      /\ Tell(TRUE, initialize_phase_', is_initialized_')
      /\ UNCHANGED <<device, dequeue, halted, transfer_rings_, buf_, prev_keys_, events, todo,
                     place, history>>
  BY DEF OnControlDone, Met, Deleted
<1>2. /\ dict_' = Deleted /\ initialize_phase_' = (IF initialize_phase_ = 0 THEN 0 ELSE 4)
      /\ initialize_phase_ = 0 => is_initialized_' = is_initialized_
      /\ initialize_phase_ = 3 => is_initialized_' = TRUE
      /\ UNCHANGED <<ring, enqueue, running, class_drivers_, ep_to_class_driver_map, requests, at>>
  <2> HIDE DEF DeviceInv
  <2> QED BY <1>1 DEF OnControlCompleted, phases
<1>3. /\ (is_initialized_' <=> initialize_phase_' = 4) /\ is_initialized_' \in BOOLEAN
      /\ initialize_phase_' \in 0 .. 4 /\ (initialize_phase_' = 0 <=> initialize_phase_ = 0)
      /\ initialize_phase_' \in {0, 4}
      /\ initialize_phase_' < 3 => class_drivers_ = {}
      /\ initialize_phase_' >= 3 => class_drivers_ = Drivers /\ ep_to_class_driver_map = DriverMap
  <2>1. is_initialized_ \in BOOLEAN
    BY DEF DeviceTypes, TypeOK
  <2>2. CASE initialize_phase_ = 0
    <3>1. class_drivers_ = {}
      <4>1. initialize_phase_ < 3
        BY <2>2
      <4> QED BY <4>1 DEF PhaseInv
    <3> HIDE DEF DeviceInv
    <3> DEFINE phase == initialize_phase_'
    <3>2. phase = 0 /\ ~ is_initialized_'
      BY <1>2, <2>2
    <3> HIDE DEF phase
    <3>3. phase # 4 /\ ~ (phase >= 3) /\ phase \in 0 .. 4 /\ phase \in {0, 4}
      BY <3>2
    <3>4. is_initialized_' \in BOOLEAN /\ ~ is_initialized_'
      BY <1>2, <2>1, <2>2
    <3>5. phase = initialize_phase_'
      BY DEF phase
    <3> QED BY ONLY <2>2, <3>1, <3>2, <3>3, <3>4, <3>5
  <2>3. CASE initialize_phase_ = 3
    <3>1. class_drivers_ = Drivers /\ ep_to_class_driver_map = DriverMap
      <4>1. initialize_phase_ >= 3
        BY <2>3
      <4> QED BY <4>1 DEF PhaseInv
    <3> HIDE DEF DeviceInv
    <3> DEFINE phase == initialize_phase_'
    <3>2. phase = 4 /\ is_initialized_' = TRUE
      BY <1>2, <2>3
    <3> HIDE DEF phase
    <3>3. phase # 0 /\ ~ (phase < 3) /\ phase \in 0 .. 4 /\ phase \in {0, 4}
      BY <3>2
    <3> QED BY <2>3, <3>1, <3>2, <3>3 DEF phase
  <2> QED BY <2>2, <2>3
<1>4. /\ ~ Configured /\ ~ Configured'
      /\ at \in {"ring", "wait"} /\ inbox = <<>> /\ NoIssuers /\ todo.index \in {0, 1}
      /\ initialize_phase_ = 0 <=> todo.index = 0
      /\ ~ Waiting /\ events = <<>> /\ requests = <<>>
  <2>1. ~ Configured
    BY DEF PhaseInv
  <2>2. ~ Configured'
    BY <1>1, <2>1 DEF Configured
  <2> HIDE DEF DeviceInv
  <2> QED BY <1>1, <2>1, <2>2, HandlingIs
<1>5. inbox' = <<TRUE>> /\ inbox' \in Seq(BOOLEAN) /\ inbox' # <<>> /\ Len(inbox') <= 1
  <2> HIDE DEF DeviceInv
  <2>1. inbox \in Seq(BOOLEAN)
    BY <1>4, EmptyIs
  <2>2. /\ inbox' \in Seq(BOOLEAN) /\ (inbox' = <<>> \/ inbox' = <<TRUE>>) /\ inbox' = Append(inbox, TRUE)
        /\ Append(inbox, TRUE) # <<>>
    <3>1. at \notin {"done", "failed"}
      BY <1>4
    <3>2. is_initialized_' \/ initialize_phase_' = 0
      BY <1>3
    <3>3. inbox' = Append(inbox, TRUE)
      BY <1>1, <2>1, <3>1, <3>2, Told
    <3>4. inbox' \in Seq(BOOLEAN) /\ (inbox' = <<>> \/ inbox' = <<TRUE>>)
      BY <1>1, <1>4, <2>1, Told
    <3>5. Append(inbox, TRUE) # <<>>
      <4> DEFINE ok == TRUE
      <4>1. ok \in BOOLEAN
        OBVIOUS
      <4> HIDE DEF ok
      <4>2. Append(inbox, ok) # <<>>
        BY <2>1, <4>1, AppendIs
      <4> QED BY <4>2 DEF ok
    <3> QED BY <3>3, <3>4, <3>5
  <2>3. inbox' = <<TRUE>>
    BY <2>2
  <2>4. Len(inbox') = 1 /\ inbox' # <<>>
    BY <2>3, EmptyIs
  <2>5. Len(inbox') <= 1
    BY <2>4
  <2> QED BY <2>2, <2>3, <2>4, <2>5
<1>6. /\ dict_' \in [1 .. MapSize -> [issuer : Positions \cup {NULL}, setup : Positions \cup {NULL}]]
      /\ \A i \in 1 .. MapSize : dict_'[i].issuer = NULL
      /\ raced' \subseteq {"event before Put", "entry put while deleted"}
  <2>1. \A i \in 1 .. MapSize : dict_[i].issuer = NULL
    BY <1>4 DEF NoIssuers, Open
  <2> HIDE DEF DeviceInv
  <2> QED BY <1>1, <1>2, <2>1, DeletedIs
<1>7. (Configured' <=> Configured) /\ Reach \in Int /\ Reach' \in Int /\ Reach <= Reach'
  BY <1>1, <1>2, ReachGrows
<1>8. DeviceTypes'
  <2>1. Interfaces' = Interfaces /\ Endpoints' = Endpoints
    BY <1>1, SameDevice
  <2>2. TypeOK'
    <3>1. TypeOK
      BY DEF DeviceTypes
    <3> HIDE DEF DeviceInv
    <3> QED BY <1>1, <1>2, <1>3, <1>5, <1>6, <2>1, <3>1 DEF TypeOK
  <2>3. at' \notin {"put entry", "put setup"}
    BY <1>2, <1>4
  <2>4. handling' \in [entry : 0 .. MapSize, setup : Positions \cup {NULL}]
    BY <1>1, MapIs DEF Idle, NULL
  <2> QED BY <1>1, <1>6, <2>1, <2>2, <2>3, <2>4 DEF DeviceTypes, Idle
<1>9. PhaseInv'
  <2>1. /\ Drivers' = Drivers /\ Endpoints' = Endpoints /\ DriverMap' = DriverMap
    BY <1>1, SameDevice
  <2>2. at' \in {"ring", "wait"} /\ (todo'.index = 0 => initialize_phase_' = 0)
        /\ (todo'.index = 1 => initialize_phase_' # 0)
    BY <1>1, <1>2, <1>3, <1>4
  <2>3. todo'.request = "GetDescriptor(device)" /\ todo'.index \in {0, 1}
    BY <1>1, <1>4 DEF PhaseInv
  <2>4. /\ initialize_phase_' < 3 => class_drivers_' = {}
        /\ initialize_phase_' >= 3 => class_drivers_' = Drivers /\ ep_to_class_driver_map' = DriverMap
    BY <1>2, <1>3
  <2>5. (is_initialized_' <=> initialize_phase_' = 4) /\ inbox' # <<>>
    BY <1>3, <1>5
  <2> HIDE DEF DeviceInv
  <2> QED BY ONLY <1>4, <2>1, <2>2, <2>3, <2>4, <2>5 DEF PhaseInv
<1>10. PendingInv'
  BY <1>1, <1>2, <1>4, <1>7, KeepsPending
<1>11. EventInv'
  <2>1. handling' = Idle' /\ Idle' = Idle
    BY <1>1 DEF Idle
  <2>2. DeviceTypes /\ EventInv
    OBVIOUS
  <2> HIDE DEF DeviceInv
  <2> QED BY <1>1, <1>2, <1>4, <1>7, <2>1, <2>2, KeepsEvents
<1>12. EntryInv'
  BY <1>1, <1>2, DeletedKeeps
<1>13. Quiet' /\ ~ Waiting'
  BY <1>1, <1>2, <1>4 DEF Quiet, Waiting, Idle
<1>14. LoneInv'
  <2>1. Len(<<>>) <= 1
    BY EmptyIs
  <2>2. requests' = <<>> /\ events' = <<>>
    BY <1>1, <1>2, <1>4
  <2> HIDE DEF DeviceInv
  <2> QED BY <1>4, <1>13, <2>1, <2>2 DEF LoneInv
<1>15. EarlyInv'
  <2>1. NoIssuers'
    BY <1>6 DEF NoIssuers
  <2>2. at' \in {"ring", "wait"} /\ events' = <<>>
    BY <1>1, <1>2, <1>4
  <2> HIDE DEF DeviceInv
  <2> QED BY <1>3, <1>4, <1>5, <1>6, <1>13, <2>1, <2>2 DEF EarlyInv
<1>16. FirstInv' /\ ListenInv'
  BY <1>4 DEF FirstInv, ListenInv
<1>17. ReportInv'
  BY <1>1, KeepsReports DEF KeyEvent
<1>18. UndefinedOnlyWithoutEndpoint1'
  BY <1>1, <1>2, SameDevice DEF UndefinedOnlyWithoutEndpoint1
<1> QED BY <1>8, <1>9, <1>10, <1>11, <1>12, <1>14, <1>15, <1>16, <1>17, <1>18

\* The phases in between send the next transfer.
LEMMA NextTransferKeeps ==
  ASSUME DeviceInv, OnControlDone, ~ is_initialized_, initialize_phase_ \in {1, 2}
  PROVE  DeviceInv'
<1> USE DEF DeviceInv, history
<1> DEFINE setup == [request |-> IF initialize_phase_ = 1 THEN "GetDescriptor(configuration)" ELSE "SetConfiguration",
                     index |-> 0]
           free == {i \in 1 .. MapSize : Deleted[i].issuer = NULL}
           q == Least(free)
           entry == [issuer |-> Plus(enqueue, 1), setup |-> enqueue]
<1>1. /\ handling # Idle /\ handling' = Idle /\ raced' = Met
      /\ OnControlCompleted(ring[handling.setup].setup, Deleted)
      /\ Tell(TRUE, initialize_phase_', is_initialized_')
      /\ UNCHANGED <<device, dequeue, halted, transfer_rings_, buf_, prev_keys_, events, todo,
                     place, history>>
  BY DEF OnControlDone, Met, Deleted
<1>2. /\ ControlTransfer(setup, Deleted) /\ initialize_phase_' = (IF initialize_phase_ = 1 THEN 2 ELSE 3)
      /\ initialize_phase_ = 1 => UNCHANGED <<class_drivers_, ep_to_class_driver_map>>
      /\ initialize_phase_ = 2 => class_drivers_' = Drivers /\ ep_to_class_driver_map' = DriverMap
      /\ UNCHANGED <<is_initialized_, requests, at>>
  <2> HIDE DEF DeviceInv
  <2>1. CASE initialize_phase_ = 1
    BY <1>1, <2>1 DEF OnControlCompleted
  <2>2. CASE initialize_phase_ = 2
    BY <1>1, <2>2 DEF OnControlCompleted, DriverMap
  <2> QED BY <2>1, <2>2
<1>3. /\ is_initialized_' = FALSE /\ initialize_phase_' \in {2, 3} /\ initialize_phase_' \in 0 .. 4
      /\ initialize_phase_' # 0 /\ initialize_phase_' # 4 /\ initialize_phase_ # 0
      /\ initialize_phase_' < 3 => class_drivers_' = {}
      /\ initialize_phase_' >= 3 => class_drivers_' = Drivers /\ ep_to_class_driver_map' = DriverMap
      /\ class_drivers_' \subseteq Interfaces
  <2>1. is_initialized_ \in BOOLEAN /\ class_drivers_ = {}
    <3>1. initialize_phase_ < 3
      OBVIOUS
    <3> QED BY <3>1 DEF DeviceTypes, TypeOK, PhaseInv
  <2>2. Drivers \subseteq Interfaces
    BY DEF Drivers
  <2> HIDE DEF DeviceInv
  <2>3. CASE initialize_phase_ = 1
    <3>1. initialize_phase_' = 2 /\ class_drivers_' = {}
      BY <1>2, <2>1, <2>3
    <3> QED BY <1>2, <2>1, <2>3, <3>1
  <2>4. CASE initialize_phase_ = 2
    <3>1. initialize_phase_' = 3 /\ class_drivers_' = Drivers /\ ep_to_class_driver_map' = DriverMap
      BY <1>2, <2>4
    <3> QED BY <1>2, <2>1, <2>2, <2>4, <3>1
  <2> QED BY <2>3, <2>4
<1>4. /\ ~ Configured /\ ~ Configured'
      /\ at \in {"ring", "wait"} /\ inbox = <<>> /\ NoIssuers /\ todo.index = 1
      /\ ~ Waiting /\ events = <<>> /\ requests = <<>>
  <2>1. ~ Configured
    BY DEF PhaseInv
  <2>2. ~ Configured'
    BY <1>1, <2>1 DEF Configured
  <2> HIDE DEF DeviceInv
  <2> QED BY <1>1, <1>3, <2>1, <2>2, HandlingIs
<1>5. inbox' = <<>>
  <2> HIDE DEF DeviceInv
  <2>1. inbox \in Seq(BOOLEAN)
    BY <1>4, EmptyIs
  <2>2. ~ is_initialized_' /\ initialize_phase_' # 0
    BY <1>3
  <2> QED BY <1>1, <1>4, <2>2 DEF Tell
<1>6. /\ Deleted \in [1 .. MapSize -> [issuer : Positions \cup {NULL}, setup : Positions \cup {NULL}]]
      /\ \A i \in 1 .. MapSize : Deleted[i].issuer = NULL
      /\ raced' = raced
  <2>1. \A i \in 1 .. MapSize : dict_[i].issuer = NULL
    BY <1>4 DEF NoIssuers, Open
  <2> HIDE DEF DeviceInv
  <2> QED BY <1>1, <1>4, <2>1, DeletedIs
<1>7. q \in 1 .. MapSize /\ free # {}
  <2>1. 1 \in 1 .. MapSize /\ 1 .. MapSize \subseteq Nat
    BY MapIs
  <2> HIDE DEF DeviceInv
  <2>2. free # {} /\ free \subseteq Nat
    BY <1>6, <2>1
  <2> HIDE DEF free
  <2>3. q \in free
    BY <2>2, LeastIs
  <2> QED BY <2>2, <2>3 DEF free
<1>8. setup \in Setups
  BY DEF Setups
<1> HIDE DEF setup
<1>9. PushStages(setup) /\ dict_' = [Deleted EXCEPT ![q] = entry] /\ running' = TRUE
  <2> HIDE DEF DeviceInv, q, entry
  <2> QED BY <1>2, <1>7 DEF ControlTransfer, q, entry
<1>10. /\ enqueue \in Positions /\ ring \in [Positions -> TRBType]
       /\ enqueue' \in Positions /\ ring' \in [Positions -> TRBType]
  <2>1. enqueue \in Positions /\ ring \in [Positions -> TRBType]
    BY DEF DeviceTypes, TypeOK, TRBType
  <2> HIDE DEF DeviceInv
  <2> QED BY <1>8, <1>9, <2>1, PushedStages
<1>11. /\ entry.issuer \in Positions /\ entry.setup = enqueue /\ entry.issuer # NULL /\ entry.setup # NULL
       /\ Before(entry.issuer) = enqueue
       /\ entry \in [issuer : Positions \cup {NULL}, setup : Positions \cup {NULL}]
  <2>1. 1 \in 0 .. RingSize
    BY PositionIs
  <2>2. Plus(enqueue, 1) \in Positions
    BY <1>10, <2>1, PlusIs
  <2> QED BY <1>10, <2>2, BeforeIs, PositionIs
<1> HIDE DEF entry, q, free
<1>12. /\ dict_' \in [1 .. MapSize -> [issuer : Positions \cup {NULL}, setup : Positions \cup {NULL}]]
       /\ dict_'[q] = entry /\ \A i \in 1 .. MapSize : i # q => dict_'[i].issuer = NULL
  <2> HIDE DEF DeviceInv
  <2> QED BY <1>6, <1>7, <1>9, <1>11
<1>13. DeviceTypes'
  <2>1. Interfaces' = Interfaces /\ Endpoints' = Endpoints
    BY <1>1, SameDevice
  <2>2. TypeOK'
    <3>1. TypeOK
      BY DEF DeviceTypes
    <3>2. requests' \in Seq(class_drivers_') /\ inbox' \in Seq(BOOLEAN)
      <4>1. requests' = <<>>
        BY <1>2, <1>4
      <4> HIDE DEF DeviceInv
      <4> QED BY <1>5, <4>1, EmptyIs
    <3> HIDE DEF DeviceInv
    <3> QED BY <1>1, <1>2, <1>3, <1>9, <1>10, <1>12, <2>1, <3>1, <3>2 DEF TypeOK, TRBType
  <2>3. at' \notin {"put entry", "put setup"}
    BY <1>2, <1>4
  <2>4. handling' \in [entry : 0 .. MapSize, setup : Positions \cup {NULL}]
    BY <1>1, MapIs DEF Idle, NULL
  <2> QED BY <1>1, <1>6, <2>1, <2>2, <2>3, <2>4 DEF DeviceTypes, Idle, Issuer
<1>14. PhaseInv'
  <2>1. /\ Drivers' = Drivers /\ Endpoints' = Endpoints /\ DriverMap' = DriverMap
    BY <1>1, SameDevice
  <2>2. todo'.index # 0
    BY <1>1, <1>4
  <2>3. at' \in {"ring", "wait"}
    BY <1>2, <1>4
  <2>4. todo'.request = "GetDescriptor(device)" /\ todo'.index \in {0, 1}
    BY <1>1, <1>4 DEF PhaseInv
  <2> HIDE DEF DeviceInv
  <2> QED BY <1>1, <1>3, <1>4, <2>1, <2>2, <2>3, <2>4 DEF PhaseInv
<1>15. PendingInv' /\ EventInv' /\ Waiting'
  <2>1. /\ dequeue = enqueue /\ dequeue' = dequeue /\ events' = <<>> /\ requests' = <<>>
        /\ at' \notin {"put", "put entry", "put setup"}
    BY <1>1, <1>2, <1>4 DEF Waiting
  <2>2. handling' = Idle
    BY <1>1
  <2>3. DeviceTypes
    OBVIOUS
  <2> HIDE DEF DeviceInv
  <2> QED BY <1>4, <1>8, <1>9, <1>13, <2>1, <2>2, <2>3, PushedAlone
<1>16. EntryInv'
  <2>1. \A i \in 1 .. MapSize : dict_'[i].issuer # NULL =>
          dict_'[i].setup = Before(dict_'[i].issuer) /\ dict_'[i].setup # NULL
    BY <1>11, <1>12
  <2>2. DOMAIN events' = {}
    BY <1>1, <1>4, EmptyIs
  <2>3. TwoDrivers' <=> TwoDrivers
    BY <1>1, SameDevice
  <2>4. "entry put while deleted" \in raced => TwoDrivers
    BY DEF EntryInv
  <2>5. \A i \in 1 .. MapSize : Deleted[i].setup = NULL
    <3>1. \A i \in 1 .. MapSize : dict_[i].issuer = NULL /\ i # handling.entry => dict_[i].setup = NULL
      BY DEF EntryInv
    <3> HIDE DEF DeviceInv
    <3>2. /\ Deleted[handling.entry].setup = NULL
          /\ \A i \in 1 .. MapSize : /\ Deleted[i].issuer = dict_[i].issuer
                                     /\ i # handling.entry => Deleted[i] = dict_[i]
      BY <1>1, DeletedIs
    <3> QED BY <1>6, <3>1, <3>2
  <2>6. at' \in {"ring", "wait"} /\ at' # "put setup"
    BY <1>2, <1>4
  <2> HIDE DEF DeviceInv
  <2>7. \A i \in 1 .. MapSize : i # q => dict_'[i].setup = NULL
    BY <1>6, <1>9, <2>5
  <2>8. \A i \in 1 .. MapSize : dict_'[i].issuer = NULL => dict_'[i].setup = NULL
    BY <1>11, <1>12, <2>7
  <2> QED BY <1>1, <1>6, <2>1, <2>2, <2>3, <2>4, <2>6, <2>8 DEF EntryInv, Idle, Open
<1>17. LoneInv'
  <2>1. Len(<<>>) <= 1
    BY EmptyIs
  <2>2. requests' = <<>> /\ events' = <<>> /\ handling' = Idle'
    BY <1>1, <1>2, <1>4 DEF Idle
  <2> HIDE DEF DeviceInv
  <2> QED BY <1>4, <2>1, <2>2 DEF LoneInv
<1>18. EarlyInv'
  <2>1. at' \in {"ring", "wait"} /\ events' = <<>> /\ handling' = Idle' /\ todo'.index # 0
    BY <1>1, <1>2, <1>4 DEF Idle
  <2>2. Len(inbox') <= 1 /\ inbox' # <<TRUE>> /\ inbox' = <<>>
    BY <1>5, EmptyIs
  <2>3. \A i, j \in 1 .. MapSize : dict_'[i].issuer # NULL /\ dict_'[j].issuer # NULL => i = j
    BY <1>12
  <2> HIDE DEF DeviceInv
  <2> QED BY <2>1, <2>2, <2>3 DEF EarlyInv
<1>19. FirstInv' /\ ListenInv'
  BY <1>4 DEF FirstInv, ListenInv
<1>20. ReportInv'
  BY <1>1, KeepsReports DEF KeyEvent
<1>21. UndefinedOnlyWithoutEndpoint1'
  BY <1>1, <1>2, SameDevice DEF UndefinedOnlyWithoutEndpoint1
<1> QED BY <1>13, <1>14, <1>15, <1>16, <1>17, <1>18, <1>19, <1>20, <1>21

\* The three outcomes of a transfer.
LEMMA OnControlDoneKeeps ==
  ASSUME DeviceInv, OnControlDone
  PROVE  DeviceInv'
<1>1. CASE is_initialized_
  BY <1>1, DriverDoneKeeps
<1>2. CASE ~ is_initialized_
  <2>1. initialize_phase_ \in {0, 3} \/ initialize_phase_ \in {1, 2}
    <3>1. handling # Idle /\ OnControlCompleted(ring[handling.setup].setup, [dict_ EXCEPT ![handling.entry].setup = NULL])
      BY DEF OnControlDone
    <3> QED BY <1>2, <3>1 DEF OnControlCompleted
  <2> QED BY <1>2, <2>1, PhaseDoneKeeps, NextTransferKeeps
<1> QED BY <1>1, <1>2

-----------------------------------------------------------------------------
(* The invariant holds, and what follows from it.                          *)

\* A device that was just plugged in has nothing under way.
LEMMA DeviceInvInit ==
  ASSUME Init
  PROVE  DeviceInv
<1> USE DEF Init
<1>1. /\ ~ Configured /\ at = "before" /\ todo = Nothing /\ initialize_phase_ = 0 /\ is_initialized_ = FALSE
      /\ todo.request = "none"
  BY DEF Configured, Nothing
<1>2. events = <<>> /\ DOMAIN events = {} /\ requests = <<>> /\ inbox = <<>> /\ reported = <<>> /\ typed = <<>>
      /\ Len(<<>>) <= 1 /\ Len(<<>>) = 0 /\ inbox # <<TRUE>> /\ DOMAIN typed = {}
  BY EmptyIs
<1>3. /\ ring = [p \in Positions |-> [type |-> "none", setup |-> Nothing]]
      /\ dict_ = [i \in 1 .. MapSize |-> [issuer |-> NULL, setup |-> NULL]]
      /\ enqueue = 1 /\ dequeue = 1 /\ 1 \in Positions
  BY SizesOfRing
<1>4. Quiet /\ NoIssuers /\ ~ Waiting /\ ~ running
  BY <1>2, <1>3 DEF Quiet, NoIssuers, Waiting
<1>5. DeviceTypes
  <2>1. Nothing \in Setups
    BY DEF Nothing, Setups
  <2>2. ring \in [Positions -> [type : {"none", "setup", "data", "status"}, setup : Setups]]
    <3> HIDE DEF Init
    <3> DEFINE v == [type |-> "none", setup |-> Nothing]
    <3>1. v \in [type : {"none", "setup", "data", "status"}, setup : Setups]
      BY <2>1
    <3> HIDE DEF v
    <3> QED BY <1>3, <3>1 DEF v
  <2>3. dict_ \in [1 .. MapSize -> [issuer : Positions \cup {NULL}, setup : Positions \cup {NULL}]]
    BY <1>3
  <2>4. /\ requests \in Seq(class_drivers_) /\ inbox \in Seq(BOOLEAN) /\ events \in Seq(EventType)
        /\ reported \in Seq(SUBSET Keys) /\ typed \in Seq(SUBSET Keys)
    BY <1>2, EmptyIs
  <2>5. place = NULL /\ place \in 0 .. MapSize /\ initialize_phase_ \in 0 .. 4
    BY MapIs DEF NULL
  <2>6. class_drivers_ = {} /\ transfer_rings_ = {} /\ halted = {} /\ running = FALSE /\ device \in Kinds
    OBVIOUS
  <2>7. TypeOK
    <3> HIDE DEF Init
    <3> QED BY <1>1, <1>3, <2>1, <2>2, <2>3, <2>4, <2>5, <2>6 DEF TypeOK
  <2>8. handling \in [entry : 0 .. MapSize, setup : Positions \cup {NULL}]
    BY MapIs DEF Idle, NULL
  <2>9. buf_ \in [Interfaces -> SUBSET Keys] /\ prev_keys_ \in [Interfaces -> SUBSET Keys]
    OBVIOUS
  <2>10. handling = Idle /\ raced = {}
    OBVIOUS
  <2> HIDE DEF Init
  <2> QED BY <1>1, <2>4, <2>7, <2>8, <2>9, <2>10 DEF DeviceTypes
<1>6. PhaseInv
  <2>1. initialize_phase_ # 4 /\ ~ (initialize_phase_ >= 3) /\ class_drivers_ = {}
    OBVIOUS
  <2> HIDE DEF Init
  <2> QED BY <1>1, <2>1 DEF PhaseInv
<1>7. PendingInv
  <2>1. Back(dequeue) = 0 /\ Reach = 3
    BY <1>1, <1>3, BehindIs DEF Back, Reach
  <2>2. Back(dequeue) <= Reach
    BY <2>1
  <2> HIDE DEF Init
  <2> QED BY <1>1, <1>3, <2>2 DEF PendingInv
<1>8. EventInv
  BY <1>2 DEF EventInv
<1>9. EntryInv
  BY <1>2, <1>3 DEF EntryInv
<1>10. LoneInv
  BY <1>1, <1>2, <1>4 DEF LoneInv
<1>11. EarlyInv
  <2>1. handling = Idle
    OBVIOUS
  <2> HIDE DEF Init
  <2> QED BY <1>1, <1>2, <1>4, <2>1 DEF EarlyInv, NoIssuers, Open
<1>12. FirstInv /\ ListenInv
  BY <1>1 DEF FirstInv, ListenInv
<1>13. ReportInv
  <2>1. ~ KeyEvent
    BY <1>2 DEF KeyEvent
  <2>2. \A i \in Drivers : prev_keys_[i] = {}
    BY DEF Drivers
  <2>3. 0 = 0 + 0
    OBVIOUS
  <2> HIDE DEF Init
  <2> QED BY <1>2, <2>1, <2>2, <2>3 DEF ReportInv
<1>14. UndefinedOnlyWithoutEndpoint1
  BY <1>1 DEF UndefinedOnlyWithoutEndpoint1
<1> QED BY <1>5, <1>6, <1>7, <1>8, <1>9, <1>10, <1>11, <1>12, <1>13, <1>14 DEF DeviceInv

LEMMA DeviceInvStutter ==
  ASSUME DeviceInv, UNCHANGED vars
  PROVE  DeviceInv'
<1> USE DEF DeviceInv, vars, ep0, initTask, phases, keyboard, history
<1>1. /\ at' = at /\ todo' = todo
      /\ (Configured' <=> Configured) /\ Reach \in Int /\ Reach' \in Int /\ Reach <= Reach'
  BY ReachGrows
<1>2. DeviceTypes'
  <2>1. TypeOK'
    <3>1. TypeOK
      BY DEF DeviceTypes
    <3>2. Interfaces' = Interfaces /\ Endpoints' = Endpoints
      BY SameDevice
    <3> HIDE DEF DeviceInv
    <3> QED BY <3>1, <3>2 DEF TypeOK
  <2> QED BY <1>1, <2>1 DEF DeviceTypes, Interfaces, Idle, Issuer
<1>3. PhaseInv'
  BY <1>1, SameDevice DEF PhaseInv
<1>4. PendingInv'
  BY <1>1, KeepsPending
<1>5. EventInv'
  BY <1>1, KeepsEvents
<1>6. EntryInv'
  BY KeepsEntries
<1>7. LoneInv'
  BY <1>1, SameDevice DEF LoneInv, Waiting, Back, Idle
<1>8. EarlyInv'
  BY <1>1 DEF EarlyInv, Quiet, NoIssuers, Waiting, Idle, Open
<1>9. FirstInv' /\ ListenInv'
  BY <1>1, SameDevice DEF FirstInv, ListenInv, Waiting, Idle, NoIssuers, Quiet, Open
<1>10. ReportInv'
  BY KeepsReports DEF KeyEvent
<1>11. UndefinedOnlyWithoutEndpoint1'
  BY <1>1, SameDevice DEF UndefinedOnlyWithoutEndpoint1
<1> QED BY <1>2, <1>3, <1>4, <1>5, <1>6, <1>7, <1>8, <1>9, <1>10, <1>11

LEMMA DeviceInvStep ==
  ASSUME DeviceInv, [Next]_vars
  PROVE  DeviceInv'
<1>1. CASE InitUSBDevTask
  BY <1>1, BeforeInitializeKeeps, StartInitializeKeeps, ConfigureEndpointsKeeps,
     OnEndpointsConfiguredKeeps, PushKeeps, FindEntryKeeps, PutEntryKeeps, PutSetupKeeps,
     RingDoorbellKeeps, WaitEventKeeps DEF InitUSBDevTask
<1>2. CASE MainTask
  BY <1>2, OnErrorKeeps, OnControlTransferKeeps, OnControlDoneKeeps, OnInterruptTransferKeeps
     DEF MainTask
<1>3. CASE CompleteControl \/ StopRunning \/ CompleteInterrupt
  BY <1>3, CompleteControlKeeps, StopRunningKeeps, CompleteInterruptKeeps
<1>4. CASE UNCHANGED vars
  BY <1>4, DeviceInvStutter
<1> QED BY <1>1, <1>2, <1>3, <1>4 DEF Next

LEMMA DeviceInvAlways == Spec => []DeviceInv
<1>1. Init => DeviceInv
  BY DeviceInvInit
<1>2. DeviceInv /\ [Next]_vars => DeviceInv'
  BY DeviceInvStep
<1> QED BY <1>1, <1>2, PTL DEF Spec

\* The entry of an event has its setup stage, and the ring still holds it.
LEMMA SetupStageIsFound ==
  ASSUME DeviceInv
  PROVE  SetupStageFound
<1> USE DEF DeviceInv
<1>1. SUFFICES ASSUME raced = {}, at # "undefined",
                      NEW j \in DOMAIN events, events[j].endpoint = 0, events[j].ok
               PROVE  LET i == Get(events[j].issuer) IN
                        /\ i # NULL /\ dict_[i].setup # NULL
                        /\ ring[dict_[i].setup] = [type |-> "setup", setup |-> events[j].setup]
  BY DEF SetupStageFound
<1> DEFINE p == events[j].issuer
           i == Get(p)
<1>2. /\ p \in Positions /\ ring[Before(p)] = [type |-> "setup", setup |-> events[j].setup]
  BY <1>1 DEF EventInv
<1>3. p # NULL
  BY <1>2, PositionIs
<1>4. \E k \in 1 .. MapSize : dict_[k].issuer = p
  BY <1>1 DEF EntryInv
<1>5. i # NULL /\ i \in 1 .. MapSize /\ dict_[i].issuer = p
  <2> HIDE DEF DeviceInv, p
  <2> QED BY <1>3, <1>4, GetIs
<1> HIDE DEF p, i
<1>6. ~ Open(i)
  <2>1. at = "put setup" => dict_[place].issuer = Issuer
    BY DEF DeviceTypes
  <2>2. at = "put setup" => p # Issuer
    BY <1>1 DEF EntryInv, p
  <2> HIDE DEF DeviceInv
  <2> QED BY <1>5, <2>1, <2>2 DEF Open
<1>7. dict_[i].setup # NULL /\ dict_[i].setup = Before(p)
  <2>1. \A k \in 1 .. MapSize : dict_[k].issuer # NULL /\ ~ Open(k) =>
          dict_[k].setup # NULL /\ dict_[k].setup = Before(dict_[k].issuer)
    BY <1>1 DEF EntryInv
  <2> HIDE DEF DeviceInv
  <2> QED BY <1>3, <1>5, <1>6, <2>1
<1> QED BY <1>2, <1>5, <1>7 DEF p, i

LEMMA PhasesInOrder ==
  ASSUME DeviceInv
  PROVE  ConfiguredInOrder
<1> USE DEF DeviceInv
<1>1. ASSUME at = "start" PROVE dequeue = enqueue /\ events = <<>> /\ handling = Idle
  <2>1. ~ Configured
    BY <1>1 DEF PhaseInv
  <2> QED BY <1>1, <2>1 DEF EarlyInv, Quiet
<1>2. ASSUME at \in {"configure", "endpoints", "done"}
      PROVE  is_initialized_ /\ initialize_phase_ = 4 /\ class_drivers_ = Drivers
  <2>1. is_initialized_ /\ initialize_phase_ = 4
    BY <1>2 DEF PhaseInv
  <2>2. initialize_phase_ >= 3
    BY <2>1
  <2> QED BY <2>1, <2>2 DEF PhaseInv
<1> QED BY <1>1, <1>2 DEF ConfiguredInOrder

\* With one keyboard at most one event is there, and what that says of the counts.
LEMMA OneEvent ==
  ASSUME DeviceInv, OneKeyboard
  PROVE  /\ events = <<>> => InFlight(1) = 0 /\ ~ KeyEvent
         /\ events # <<>> => /\ requests = <<>> /\ 1 \in DOMAIN events
                             /\ InFlight(1) = IF events[1].endpoint = 1 THEN 1 ELSE 0
         /\ Cardinality({j \in DOMAIN events : events[j].endpoint = 1 /\ events[j].ok})
              = IF KeyEvent THEN 1 ELSE 0
         /\ Len(requests) \in {0, 1} /\ (requests = <<>> <=> Len(requests) = 0)
<1>1. /\ events \in Seq(EventType) /\ requests \in Seq(class_drivers_) /\ Len(requests) <= 1
      /\ events # <<>> => Len(events) = 1 /\ requests = <<>>
  BY DEF DeviceInv, DeviceTypes, TypeOK, LoneInv
<1>2. Cardinality({}) = 0 /\ Cardinality({1}) = 1
  BY FS_EmptySet, FS_Singleton
<1>3. Len(requests) \in {0, 1} /\ (requests = <<>> <=> Len(requests) = 0)
  <2>1. Len(requests) \in Nat /\ (requests = <<>> <=> Len(requests) = 0)
    BY <1>1, EmptySeq, LenProperties
  <2> DEFINE n == Len(requests)
  <2>2. n \in Nat /\ n <= 1
    BY <1>1, <2>1
  <2> HIDE DEF n
  <2>3. n \in {0, 1}
    BY ONLY <2>2
  <2> QED BY <2>1, <2>3 DEF n
<1> DEFINE keys == {j \in DOMAIN events : events[j].endpoint = 1}
           read == {j \in DOMAIN events : events[j].endpoint = 1 /\ events[j].ok}
<1>4. CASE events = <<>>
  <2>1. DOMAIN events = {}
    BY <1>4, EmptyIs
  <2>2. keys = {} /\ read = {} /\ ~ KeyEvent
    BY <1>4, <2>1 DEF KeyEvent
  <2> QED BY <1>2, <1>3, <1>4, <2>2 DEF InFlight
<1>5. CASE events # <<>>
  <2>1. DOMAIN events = 1 .. 1
    BY <1>1, <1>5, LenProperties
  <2>2. DOMAIN events = {1}
    BY <2>1
  <2>3. keys = IF events[1].endpoint = 1 THEN {1} ELSE {}
    BY <2>2
  <2>4. read = IF KeyEvent THEN {1} ELSE {}
    BY <1>5, <2>2 DEF KeyEvent
  <2> QED BY <1>1, <1>2, <1>3, <1>5, <2>2, <2>3, <2>4 DEF InFlight
<1> QED BY <1>4, <1>5

LEMMA KeyboardIsListenedTo ==
  ASSUME DeviceInv
  PROVE  KeyboardListens
<1>1. SUFFICES ASSUME OneKeyboard
               PROVE  /\ Len(requests) + InFlight(1) <= 1
                      /\ at = "done" /\ halted = {} /\ raced = {} =>
                           \/ Len(requests) + InFlight(1) = 1
                           \/ SentProtocol # {} \/ handling # Idle \/ Waiting
  BY DEF KeyboardListens
<1> DEFINE n == Len(requests)
           m == InFlight(1)
<1>2. /\ events = <<>> => m = 0
      /\ events # <<>> => n = 0 /\ m = IF events[1].endpoint = 1 THEN 1 ELSE 0
      /\ events # <<>> => 1 \in DOMAIN events
      /\ n \in {0, 1} /\ (requests = <<>> <=> n = 0)
  BY <1>1, OneEvent
<1> HIDE DEF n, m
<1>3. n + m <= 1
  BY <1>2
<1>4. ASSUME at = "done", halted = {}, raced = {}
      PROVE  \/ n + m = 1
             \/ SentProtocol # {} \/ handling # Idle \/ Waiting
  <2>1. Drivers # {}
    BY <1>1, OneKeyboardIs DEF DeviceInv, DeviceTypes, TypeOK
  <2>2. Configured
    BY <1>4, <2>1 DEF DeviceInv, PhaseInv
  <2>3. Waiting \/ events # <<>> \/ handling # Idle \/ requests # <<>>
    BY <1>1, <1>4, <2>2 DEF DeviceInv, ListenInv
  <2>4. CASE events # <<>>
    <3>1. 1 \in DOMAIN events /\ events[1].endpoint \in {0, 1}
      <4>1. events \in Seq(EventType) /\ 1 \in DOMAIN events
        BY <1>2, <2>4 DEF DeviceInv, DeviceTypes
      <4>2. events[1] \in EventType
        BY <4>1, ElementOfSeq, LenProperties
      <4> QED BY <4>1, <4>2 DEF EventType
    <3>2. CASE events[1].endpoint = 1
      BY <1>2, <2>4, <3>2
    <3>3. CASE events[1].endpoint = 0
      <4>1. events[1].setup \in Protocols
        BY <2>2, <3>1, <3>3 DEF DeviceInv, EventInv
      <4>2. 1 \in SentProtocol
        BY <3>1, <3>3, <4>1 DEF SentProtocol, Protocols
      <4> QED BY <4>2
    <3> QED BY <3>1, <3>2, <3>3
  <2>5. CASE events = <<>> /\ requests # <<>>
    BY <1>2, <2>5
  <2> QED BY <2>3, <2>4, <2>5
<1> QED BY <1>3, <1>4 DEF n, m

LEMMA ReportsAreTyped ==
  ASSUME DeviceInv
  PROVE  ReportsTyped
<1>1. SUFFICES ASSUME OneKeyboard
               PROVE  /\ Len(reported) - Len(typed) = Cardinality({j \in DOMAIN events :
                                                        events[j].endpoint = 1 /\ events[j].ok})
                      /\ \A k \in DOMAIN typed : typed[k] = Typed(k)
  BY DEF ReportsTyped
<1> DEFINE n == Len(reported)
           m == Len(typed)
           c == Cardinality({j \in DOMAIN events : events[j].endpoint = 1 /\ events[j].ok})
<1>2. n = m + (IF KeyEvent THEN 1 ELSE 0) /\ \A k \in DOMAIN typed : typed[k] = Typed(k)
  BY <1>1 DEF DeviceInv, ReportInv
<1>3. n \in Nat /\ m \in Nat
  BY LenProperties DEF DeviceInv, DeviceTypes
<1>4. c = IF KeyEvent THEN 1 ELSE 0
  BY <1>1, OneEvent
<1> HIDE DEF n, m, c
<1>5. n - m = c
  BY <1>2, <1>3, <1>4
<1> QED BY <1>2, <1>5 DEF n, m, c

\* The event of every transfer that is done finds its setup stage in the map, unless the tasks
\* have met in it; they meet in an entry that is being deleted only with two keyboards; and the
\* messages that end the waits are those of their phases.
THEOREM TransfersAreMatched == Spec => []TransfersMatched
<1>1. ASSUME DeviceInv
      PROVE  TransfersMatched
  <2>1. TypeOK
    BY <1>1 DEF DeviceInv, DeviceTypes
  <2>2. PutWhileDeletedOnlyWithTwo
    BY <1>1, <2>1, OneKeyboardIs DEF DeviceInv, EntryInv, PutWhileDeletedOnlyWithTwo, TypeOK
  <2> QED BY <1>1, <2>1, <2>2, SetupStageIsFound, PhasesInOrder DEF TransfersMatched
<1>2. DeviceInv => TransfersMatched
  BY <1>1
<1> QED BY <1>2, DeviceInvAlways, PTL

\* One keyboard is listened to by one request and no more, every report of it is typed once and
\* in order, and the driver asks for one through a null pointer only when there is no endpoint 1.
THEOREM KeyboardIsKept == Spec => []KeyboardKept
<1>1. DeviceInv => KeyboardKept
  BY KeyboardIsListenedTo, ReportsAreTyped DEF KeyboardKept, DeviceInv
<1> QED BY <1>1, DeviceInvAlways, PTL

=============================================================================
