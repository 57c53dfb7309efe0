---------------------------- MODULE FieldProofs -----------------------------
(***************************************************************************)
(* The gateway and its Modbus devices: the order of polling, the mutex of  *)
(* the RTU bus, and the way of a controlled write to a register and back;  *)
(* and the shape of everything in MCSafety.                                *)
(***************************************************************************)
EXTENDS MCSafety, LocalStateProofs, FiniteSetTheorems, SequenceTheorems,
        TLAPS

(***************************************************************************)
(* NoStarvation for every table, every interval and every duration of a    *)
(* poll.  The invariant says what being overtaken means for the poll       *)
(* times: an entry that was due when another was polled has an older time, *)
(* so the next selection prefers it, whatever the priorities are.          *)
(***************************************************************************)

\* whoever was polled while entry i was due has a later poll time than i
Later == \A i, j \in Entries : j \in overtaken[i] => lastPoll[j] > lastPoll[i]

PollInv ==
  /\ uptime \in Nat \ {0} /\ version \in Nat /\ observed \in Nat
  /\ pollTable \in Tables /\ plan \in Tables
  /\ lastPoll \in [Entries -> Nat]
  /\ overtaken \in [Entries -> SUBSET Entries]
  /\ Later

\* Every plan is a table over the first positions of Entries, and an entry
\* of it has a positive interval.
LEMMA PlanPositions ==
  ASSUME plan \in Tables
  PROVE  /\ DOMAIN plan \subseteq Entries
         /\ \A i \in DOMAIN plan : IntervalOf(i) \in Nat \ {0}
<1>1. PICK k \in 0..Cardinality(Entries) : plan \in [1..k -> Mapping]
  BY DEF Tables
<1>2. Cardinality(Entries) \in Nat
  BY FS_CardinalityType, EntriesAssumption
<1>3. DOMAIN plan = 1..k /\ 1..k \subseteq Entries
  BY <1>1, <1>2, EntriesAssumption
<1>4. ASSUME NEW i \in DOMAIN plan
      PROVE  IntervalOf(i) \in Nat \ {0}
  <2>1. plan[i].interval \in Intervals
    BY <1>1, <1>4 DEF Mapping
  <2>2. QED
    BY <2>1, IntervalAssumption DEF IntervalOf
<1>5. QED
  BY <1>3, <1>4

\* The gateway starts with the table it loaded and nothing overtaken.
LEMMA PollInvInit == PollPlanInit => PollInv
<1> SUFFICES ASSUME PollPlanInit PROVE PollInv
  OBVIOUS
<1>1. Cardinality(Entries) \in Nat
  BY FS_CardinalityType, EntriesAssumption
<1>2. pollTable \in Tables
  <2>1. pollTable \in [1..Cardinality(Entries) -> Mapping]
    BY EntriesAssumption, IntervalAssumption
    DEF PollPlanInit, Loaded, Mapping
  <2>2. QED
    BY <2>1, <1>1 DEF Tables
<1>3. plan \in Tables
  <2>1. plan \in [1..0 -> Mapping]
    BY DEF PollPlanInit
  <2>2. QED
    BY <2>1, <1>1 DEF Tables
<1>4. QED
  BY <1>2, <1>3 DEF PollPlanInit, PollInv, Later, Never

\* A selection prefers an entry that waited longer, so the entries it passes
\* over have older times than the selected one gets.
LEMMA SelectKeepsInv == PollInv /\ SelectEntry => PollInv'
<1> SUFFICES ASSUME PollInv, SelectEntry PROVE PollInv'
  OBVIOUS
<1> DEFINE times == IF Forgotten THEN Never ELSE lastPoll
           due   == {i \in DOMAIN plan : DueAt(i, times)}
<1>1. times \in [Entries -> Nat]
  BY DEF PollInv, Never
<1>2. /\ UNCHANGED <<uptime, pollTable, version, plan>>
      /\ observed' = version
  BY DEF SelectEntry
<1>3. /\ due \subseteq Entries
      /\ \A i \in due : IntervalOf(i) \in Nat \ {0}
      /\ \A i \in due : times[i] < uptime
  <2>1. /\ DOMAIN plan \subseteq Entries
        /\ \A i \in DOMAIN plan : IntervalOf(i) \in Nat \ {0}
    BY PlanPositions DEF PollInv
  <2>2. ASSUME NEW i \in due
        PROVE  times[i] < uptime
    <3>1. uptime \in Nat /\ times[i] \in Nat /\ IntervalOf(i) \in Nat \ {0}
      BY <1>1, <2>1 DEF PollInv
    <3>2. uptime - times[i] >= IntervalOf(i)
      BY DEF DueAt
    <3>3. QED
      BY <3>1, <3>2
  <2>3. QED
    BY <2>1, <2>2
<1>4. CASE due = {}
  <2>1. /\ lastPoll' = times
        /\ overtaken' = [i \in Entries |-> {}]
    BY <1>4 DEF SelectEntry
  <2>2. QED
    BY <1>1, <1>2, <2>1 DEF PollInv, Later
<1>5. CASE due # {}
  <2>1. PICK s \in due :
          /\ OldestFirst(s, due, times)
          /\ lastPoll' = [times EXCEPT ![s] = uptime]
          /\ overtaken' = [i \in Entries |->
               IF i = s \/ i \notin due THEN {}
               ELSE {s} \cup (IF Forgotten THEN {} ELSE overtaken[i])]
    BY <1>5 DEF SelectEntry
  <2>2. lastPoll' \in [Entries -> Nat]
    BY <1>1, <1>3, <2>1 DEF PollInv
  <2>3. overtaken' \in [Entries -> SUBSET Entries]
    BY <1>3, <2>1 DEF PollInv
  <2>4. Later'
    <3> SUFFICES ASSUME NEW i \in Entries, NEW j \in Entries,
                        j \in overtaken'[i]
                 PROVE  lastPoll'[j] > lastPoll'[i]
      BY DEF Later
    <3>1. i # s /\ i \in due /\ j \in {s} \cup
            (IF Forgotten THEN {} ELSE overtaken[i])
      BY <2>1
    <3>2. lastPoll'[i] = times[i] /\ times[i] < uptime
      BY <1>1, <1>3, <2>1, <3>1
    <3>3. CASE j = s
      BY <1>1, <2>1, <3>2, <3>3
    <3>4. CASE j # s
      <4>1. ~Forgotten /\ j \in overtaken[i]
        BY <3>1, <3>4
      <4>2. lastPoll[j] > lastPoll[i] /\ times = lastPoll
        BY <4>1 DEF PollInv, Later
      <4>3. lastPoll'[j] = times[j]
        BY <1>1, <2>1, <3>4
      <4>4. QED
        BY <3>2, <4>2, <4>3
    <3>5. QED
      BY <3>3, <3>4
  <2>5. QED
    BY <1>2, <2>2, <2>3, <2>4 DEF PollInv
<1>6. QED
  BY <1>4, <1>5

\* What happens between two selections changes no poll time, so PollInv
\* survives every step.
LEMMA PollInvNext == PollInv /\ [PollPlanNext]_pollVars => PollInv'
<1> SUFFICES ASSUME PollInv, [PollPlanNext]_pollVars PROVE PollInv'
  OBVIOUS
<1> USE DEF PollInv, Later
<1>1. CASE CopyEntries
  BY <1>1 DEF CopyEntries
<1>2. CASE SelectEntry
  BY <1>2, SelectKeepsInv
<1>3. CASE PollEnds
  BY <1>3, DurationAssumption DEF PollEnds
<1>4. CASE Sleep
  BY <1>4 DEF Sleep
<1>5. CASE EditTable
  BY <1>5 DEF EditTable
<1>6. CASE Pause
  BY <1>6 DEF Pause
<1>7. CASE UNCHANGED pollVars
  BY <1>7 DEF pollVars
<1>8. QED
  BY <1>1, <1>2, <1>3, <1>4, <1>5, <1>6, <1>7 DEF PollPlanNext

\* One step: an entry polled again is not one that overtook a due entry.
LEMMA NotTwice ==
  ASSUME PollInv, [PollPlanNext]_pollVars,
         NEW i \in Entries, NEW j \in Entries,
         j \in overtaken[i], lastPoll'[j] > lastPoll[j], observed' = observed
  PROVE  j \notin overtaken'[i]
<1> DEFINE due == {k \in DOMAIN plan : DueAt(k, lastPoll)}
<1>1. lastPoll[i] \in Nat /\ lastPoll[j] \in Nat /\ lastPoll[j] > lastPoll[i]
  BY DEF PollInv, Later
<1>2. SelectEntry
  <2>1. lastPoll' # lastPoll
    BY <1>1
  <2>2. QED
    BY <2>1 DEF PollPlanNext, CopyEntries, PollEnds, Sleep, EditTable, Pause,
                pollVars
<1>3. ~Forgotten
  BY <1>2 DEF SelectEntry, Forgotten
<1>4. due # {}
  BY <1>1, <1>2, <1>3 DEF SelectEntry
<1>5. PICK s \in due :
        /\ OldestFirst(s, due, lastPoll)
        /\ lastPoll' = [lastPoll EXCEPT ![s] = uptime]
        /\ overtaken' = [k \in Entries |->
             IF k = s \/ k \notin due THEN {} ELSE {s} \cup overtaken[k]]
  BY <1>2, <1>3, <1>4 DEF SelectEntry
<1>6. j = s
  BY <1>1, <1>5 DEF PollInv
<1>7. i \notin due
  BY <1>1, <1>5, <1>6 DEF OldestFirst, Before
<1>8. QED
  BY <1>5, <1>7

(***************************************************************************)
(* No mapping of the bus is starved by the others, for every table: while  *)
(* an entry is due, no other is polled twice.                              *)
(***************************************************************************)
THEOREM NoMappingStarves == PollPlanSpec => NoStarvation
<1>1. PollPlanInit => PollInv
  BY PollInvInit
<1>2. PollInv /\ [PollPlanNext]_pollVars => PollInv'
  BY PollInvNext
<1>3. PollInv /\ [PollPlanNext]_pollVars
        => [\A i, j \in Entries :
              j \in overtaken[i] /\ lastPoll'[j] > lastPoll[j]
                /\ observed' = observed => j \notin overtaken'[i]]_pollVars
  BY NotTwice
<1>4. QED
  BY <1>1, <1>2, <1>3, PTL DEF PollPlanSpec, NoStarvation
-----------------------------------------------------------------------------
(***************************************************************************)
(* As long as one mutex was created one transaction is on the bus at a     *)
(* time, for any number of tasks and requests.  The invariant says why:    *)
(* nobody waits for the mutex or is on the bus before there is one, and    *)
(* whoever is on the bus is the task that holds it.  HurryInv says when a  *)
(* second one can be created: with RTU enabled no request finds the mutex  *)
(* missing after modbus_rtu_init() made it.                                *)
(***************************************************************************)

OneMutex ==
  /\ mutex \in {0, 1} /\ ~aborted
  /\ holder \in [1..mutex -> Tasks \cup {Free}]
  /\ request \in [Tasks -> [at : Steps, on : {0, 1}]]

HolderOnBus ==
  \A t \in Tasks :
    /\ request[t].at \in {"wait", "bus"} => request[t].on = 1 /\ mutex = 1
    /\ mutex = 1 => (request[t].at = "bus" <=> holder[1] = t)

BusInv == ~raced => OneMutex /\ HolderOnBus

BootHasMutex ==
  /\ ~raced
  /\ mutex = 0 <=> boot \in {"test", "create"}
  /\ \A t \in Tasks : request[t].at # "create"

HurryInv == rtu /\ ~hurried => BootHasMutex

\* No mutex at first, and every task rests.
LEMMA BusInvInit == BusInit => BusInv /\ HurryInv
<1> SUFFICES ASSUME BusInit PROVE BusInv /\ HurryInv
  OBVIOUS
<1>1. mutex = 0 /\ holder \in [1..0 -> Tasks \cup {Free}] /\ ~aborted /\ ~raced
  <2>1. 1..0 = {} /\ holder = <<>>
    BY DEF BusInit
  <2>2. <<>> \in [{} -> Tasks \cup {Free}]
    OBVIOUS
  <2> QED
    BY <2>1, <2>2 DEF BusInit
<1>2. request = [t \in Tasks |-> [at |-> "rest", on |-> 0]]
  BY DEF BusInit, Resting
<1>3. BusInv
  BY <1>1, <1>2 DEF BusInv, OneMutex, HolderOnBus, Steps
<1>4. rtu => boot = "test"
  BY DEF BusInit
<1>5. HurryInv
  BY <1>1, <1>2, <1>4 DEF HurryInv, BootHasMutex
<1> QED
  BY <1>3, <1>5

\* The first mutex is number 1, and free.
LEMMA FirstMutex ==
  ASSUME OneMutex, NewMutex, mutex = 0
  PROVE  /\ mutex' = 1 /\ (raced' => raced) /\ holder'[1] = Free
         /\ holder' \in [1..1 -> Tasks \cup {Free}]
<1>1. DOMAIN holder = {}
  BY DEF OneMutex
<1>2. Cardinality(DOMAIN holder) + 1 = 1
  BY <1>1, FS_EmptySet
<1>3. /\ mutex' = 1 /\ (raced' => raced)
      /\ holder' = [k \in 1..1 |-> IF k = 1 THEN Free ELSE holder[k]]
  BY <1>2 DEF NewMutex
<1>4. holder' = [k \in 1..1 |-> Free]
  BY <1>3
<1> QED
  BY <1>3, <1>4

\* A request begins where no lock is held.
LEMMA BeginKeepsInv ==
  ASSUME OneMutex, HolderOnBus, NEW t \in Tasks,
         NEW first \in {"test", "lock"}, BeginRequest(t, first)
  PROVE  OneMutex' /\ HolderOnBus'
BY DEF BeginRequest, AtStep, Doing, OneMutex, HolderOnBus, Steps

\* A mutex is created once, by whoever comes first.
LEMMA CreateKeepsInv ==
  ASSUME OneMutex, HolderOnBus, NewMutex, ~raced', NEW t \in Tasks,
         aborted' = aborted,
         \/ request' = request
         \/ AtStep(t, "create") /\ request' = [request EXCEPT
                                                 ![t] = Doing("lock", 0)]
  PROVE  OneMutex' /\ HolderOnBus'
<1>1. mutex = 0
  BY DEF NewMutex
<1>2. /\ mutex' = 1 /\ holder'[1] = Free
      /\ holder' \in [1..1 -> Tasks \cup {Free}]
  BY <1>1, FirstMutex
<1>3. \A u \in Tasks : request[u].at \notin {"wait", "bus"}
  BY <1>1 DEF HolderOnBus
<1>4. request' \in [Tasks -> [at : Steps, on : {0, 1}]]
  BY DEF OneMutex, Doing, Steps
<1>5. \A u \in Tasks : request'[u].at \notin {"wait", "bus"}
  BY <1>3 DEF OneMutex, Doing
<1>6. OneMutex'
  BY <1>2, <1>4 DEF OneMutex
<1>7. HolderOnBus'
  BY <1>2, <1>5, TasksAssumption DEF HolderOnBus
<1> QED
  BY <1>6, <1>7

\* A step of a request on its way to the bus, on the bus or off it.
LEMMA StepKeepsInv ==
  ASSUME OneMutex, HolderOnBus, NEW t \in Tasks, BusStep(t), ~raced'
  PROVE  OneMutex' /\ HolderOnBus'
<1> USE DEF AtStep, Goes, Doing, Resting, Steps, OneMutex, HolderOnBus
<1>1. CASE TestMutex(t)
  BY <1>1 DEF TestMutex
<1>2. CASE CreateMutex(t)
  <2>1. /\ NewMutex /\ aborted' = aborted /\ AtStep(t, "create")
        /\ request' = [request EXCEPT ![t] = Doing("lock", 0)]
    BY <1>2 DEF CreateMutex
  <2> QED
    BY <2>1, CreateKeepsInv
<1>3. CASE Lock(t)
  <2>1. mutex = 1
    BY <1>3 DEF Lock
  <2> QED
    BY <1>3, <2>1 DEF Lock
<1>4. CASE Acquire(t)
  <2>1. mutex = 1 /\ request[t].on = 1 /\ request[t].at = "wait"
    BY <1>4 DEF Acquire
  <2> QED
    BY <1>4, <2>1, TasksAssumption DEF Acquire
<1>5. CASE LockTimeout(t)
  BY <1>5 DEF LockTimeout
<1>6. CASE End(t)
  <2>1. holder[1] = t /\ ~aborted' /\ mutex = 1
    BY <1>6 DEF End
  <2>2. QED
    BY <1>6, <2>1, TasksAssumption DEF End
<1>7. QED
  BY <1>1, <1>2, <1>3, <1>4, <1>5, <1>6 DEF BusStep

\* No step of any task, nor of the boot, takes the bus without the mutex.
LEMMA BusInvNext == BusInv /\ [BusNext]_busVars => BusInv'
<1> SUFFICES ASSUME BusInv, [BusNext]_busVars, ~raced'
             PROVE  OneMutex' /\ HolderOnBus'
  BY DEF BusInv
<1>1. ~raced
  BY DEF BusNext, BootTest, BootCreate, BootStart, RtuRequest, TcpRequest,
         BeginRequest, BusStep, TestMutex, CreateMutex, NewMutex, Lock,
         Acquire, LockTimeout, End, busVars
<1>2. OneMutex /\ HolderOnBus
  BY <1>1 DEF BusInv
<1>3. CASE UNCHANGED busVars
  BY <1>2, <1>3 DEF busVars, OneMutex, HolderOnBus
<1>4. CASE BootTest \/ BootStart
  BY <1>2, <1>4 DEF BootTest, BootStart, OneMutex, HolderOnBus
<1>5. CASE BootCreate
  <2>1. /\ NewMutex /\ aborted' = aborted /\ request' = request
    BY <1>5 DEF BootCreate
  <2>2. CASE Tasks = {}
    <3>1. mutex = 0
      BY <2>1 DEF NewMutex
    <3> QED
      BY <1>2, <2>1, <2>2, <3>1, FirstMutex DEF OneMutex, HolderOnBus
  <2>3. CASE Tasks # {}
    <3>1. PICK t \in Tasks : TRUE
      BY <2>3
    <3> QED
      BY <1>2, <2>1, <3>1, CreateKeepsInv
  <2> QED
    BY <2>2, <2>3
<1>6. ASSUME NEW t \in Tasks, RtuRequest(t) \/ TcpRequest(t)
      PROVE  OneMutex' /\ HolderOnBus'
  BY <1>2, <1>6, BeginKeepsInv DEF RtuRequest, TcpRequest
<1>7. ASSUME NEW t \in Tasks, BusStep(t)
      PROVE  OneMutex' /\ HolderOnBus'
  BY <1>2, <1>7, StepKeepsInv
<1> QED
  BY <1>3, <1>4, <1>5, <1>6, <1>7 DEF BusNext

\* With RTU enabled, a request that finds no mutex came before the boot had
\* created it.
LEMMA HurryInvNext ==
  ASSUME BusInv, HurryInv, [BusNext]_busVars
  PROVE  HurryInv'
<1> SUFFICES ASSUME rtu', ~hurried' PROVE BootHasMutex'
  BY DEF HurryInv
<1>1. rtu /\ ~hurried
  <2>1. ASSUME NEW t \in Tasks, RtuRequest(t) \/ TcpRequest(t)
        PROVE  UNCHANGED <<rtu, hurried>>
    BY <2>1 DEF RtuRequest, TcpRequest, BeginRequest
  <2>2. ASSUME NEW t \in Tasks, TestMutex(t)
        PROVE  rtu' = rtu /\ (hurried => hurried')
    BY <2>2, Zenon DEF TestMutex, Goes
  <2>3. ASSUME NEW t \in Tasks, BusStep(t), ~TestMutex(t)
        PROVE  UNCHANGED <<rtu, hurried>>
    BY <2>3 DEF BusStep, CreateMutex, Lock, Goes, Acquire, LockTimeout, End
  <2>4. CASE BootTest \/ BootCreate \/ BootStart \/ UNCHANGED busVars
    <3>1. UNCHANGED <<rtu, hurried>>
      BY <2>4 DEF BootTest, BootCreate, BootStart, busVars
    <3> QED
      BY <3>1
  <2> QED
    BY <2>1, <2>2, <2>3, <2>4 DEF BusNext
<1>2. BootHasMutex /\ OneMutex
  BY <1>1 DEF HurryInv, BusInv, BootHasMutex
<1>3. CASE UNCHANGED <<boot, mutex, request, raced>>
  BY <1>2, <1>3 DEF BootHasMutex
<1>4. CASE BootTest
  BY <1>2, <1>4 DEF BootTest, BootHasMutex
<1>5. CASE BootCreate
  <2>1. mutex = 0 /\ NewMutex /\ boot' = "start" /\ request' = request
    BY <1>2, <1>5 DEF BootCreate, BootHasMutex
  <2>2. mutex' = 1 /\ (raced' => raced)
    BY <1>2, <2>1, FirstMutex
  <2> QED
    BY <1>2, <2>1, <2>2 DEF BootHasMutex
<1>6. CASE BootStart
  BY <1>2, <1>6 DEF BootStart, BootHasMutex
<1>7. ASSUME NEW t \in Tasks, RtuRequest(t) \/ TcpRequest(t)
      PROVE  BootHasMutex'
  <2>1. PICK first \in {"test", "lock"} : BeginRequest(t, first)
    BY <1>7 DEF RtuRequest, TcpRequest
  <2>2. /\ UNCHANGED <<boot, mutex, raced>>
        /\ request' = [request EXCEPT ![t] = Doing(first, 0)]
    BY <2>1 DEF BeginRequest
  <2> QED
    BY <1>2, <2>2 DEF BootHasMutex, Doing
<1>8. ASSUME NEW t \in Tasks, BusStep(t) PROVE BootHasMutex'
  <2>1. CASE TestMutex(t)
    <3>1. /\ UNCHANGED <<boot, mutex, raced>>
          /\ request' = [request EXCEPT
                ![t] = Doing(IF mutex = 0 THEN "create" ELSE "lock", 0)]
          /\ hurried' = (hurried \/ (mutex = 0
                                       /\ boot \in {"test", "create"}))
      BY <2>1 DEF TestMutex, Goes
    <3>2. mutex # 0
      BY <1>2, <3>1 DEF BootHasMutex
    <3>3. request' = [request EXCEPT ![t] = Doing("lock", 0)]
      BY <3>1, <3>2
    <3> QED
      BY <1>2, <3>1, <3>3 DEF BootHasMutex, Doing
  <2>2. CASE CreateMutex(t)
    BY <1>2, <2>2 DEF CreateMutex, AtStep, BootHasMutex
  <2>3. CASE Lock(t) \/ Acquire(t) \/ LockTimeout(t) \/ End(t)
    <3>1. UNCHANGED <<boot, mutex, raced>>
      BY <2>3 DEF Lock, Acquire, LockTimeout, End, Goes
    <3>2. \E next \in {Doing("wait", mutex), Doing("bus", request[t].on),
                       Resting} :
             request' = [request EXCEPT ![t] = next]
      BY <2>3 DEF Lock, Acquire, LockTimeout, End, Goes
    <3>3. /\ Doing("wait", mutex).at # "create"
          /\ Doing("bus", request[t].on).at # "create"
          /\ Resting.at # "create"
      BY DEF Doing, Resting
    <3>4. request \in [Tasks -> [at : Steps, on : {0, 1}]]
      BY <1>2 DEF OneMutex
    <3>5. PICK next : /\ next.at # "create"
                      /\ request' = [request EXCEPT ![t] = next]
      BY <3>2, <3>3
    <3>6. \A u \in Tasks : request'[u].at # "create"
      BY <1>2, <3>4, <3>5 DEF BootHasMutex
    <3> QED
      BY <1>2, <3>1, <3>6 DEF BootHasMutex
  <2> QED
    BY <1>8, <2>1, <2>2, <2>3 DEF BusStep
<1> QED
  BY <1>3, <1>4, <1>5, <1>6, <1>7, <1>8 DEF BusNext, busVars

(***************************************************************************)
(* At most one task is on the bus, and none gives back a mutex that        *)
(* another one holds, as long as one mutex was created; and with RTU       *)
(* enabled at boot a second one is created only if a TCP request came      *)
(* before modbus_rtu_init() had created the first.                         *)
(***************************************************************************)
THEOREM OneTransactionAtATime == BusSpec => []ExclusiveUnlessRaced
<1>1. BusInit => BusInv /\ HurryInv
  BY BusInvInit
<1>2. BusInv /\ HurryInv /\ [BusNext]_busVars => BusInv' /\ HurryInv'
  BY BusInvNext, HurryInvNext
<1>3. BusInv /\ HurryInv => ExclusiveUnlessRaced
  <2>1. BusInv => (~raced => BusExclusive)
    BY DEF BusInv, OneMutex, HolderOnBus, BusExclusive, OnBus
  <2>2. HurryInv => (rtu /\ raced => hurried)
    BY DEF HurryInv, BootHasMutex
  <2> QED
    BY <2>1, <2>2 DEF ExclusiveUnlessRaced
<1>4. QED
  BY <1>1, <1>2, <1>3, PTL DEF BusSpec

(***************************************************************************)
(* modbus_unlock() is reached on every path of a transaction: whoever      *)
(* holds the mutex is on the bus, so no failed or refused request keeps    *)
(* the bus from the others; as long as one mutex was created.              *)
(***************************************************************************)
THEOREM LockFollowsBus == BusSpec => []LockHeldOnBus
<1>1. BusInv => LockHeldOnBus
  BY DEF BusInv, OneMutex, HolderOnBus, LockHeldOnBus, OnBus
<1>2. BusInit => BusInv
  BY BusInvInit
<1>3. QED
  BY <1>1, <1>2, BusInvNext, PTL DEF BusSpec
-----------------------------------------------------------------------------

(***************************************************************************)
(* WriteReadsBack.  A number is split into words and put together again;   *)
(* both ways are division with remainder, so the proof needs no particular *)
(* Base.  Swapping bytes and swapping words are their own inverses.        *)
(***************************************************************************)

\* Division with remainder, and that there is one way to do it.
LEMMA DivMod ==
  ASSUME NEW b \in Nat \ {0}, NEW x \in Int
  PROVE  /\ x \div b \in Int /\ x % b \in 0..(b - 1)
         /\ x = b * (x \div b) + (x % b)
OBVIOUS

\* There is one quotient and one remainder.
LEMMA DivModUnique ==
  ASSUME NEW b \in Nat \ {0}, NEW q \in Int, NEW r \in 0..(b - 1),
         NEW x \in Int, x = b * q + r
  PROVE  x \div b = q /\ x % b = r
OBVIOUS

\* Dividing a number below b * c by b gives one below c.
LEMMA QuotientBelow ==
  ASSUME NEW b \in Nat \ {0}, NEW c \in Nat \ {0}, NEW x \in 0..(b * c - 1)
  PROVE  x \div b \in 0..(c - 1)
<1> DEFINE q == x \div b
           r == x % b
<1>1. q \in Int /\ r \in 0..(b - 1) /\ x = b * q + r
  BY DivMod
<1> HIDE DEF q, r
<1>2. CASE q >= c
  <2>1. b * (q - c) >= 0
    BY <1>1, <1>2
  <2>2. b * q = b * c + b * (q - c)
    BY <1>1
  <2> QED
    BY <1>1, <2>1, <2>2
<1>3. CASE q <= -1
  <2>1. b * (-1 - q) >= 0
    BY <1>1, <1>3
  <2>2. b * q = -b - b * (-1 - q)
    BY <1>1
  <2> QED
    BY <1>1, <2>1, <2>2
<1> QED
  BY <1>1, <1>2, <1>3 DEF q

\* Swapping the bytes of a register twice gives it back.
LEMMA SwappedTwice ==
  ASSUME NEW w \in Words
  PROVE  Swapped(w) \in Words /\ Swapped(Swapped(w)) = w
<1> DEFINE high == w \div Base
           low  == w % Base
<1>1. /\ high \in 0..(Base - 1) /\ low \in 0..(Base - 1)
      /\ w = Base * high + low
  <2>1. Base * Base \in Nat /\ w \in Int /\ w \in 0..(Base * Base - 1)
    BY BaseAssumption DEF Words
  <2>2. high \in 0..(Base - 1)
    BY <2>1, BaseAssumption, QuotientBelow
  <2> QED
    BY <2>1, <2>2, BaseAssumption, DivMod
<1> HIDE DEF high, low
<1>2. Swapped(w) = Base * low + high
  BY <1>1, BaseAssumption DEF Swapped, high, low
<1>3. Swapped(w) \in Words
  <2>1. Base * low <= Base * (Base - 1)
    BY <1>1, BaseAssumption
  <2> QED
    BY <1>1, <1>2, <2>1, BaseAssumption DEF Words
<1>4. Swapped(w) \div Base = low /\ Swapped(w) % Base = high
  <2>1. Base * low + high \in Int
    BY <1>1, BaseAssumption
  <2>2. /\ (Base * low + high) \div Base = low
        /\ (Base * low + high) % Base = high
    BY <1>1, <2>1, BaseAssumption, DivModUnique
  <2> QED
    BY <1>2, <2>2
<1>5. Swapped(Swapped(w)) = high * Base + low
  BY <1>4 DEF Swapped
<1> QED
  BY <1>1, <1>3, <1>5, BaseAssumption

\* What the order does to one register and to two.
LEMMA OrderedOne ==
  ASSUME NEW w, NEW order
  PROVE  Ordered(<<w>>, order)[1] = IF Bytewise(order) THEN Swapped(w) ELSE w
BY DEF Ordered

\* Two words in the byte order of a point, there and back.
LEMMA OrderedTwo ==
  ASSUME NEW u, NEW w, NEW order
  PROVE  LET first  == IF Wordwise(order) THEN w ELSE u
             second == IF Wordwise(order) THEN u ELSE w
         IN Ordered(<<u, w>>, order) =
              IF Bytewise(order) THEN <<Swapped(first), Swapped(second)>>
                                 ELSE <<first, second>>
BY DEF Ordered

\* Two registers of a number are two words that give the number back.
LEMMA WordsOf ==
  ASSUME NEW bits \in 0..(Span * Span - 1)
  PROVE  /\ bits \div Span \in Words /\ bits % Span \in Words
         /\ (bits \div Span) * Span + (bits % Span) = bits
<1>1. Span \in Nat \ {0} /\ Words = 0..(Span - 1)
  BY BaseAssumption DEF Span, Words
<1> HIDE DEF Span
<1>2. Span * Span \in Nat /\ bits \in Int
  BY <1>1
<1>3. bits \div Span \in 0..(Span - 1)
  BY <1>1, QuotientBelow
<1>4. /\ bits % Span \in 0..(Span - 1)
      /\ bits = Span * (bits \div Span) + (bits % Span)
  BY <1>1, <1>2, DivMod
<1> QED
  BY <1>1, <1>3, <1>4

\* What an encoded number means to the decoder: the number modulo the
\* number of values of the type.
Orderly(p) == Count(p.type) = 2 \/ ~Bytewise(p.order)

\* The words written for a bit pattern are read back as that pattern.
LEMMA BitsArrive ==
  ASSUME NEW p, Orderly(p), p.type # "BOOL", NEW raw \in Int
  PROVE  LET ws == Encode(raw, p)
             o  == Ordered(ws, p.order)
         IN /\ Len(ws) = Count(p.type)
            /\ (IF Len(ws) = 1 THEN o[1] ELSE o[1] * Span + o[2])
                 = raw % Values(Count(p.type))
<1> DEFINE bits == raw % Values(Count(p.type))
<1>1. Span \in Nat \ {0} /\ Span * Span \in Nat \ {0}
  BY BaseAssumption DEF Span
<1>2. CASE Count(p.type) = 1
  <2>1. Encode(raw, p) = <<bits>>
    BY <1>2 DEF Encode, InOrder
  <2>2. Ordered(<<bits>>, p.order)[1] = bits
    BY <1>2, OrderedOne DEF Orderly
  <2> QED
    BY <1>2, <2>1, <2>2
<1>3. CASE Count(p.type) = 2
  <2>1. bits \in 0..(Span * Span - 1)
    <3>1. Values(Count(p.type)) = Span * Span
      BY <1>3 DEF Values
    <3>2. raw % (Span * Span) \in 0..(Span * Span - 1)
      BY <1>1, DivMod
    <3> QED
      BY <3>1, <3>2
  <2> HIDE DEF bits
  <2> DEFINE x == bits \div Span
             y == bits % Span
  <2>2. x \in Words /\ y \in Words /\ x * Span + y = bits
    BY <2>1, WordsOf
  <2>3. Encode(raw, p) = Ordered(<<x, y>>, p.order)
    BY <1>3 DEF Encode, InOrder, bits
  <2> HIDE DEF x, y
  <2>4. /\ Len(Ordered(<<x, y>>, p.order)) = 2
        /\ Ordered(Ordered(<<x, y>>, p.order), p.order) = <<x, y>>
    <3>1. /\ Swapped(Swapped(x)) = x /\ Swapped(Swapped(y)) = y
      BY <2>2, SwappedTwice
    <3>2. CASE Wordwise(p.order) /\ Bytewise(p.order)
      <4>1. Ordered(<<x, y>>, p.order) = <<Swapped(y), Swapped(x)>>
        BY <3>2, OrderedTwo
      <4>2. Ordered(<<Swapped(y), Swapped(x)>>, p.order)
              = <<Swapped(Swapped(x)), Swapped(Swapped(y))>>
        BY <3>2, OrderedTwo
      <4> QED
        BY <3>1, <4>1, <4>2
    <3>3. CASE ~Wordwise(p.order) /\ Bytewise(p.order)
      <4>1. Ordered(<<x, y>>, p.order) = <<Swapped(x), Swapped(y)>>
        BY <3>3, OrderedTwo
      <4>2. Ordered(<<Swapped(x), Swapped(y)>>, p.order)
              = <<Swapped(Swapped(x)), Swapped(Swapped(y))>>
        BY <3>3, OrderedTwo
      <4> QED
        BY <3>1, <4>1, <4>2
    <3>4. CASE Wordwise(p.order) /\ ~Bytewise(p.order)
      <4>1. /\ Ordered(<<x, y>>, p.order) = <<y, x>>
            /\ Ordered(<<y, x>>, p.order) = <<x, y>>
        BY <3>4, OrderedTwo
      <4> QED
        BY <4>1
    <3>5. CASE ~Wordwise(p.order) /\ ~Bytewise(p.order)
      <4>1. Ordered(<<x, y>>, p.order) = <<x, y>>
        BY <3>5, OrderedTwo
      <4> QED
        BY <4>1
    <3> QED
      BY <3>2, <3>3, <3>4, <3>5
  <2> QED
    BY <1>3, <2>2, <2>3, <2>4 DEF bits
<1> QED
  BY <1>2, <1>3 DEF Count

\* A signed value that fits its width survives the reduction modulo 2^w.
LEMMA ModuloFitting ==
  ASSUME NEW n \in Nat \ {0}, NEW raw \in Int
  PROVE  /\ raw \in 0..(n - 1) => raw % n = raw
         /\ raw \in (-(n \div 2))..(n \div 2 - 1) =>
              LET bits == raw % n
              IN (IF bits >= n \div 2 THEN bits - n ELSE bits) = raw
OBVIOUS

\* A number that fits its type and is supported comes back.
LEMMA RoundTrip ==
  ASSUME NEW p, Orderly(p), Supported(p), NEW raw, Fitting(raw, p)
  PROVE  Decode(Encode(raw, p), p) = raw
<1>1. Span \in Nat \ {0} /\ Span * Span \in Nat \ {0}
  BY BaseAssumption DEF Span
<1>2. Values(Count(p.type)) \in Nat \ {0}
  BY <1>1 DEF Values
<1>3. CASE p.type = "BOOL"
  BY <1>3 DEF Decode, Encode, Fitting
<1>4. CASE p.type \in {"UINT16", "UINT32"}
  <2>1. raw \in 0..(Values(Count(p.type)) - 1)
    BY <1>4 DEF Fitting
  <2>2. raw % Values(Count(p.type)) = raw /\ raw \in Int
    BY <1>2, <2>1, ModuloFitting
  <2> QED
    BY <1>4, <2>2, BitsArrive DEF Decode
<1>5. CASE p.type \notin {"BOOL", "BITFIELD16", "UINT16", "UINT32"}
  <2> DEFINE n == Values(Count(p.type))
  <2>1. raw \in (-(n \div 2))..(n \div 2 - 1)
    BY <1>5 DEF Fitting
  <2>2. n \div 2 \in Int
    BY <1>2
  <2>3. raw \in Int
    BY <2>1, <2>2
  <2> QED
    BY <1>2, <1>5, <2>1, <2>3, BitsArrive, ModuloFitting DEF Decode
<1> QED
  BY <1>3, <1>4, <1>5 DEF Supported

\* A BOOL is set by either of its engineering values but that of 0, every
\* other type by its raw number: what fits and is written comes back.
LEMMA WrittenComesBack ==
  ASSUME NEW p \in Mappings, NEW eng, Orderly(p), Supported(p),
         Fitting(RawOf(eng, p), p),
         p.type = "BOOL" => eng = EngOf(RawOf(eng, p), p)
  PROVE  Decode(WireWords(eng, p), p) = RawOf(eng, p)
<1> DEFINE raw == RawOf(eng, p)
<1>1. ASSUME p.type = "BOOL" PROVE WireWords(eng, p) = <<raw>>
  <2>1. raw \in {0, 1} /\ eng = raw * p.scale + p.offset
    BY <1>1 DEF Fitting, EngOf
  <2>2. p.scale \in Nat \ {0} /\ p.offset \in Int
    BY DEF Mappings
  <2> HIDE DEF raw
  <2>3. CASE raw = 0
    <3>1. eng = p.offset
      BY ONLY <2>1, <2>2, <2>3
    <3> QED
      BY ONLY <2>3, <3>1, <1>1 DEF WireWords
  <2>4. CASE raw = 1
    <3>1. eng # p.offset
      BY ONLY <2>1, <2>2, <2>4
    <3> QED
      BY ONLY <2>4, <3>1, <1>1 DEF WireWords
  <2> QED
    BY <2>1, <2>3, <2>4
<1>2. CASE p.type # "BOOL"
  BY <1>2, RoundTrip DEF WireWords
<1>3. CASE p.type = "BOOL"
  <2>1. raw \in {0, 1}
    BY <1>3 DEF Fitting
  <2> QED
    BY <1>1, <1>3, <2>1 DEF Decode
<1> QED
  BY <1>2, <1>3
-----------------------------------------------------------------------------
\* Until the device changes, its registers are those of the last command.
NorthInv ==
  /\ point \in Mappings
  /\ command # <<>> => /\ command = <<command[1]>> /\ Supported(point)
                       /\ regs = WireWords(command[1], point)

\* What control_service_write_point() writes is what the next poll reads:
\* when the raw number fits the type, modbus_convert_to_number() gives it
\* back from the registers that encode_value() filled, in every byte order,
\* for every point model and every number of values of a register.
THEOREM ControlledWritesArrive == NorthSpec => []WriteReadsBack
<1>1. NorthInit => NorthInv
  BY PointsAssumption DEF NorthInit, NorthInv
<1>2. NorthInv /\ [NorthNext]_northVars => NorthInv'
  <2> SUFFICES ASSUME NorthInv, [NorthNext]_northVars PROVE NorthInv'
    OBVIOUS
  <2>1. ASSUME NEW eng, WritePoint(eng) PROVE NorthInv'
    <3>1. /\ Supported(point) /\ point' = point /\ command' = <<eng>>
          /\ regs' = WireWords(eng, point)
      BY <2>1 DEF WritePoint, Accepts
    <3>2. command' = <<command'[1]>> /\ command'[1] = eng
      BY <3>1
    <3>3. Supported(point') /\ point' \in Mappings
      BY <3>1 DEF NorthInv
    <3>4. regs' = WireWords(command'[1], point')
      BY <3>1, <3>2
    <3> QED
      BY <3>2, <3>3, <3>4 DEF NorthInv
  <2>2. CASE point' = point /\ command' = <<>>
    BY <2>2 DEF NorthInv
  <2>3. CASE UNCHANGED <<point, regs, command>>
    BY <2>3 DEF NorthInv
  <2> QED
    BY <2>1, <2>2, <2>3
    DEF NorthNext, DeviceChanges, PollPoint, ControlWrite, NorthWriteSingle,
        NorthWriteMultiple, ReadBegins, ReadWord, SendReply, Connect, Accept,
        NoTask, Disconnect, northVars
<1>3. NorthInv => WriteReadsBack
  <2> SUFFICES ASSUME NorthInv, command # <<>>,
                      Fitting(RawOf(command[1], point), point),
                      point.type = "BOOL" =>
                        command[1] = EngOf(RawOf(command[1], point), point),
                      Orderly(point)
               PROVE  Decode(regs, point) = RawOf(command[1], point)
    BY DEF WriteReadsBack, Orderly
  <2>1. point \in Mappings /\ Supported(point)
        /\ regs = WireWords(command[1], point)
    BY DEF NorthInv
  <2> QED
    BY <2>1, WrittenComesBack
<1> QED
  BY <1>1, <1>2, <1>3, PTL DEF NorthSpec
-----------------------------------------------------------------------------
(***************************************************************************)
(* The shape of the poll list and of the mutex.                            *)
(***************************************************************************)
\* The bounds of the clock and of the edits.
PollBounds ==
  /\ uptime <= MaxUptime /\ version <= MaxTableEdits
  /\ observed <= version
  /\ lastPoll \in [Entries -> 0..MaxUptime]
  /\ pollStep \in {"copy", "select", "poll"} /\ paused \in BOOLEAN

\* They hold at the start.
LEMMA PollBoundsInit == PollPlanInit => PollBounds
<1> SUFFICES ASSUME PollPlanInit PROVE PollBounds
  OBVIOUS
<1>1. /\ uptime = 1 /\ version = 0 /\ observed = 0
      /\ lastPoll = [i \in Entries |-> 0]
      /\ pollStep = "copy"
  BY DEF PollPlanInit, Never
<1>2. lastPoll \in [Entries -> 0..MaxUptime]
  BY <1>1, PollBoundAssumption
<1>3. paused \in BOOLEAN
  BY DEF PollPlanInit
<1> QED
  BY <1>1, <1>2, <1>3, PollBoundAssumption DEF PollBounds

\* A poll is stamped with the time of its selection.
LEMMA PollBoundsNext ==
  ASSUME PollInv, PollBounds, [PollPlanNext]_pollVars PROVE PollBounds'
<1>1. MaxUptime \in Nat /\ MaxTableEdits \in Nat /\ uptime \in Nat
      /\ version \in Nat /\ observed \in Nat
  BY PollBoundAssumption DEF PollInv
<1>2. CASE SelectEntry
  <2> DEFINE times == IF Forgotten THEN Never ELSE lastPoll
             due   == {i \in DOMAIN plan : DueAt(i, times)}
  <2>1. times \in [Entries -> 0..MaxUptime]
    BY <1>1 DEF PollBounds, Never
  <2>2. DOMAIN plan \subseteq Entries
    BY PlanPositions DEF PollInv
  <2>3. \/ lastPoll' = times
        \/ \E s \in due : lastPoll' = [times EXCEPT ![s] = uptime]
    BY <1>2 DEF SelectEntry
  <2>4. pollStep' \in {"copy", "poll"}
    BY <1>2 DEF SelectEntry
  <2>5. lastPoll' \in [Entries -> 0..MaxUptime]
    <3> HIDE DEF times
    <3>1. uptime \in 0..MaxUptime
      BY <1>1 DEF PollBounds
    <3> QED
      BY <2>1, <2>2, <2>3, <3>1
  <2>6. UNCHANGED <<uptime, version, paused>> /\ observed' = version
    BY <1>2 DEF SelectEntry
  <2> QED
    BY <1>1, <2>4, <2>5, <2>6 DEF PollBounds
<1>3. CASE PollEnds
  BY <1>1, <1>3, DurationAssumption DEF PollEnds, PollBounds
<1>4. CASE CopyEntries \/ Sleep
  BY <1>1, <1>4 DEF CopyEntries, Sleep, PollBounds
<1>5. CASE EditTable
  BY <1>1, <1>5 DEF EditTable, PollBounds
<1>6. CASE Pause
  BY <1>6 DEF Pause, PollBounds
<1>7. CASE UNCHANGED pollVars
  BY <1>7 DEF pollVars, PollBounds
<1> QED
  BY <1>2, <1>3, <1>4, <1>5, <1>6, <1>7 DEF PollPlanNext

\* The poll plan stays within its table and its times within the clock.
THEOREM PollPlanTypes == PollPlanSpec => []PollPlanTypeOK
<1>1. PollInv /\ PollBounds => PollPlanTypeOK
  BY PollBoundAssumption DEF PollInv, PollBounds, PollPlanTypeOK
<1>2. PollInv /\ PollBounds /\ [PollPlanNext]_pollVars
        => PollInv' /\ PollBounds'
  BY PollInvNext, PollBoundsNext
<1> QED
  BY <1>1, <1>2, PollInvInit, PollBoundsInit, PTL DEF PollPlanSpec
-----------------------------------------------------------------------------
\* The mutexes that exist are numbered from 1.
Mutexes(k) ==
  /\ holder \in [1..k -> Tasks \cup {Free}] /\ mutex \in 0..k
  /\ request \in [Tasks -> [at : Steps, on : 0..k]]

BusTypes == /\ \E k \in Nat : Mutexes(k)
            /\ boot \in {"test", "create", "start", "done"}
            /\ ready \in BOOLEAN /\ aborted \in BOOLEAN
            /\ begun \in 0..MaxRequests

\* None at first.
LEMMA BusTypesInit == BusInit => BusTypes
<1> SUFFICES ASSUME BusInit PROVE BusTypes
  OBVIOUS
<1>1. mutex = 0 /\ holder \in [1..0 -> Tasks \cup {Free}]
  <2>1. 1..0 = {} /\ holder = <<>>
    BY DEF BusInit
  <2>2. <<>> \in [{} -> Tasks \cup {Free}]
    OBVIOUS
  <2> QED
    BY <2>1, <2>2 DEF BusInit
<1>2. request = [t \in Tasks |-> [at |-> "rest", on |-> 0]]
  BY DEF BusInit, Resting
<1>3. Mutexes(0)
  BY <1>1, <1>2 DEF Mutexes, Steps
<1>4. ready \in BOOLEAN /\ boot \in {"test", "create", "start", "done"}
  BY DEF BusInit
<1>5. aborted \in BOOLEAN
  BY DEF BusInit
<1>6. begun \in 0..MaxRequests
  BY RequestsAssumption DEF BusInit
<1> QED
  BY <1>3, <1>4, <1>5, <1>6 DEF BusTypes

\* A new mutex has the next number.
LEMMA NewMutexTypes ==
  ASSUME NEW k \in Nat, Mutexes(k), NewMutex,
         request' \in [Tasks -> [at : Steps, on : 0..k]]
  PROVE  Mutexes(k + 1)'
<1>1. Cardinality(DOMAIN holder) = k
  <2>1. DOMAIN holder = 1..k
    BY DEF Mutexes
  <2> QED
    BY <2>1, FS_Interval
<1>2. /\ mutex' = k + 1
      /\ holder' = [m \in 1..(k + 1) |-> IF m = k + 1 THEN Free
                                         ELSE holder[m]]
  BY <1>1 DEF NewMutex
<1>3. holder' \in [1..(k + 1) -> Tasks \cup {Free}]
  <2>1. \A m \in 1..(k + 1) : m # k + 1 => m \in 1..k
    OBVIOUS
  <2> QED
    BY <1>2, <2>1 DEF Mutexes
<1>4. request' \in [Tasks -> [at : Steps, on : 0..(k + 1)]]
  <2> DEFINE At(n) == [at : Steps, on : 0..n]
  <2>1. \A q \in At(k) : q \in At(k + 1)
    OBVIOUS
  <2>2. request' \in [Tasks -> At(k)]
    OBVIOUS
  <2> HIDE DEF At
  <2>3. request' \in [Tasks -> At(k + 1)]
    BY <2>1, <2>2
  <2> QED
    BY <2>3 DEF At
<1> QED
  BY <1>2, <1>3, <1>4 DEF Mutexes

\* A task gets a new mutex, or acts on one that exists.
LEMMA BusTypesNext == ASSUME BusTypes, [BusNext]_busVars PROVE BusTypes'
<1>1. PICK k \in Nat : Mutexes(k)
  BY DEF BusTypes
<1>2. CASE UNCHANGED busVars
  BY <1>1, <1>2 DEF busVars, BusTypes, Mutexes
<1>3. CASE BootTest \/ BootStart
  <2>1. UNCHANGED <<mutex, holder, request, aborted, begun>>
    BY <1>3 DEF BootTest, BootStart
  <2>2. boot' \in {"test", "create", "start", "done"} /\ ready' \in BOOLEAN
    BY <1>3 DEF BootTest, BootStart, BusTypes
  <2> QED
    BY <1>1, <2>1, <2>2 DEF BusTypes, Mutexes
<1>4. CASE BootCreate
  <2>1. /\ NewMutex /\ boot' = "start"
        /\ UNCHANGED <<request, ready, aborted, begun>>
    BY <1>4 DEF BootCreate
  <2>2. Mutexes(k + 1)'
    BY <1>1, <2>1, NewMutexTypes DEF Mutexes
  <2> QED
    BY <2>1, <2>2 DEF BusTypes
<1>5. CASE \E t \in Tasks : RtuRequest(t) \/ TcpRequest(t) \/ BusStep(t)
  <2>1. PICK t \in Tasks : RtuRequest(t) \/ TcpRequest(t) \/ BusStep(t)
    BY <1>5
  <2> DEFINE At(n) == [at : Steps, on : 0..n]
  <2>2. ASSUME NEW next \in At(k), request' = [request EXCEPT ![t] = next]
        PROVE  request' \in [Tasks -> At(k)]
    BY <1>1, <2>2 DEF Mutexes
  <2>3. /\ request \in [Tasks -> At(k)] /\ request[t] \in At(k)
        /\ request[t].on \in 0..k /\ mutex \in 0..k
    BY <1>1 DEF Mutexes
  <2>4. \A step \in Steps : \A m \in 0..k :
          Doing(step, m) \in At(k) /\ Resting \in At(k)
    BY DEF Doing, Resting, Steps
  <2> HIDE DEF At
  <2>5. CASE RtuRequest(t) \/ TcpRequest(t)
    <3>1. PICK first \in {"lock", "test"} : BeginRequest(t, first)
      BY <2>5 DEF RtuRequest, TcpRequest
    <3>2. Doing(first, 0) \in At(k)
      BY <2>4, <3>1 DEF Steps
    <3>3. Mutexes(k)'
      BY <1>1, <2>2, <3>1, <3>2 DEF BeginRequest, Mutexes, At
    <3>4. /\ ready' \in BOOLEAN /\ aborted' \in BOOLEAN
          /\ begun' \in 0..MaxRequests /\ boot' = boot
      BY <3>1, RequestsAssumption DEF BeginRequest, BusTypes
    <3> QED
      BY <3>3, <3>4 DEF BusTypes
  <2>6. CASE CreateMutex(t)
    <3>1. /\ NewMutex /\ request' = [request EXCEPT ![t] = Doing("lock", 0)]
          /\ UNCHANGED <<boot, ready, aborted, begun>>
      BY <2>6 DEF CreateMutex, Goes
    <3>2. request' \in [Tasks -> At(k)]
      <4>1. Doing("lock", 0) \in At(k)
        BY <2>4 DEF Steps
      <4> QED
        BY <2>2, <3>1, <4>1
    <3>3. Mutexes(k + 1)'
      BY <1>1, <3>1, <3>2, NewMutexTypes DEF At
    <3> QED
      BY <3>1, <3>3 DEF BusTypes
  <2>7. ASSUME BusStep(t), ~CreateMutex(t) PROVE BusTypes'
    <3>1. CASE TestMutex(t)
      <4>1. PICK next \in {"create", "lock"} :
              request' = [request EXCEPT ![t] = Doing(next, 0)]
        BY <3>1 DEF TestMutex, Goes
      <4>2. request' \in [Tasks -> At(k)]
        <5>1. Doing(next, 0) \in At(k)
          BY <2>4, <4>1 DEF Steps
        <5> QED
          BY <2>2, <4>1, <5>1
      <4> QED
        BY <1>1, <3>1, <4>2 DEF TestMutex, Goes, BusTypes, Mutexes, At
    <3>2. CASE Lock(t)
      <4>1. request' \in [Tasks -> At(k)]
        BY <2>2, <2>3, <2>4, <3>2 DEF Lock, Goes, Steps
      <4> QED
        BY <1>1, <3>2, <4>1 DEF Lock, Goes, BusTypes, Mutexes, At
    <3>3. CASE Acquire(t)
      <4>1. request' \in [Tasks -> At(k)]
        BY <2>2, <2>3, <2>4, <3>3 DEF Acquire, Goes, Steps
      <4>2. holder' \in [1..k -> Tasks \cup {Free}]
        BY <1>1, <3>3 DEF Acquire, Mutexes
      <4> QED
        BY <1>1, <3>3, <4>1, <4>2 DEF Acquire, Goes, BusTypes, Mutexes, At
    <3>4. CASE LockTimeout(t)
      <4>1. request' \in [Tasks -> At(k)]
        BY <2>2, <2>3, <2>4, <3>4 DEF LockTimeout, Goes, Steps
      <4> QED
        BY <1>1, <3>4, <4>1 DEF LockTimeout, Goes, BusTypes, Mutexes, At
    <3>5. CASE End(t)
      <4>1. request' \in [Tasks -> At(k)]
        BY <2>2, <2>3, <2>4, <3>5 DEF End, Steps
      <4>2. holder' \in [1..k -> Tasks \cup {Free}]
        BY <1>1, <3>5 DEF End, Mutexes
      <4>3. aborted' \in BOOLEAN
        BY <3>5 DEF End
      <4> QED
        BY <1>1, <3>5, <4>1, <4>2, <4>3 DEF End, BusTypes, Mutexes, At
    <3> QED
      BY <2>7, <3>1, <3>2, <3>3, <3>4, <3>5 DEF BusStep
  <2> QED
    BY <2>1, <2>5, <2>6, <2>7
<1> QED
  BY <1>2, <1>3, <1>4, <1>5 DEF BusNext

\* Every task is at a step of its request, on a mutex that exists, whatever
\* the number of mutexes that the first requests and the boot have made.
THEOREM BusTypeCorrect == BusSpec => []BusTypeOK
<1>1. BusTypes => BusTypeOK
  <2> SUFFICES ASSUME BusTypes PROVE BusTypeOK
    OBVIOUS
  <2>1. PICK k \in Nat : Mutexes(k)
    BY DEF BusTypes
  <2>2. DOMAIN holder = 1..k /\ {0} \cup DOMAIN holder = 0..k
    BY <2>1 DEF Mutexes
  <2> QED
    BY <2>1, <2>2 DEF BusTypes, Mutexes, BusTypeOK
<1>2. BusTypes /\ [BusNext]_busVars => BusTypes'
  BY BusTypesNext
<1> QED
  BY <1>1, <1>2, BusTypesInit, PTL DEF BusSpec
-----------------------------------------------------------------------------
(***************************************************************************)
(* The shape of the register codec: what is on the wire are words, and what *)
(* is read from them is a number in the range of its type.                 *)
(***************************************************************************)
\* Registers hold words, and the pool holds numbers.
NorthTypes ==
  /\ point \in Mappings
  /\ regs \in Contents
  /\ states \in Seq(Int) /\ Len(states) <= MaxPolls
  /\ reply \in Seq(Words) /\ Len(reply) <= Count(point.type)
  /\ from \in 0..Len(states)
  /\ listed = serving /\ serving \in 0..MaxClients

\* The order of a point makes two words of two.
LEMMA OrderedWords ==
  ASSUME NEW x \in Words, NEW y \in Words, NEW order
  PROVE  \E a, b \in Words : Ordered(<<x, y>>, order) = <<a, b>>
<1>1. Swapped(x) \in Words /\ Swapped(y) \in Words
  BY SwappedTwice
<1>2. Ordered(<<x, y>>, order) \in
        {<<x, y>>, <<y, x>>, <<Swapped(x), Swapped(y)>>,
         <<Swapped(y), Swapped(x)>>}
  BY OrderedTwo
<1> QED
  BY <1>1, <1>2

\* Whatever number is encoded, the registers get words.
LEMMA EncodeIsWords ==
  ASSUME NEW p \in Mappings, NEW v \in Int
  PROVE  Encode(v, p) \in [1..Count(p.type) -> Words]
<1> DEFINE bits == v % Values(Count(p.type))
<1>1. /\ Span \in Nat \ {0} /\ Span * Span \in Nat \ {0}
      /\ Words = 0..(Span - 1)
  BY BaseAssumption DEF Span, Words
<1>3. CASE p.type = "BOOL"
  <2>1. Base * Base >= 2
    BY BaseAssumption
  <2>2. 0 \in Words /\ 1 \in Words
    BY <2>1, BaseAssumption DEF Words
  <2>3. Encode(v, p) = <<0>> \/ Encode(v, p) = <<1>>
    BY <1>3 DEF Encode
  <2> QED
    BY <1>3, <2>2, <2>3 DEF Count
<1>4. CASE p.type # "BOOL" /\ Count(p.type) = 1
  <2>1. bits \in 0..(Span - 1)
    BY <1>1, <1>4, DivMod DEF Values
  <2>2. Encode(v, p) = <<bits>>
    BY <1>4 DEF Encode, InOrder
  <2> QED
    BY <1>1, <1>4, <2>1, <2>2
<1>5. CASE Count(p.type) = 2
  <2>1. bits \in 0..(Span * Span - 1)
    <3>1. Values(Count(p.type)) = Span * Span
      BY <1>5 DEF Values
    <3>2. v % (Span * Span) \in 0..(Span * Span - 1)
      BY <1>1, DivMod
    <3> QED
      BY <3>1, <3>2
  <2> DEFINE x == bits \div Span
             y == bits % Span
  <2>2. x \in Words /\ y \in Words
    BY <2>1, WordsOf
  <2>3. Encode(v, p) = Ordered(<<x, y>>, p.order)
    BY <1>5 DEF Encode, InOrder, Count
  <2> HIDE DEF x, y
  <2>5. \E a, b \in Words : Ordered(<<x, y>>, p.order) = <<a, b>>
    BY <2>2, OrderedWords
  <2> QED
    BY <1>5, <2>3, <2>5
<1> QED
  BY <1>3, <1>4, <1>5 DEF Count

\* Whatever the registers hold, the decoder makes a number of it.
LEMMA DecodeIsNumber ==
  ASSUME NEW p \in Mappings, NEW ws \in [1..Count(p.type) -> Words]
  PROVE  Decode(ws, p) \in Int
<1>1. Span \in Nat \ {0} /\ Words = 0..(Span - 1)
  BY BaseAssumption DEF Span, Words
<1> HIDE DEF Span
<1>2. Span * Span \in Nat /\ Words \subseteq Int
  BY <1>1
<1> DEFINE o    == Ordered(ws, p.order)
           bits == IF Len(ws) = 1 THEN o[1] ELSE o[1] * Span + o[2]
           n    == Values(Len(ws))
<1>3. n \in Int /\ n \div 2 \in Int
  BY <1>1, <1>2 DEF Values
<1>4. ASSUME Count(p.type) = 1 PROVE bits \in Int
  <2>1. ws = <<ws[1]>> /\ Len(ws) = 1 /\ ws[1] \in Words
    BY <1>4
  <2>2. o[1] \in Words
    <3>1. Swapped(ws[1]) \in Words
      BY <2>1, SwappedTwice
    <3>2. Ordered(<<ws[1]>>, p.order)[1] \in Words
      BY <2>1, <3>1, OrderedOne
    <3> QED
      BY <2>1, <3>2
  <2> QED
    BY <1>2, <2>1, <2>2
<1>5. ASSUME Count(p.type) = 2 PROVE bits \in Int
  <2>1. ws = <<ws[1], ws[2]>> /\ Len(ws) = 2
        /\ ws[1] \in Words /\ ws[2] \in Words
    BY <1>5
  <2>2. o[1] \in Words /\ o[2] \in Words
    <3>1. \E a, b \in Words : Ordered(<<ws[1], ws[2]>>, p.order) = <<a, b>>
      BY <2>1, OrderedWords
    <3> QED
      BY <2>1, <3>1
  <2>3. o[1] * Span + o[2] \in Int
    BY <1>1, <1>2, <2>2
  <2> QED
    BY <2>1, <2>3
<1>6. bits \in Int
  BY <1>4, <1>5 DEF Count
<1> HIDE DEF bits, n
<1>7. bits % 2 \in Int /\ bits - n \in Int
  BY <1>3, <1>6
<1> QED
  BY <1>3, <1>6, <1>7 DEF Decode, bits, n

\* A command for the device, as a number.
LEMMA RawIsNumber ==
  ASSUME NEW p \in Mappings, NEW eng \in Int
  PROVE  RawOf(eng, p) \in Int
<1> DEFINE a == eng - p.offset
           b == p.scale
<1>1. a \in Int /\ b \in Nat \ {0}
  BY DEF Mappings
<1> HIDE DEF a, b
<1>2. /\ 2 * b \in Nat \ {0} /\ 2 * a + b \in Int
      /\ 2 * (-a) + b \in Int
  BY <1>1
<1>3. (2 * a + b) \div (2 * b) \in Int /\ (2 * (-a) + b) \div (2 * b) \in Int
  BY <1>2, DivMod
<1>4. Rounded(a, b) \in Int
  BY <1>3 DEF Rounded
<1> QED
  BY <1>4 DEF RawOf, a, b

\* A device without commands, a server without clients.
LEMMA NorthTypesInit == NorthInit => NorthTypes
<1> SUFFICES ASSUME NorthInit PROVE NorthTypes
  OBVIOUS
<1>1. point \in Mappings
  BY PointsAssumption DEF NorthInit
<1>2. 0 \in Words
  BY BaseAssumption DEF Words
<1>3. regs \in Contents
  BY <1>2 DEF NorthInit, Contents
<1>4. states = <<>> /\ reply = <<>> /\ from = 0 /\ listed = 0 /\ serving = 0
  BY DEF NorthInit
<1>5. Count(point.type) \in {1, 2}
  BY DEF Count
<1> QED
  BY <1>1, <1>3, <1>4, <1>5, ServerAssumption DEF NorthTypes

\* A command writes words.
LEMMA WritesWords ==
  ASSUME NorthTypes, NEW eng \in Int, WritePoint(eng)
  PROVE  NorthTypes'
<1>1. point \in Mappings /\ RawOf(eng, point) \in Int
  BY RawIsNumber DEF NorthTypes
<1>2. regs' = WireWords(eng, point)
      /\ UNCHANGED <<point, states, reply, from, listed, serving>>
  BY DEF WritePoint
<1>3. regs' \in [1..Count(point.type) -> Words]
  <2>1. CASE point.type = "BOOL"
    <3>1. Base * Base >= 2
      BY BaseAssumption
    <3>2. 0 \in Words /\ 1 \in Words
      BY <3>1, BaseAssumption DEF Words
    <3> QED
      BY <1>2, <2>1, <3>2 DEF WireWords, Count
  <2>2. CASE point.type # "BOOL"
    BY <1>1, <1>2, <2>2, EncodeIsWords DEF WireWords
  <2> QED
    BY <2>1, <2>2
<1> QED
  BY <1>2, <1>3 DEF NorthTypes, Contents

\* Polls, commands, reads and clients keep the shape.
LEMMA NorthTypesNext ==
  ASSUME NorthTypes, [NorthNext]_northVars PROVE NorthTypes'
<1>1. CASE DeviceChanges
  BY <1>1 DEF DeviceChanges, NorthTypes, Contents
<1>2. CASE PollPoint
  <2>1. Decode(regs, point) \in Int
    BY DecodeIsNumber DEF NorthTypes, Contents
  <2>2. /\ states \in Seq(Int) /\ Len(states) < MaxPolls
        /\ states' = Append(states, Decode(regs, point))
        /\ UNCHANGED <<point, regs, reply, from, listed, serving>>
    BY <1>2 DEF PollPoint, NorthTypes
  <2>3. states' \in Seq(Int) /\ Len(states') = Len(states) + 1
    BY <2>1, <2>2, AppendProperties
  <2>4. Len(states) \in Nat
    BY <2>2, LenProperties
  <2>5. Len(states') <= MaxPolls /\ from' \in 0..Len(states')
    BY <2>2, <2>3, <2>4, ServerAssumption DEF NorthTypes
  <2> QED
    BY <2>2, <2>3, <2>5 DEF NorthTypes, Contents
<1>3. CASE ControlWrite
  <2>1. PICK eng \in Commands : WritePoint(eng)
    BY <1>3 DEF ControlWrite
  <2> QED
    BY <2>1, WritesWords, PointsAssumption
<1>4. CASE NorthWriteSingle \/ NorthWriteMultiple
  <2>1. ASSUME NEW raw \in Int PROVE EngOf(raw, point) \in Int
    BY DEF EngOf, NorthTypes, Mappings
  <2>2. CASE NorthWriteSingle
    <3>1. PICK w \in IF point.type = "BOOL" THEN {0, 1} ELSE Words :
            WritePoint(EngOf(w, point))
      BY <2>2 DEF NorthWriteSingle
    <3>2. w \in Int
      BY BaseAssumption DEF Words
    <3> QED
      BY <2>1, <3>1, <3>2, WritesWords
  <2>3. CASE NorthWriteMultiple
    <3>1. PICK ws \in Contents : WritePoint(EngOf(Decode(ws, point), point))
      BY <2>3 DEF NorthWriteMultiple
    <3>2. Decode(ws, point) \in Int
      BY DecodeIsNumber DEF NorthTypes, Contents
    <3> QED
      BY <2>1, <3>1, <3>2, WritesWords
  <2> QED
    BY <1>4, <2>2, <2>3
<1>5. CASE ReadBegins
  <2>1. Len(states) \in Nat
    BY LenProperties DEF NorthTypes
  <2> QED
    BY <1>5, <2>1 DEF ReadBegins, NorthTypes, Contents
<1>6. CASE ReadWord
  <2>1. /\ Len(states) \in Nat /\ Len(states) # 0 /\ Len(reply) \in Nat
        /\ Len(reply) < Count(point.type) /\ Count(point.type) \in {1, 2}
    BY <1>6, LenProperties DEF ReadWord, NorthTypes, Count
  <2> DEFINE word == Encode(states[Len(states)], point)[Len(reply) + 1]
  <2>2. states[Len(states)] \in Int
    BY <2>1, ElementOfSeq DEF NorthTypes
  <2>3. Len(reply) + 1 \in 1..Count(point.type)
    BY <2>1
  <2>4. word \in Words
    BY <2>2, <2>3, EncodeIsWords DEF NorthTypes
  <2>5. reply \in Seq(Words) /\ reply' = Append(reply, word)
    BY <1>6 DEF ReadWord, NorthTypes
  <2> HIDE DEF word
  <2>6. reply' \in Seq(Words) /\ Len(reply') = Len(reply) + 1
    BY <2>4, <2>5, AppendProperties
  <2> QED
    BY <1>6, <2>1, <2>6 DEF ReadWord, NorthTypes, Contents
<1>7. CASE SendReply
  <2>1. Len(states) \in Nat /\ Count(point.type) \in {1, 2}
    BY LenProperties DEF NorthTypes, Count
  <2> QED
    BY <1>7, <2>1 DEF SendReply, NorthTypes, Contents
<1>8. CASE Accept \/ NoTask
  <2>1. \/ listed' = listed + 1 /\ serving' = serving + 1
        \/ listed' = listed /\ serving' = serving + 0
    BY <1>8 DEF Accept, NoTask, Connect
  <2>2. listed < MaxClients /\ UNCHANGED <<point, regs, states, reply, from>>
    BY <1>8 DEF Accept, NoTask, Connect
  <2> QED
    BY <2>1, <2>2, ServerAssumption DEF NorthTypes, Contents
<1>9. CASE Disconnect
  <2>1. Len(states) \in Nat /\ Count(point.type) \in {1, 2}
    BY LenProperties DEF NorthTypes, Count
  <2>2. /\ serving > 0 /\ serving' = serving - 1 /\ listed' = listed - 1
        /\ reply' \in {<<>>, reply} /\ from' \in {0, from}
        /\ UNCHANGED <<point, regs, states>>
    BY <1>9 DEF Disconnect
  <2>3. reply' \in Seq(Words) /\ Len(reply') <= Count(point.type)
    <3>1. CASE reply' = <<>>
      <4>1. <<>> \in Seq(Words) /\ Len(<<>>) = 0
        OBVIOUS
      <4> QED
        BY <2>1, <3>1, <4>1
    <3>2. CASE reply' = reply
      BY <3>2 DEF NorthTypes
    <3> QED
      BY <2>2, <3>1, <3>2
  <2>4. from' \in 0..Len(states)
    BY <2>1, <2>2 DEF NorthTypes
  <2>5. listed' = serving' /\ serving' \in 0..MaxClients
    BY <2>2, ServerAssumption DEF NorthTypes
  <2> QED
    BY <2>2, <2>3, <2>4, <2>5 DEF NorthTypes, Contents
<1>10. CASE UNCHANGED northVars
  BY <1>10 DEF northVars, NorthTypes, Contents
<1> QED
  BY <1>1, <1>2, <1>3, <1>4, <1>5, <1>6, <1>7, <1>8, <1>9, <1>10
  DEF NorthNext

\* The number of clients that the status page shows is that of the tasks
\* that serve them, and never above the server's limit; registers hold words.
THEOREM NorthTypeCorrect == NorthSpec => []NorthTypeOK
<1>1. NorthTypes => NorthTypeOK
  <2> SUFFICES ASSUME NorthTypes PROVE NorthTypeOK
    OBVIOUS
  <2>1. \A i \in DOMAIN reply : reply[i] \in Words
    BY ElementOfSeq, LenProperties DEF NorthTypes
  <2> QED
    BY <2>1 DEF NorthTypes, NorthTypeOK
<1>2. NorthTypes /\ [NorthNext]_northVars => NorthTypes'
  BY NorthTypesNext
<1> QED
  BY <1>1, <1>2, NorthTypesInit, PTL DEF NorthSpec
-----------------------------------------------------------------------------
(***************************************************************************)
(* The components whose properties are about safety, side by side: what is *)
(* proved of each of them holds in their common model.                     *)
(***************************************************************************)
\* A step of the model is one of each part, or leaves the part alone.
LEMMA PartsStep ==
  ASSUME [SafetyNext]_<<part, tcmVars, configVars, pollVars, busVars,
                        northVars, ammVars, automationVars, logVars>>
  PROVE  /\ [TcmNext]_tcmVars /\ [ConfigNext]_configVars
         /\ [PollPlanNext]_pollVars /\ [BusNext]_busVars
         /\ [NorthNext]_northVars /\ [AmmNext]_ammVars
         /\ [AutomationNext]_automationVars /\ [LogNext]_logVars
BY DEF SafetyNext

\* Every behaviour of the model is one of every part, which may stand still.
LEMMA PartsImplemented ==
  SafetySpec => /\ TcmSpec /\ ConfigSpec /\ PollPlanSpec /\ BusSpec
                /\ NorthSpec /\ AmmSpec /\ AutomationSpec /\ LogSpec
<1>1. SafetyInit =>
        /\ TcmInit /\ ConfigInit /\ PollPlanInit /\ BusInit /\ NorthInit
        /\ AmmInit /\ AutomationInit /\ LogInit
  BY DEF SafetyInit
<1>2. [SafetyNext]_<<part, tcmVars, configVars, pollVars, busVars,
                     northVars, ammVars, automationVars, logVars>>
        => /\ [TcmNext]_tcmVars /\ [ConfigNext]_configVars
           /\ [PollPlanNext]_pollVars /\ [BusNext]_busVars
           /\ [NorthNext]_northVars /\ [AmmNext]_ammVars
           /\ [AutomationNext]_automationVars /\ [LogNext]_logVars
  BY PartsStep
<1> QED
  BY <1>1, <1>2, PTL
  DEF SafetySpec, TcmSpec, ConfigSpec, PollPlanSpec, BusSpec, NorthSpec,
      AmmSpec, AutomationSpec, LogSpec

\* Every table, buffer, counter and clock of the eight components keeps the
\* shape and the bounds that its module gives it, for all sizes.
THEOREM SafetyTypeCorrect ==
  ASSUME "flagged" \notin Faults
  PROVE  SafetySpec => []SafetyTypeOK
<1>1. ConfigSpec => []ConfigTypeOK
  <2>1. ConfigInv => ConfigTypeOK
    BY DEF ConfigInv
  <2> QED
    BY <2>1, ConfigInvariant, PTL
<1>2. /\ TcmTypeOK /\ ConfigTypeOK /\ PollPlanTypeOK /\ BusTypeOK
      /\ NorthTypeOK /\ AmmTypeOK /\ AutomationTypeOK /\ LogTypeOK
      => SafetyTypeOK
  BY DEF SafetyTypeOK
<1> QED
  BY <1>1, <1>2, PartsImplemented, TypeCorrect, PollPlanTypes, BusTypeCorrect,
     NorthTypeCorrect, AmmTypeCorrect, AutomationTypeCorrect, LogTypeCorrect,
     PTL

(***************************************************************************)
(* What the eight components never do, in their common model.              *)
(***************************************************************************)
THEOREM SafetyHolds ==
  ASSUME "flagged" \notin Faults
  PROVE  SafetySpec =>
           /\ []ReservationCoversIssued /\ AscendingIssue
           /\ []Recoverable /\ RegisterSpec
           /\ NoStarvation /\ []ExclusiveUnlessRaced /\ []WriteReadsBack
           /\ []StoredIsRunning /\ []PointMappedOnce /\ UserSemanticsKept
           /\ []IdsUnique /\ HoldRespected /\ CooldownRespected
           /\ []FlushedMeanwhileKept
<1>1. ConfigSpec => []Recoverable /\ RegisterSpec
  BY ConfigRecoverable, ConfigRefinesRegister, PTL
<1> QED
  BY <1>1, PartsImplemented, ReservationSafe, IssueAscends, NoMappingStarves,
     OneTransactionAtATime, ControlledWritesArrive, StoredTableIsRunning,
     PointsMappedOnce, UserEditsSurviveImport, RuleIdsUnique,
     HoldTimesRespected, CooldownsRespected, ExportKeepsWhatIsFlushed, PTL
=============================================================================
