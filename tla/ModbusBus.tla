------------------------------ MODULE ModbusBus ------------------------------
(***************************************************************************)
(* Who talks on the field bus (main/modbus/modbus_access.c).               *)
(*                                                                         *)
(* The poller, the bus scan, controlled writes and the clients of the      *)
(* northbound server call modbus_read_channel(), modbus_write_channel()    *)
(* and modbus_read_device_identity_channel() from tasks of their own.  One *)
(* mutex keeps their transactions apart.  Whoever comes first creates it,  *)
(* with a test of s_modbus_mutex that nothing protects: modbus_rtu_init()  *)
(* at boot, when RTU is enabled, or a TCP request.  main() has started     *)
(* MQTT by then (main.c:229, 241), so that commands of the broker or the   *)
(* cloud may reach the bus before.                                         *)
(*                                                                         *)
(* Frames and answers are left out: a transaction succeeds or fails.       *)
(* mbc_master_send_request(), sockets and the mutex are external, and      *)
(* there is memory for it; modbus_destroy() has no caller once the         *)
(* controller runs.                                                        *)
(***************************************************************************)
EXTENDS Naturals, FiniteSets

CONSTANTS Tasks,        \* tasks that call into the layer
          Early,        \* those that run before modbus_rtu_init()
          MaxRequests   \* bound: requests begun

VARIABLES
  rtu,       \* config.modbus_rtu.enabled, read once at boot
  boot,      \* where modbus_rtu_init() is
  mutex,     \* s_modbus_mutex: 0 is NULL, otherwise a mutex
  holder,    \* the task that holds each mutex created, or Free
  request,   \* what each task is doing
  ready,     \* s_initialised
  aborted,   \* a task gave a mutex another one holds: configASSERT()
  begun,     \* requests begun
  hurried,   \* history: a TCP request found no mutex before modbus_rtu_init()
             \* had created it
  raced      \* history: a mutex was created although there was one

busVars ==
  <<rtu, boot, mutex, holder, request, ready, aborted, begun, hurried, raced>>

Free    == "free"
ASSUME TasksAssumption == Free \notin Tasks /\ Early \subseteq Tasks
ASSUME RequestsAssumption == MaxRequests \in Nat

Resting == [at |-> "rest", on |-> 0]
Doing(step, m) == [at |-> step, on |-> m]
Steps   == {"rest", "test", "create", "lock", "wait", "bus"}
AtStep(t, step) == request[t].at = step /\ ~aborted

BusInit ==
  /\ rtu \in BOOLEAN
  /\ boot = IF rtu THEN "test" ELSE "done"
  /\ mutex = 0 /\ holder = <<>>
  /\ ready = FALSE
  /\ request = [t \in Tasks |-> Resting]
  /\ aborted = FALSE
  /\ begun = 0
  /\ hurried = FALSE /\ raced = FALSE

\* s_modbus_mutex = xSemaphoreCreateMutex(), whatever it was before
NewMutex ==
  LET m == Cardinality(DOMAIN holder) + 1
  IN /\ mutex' = m
     /\ holder' = [k \in 1..m |-> IF k = m THEN Free ELSE holder[k]]
     /\ raced' = (raced \/ mutex # 0)

\* modbus_rtu_init() at boot: the mutex first, then the controller, which
\* may not start
BootTest ==
  /\ boot = "test" /\ ~aborted
  /\ boot' = IF mutex = 0 THEN "create" ELSE "start"
  /\ UNCHANGED <<rtu, mutex, holder, request, ready, aborted, begun, hurried,
                 raced>>

BootCreate ==
  /\ boot = "create" /\ ~aborted
  /\ NewMutex
  /\ boot' = "start"
  /\ UNCHANGED <<rtu, request, ready, aborted, begun, hurried>>

BootStart ==
  /\ boot = "start" /\ ~aborted
  /\ ready' \in BOOLEAN
  /\ boot' = "done"
  /\ UNCHANGED <<rtu, mutex, holder, request, aborted, begun, hurried, raced>>

Goes(t, next) ==
  /\ request' = [request EXCEPT ![t] = next]
  /\ UNCHANGED <<rtu, boot, ready, aborted, begun>>

BeginRequest(t, first) ==
  /\ AtStep(t, "rest") /\ begun < MaxRequests
  /\ boot = "done" \/ t \in Early
  /\ begun' = begun + 1
  /\ request' = [request EXCEPT ![t] = Doing(first, 0)]
  /\ UNCHANGED <<rtu, boot, mutex, holder, ready, aborted, hurried, raced>>

\* modbus_*_internal(): straight to the lock, refused without a controller
RtuRequest(t) == ready /\ BeginRequest(t, "lock")
TcpRequest(t) == BeginRequest(t, "test")

(* if (s_modbus_mutex == NULL) s_modbus_mutex = xSemaphoreCreateMutex();   *)
TestMutex(t) ==
  /\ AtStep(t, "test")
  /\ Goes(t, Doing(IF mutex = 0 THEN "create" ELSE "lock", 0))
  /\ hurried' = (hurried \/ (mutex = 0 /\ boot \in {"test", "create"}))
  /\ UNCHANGED <<mutex, holder, raced>>

CreateMutex(t) ==
  /\ AtStep(t, "create")
  /\ NewMutex
  /\ Goes(t, Doing("lock", 0))
  /\ UNCHANGED hurried

\* modbus_lock(): the mutex is the one of this moment
Lock(t) ==
  /\ AtStep(t, "lock") /\ mutex # 0
  /\ Goes(t, Doing("wait", mutex))
  /\ UNCHANGED <<mutex, holder, hurried, raced>>

Acquire(t) ==
  /\ AtStep(t, "wait") /\ holder[request[t].on] = Free
  /\ holder' = [holder EXCEPT ![request[t].on] = t]
  /\ Goes(t, Doing("bus", request[t].on))
  /\ UNCHANGED <<mutex, hurried, raced>>

(* Mutant: a request that waited long enough goes on without the mutex. *)
IgnoreTimeout(t) ==
  /\ AtStep(t, "wait") /\ holder[request[t].on] # Free
  /\ Goes(t, Doing("bus", request[t].on))
  /\ UNCHANGED <<mutex, holder, hurried, raced>>

\* MODBUS_MUTEX_TIMEOUT_MS: the request fails
LockTimeout(t) ==
  /\ AtStep(t, "wait") /\ holder[request[t].on] # Free
  /\ Goes(t, Resting)
  /\ UNCHANGED <<mutex, holder, hurried, raced>>

\* The exchange ended, well or not; modbus_unlock() gives the mutex of this
\* moment, and FreeRTOS asserts that nobody else holds it.
End(t) ==
  /\ AtStep(t, "bus")
  /\ holder' = [holder EXCEPT ![mutex] = Free]
  /\ aborted' = (holder[mutex] \notin {t, Free})
  /\ request' = [request EXCEPT ![t] = Resting]
  /\ UNCHANGED <<rtu, boot, mutex, ready, begun, hurried, raced>>

BusStep(t) ==
  \/ TestMutex(t) \/ CreateMutex(t) \/ Lock(t)
  \/ Acquire(t) \/ LockTimeout(t) \/ End(t)
BusNext ==
  \/ BootTest \/ BootCreate \/ BootStart
  \/ \E t \in Tasks : RtuRequest(t) \/ TcpRequest(t) \/ BusStep(t)
BusSpec == BusInit /\ [][BusNext]_busVars
-----------------------------------------------------------------------------
BusTypeOK ==
  /\ mutex \in {0} \cup DOMAIN holder
  /\ \A m \in DOMAIN holder : holder[m] \in Tasks \cup {Free}
  /\ \A t \in Tasks : request[t] \in [at : Steps, on : {0} \cup DOMAIN holder]
  /\ boot \in {"test", "create", "start", "done"}
  /\ ready \in BOOLEAN /\ aborted \in BOOLEAN /\ begun \in 0..MaxRequests

OnBus(t) == request[t].at = "bus"

(* "A single static mutex serialises every bus transaction so that multiple*)
(* FreeRTOS tasks may call into this layer concurrently" (the head of      *)
(* modbus_access.c): no two transactions at a time, and no task gives a    *)
(* mutex that another one holds.                                           *)
BusExclusive ==
  /\ \A t, u \in Tasks : OnBus(t) /\ OnBus(u) => t = u
  /\ ~aborted

(* It holds as long as one mutex was created, which is all that a request  *)
(* relies on.  With RTU enabled a second is created only if a command with *)
(* a TCP target came before modbus_rtu_init() had made the first; without, *)
(* two first requests may each create one.                                 *)
ExclusiveUnlessRaced ==
  /\ ~raced => BusExclusive
  /\ rtu /\ raced => hurried

(* Whatever the outcome of a transaction, the bus is free after it: only a *)
(* task that is on the bus holds the mutex.                                *)
LockHeldOnBus ==
  ~raced => \A m \in DOMAIN holder : holder[m] # Free => OnBus(holder[m])
=============================================================================
