# A TLA+ verification of the ESP32-S3 MCP gateway

The gateway polls Modbus devices, turns every reading into a *TCM context*, and
publishes it over MQTT, either to a custom broker or to ThingsCloud.  What
cannot be published is kept by *UIF*, the durable cache on SPI Flash and TF
card, and replayed when the connection is back.  Around this path lie the
mapping table (AMM), the discovery of devices, controlled writes, the rule
engine, the northbound Modbus server, the settings and the logs.  This
directory models these parts, checks them, and proves what it checks of their
safety for every size.

Source paths are relative to `src/main/`.

## 1. The system

### 1.1 Components

| Component | State it keeps | Operations | What makes it correct |
|---|---|---|---|
| TCM sequence source (`tcm/tcm_context.c`) | counter and reservation in RAM, bound in NVS | `tcm_init`, `next_sequence` | an identifier is never handed out twice, across resets |
| TCM state pool (`tcm/tcm_state_pool.c`) | latest context per point, two writers | update, clear, get, snapshot | a good reading is never replaced by an older good one |
| Offline store (`storage/offline_store.c`) | one file per record on two media; count and oldest per medium in RAM | init, put, peek, remove, count | no record is lost uncounted; the index agrees with the files; the oldest is served first |
| UIF (`uif/uif_persistence.c`) | the record in flight, its time, the back-off | cache, replay, acknowledgement, cloud response, connection lost | a record is removed on its own acknowledgement only, and eventually; order by `sequence_id` |
| MQTT handler (`mqtt_comm/mqtt_handler.c`) | connection state, subscriptions, tracked publishes, suspension | init, publish, publish_tracked, restart, reconnect, disconnect, events | every acknowledgement finds its record; the last life-cycle request wins; three rejected logins suspend |
| ThingsCloud adapter (`thingscloud/thingscloud_adapter.c`) | aggregation buffers, token bucket, publish guard | publish_context, flush, status, replay_context, responses | at most one aggregate per 30 s; no point lost unreported; replay and live data do not mix |
| ThingsCloud sub-devices (`thingscloud/thingscloud_subdevice.c`) | per address: state, streaks | success, failure, status | 2 successes make it online, 3 failures offline, and the platform is told |
| ThingsCloud commands (`thingscloud/thingscloud_command.c`) | none | responses, pushes, commands | each answer reaches limiter and UIF; each command is answered |
| Scheduler (`scheduler/scheduler.c`) | queues raw (8), context (4), mqtt_out (4), cache (16); network state; pause flag | six tasks, start/stop, pause for discovery | every reading is published, cached or counted as lost; pause leaves the bus idle |
| Runtime configuration (`config/runtime_config.c`) | configuration and generation in RAM; two slots and an active flag in NVS | init, get, set, reset | after a reset, the last configuration whose `set` succeeded |
| Automation (`automation/automation_engine.c`) | rules, identifiers, hold and cooldown times, hysteresis | upsert, delete, evaluate | a rule fires only when its own condition held for its hold time, and not within its cooldown; identifiers are unique |
| Control (`services/control_service.c`) | none | write_point | no write outside policy, writability and range |
| AMM mapping (`amm/amm_mapping.c`) | mapping table, version, NVS image, snapshot for the rollback | add, remove, edit, clear, import, rollback | a reboot finds the running table; a physical point is mapped once; user semantics survive imports |
| Modbus access (`modbus/modbus_access.c`) | bus mutex, TCP connections | read, write, identify; the register codec | one transaction at a time; what is written reads back |
| Modbus TCP server (`modbus/modbus_tcp_server.c`) | clients, counters | accept, read, write single, write multiple | a write passes the same checks as any other; a slot of a client comes back |
| Modbus discovery (`modbus/modbus_discover.c`) | device list, progress, scan task | full scan, bus scan, edit, toggle, delete, reset, apply | polling resumes after every scan; list and counters agree; what the user entered survives |
| Log store (`storage/log_store.c`), history store | pending buffers, active file, rotated files | append, flush, rotate, export | an export misses nothing that is flushed while it runs |
| MCP (`mcp/*.c`) | token table | JSON-RPC, issue, revoke | a revoked token is not accepted |
| OTA, health, time, network, boards, web, eval | status flags, counters | drivers and handlers | see 6 |

### 1.2 How they interact

```
 modbus_poll --raw q--> context_build --ctx q--> publish_task --mqtt_out q--> mqtt_publish_task --+
      |                    next_sequence()          |   |                          | (failed)      |
      |                                             |   +--cache q--> cache_writer |               v
      |                                  ThingsCloud|                    |         |          ESP-MQTT
      v                                   aggregates|                    v         v          |   |  ^
 state pool <-- automation, web, Modbus TCP server  |                offline_store_put        |   |  |
                                                    v                    |                    |   |  |
                                             token bucket <-- replay_task: uif_replay_all ----+   |  |
                                                                         ^                        |  |
                      replay_acknowledged / uif_replay_cloud_response <--+---- PUBACK / response -+  |
                      uif_replay_connection_lost <---- main loop, polls the connection every 5 s ----+
```

The tasks share UIF's flags without a lock (`volatile` statics), the store
under one mutex, the tracked table under the MQTT mutex and the token bucket
partly under the adapter's.

### 1.3 What is hard here

- power cuts between any two statements, against state that is partly in RAM,
  partly in NVS and partly in files;
- media that fill up, fail or are pulled out, in combination;
- an acknowledgement that is late, duplicated, lost, or handled before its
  publisher has registered it;
- answers that do not say what they answer (ThingsCloud);
- timeouts and back-offs that race the answer they wait for;
- one rate limiter for live data, status and replay;
- tables that one task edits while another walks over them or over a copy
  (rules, mappings, discovered devices, MQTT topics, log files);
- a client of the broker on which four tasks act, each on its own view;
- NVS tables of many keys, written key by key;
- bounded queues, and slow polls that compete for one bus.

`PROJECT.json` lists each of these at the line where it bites, with the
properties that cover it.

## 2. Modules

| Module | Models | State and code |
|---|---|---|
| `TcmSequence` | sequence source | `nvs` = key `seq_reserved`; `counter`, `reservedTo` = the statics; `pc` = the statement a power cut would precede |
| `DurableQueue` | what the store promises: held records and the ledger of those not counted as lost | abstract |
| `OfflineStore`, `OfflineStoreProofs`, `OfflineStoreIndexProofs` | offline store | `store[m].files/unsynced/torn` = directory and what the medium did not take of it, `count`, `oldest` = `s_flash_*`/`s_tf_*`, `io` = the medium answers, `up` = `s_flash_ready`; one action per path through `put`, one each for `peek` (when it reloads), `remove`, `init`, power cuts |
| `ConfigRegister` | what the runtime configuration promises: a register that a restart must not lose | abstract |
| `RuntimeConfig` | runtime configuration | `slots`, `active`, `legacy` = the NVS keys `runtime_a`/`_b`, `runtime_active`, `runtime`; one action per outcome of `init`, `set` and `reset`, with the stage at which the save failed or lost power |
| `TrackedReplay`, `TrackedReplayProofs` | replay to a custom broker | `outstanding`, `rseq`, `backoff` = UIF statics; `tracked` = `s_tracked`; `rpc`, `apc` = where `replay_task` and the PUBACK handler are; `conn`, `stable`, `net` = the three views of the connection |
| `CloudReplay` | replay to ThingsCloud | the same statics, `gatewayTopic`, `recent`; `tokens`, `blocked`, `suspended` = limiter and guard; `ppc` = where `publish_task` is; `SlaveStatus` is the status sent out of turn |
| `CloudAggregate`, `CloudAggregateProofs` | live telemetry to ThingsCloud | `aggregate` = the slots of `s_agg` or `s_gw_agg`, `adding` = where `thingscloud_publish_context()` is, with the mode it read, `bucket`, `guarded` = limiter and publish guard; the maintenance of `publish_task` is `FlushTick` and `StatusTick`; `SlaveChanged` is the status sent out of turn |
| `Pipeline` | readings from the poll to their destination, and the state pool | `hand` = the item each of the five tasks holds, `queue` = the FreeRTOS queues, `route` = what `publish_task` decided; one action per queue operation and decision |
| `PollPlan` | which mapping is polled next | `plan` = the task's copy of the table, `lastPoll` = `last_poll_ms`, `observed` = the model version it saw |
| `ModbusBus` | who is on the field bus | `mutex` = `s_modbus_mutex`, with its creation by `modbus_rtu_init()` (`boot`) or on first use; `request` = where each task is in its request |
| `Northbound` | register codec, controlled writes, northbound server | `regs` = the device's registers, `states` = the values the pool held, `reply` = the words read so far, `listed` = `active_clients` |
| `Discovery` | the scans and the device list | `devices` = `s_devices`, `progress` = `s_result`, `at` = where the scan task is, `silenced` = `s_modbus_poll_paused`, `mapped` = the AMM as an import sees it |
| `AmmStore` | mapping table and NVS | `mappings` = the table in RAM, `ammNvs` = NVS key by key, `job` = the writes an operation still has to do, in its order |
| `Automation` | rule engine | `rules`, `since`, `last`, `holds` = the statics, by position; `copy`, `now`, `at` = the pass under way with the time it read; `clock` = the real time, which goes on during an execution; `saved` = the NVS blob |
| `MqttLifecycle` | life of the resident client | `web`, `restart`, `delay` = where the web server, the restart task and the supervisor are; `applied`, `auto`, `request`, `drop` = the client's state; `event` = where the event handler is; `subs` = what the broker knows |
| `LogExport` | log store, ring and export | `ring`, `pending`, `writing` = the buffers, `activeFile`, `old` = the card, `export` = the handler of the web server |
| `Arrays` | tables with a count | what a loop over an array that moves entries up leaves of it |
| `MCSafety`, `MCGateway`, `MCCloud` | models for TLC of several components | `part` = the component whose steps a behaviour takes |
| `ArraysProofs`, `LocalStateProofs`, `FieldProofs`, `GatewayProofs` | proofs about several modules each: section 5 | |

The pieces fit as follows.  `TcmSequence` provides the assumption that the other
modules make about identifiers (each is put at most once: `handed`).
`OfflineStore` implements `DurableQueue`; the two replay modules take the store
as a set of held records with "peek the lowest, remove one, evict the lowest",
which is the store without faults of its media, and `Pipeline` as a set.
`CloudAggregate` sees a replay as a switch that holds it back, `CloudReplay` sees
live telemetry as competition for its token and its topics.  `Discovery` uses the
import of the AMM; `AmmStore` has its writes and their failures.  Components with
shared state are in one module, or each has the other's effect on it as actions.

The three `MC` modules put components side by side that share no state.  A
behaviour chooses one of them at the start (`part`) and the others stay in one
initial state, so that a run explores the sum of the state spaces; a condition of
fairness is the union of a step of each, which is sound because only one moves.

Variables marked *history* exist in no code.  They record what the code does
not keep: `owed` (accepted, not removed and not counted in `s_data_loss`, or an
entry an export must contain), `delivered`, `answered`, `overtaken`, `matching`,
`unsent`, `burst` and others, and the markers that say which promise a fault, or an order
of events that the code does not handle, has voided (`ragged`, `late`, `tainted`, `torn`,
`faulted`, `ahead`, `touched`, `hurried`, `raced`, `missed`, `overtaken`, `forgone`).

### Abstractions

- A record is its `sequence_id`; a mapping is its physical point, who gave it its
  meaning and its active flag; a log entry is its number and its uptime; a rule is
  its identifier and its source; a save of settings is a version and the
  "enabled" switch.
- A file of the store is complete, unsynced or torn.  `write_record()` ignores what
  `fsync()` and `fclose()` return (`offline_store.c:168-169`), so an unsynced file is
  incomplete and was reported stored all the same; it can be read if its two header lines
  arrived (`Headed`: the records of which they do).  A file that is torn was reported as
  failed, or its writing was cut by a power failure.  `unlink()` fails only with
  its medium, and a power cut leaves every unsynced file its name.
- Time: a deadline is a flag that a step of the environment clears.  Where lengths
  matter it is a small clock: `PollPlan` (intervals and how long a poll takes),
  `Automation` (hold, cooldown, and how long an execution takes), `CloudAggregate`
  (refills).
- `Northbound`: a byte has `Base` values instead of 256, so that overflow is in
  reach; types, registers and byte orders are the code's.  Engineering values, scale
  factors and offsets are `float` in the code and whole numbers here: the quotient of a
  write is rounded as in the code, a `BOOL` is taken from it before (`WireWords`), and the
  rounding of a fractional factor is outside the model.
- Identifiers are unbounded naturals below a bound of the model.  Message ids of
  messages under way or still registered are not reused.
- The test and decrement of the token bucket are one step, and so is what
  `uif_replay_all()` does before a ThingsCloud publish in `CloudReplay`
  (`TrackedReplay` has each assignment as a step).
- `Discovery`: the steps of the scan end where it waits for the bus.  The list
  has no lock, so two accesses in the same instant (the scan appends a device while the
  web server deletes one) are a data race in C; its outcomes are not modelled.  An
  import that comes to nothing (a conflict of device ids, `amm_mapping.c:697-712`, or a
  failing save) leaves the table as it was.
- A configuration has passed validation; a record of an older layout stands for
  the configuration its migration makes of it.

## 3. Runs

| Run | Question | Bounds, and why they are enough |
|---|---|---|
| `store` | is the ledger exact, the index what a scan would give, the order kept, the queue implemented? | 2 records per medium and 4 identifiers, one of which is readable when incomplete: both media full, overflow, eviction from each, late arrival, a retry that evicts twice, and any write reported good that is not |
| `store_torn` | does peek recover from an interrupted or incomplete write, as its comment says? | **no**: see 4 |
| `replay` | is every cached record eventually acknowledged? | 2 records, 2 slots, 1 fault of any kind at any moment |
| `replay_safety` | is a record removed only after delivery, and in order? | 3 records for a store of 2 and 1 slot, 2 faults: eviction of the record in flight, a full table, a late PUBACK |
| `replay_leak` | the question of `replay` with as many faults as slots | **no**: see 4 |
| `safety` | what eight components may never do, each by itself | see below |
| `gateway` | what three groups of interleaved tasks may never do, and must do | see below |
| `cloud` | does live telemetry keep the rate and its data, does every replay attempt end, and is none starved? | aggregate: two points for a buffer of two and packets of two (full and replaced slots, one packet), three events out of a lost session, a change of mode, a replay, a 403 or 413, slave status, a packet that fails or has no memory, a value that is no number; replay: 2 records of which one cannot be sent, both report modes, an answer of each class, slave status at any moment, 1 fault |
| `cloud_packets` | is every point of an aggregate of several packets published? | **no**: see 4; packets of one point, where `cloud` has packets of two |
| `cloud_drain` | is a cached record completed by the platform's answer? | **no**: see 4 |
| `cloud_mistaken` | is a record removed only by its own answer? | **no**: see 4 |
| `config_upgrade` | does a migration keep the latest settings? | **no**: see 4 |

`safety` has eight parts:

| Part | Properties | Bounds |
|---|---|---|
| `TcmSequence` | `ReservationCoversIssued`, `AscendingIssue` | blocks of 2, identifiers to 8: several reservations, boots and failures in one behaviour |
| `RuntimeConfig` | `Recoverable`, `RegisterSpec` | 3 configurations, generations to 5, from an empty store, a v1 blob and every pair of v2/v3 slots: a migration, refused saves and cuts at each stage, and saves after them |
| `PollPlan` | `NoStarvation` | 3 mappings, polls that take up to three intervals, one edit of the table, both priorities |
| `ModbusBus` | `ExclusiveUnlessRaced` | 3 tasks (one on the bus, one that waits, one that times out), one of which may come before `modbus_rtu_init()`, RTU enabled or not, 5 requests |
| `Northbound` | `WriteReadsBack` | every integer type, every byte order, scale and offset, values beyond a type that wraps at 4 or 16, a `BOOL` whose quotient rounds to another truth value |
| `AmmStore` | `StoredIsRunning`, `PointMappedOnce`, `UserSemanticsKept` | 3 points (two share an address), 3 slots, a snapshot of 2, 3 operations, 1 failing write or cut; from an empty NVS or an older firmware's table |
| `Automation` | `IdsUnique`, `HoldRespected`, `CooldownRespected` | 2 rules, any identifier to 2 of the engine's or the client's choice, 3 edits or restarts at any moment of a pass, executions that outlast hold and cooldown, 1 failing save: a rule that moves to another slot, an identifier that comes back |
| `LogExport` | `FlushedMeanwhileKept` | 2 loggers, buffers and a ring of 2, files of one entry, a card that holds one, 3 entries: swap, rotation and removal in every place of an export, with and without its tail |

`gateway` has three:

| Part | Properties | Bounds |
|---|---|---|
| `Pipeline` | `LossAccounted`, `PoolForward`, `ReadingsSettle` | queues of 2 and 1 for 8, 4, 4 and 16, so every queue fills; 2 points for a pool of 1, so it evicts; 3 readings, 3 changes of connection, platform or storage |
| `Discovery` | `ListSettled`, `PollingResumes`, `EditsSurviveApply` | 2 slaves with 2 registers, one of them in the profile, a table of 3 with a point of the user's on each; 2 scans, which may find no memory for their task, 2 calls of the web interface at any moment |
| `MqttLifecycle` | `TopicsAtBroker`, `StopHolds`, `RestartFinishes` | 2 saves, of MQTT on or off, 2 connections, suspension after 2 refusals for 3, 1 failing call or SUBSCRIBE: a save during a restart or a test, an event during each |

The type invariant of each run (`SafetyTypeOK` etc.) is the conjunction of those of
its parts.  Deadlock is not checked where the bounds stop a part.

### Fairness

The safety properties need none.  For liveness:
- the steps of a task that is running: weak fairness (FreeRTOS schedules every
  ready task, and each of these blocks with a timeout).  `Pipeline` has one
  condition per task, `MqttLifecycle` one per task that takes the mutex,
  `Discovery` one for the scan, whose requests to the bus end by a timeout;
- time passing (back-off, 20 s since boot, 10 s of connection, refills), the
  five-second poll of the main loop, the reconnect (ESP-MQTT retries for
  ever) and, per message, delivery and handling of its acknowledgement, or, for
  ThingsCloud, of some answer;
- the flush of `CloudAggregate` is strongly fair.  It is due three times in the
  time of one refill, and done when `publish_task` finds its queue empty for
  200 ms (`scheduler.c:407`).  A gateway that is never idle for 200 ms never
  flushes by time, and never reports its status; the assumption excludes that load.

Nothing is asked of faults, of new records or readings, of the user or of the
broker: those may stop or continue for ever, within the bounds.

## 4. What the runs show

Holds, on the instances above:
- identifiers ascend across any number of resets at any statement.  The
  exceptions are the code's own: a reset while the latest NVS write had failed,
  and NVS erased or unreadable at boot (`tainted`);
- every record that was accepted, and is not counted as lost, has a file, under any
  combination of full, failing and missing media.  That file is complete unless
  `fsync()` or `fclose()` failed for it, of which the store takes no notice (see below).
  Its index stays exact, except after a failed
  write left a file that no scan has counted yet (`ragged`), and except that
  the evicting branch may index a record that is not the lowest (`late`);
- only a record that the broker has received is ever removed on a PUBACK, and
  records arrive in sequence, except those stored late;
- with ThingsCloud, every attempt ends and replay is not starved, except behind
  a record that the current mode cannot send, by a 413, or by slaves that change their
  state for ever;
- live telemetry stays within the bucket's rate, and a point that the adapter
  took is kept until its newest value is sent, but for three ways to lose it
  (`forgone`, below), and is sent eventually if the aggregate fits one packet and what
  goes wrong comes to an end;
- an acknowledged configuration survives any restart until a later save is begun.
  A save that was *refused* after its slot was written may come back at a
  restart, since start-up goes by generation and not by the flag, and may be
  lost again by a later refused save, which then overwrites the slot in use:
  the register of `ConfigRegister` is the strongest promise the code keeps.
- every reading ends in one place: sent, cached, refused by validation, or
  counted as lost or failed; none stays in the pipeline for ever, and the state
  pool never goes back from a good reading to an older one;
- while a mapping is due, no other is polled twice, whatever the priorities;
- no two transactions overlap, and nobody gives away another's mutex, as long as one
  mutex was created; with RTU enabled a second is created only if a command with a TCP
  target came before `modbus_rtu_init()` had created the first (`main.c:229`, `241`);
- a write whose raw value fits the type reads back as the same number (a `BOOL`, if
  the value is that of 0 or 1);
- a reboot finds the mapping table that was running, after any sequence of
  operations none of which failed since the start; a physical point is mapped
  once unless an operation was broken off; imports keep what the user entered;
- rule identifiers are unique, whatever saves fail and whenever it restarts, except
  those that a client chose before `s_next_id` had reached them; rules respect their
  hold time and their cooldown by the clock, less the time by which the pass had begun
  before it got to the rule;
- after a scan that began the device list and its counters agree, whatever was edited
  during it; polling resumes; applying the list leaves the user's points to the user or
  drops them with what the device has no more, and makes no point raw of which every copy
  was confirmed;
- a restart of the MQTT client ends on each of its error paths, a user's stop
  holds, and on a live connection the broker has every topic whose SUBSCRIBE was sent;
- an export with its tail contains what is flushed to the card while it runs.

Does not hold, and is a finding in `PROJECT.json`:
- **`store_torn`**.  The comment of `offline_store_peek_oldest()` says that a
  reload recovers the index after an interrupted write.  The scan finds the
  unreadable file again, so it stays the oldest and blocks every later record.  In the
  run the file is one that did not reach its medium and counts as stored; one that a power
  cut or a failing `fprintf()` leaves has the same effect.
- **`replay_leak`**.  A slot of the tracked table is freed by a PUBACK and by
  nothing else.  After 32 lost or overtaking PUBACKs in the life of a client,
  each replayed record is published, refused a slot and published again.
- **`cloud_drain`**.  The flag for the topic of the answer is the opposite of
  the topic that the record is sent to.  No answer ever completes a record.
- **`cloud_mistaken`**.  The reverse of the medal: in sub-device mode the answer
  to a gateway *status*, sent after its check but before a record was marked,
  completes that record.
- **`config_upgrade`**.  For the current layout start-up compares generations; for
  v2 and v3 it takes slot A if it can.  A gateway whose latest save went to slot
  B goes back to the settings before it when its firmware is upgraded.
- **`cloud_packets`**.  A flush sends an aggregate packet by packet and needs a
  token for each; there is one token.  The second packet is throttled, the whole
  buffer is kept, and the next flush begins with the first packet again.

What the models show besides, and no property asks for (no source promises it,
or it is the exception of a property above):
- Store: a record whose `fsync()` or `fclose()` fails (`offline_store.c:168-169`: a full or
  failing medium) is reported stored, leaves its queue, is never charged to the loss
  metric, and is replayed truncated if its header lines arrived, or blocks the replay as in
  `store_torn` if not.
- Automation: the API passes on any identifier (`automation_web.c:96`), and an insertion
  does not raise `s_next_id` above it (`automation_engine.c:116-124`): after a rule with
  the identifier of the next one, a rule without gets the same.  `now` is read once per
  pass (269), and `execute_rule()` of earlier rules blocks (290): a hold time or a
  cooldown that is counted from the pass's beginning is shorter by as much.  A rule
  replaced or deleted during a pass is still looked at and fires if it has no hold time.
- AMM: a save or an import that a power cut breaks off leaves a table of both
  states, or one that does not load, since each blob is written by itself;
  `amm_remove_mapping_for_channel()` takes the first mapping at the address
  whatever its function code (`amm_mapping.c:493`), so moving a holding register can
  remove an input register.
- MQTT: settings saved while a restart is pending start no second one
  (`web_server.c:720`); if the first has read the configuration they are not applied.
  `enabled = false` (636) saved so is overtaken: the first restart connects.  So does a
  connection test that looked at `s_suspended` before it waited for the mutex
  (`mqtt_handler.c:1123-1146`).  A SUBSCRIBE that the client cannot send on a live
  link is not sent again before the next connection (276-281, 853-857).
- Northbound: a raw value beyond the type wraps, so a device can get a value
  outside the range that was checked (`control_service.c:46`); single registers
  with a byte-swapping order are swapped on the way in only; a reply of several
  registers looks each up anew (`modbus_tcp_server.c`, `read_word()`) and can mix
  two readings.
- Modbus access: the mutex is created by the first TCP request or by `modbus_rtu_init()`,
  with an unprotected test (`modbus_access.c:581`, `906`, `933`): two tasks can create two,
  both be on the bus, and the first give back the other's, on which FreeRTOS asserts.
  Without RTU these are any two first requests; with RTU, the start itself and a
  command of the broker, to which it is connected by then.
- Log export: the tail is left out when the ring's mutex is not free within 100 ms or
  the copy cannot be allocated (`modbus_comm_log.c:132`, `143-145`); the export
  completes and tells nobody (`web_server.c:1706`).  Entries of the millisecond of the
  watermark, entries that `ensure_free_space()` removes with their file, and those of a
  buffer whose write failed (which is dropped, although the message says "will retry",
  `log_store.c:206`) are missing.
- Discovery: edits of a discovered register count only if no profile resolves its
  device.  A register listed twice is edited in its first copy and imported from its last
  (`amm_mapping.c:793`), so what the user confirmed becomes raw.  An import drops the
  device's points that it does not bring, the user's too.  A full scan for whose task there
  is no memory has zeroed the counters of the list that stays (`modbus_discover.c:976`,
  `989`).
- ThingsCloud: a point that was taken is lost when the mode changes, also for the
  points that `thingscloud_publish_context()` still collects by the mode it read before
  (`thingscloud_adapter.c:701`, `711`); when in gateway mode there is no memory to print a
  packet, which then counts as sent (398-403, 413-418); and when a later value of it is no
  number and clears its slot (566, 632, 689), which sub-device mode sends as an empty
  object.  Slave status out of turn (`thingscloud_subdevice.c:119`) asks neither whether a
  replay is under way nor whose turn the token is.
- Pipeline: on overflow the code drops the new item, where its comment says the
  oldest (`scheduler.c:280`).
- Configuration and replay: the exceptions named above (`tainted`, `ragged`, `late`).

## 5. Proofs

TLAPS checks every obligation; the theorems hold for every value of the constants under
the named assumptions of the modules.  Every invariant and every action property that a
passing run checks is the conclusion of a theorem; the run shows it on an instance, the
theorem for every size.  A theorem is about the specification of its component, without
its fairness (`PipelineSteps` is `PipelineSpec` without, and so on); and `SafetyHolds`,
`GatewaySafe` and `CloudSideSafe` are about the composed specifications that the runs
`safety`, `gateway` and `cloud` check.

**`ArraysProofs`** has what the tables of the code need.  They are moved together
entry by entry, and what such a loop leaves is a fact about every length.  The
library's induction theorems take an operator and cannot be used; `UpTo` is induction
up to a bound over a *set*, from the least element of its complement
(`LeastExists`, from the well-foundedness of `<`).  `Recursion` is the existence of a
function defined step by step, from which `Arrays`' `Compacted` and `Without` are
shown to be the entries that stay, in their order.

### `LocalStateProofs`: what the gateway keeps of itself

*Sequence source* (`ReservationAssumption`: the block size is a positive natural):
`TypeCorrect`, `ReservationSafe`, `IssueAscends`.  `ReservationCoversIssued` is not
inductive: nothing in it says that the counter stays inside the reservation.
`SeqInv` adds the relation of counter, reservation and NVS at each statement: within
the reservation; NVS equal to the reservation once the latest write succeeded;
everything issued at most the counter.

*Configuration* (`ConfigAssumption`, and `"flagged" \notin Faults`: a save that has
moved the flag does not report an error): `ConfigRecoverable`,
`ConfigRefinesRegister`.  `Recoverable` is not inductive: a save that corrupts its slot
leaves what start-up finds without it, and a save succeeds only if its generation
outranks the other slot's.  `ConfigInv` adds both: `FallbackRecoverable` (the selection
without the slot that the flag does not name is acceptable too) and `FlagNotAhead`
(the slot the flag names is never ahead of `s_generation`).  `SelectedWritten` says
what start-up selects after one slot is written, `SaveStep` what each stage of a
save leaves; the three ways to leave a save without success share step `<1>8` of
`ConfigInvNext`.  The refinement maps each action to one of the register, and an
aborted start-up to a stutter (`RegisterStep`).  The assumption is needed: with
`"flagged"` among the faults, TLC finds an acknowledged configuration displaced by a
refused one of the same generation.

*Automation* (`RulesAssumption`, `DelaysAssumption`, `RuleBoundAssumption`):
`RuleIdsUnique`, `HoldTimesRespected`, `CooldownsRespected`, `AutomationTypeCorrect`.
`IdsInv`: identifiers are below `next_id` or a client's choice (`ahead`), and no two are
the same but those, in the table and in its NVS copy, so that a restart from an older
copy brings none back.  `HoldInv`: what the engine takes for the beginning of a run of
matches is never before the pass that first saw one, at every position, although rules
move between positions.  `StrayInv`: a slot whose rule an edit replaced has no time
until the pass, which has the rule of before, comes to it.  `CooldownInv`: the engine
remembers every firing but the one under way, by the beginning of its pass.  `PassInv`:
the pass is inside its copy of the table, and began in the past.  `RuleBounds` adds the
capacity.

*Log and export* (`BuffersAssumption` for the bounds): `ExportKeepsWhatIsFlushed`,
`LogTypeCorrect`.  `KeptInv`: no entry is newer than the newest; what an export owes is
above its watermark, and an export with its tail has all of it that the ring still has:
the tail is all of the ring above that mark.
`LogBounds` has the buffers and the ascending names of rotated files.

*Mapping table* (`TableAssumption`, `ImageAssumption`): `StoredTableIsRunning`,
`PointsMappedOnce`, `UserEditsSurviveImport`, `AmmTypeCorrect`.  An operation is a
list of writes still to be done, so an invariant has to say where a list leads: `Leads`
(the NVS after all of them holds the table that RAM has after all of them),
and `Clean` (no table among them maps a point twice).  `AmmInv` is `StoredInv`,
`SlotInv`, `DealInv` (an import has its change of RAM as its last) and the types.
`Sets`, `Ends` and `Leads` describe what each operation's list does once, for all
operations.  That an import keeps what the user entered is a fact about merging
a batch of any length and rests on `Recursion`.

### `OfflineStoreProofs`, `OfflineStoreIndexProofs`

From `SeqsAssumption` (identifiers are positive naturals, finitely many):
`StoreTypeCorrect`, `StoreNoSilentLoss` and `StoreImplementsQueue` (`Spec =>
QueueSpec`).  `StoreInv` adds to the types and `NoSilentLoss` that whatever is stored
was handed to the store.  Every helper keeps all files but those that its caller charges
or was asked to remove (`Keeps`), brings none but the record being put, and leaves no
other incomplete (`Gains`); there is one lemma per helper for each.  The queue says so
too: `flawed`, the unsynced files, grows by the record accepted at most.  A put is an
`Accept` or a `GiveUp` of the queue with at most two records evicted (`PutIsQueueStep`):
a record that is charged but no longer held changes nothing, by `NoSilentLoss`.  A put
cut off by a power failure costs at most those, and not the file it had opened
(`OpenedHolds`).  One lemma per action gives `QueueStep`; that nothing owed is missing
then follows from the queue alone (`QueueKeepsOwed`).

With `MaxRecordsAssumption` (Flash holds a record): `StoreIndexExact`,
`StoreFlashBounded` and `StorePeekIsOldest`.  `IndexExact` is not inductive: that a new
file adds one to the count needs that it was not there (`NamesHanded`: a name on a
medium was handed over, and a put comes with a new one), and that a card that
answers was mounted (`CardMounted`).  `IndexInv` is these, `AllExact` and `FlashBounded`.
Within a put the directory may already hold the file of the record while the index does
not count it; `ExactBut` says so, and each helper has a lemma with it.
`NewestBounded` is for the pruning at boot, `CandidateIsLeast` for the
comparison of the two media in a peek.

### `TrackedReplayProofs`: replay to a custom broker

From the assumptions of `TrackedReplay` (positive sequence identifiers and message
ids, finitely many; at least one slot): `ReplayTypeCorrect`, `RemovesOnlyDelivered`
and `ReplaysInSequence`.  `RemovedOnlyIfDelivered` needs that a message, its slot and
the token of its acknowledgement name the same record: `OneRecordPerId` (everything
that carries a message id carries the record it was given for), `AnsweredArrived` (an
acknowledgement under way is for a delivered record) and `RemovesArrived` (so is the
record the handler is about to remove).  `ReplayInv` is these and the types, with one
lemma per group of actions.  `TableInv` bounds the table by `Slots`.  `OrderInv` is for the
sequence: whatever was stored below a record that is on its way is delivered, lost or
late, and whatever was stored is held, lost or removed.

### `CloudAggregateProofs`: ThingsCloud

From `BufferAssumption` (a packet holds a point) and `TokensAssumption`: `RateIsKept`
and `UnsentIsKept`.  `AggInv` adds to the types that the bucket and what was spent since
the last refill are together at most the bucket's size (`TokensLeft`): a sender spends
no more than is there (`PassedWithinBucket`).  A flush empties the buffer only if every
packet was sent or passed over, and by the arithmetic of the packing (`PacketsNeeded`,
`SlotPacked`) every point is in one, so it is sent or given up (`EmptiedIsCarried`).
`StaleMode` is for the mode that `thingscloud_publish_context()` reads once: what a
buffer of another mode held is given up already.  `AggBounds` (a point is appended only
where there is room) and `CloudTypes` (the record in flight is one of the store's) give
`CloudSideTypeCorrect`.

`OwnAnswersIgnored` and `NothingReplayedInGatewayMode` are about the finding of
`cloud_drain`: not a counterexample on one record but a fact about all of them.
`TopicsInv` says that the topic noted for an answer and the topic that records go to
are never the same, in either mode; so the answer to a record never changes the
store, and in gateway mode no answer at all removes a record.  `CloudSideSafe` has
these and the two of live telemetry for the common model.

### `FieldProofs`: polling, the bus and writes

*Polling* (the assumptions of `PollPlan`; 0 is an interval, "not set"):
`NoMappingStarves`, `PollPlanTypes`.  `PollInv` adds to the types that whoever was polled
while an entry was due was polled later than that entry (`Later`).  `NotTwice`: if it
were selected again, the entry, which waited longer, would have been selected before it.

*Bus* (`TasksAssumption`: no task is called `Free`, and those that come before
`modbus_rtu_init()` are tasks): `OneTransactionAtATime`, `LockFollowsBus`,
`BusTypeCorrect`.  `BusInv`: until a second mutex is created (`raced`), there is at most one
and a task is on the bus exactly if it holds it.  `HurryInv`, with RTU enabled and no
request that found no mutex before the start had created it: that is the case,
as the start creates it and nobody else is in the middle of it.

*Writes* (`BaseAssumption`: a byte has at least two values; `PointsAssumption`: scale
factors are positive whole numbers): `ControlledWritesArrive`, `NorthTypeCorrect`.  The
core is that decoding is the inverse of encoding (`RoundTrip`), for every value that the
type can hold, in every byte order for types of two registers and in those that do not
swap bytes for single ones (4 names that asymmetry): swapping bytes or words twice gives
the word back, and quotient and remainder by the span put it together again.  For a
`BOOL`, which is not written from its raw number, `WrittenComesBack` has the two values
that mean 0 and 1.  `NorthInv` says that after an accepted write the registers hold its
encoding until the next.

`SafetyTypeCorrect` is about the composed `SafetySpec`: a step of it is a step of one
part and stutters for the others (`PartsStep`), so it implements the specification of
each (`PartsImplemented`) and each theorem applies; `SafetyHolds` collects the others.

### `GatewayProofs`: three groups of tasks

*Pipeline* (`PipelineAssumption`): `ReadingsAccounted`, `PoolMovesForward`.  `FlowInv`:
each number polled is in one column of a `Ledger` (travelling, cached, sent, kept, or
lost), and the lost are no more than were counted.  The property is about a cardinality
over five hands and four queues; that no number is in two places lets places be
counted instead of numbers.  `PoolInv`: numbers ascend along the raw queue, and the pool
is behind all that are still to come.

*MQTT client* (`CallsAssumption`): `TopicsReachTheBroker`, `StopIsKept`.  `TableInv`
and `SubsInv`: on a live link the broker knows the whole topic table but for the topic
that the restart task has entered in this step and those whose SUBSCRIBE failed on it
(`missed`).  `SettingsInv`, `MutexInv` (who applies settings holds the mutex) and
`OffInv` (switched off, and not overtaken by an older restart or a test, the client is
suspended, nobody is about to start it, and neither automatic nor requested reconnects
are left) give the other.

*Discovery* (`ScanAssumption`, `ProfileAssumption`, `TablesAssumption`: any mapping
table within its capacity may be there at the start): `DiscoveryTypeCorrect`,
`ListSettles`, `EditsSurvive`.  `ListSettled` speaks of the end of a scan;
`DiscoveryInv` says what holds at each of its steps: the list ascends by address,
registers are empty ahead of the scan and for a device that went away, and the counters
count what is listed, whatever the web interface deletes or toggles between two steps,
or, after a full scan that found no memory for its task, are zero.  `EditsSurvive` says
what an apply does to the table: `ProfileBatchIs` and `RawBatchIs` describe the batches
that are built register by register, `ImportTakes` what an import of any batch, which
may come to nothing, leaves of each mapping, and what it drops; they rest on
`ArraysProofs`.

`GatewayTypeCorrect` adds the capacities: `PipeBounds` (queues, pool), `MqttTyped`
(refused logins, requests under way) and `ScanTyped`.  `GatewaySafe` is the other six
for the common model, by `GatewayPartsImplemented`.

### Only model-checked

All liveness: `CacheDrains`, `EveryPointPublished`, `AttemptEnds`,
`ReplayKeepsTrying`, `ReadingsSettle`, `PollingResumes` and `RestartFinishes`.  With
fairness and `ENABLED` these are out of the prover's reach.  So are the counterexamples
of section 4, by their nature.

## 6. Not modelled, and why

- drivers, sockets, frames, HTTP parsing and page generation (`board/`,
  `network/`, most of `web/`, MCP's HTTP side, the framing in `modbus/`): I/O
  around state that other components keep, and that is modelled there;
- TCM contexts, JSON, topics, naming heuristics: formatting without state; no
  property here is about it;
- the debouncing of ThingsCloud sub-devices: two counters per address with one
  caller.  (`thingscloud_subdevice.c:97` says that a transition while disconnected is
  reported on reconnect; `thingscloud_subdev_republish_all_online()` has no
  caller.);
- `FLOAT32`, `FLOAT64`, the 64-bit types, `BCD16` and `ASCII` in `Northbound`: they
  differ from the modelled ones in what the bits mean or in their number;
- OTA (the bootloader's), health and time (wrappers), the history file
  (append only), the MCP token (one NVS blob), evaluation counters;
- the format of the Flash partition when it cannot be mounted
  (`format_if_mount_failed`): inside ESP-IDF; the store is assumed to mount;
- an NVS read that fails at start-up although the slot is good, and a migrated
  configuration that no longer passes validation: both are taken not to happen;
- `scheduler_set_network_state()` giving up on its mutex after 100 ms, and the
  two instructions between test and decrement of the token bucket;
- functions without a caller: `scheduler_stop()`, `mqtt_destroy()`,
  `modbus_tcp_server_stop()`, `amm_update_mapping()`, `amm_remove_mapping()`;
- the read-only functions: counts, statistics, diagnostics.

## 7. What could follow

- The exceptions that a property names (`tainted`, `ragged`, `late`, `faulted`, `raced`,
  `missed`) say after which fault a promise is void for good.  Most are void only until
  the next restart or scan; stated so, the properties would be stronger.
- The bus of `ModbusBus` under `Pipeline`'s polls and `Discovery`'s scans in one
  model: today each sees the others as time passing.
- MCP's tools and token with `control_service_write_point()`.

## 8. Running

```
tlc -workers 2 -config OfflineStore.cfg OfflineStore
tlc -workers 2 -config MCSafety.cfg MCSafety
tlapm TrackedReplayProofs.tla
```

Each run of section 3 names its module and configuration in `PROJECT.json`.
All state spaces of passing runs are explored completely: about 0.27 million
states for `store`, 0.6 million for `replay`, 2.4 million for `replay_safety`,
1.2 million for `safety`, 0.39 million for `gateway` and 0.17 million for `cloud`.
