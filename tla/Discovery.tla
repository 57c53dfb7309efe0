----------------------------- MODULE Discovery -----------------------------
(***************************************************************************)
(* Device discovery (main/modbus/modbus_discover.c) with the handlers of   *)
(* web_server.c and mcp_http.c that drive it.                              *)
(*                                                                         *)
(* One scan task at a time probes the slaves of a bus or an endpoint, and  *)
(* a full scan then reads the registers of each.  It fills s_devices       *)
(* without a lock while the web server, one task, edits the same list; the *)
(* steps here end where the scan waits for the bus (that both write the    *)
(* list in one instant on two cores is left out).  An answer of the bus    *)
(* is any that the line can give: a slave may be silent, may refuse, and   *)
(* may disappear between two requests.  A scan covers one bus, so a device *)
(* is its slave id.  Function codes, values and names are left out: an     *)
(* address answers under one function code.  `mapped' is the AMM as an     *)
(* import sees it (AmmStore has its persistence and its failures).         *)
(***************************************************************************)
EXTENDS Integers, Sequences, FiniteSets, Arrays

CONSTANTS LastSlave,     \* a scan probes 1 .. LastSlave
          LastRegister,  \* and reads 1 .. LastRegister
          ListCapacity,  \* s_device_capacity
          MaxRegisters,  \* DISCOVER_MAX_REGS_PER_SLAVE
          MaxEmptyGap,   \* max_empty_gap
          Profile,       \* lab_profile.json: per slave <<address, width>>
          AmmCapacity,   \* amm_get_capacity()
          Tables,        \* what the AMM may hold from before the restart
          MaxScans, MaxWebCalls  \* bounds

ASSUME ScanAssumption ==
  /\ {LastSlave, LastRegister, ListCapacity, MaxRegisters, AmmCapacity}
       \subseteq Nat
  /\ LastSlave > 0
\* LastRegister bounds the addresses of the profile too
ASSUME ProfileAssumption ==
  /\ Profile \in [1..LastSlave -> Seq((1..LastRegister) \X Nat)]
  /\ \A s \in 1..LastSlave : \A i \in DOMAIN Profile[s] :
       Profile[s][i][1] + Profile[s][i][2] <= LastRegister + 2
ASSUME TablesAssumption ==
  \A amm \in Tables : Cardinality(DOMAIN amm) <= AmmCapacity

VARIABLES
  devices,   \* s_devices[0 .. s_device_count)
  progress,  \* s_result: [busy, found, registers]
  scanTask,  \* s_scan_task: "none", "bus" or "full"
  lastScan,  \* history: the last scan that began; "refused" if there was no
             \* memory for the task of a full scan since
  at,        \* the step of the scan task
  silenced,  \* s_modbus_poll_paused
  mapped,    \* AMM: point |-> "raw", "profile" or "user"
  scans, calls

scanVars == <<devices, progress, scanTask, lastScan, at, silenced, mapped,
              scans, calls>>

Off == [step |-> "off", i |-> 0, addr |-> 0, gap |-> 0]
Empty == [busy |-> FALSE, found |-> 0, registers |-> 0]

DiscoveryInit ==
  /\ devices = <<>> /\ progress = Empty
  /\ scanTask = "none" /\ lastScan = "none" /\ at = Off
  /\ silenced = FALSE
  /\ mapped \in Tables
  /\ scans = 0 /\ calls = 0
-----------------------------------------------------------------------------
Lower(a, b) == IF a < b THEN a ELSE b
Register(a) == [addr |-> a, valid |-> TRUE, edited |-> FALSE]
\* discovered_has_register()
Has(dev, a) == \E j \in DOMAIN dev.regs :
                 dev.regs[j].addr = a /\ dev.regs[j].valid
\* the registers of a block as far as there is room (and, if linear, as far
\* as the scanned range goes)
Block(dev, a, n) ==
  [j \in 1..Lower(n, MaxRegisters - Len(dev.regs)) |-> Register(a + j - 1)]
-----------------------------------------------------------------------------
(* modbus_discover_full_scan() and modbus_discover_scan_bus(): the start. *)
MayStart == scanTask = "none" /\ ~progress.busy /\ scans < MaxScans

StartFullScan ==
  /\ MayStart
  /\ scanTask' = "full" /\ lastScan' = "full"
  /\ progress' = [Empty EXCEPT !.busy = TRUE]
  /\ at' = [Off EXCEPT !.step = "begin"]
  /\ scans' = scans + 1
  /\ UNCHANGED <<devices, silenced, mapped, calls>>

\* the counters of the scan before stay
StartBusScan ==
  /\ MayStart
  /\ scanTask' = "bus" /\ lastScan' = "bus"
  /\ progress' = [progress EXCEPT !.busy = TRUE]
  /\ at' = [Off EXCEPT !.step = "begin"]
  /\ scans' = scans + 1
  /\ UNCHANGED <<devices, silenced, mapped, calls>>

\* no memory for the task: a full scan has forgotten the counters by then,
\* a scan of the bus leaves everything as it was
StartFails ==
  /\ MayStart
  /\ \/ lastScan' = "refused" /\ progress' = Empty
     \/ UNCHANGED <<lastScan, progress>>
  /\ scans' = scans + 1
  /\ UNCHANGED <<devices, scanTask, at, silenced, mapped, calls>>
-----------------------------------------------------------------------------
(* The scan task. *)
Scan(step) == at.step = step /\ UNCHANGED <<mapped, lastScan, scans, calls>>

ScanBegins ==
  /\ Scan("begin")
  /\ silenced' = TRUE
  /\ devices' = <<>>
  /\ progress' = IF scanTask = "full"
                 THEN [progress EXCEPT !.registers = 0] ELSE progress
  /\ at' = [at EXCEPT !.step = "probe", !.i = 1]
  /\ UNCHANGED scanTask

\* how scan_bus_sync() goes on after the last slave
AfterProbes == IF scanTask = "full"
               THEN [Off EXCEPT !.step = "verify", !.i = 1]
               ELSE [Off EXCEPT !.step = "end"]

\* discover_probe_device(): data (1), only exceptions (0) or nothing
ProbeSlave ==
  /\ Scan("probe")
  /\ \E answer \in {"data", "exceptions", "silent"} :
       devices' = IF answer = "silent" \/ Len(devices) = ListCapacity
                  THEN devices
                  ELSE Append(devices,
                         [slave |-> at.i, active |-> TRUE, regs |-> <<>>,
                          probed |-> IF answer = "data" THEN 1 ELSE 0])
  /\ progress' = [progress EXCEPT !.found = Len(devices')]
  /\ at' = IF at.i < LastSlave THEN [at EXCEPT !.i = @ + 1] ELSE AfterProbes
  /\ UNCHANGED <<scanTask, silenced>>

\* modbus_discover_scan_device(): is the slave still there?
VerifyDevice ==
  /\ Scan("verify") /\ at.i <= Len(devices)
  /\ \/ /\ devices' = [devices EXCEPT ![at.i].active = FALSE,
                                      ![at.i].regs = <<>>]
        /\ progress' = [progress EXCEPT !.found = IF @ > 0 THEN @ - 1 ELSE 0]
        /\ at' = [at EXCEPT !.i = @ + 1]
     \/ /\ \E count \in IF devices[at.i].probed = 0 THEN {0, 1} ELSE {1, 2} :
             devices' = [devices EXCEPT ![at.i].probed = count,
                                        ![at.i].regs = <<>>]
        /\ at' = [at EXCEPT !.step = "read", !.addr = 1, !.gap = 0]
        /\ UNCHANGED progress
  /\ UNCHANGED <<scanTask, silenced>>

ScanAppends(dev, block) ==
  /\ devices' = [devices EXCEPT ![at.i] = [dev EXCEPT !.regs = @ \o block]]
  /\ progress' = [progress EXCEPT !.registers = @ + Len(block)]

ReadsDone(dev) == at.addr > LastRegister \/ Len(dev.regs) >= MaxRegisters

\* one block: with the size that worked, or else any size that works
ReadBlock ==
  /\ Scan("read")
  /\ LET dev   == devices[at.i]
         left  == LastRegister - at.addr + 1
         size  == Lower(dev.probed, left)
         sizes == IF dev.regs # <<>> /\ size > 0 THEN {size} ELSE {1, 2}
     IN /\ ~ReadsDone(dev)
        /\ \/ \E n \in sizes :
                /\ ScanAppends([dev EXCEPT !.probed = n],
                               Block(dev, at.addr, Lower(n, left)))
                /\ at' = [at EXCEPT !.addr = @ + n, !.gap = 0]
           \/ LET gap == IF dev.regs = <<>> THEN at.gap ELSE at.gap + 1
              IN /\ at' = IF gap >= MaxEmptyGap /\ dev.regs # <<>>
                          THEN [at EXCEPT !.step = "profile", !.addr = 1]
                          ELSE [at EXCEPT !.addr = @ + 1, !.gap = gap]
                 /\ UNCHANGED <<devices, progress>>
  /\ UNCHANGED <<scanTask, silenced>>

ReadsEnd ==
  /\ Scan("read") /\ ReadsDone(devices[at.i])
  /\ at' = [at EXCEPT !.step = "profile", !.addr = 1]
  /\ UNCHANGED <<devices, progress, scanTask, silenced>>

\* profile_guided_register_probe(): at.addr counts the profile's registers;
\* one that is not in the list is asked for
NextProfiled ==
  /\ Scan("profile")
  /\ LET dev == devices[at.i]
         lot == Profile[dev.slave]
     IN at' = IF at.addr > Len(lot)
              THEN [at EXCEPT !.step = "verify", !.i = @ + 1]
              ELSE IF Has(dev, lot[at.addr][1])
              THEN [at EXCEPT !.addr = @ + 1] ELSE [at EXCEPT !.step = "ask"]
  /\ UNCHANGED <<devices, progress, scanTask, silenced>>

\* the answer is appended without a second look at the list
ReadProfiled ==
  /\ Scan("ask")
  /\ LET dev == devices[at.i]
         lot == Profile[dev.slave]
     IN \/ /\ at.addr <= Len(lot)
           /\ ScanAppends(dev, Block(dev, lot[at.addr][1], lot[at.addr][2]))
        \/ UNCHANGED <<devices, progress>>
  /\ at' = [at EXCEPT !.step = "profile", !.addr = @ + 1]
  /\ UNCHANGED <<scanTask, silenced>>

Active == {i \in DOMAIN devices : devices[i].active}

\* the end of full_scan_sync()
Compact ==
  /\ Scan("verify") /\ at.i > Len(devices)
  /\ devices' = Compacted(devices, Active)
  /\ progress' = [progress EXCEPT !.found = Len(devices')]
  /\ at' = [Off EXCEPT !.step = "end"]
  /\ UNCHANGED <<scanTask, silenced>>

(* Mutant: polling is resumed by bus scans only. *)
ResumeAfterBusScan ==
  /\ Scan("end")
  /\ silenced' = (scanTask = "full")
  /\ at' = [Off EXCEPT !.step = "report"]
  /\ UNCHANGED <<devices, progress, scanTask>>

ResumePolling ==
  /\ Scan("end")
  /\ silenced' = FALSE
  /\ at' = [Off EXCEPT !.step = "report"]
  /\ UNCHANGED <<devices, progress, scanTask>>

ReportScan ==
  /\ Scan("report")
  /\ progress' = [progress EXCEPT !.busy = FALSE]
  /\ at' = [Off EXCEPT !.step = "leave"]
  /\ UNCHANGED <<devices, scanTask, silenced>>

LeaveTask ==
  /\ Scan("leave")
  /\ scanTask' = "none" /\ at' = Off
  /\ UNCHANGED <<devices, progress, silenced>>
-----------------------------------------------------------------------------
(* The editor: it finds the first active device and the first register. *)
Web == calls < MaxWebCalls /\ calls' = calls + 1
       /\ UNCHANGED <<scanTask, lastScan, at, silenced, scans>>

FoundAt(s, a) ==
  {p \in Active \X (1..MaxRegisters) :
     LET regs == devices[p[1]].regs IN
       /\ devices[p[1]].slave = s
       /\ p[2] \in DOMAIN regs /\ regs[p[2]].addr = a
       /\ \A k \in 1..(p[1] - 1) : devices[k].slave # s \/ k \notin Active
       /\ \A k \in 1..(p[2] - 1) : regs[k].addr # a}

\* modbus_discover_update_register() writes through to an existing mapping
EditRegister ==
  /\ Web
  /\ \E s \in 1..LastSlave, a \in 1..LastRegister :
       \E p \in FoundAt(s, a) :
         /\ devices' = [devices EXCEPT ![p[1]].regs[p[2]].edited = TRUE]
         /\ mapped' = IF <<s, a>> \in DOMAIN mapped
                      THEN [mapped EXCEPT ![<<s, a>>] = "user"] ELSE mapped
  /\ UNCHANGED progress

ToggleRegister ==
  /\ Web
  /\ \E s \in 1..LastSlave, a \in 1..LastRegister :
       \E p \in FoundAt(s, a) :
         devices' = [devices EXCEPT ![p[1]].regs[p[2]].valid = ~@]
  /\ UNCHANGED <<progress, mapped>>

(* Mutant: the counter of the status page is not kept. *)
DeleteUncounted ==
  /\ Web
  /\ \E s \in 1..LastSlave, a \in 1..LastRegister :
       \E p \in FoundAt(s, a) :
         devices' = [devices EXCEPT ![p[1]].regs = Without(@, p[2])]
  /\ UNCHANGED <<progress, mapped>>

DeleteRegister ==
  /\ Web
  /\ \E s \in 1..LastSlave, a \in 1..LastRegister :
       \E p \in FoundAt(s, a) :
         devices' = [devices EXCEPT ![p[1]].regs = Without(@, p[2])]
  /\ progress' = [progress EXCEPT !.registers = IF @ > 0 THEN @ - 1 ELSE 0]
  /\ UNCHANGED mapped

ResetDiscovery ==
  /\ Web
  /\ scanTask = "none" /\ ~progress.busy
  /\ devices' = <<>> /\ progress' = Empty
  /\ UNCHANGED mapped
-----------------------------------------------------------------------------
(* modbus_discover_apply_mappings(): a batch is a sequence of [key, by]. *)
Point(dev, a, who) == [key |-> <<dev.slave, a>>, by |-> who]

\* amm_import_mappings(), replacing the devices of the batch
Named(batch) == {batch[i].key[1] : i \in DOMAIN batch}
Regenerated(batch) == {batch[i].key : i \in DOMAIN batch}
Staying(amm, batch) == {k \in DOMAIN amm : k[1] \notin Named(batch)}
Fits(amm, batch) ==
  /\ batch # <<>>
  /\ Cardinality(Staying(amm, batch) \cup Regenerated(batch)) <= AmmCapacity

Imported(amm, batch) ==
  LET last(k)  == CHOOSE i \in DOMAIN batch :
                    /\ batch[i].key = k
                    /\ \A j \in DOMAIN batch : batch[j].key = k => j <= i
      users(k) == k \in DOMAIN amm /\ amm[k] = "user"
  IN IF ~Fits(amm, batch) THEN amm
     ELSE [k \in Staying(amm, batch) \cup Regenerated(batch) |->
             IF k \in Staying(amm, batch) \/ users(k) THEN amm[k]
             ELSE batch[last(k)].by]

\* profile_matches_discovered_device(): two registers of the profile
Matches(dev) ==
  /\ dev.active
  /\ \E i, j \in DOMAIN Profile[dev.slave] :
       /\ i # j
       /\ Has(dev, Profile[dev.slave][i][1])
       /\ Has(dev, Profile[dev.slave][j][1])

\* apply_embedded_semantic_profile()
ProfilePoints(dev) == [i \in DOMAIN Profile[dev.slave] |->
                         Point(dev, Profile[dev.slave][i][1], "profile")]
Truncated(batch) == SubSeq(batch, 1, Lower(Len(batch), AmmCapacity))
ProfileBatch ==
  LET upTo[n \in 0..Len(devices)] ==
        IF n = 0 THEN <<>>
        ELSE IF Matches(devices[n])
        THEN Truncated(upTo[n - 1] \o ProfilePoints(devices[n]))
        ELSE upTo[n - 1]
  IN upTo[Len(devices)]

(* Mutant: what the user confirmed is mapped with the raw defaults. *)
RawIgnoringEdits(dev, reg) == Point(dev, reg.addr, "raw")

\* semantic_inference_build_raw_mapping()
RawPoint(dev, reg) ==
  Point(dev, reg.addr, IF reg.edited THEN "user" ELSE "raw")
Enabled(dev) == {j \in DOMAIN dev.regs : dev.regs[j].valid}
RawPoints(dev) == LET regs == Compacted(dev.regs, Enabled(dev))
                  IN [j \in DOMAIN regs |-> RawPoint(dev, regs[j])]

\* the devices without a profile, as far as the count says there is room:
\* the room counts as free what all of them have now
Unresolved(resolved) == {i \in Active : devices[i].slave \notin resolved}
Room(amm, open) ==
  LET mine == {k \in DOMAIN amm : \E i \in open : devices[i].slave = k[1]}
  IN AmmCapacity - Cardinality(DOMAIN amm) + Cardinality(mine)
RawBatch(amm, resolved) ==
  LET open == Unresolved(resolved)
      room == Room(amm, open)
      upTo[n \in 0..Len(devices)] ==
        IF n = 0 THEN <<>>
        ELSE IF n \in open
                  /\ Len(upTo[n - 1]) + Len(RawPoints(devices[n])) <= room
        THEN upTo[n - 1] \o RawPoints(devices[n])
        ELSE upTo[n - 1]
  IN upTo[Len(devices)]

\* an import is void if the name of a device or a point is taken or if the
\* table cannot be saved; the devices of the profile are then left to the
\* raw one
Import(amm, batch, void) == IF void THEN amm ELSE Imported(amm, batch)
Resolved(void) == IF ~void /\ Fits(mapped, ProfileBatch)
                  THEN Named(ProfileBatch) ELSE {}

ApplyMappings ==
  /\ Web
  /\ ~progress.busy
  /\ \E void1, void2 \in BOOLEAN :
       LET amm == Import(mapped, ProfileBatch, void1)
       IN mapped' = Import(amm, RawBatch(amm, Resolved(void1)), void2)
  /\ UNCHANGED <<devices, progress>>
-----------------------------------------------------------------------------
ScanStep == \/ ScanBegins \/ ProbeSlave \/ VerifyDevice \/ ReadBlock
            \/ ReadsEnd \/ NextProfiled \/ ReadProfiled \/ Compact
            \/ ResumePolling \/ ReportScan \/ LeaveTask

DiscoveryNext ==
  \/ StartFullScan \/ StartBusScan \/ StartFails
  \/ ScanStep
  \/ EditRegister \/ ToggleRegister \/ DeleteRegister
  \/ ResetDiscovery \/ ApplyMappings

\* every request of the scan to the bus is answered or times out
DiscoverySpec == /\ DiscoveryInit /\ [][DiscoveryNext]_scanVars
                 /\ WF_scanVars(ScanStep)
-----------------------------------------------------------------------------
RegisterType == [addr : 1..(LastRegister + 1), valid : BOOLEAN,
                 edited : BOOLEAN]

DiscoveryTypeOK ==
  /\ Len(devices) <= ListCapacity
  /\ \A i \in DOMAIN devices :
       /\ devices[i].slave \in 1..LastSlave /\ devices[i].probed \in 0..2
       /\ Len(devices[i].regs) <= MaxRegisters
       /\ \A j \in DOMAIN devices[i].regs : devices[i].regs[j] \in RegisterType
  /\ progress \in [busy : BOOLEAN, found : 0..ListCapacity, registers : Nat]
  /\ Cardinality(DOMAIN mapped) <= AmmCapacity

Listed(list) ==
  LET upTo[n \in 0..Len(list)] ==
        IF n = 0 THEN 0 ELSE upTo[n - 1] + Len(list[n].regs)
  IN upTo[Len(list)]
RegistersListed == Listed(devices)

(* With no scan under way the list names each slave once and holds no      *)
(* device that went away, and devices_found and, after a full scan,        *)
(* registers_found are its size, although the web server edits the list    *)
(* while the scan fills it.  After a full scan for whose task there was no *)
(* memory they are not: both are 0, and the list is the one before.        *)
ListSettled ==
  ~progress.busy =>
    /\ \A i, j \in DOMAIN devices :
         devices[i].slave = devices[j].slave => i = j
    /\ \A i \in DOMAIN devices : devices[i].active
    /\ IF lastScan = "refused" THEN progress = Empty
       ELSE /\ progress.found = Len(devices)
            /\ lastScan = "full" => progress.registers = RegistersListed

(* "Regular polling is paused during discovery and resumes by itself after *)
(* the scan" (README.md:89): whatever the bus answers and the user edits.  *)
PollingResumes == silenced ~> ~silenced

(* "keep their semantics instead of the conservative raw defaults"         *)
(* (semantic_inference_build_raw_mapping()).  Applying the scan leaves a   *)
(* point of the user's to the user; it can lose it, if the device is in    *)
(* the list and what it is mapped by, its profile or its enabled           *)
(* registers, has the point no more.  And no point becomes raw that the    *)
(* user confirmed in the editor: every enabled copy of the register is     *)
(* edited.  A register that is listed twice, as the blocks of a profile    *)
(* may overlap what was read before, is edited in its first copy only and  *)
(* loses what was confirmed, as the import takes the last.                 *)
By(amm, k) == IF k \in DOMAIN amm THEN amm[k] ELSE "none"
Key(dev, j) == <<dev.slave, dev.regs[j].addr>>
Offers(dev, k) == \E j \in Enabled(dev) : Key(dev, j) = k
Dropped(k) ==
  /\ k \notin DOMAIN mapped'
  /\ \E i \in Active :
       /\ devices[i].slave = k[1]
       /\ \/ Matches(devices[i]) /\ k \notin Regenerated(ProfileBatch)
          \/ ~Offers(devices[i], k)
Confirmed(k) ==
  \A i \in Active : \A j \in Enabled(devices[i]) :
    Key(devices[i], j) = k => devices[i].regs[j].edited
EditsSurviveApply ==
  [][ApplyMappings =>
       \A k \in (DOMAIN mapped) \cup (DOMAIN mapped') :
         /\ By(mapped, k) = "user" => By(mapped', k) = "user" \/ Dropped(k)
         /\ By(mapped, k) # "raw" /\ Confirmed(k)
              => By(mapped', k) # "raw"]_scanVars

=============================================================================
