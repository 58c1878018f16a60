# Verification of CcspPandM (Provisioning and Management)

CcspPandM is the RDK-B process that serves the TR-181 data model of a gateway.
This directory holds TLA+ modules translated from its source, TLC
configurations for small instances, and theorems checked by TLAPS. `PROJECT.json`
lists, for every definition that models code, the lines it stands for.

## Inventory

The program's own logic is in four places: `source/PandMSsp` (the process and
its connection to the message bus), `source/TR-181/middle_layer_src` (one pair
of files per data-model object: the `_dml.c` with the handlers the engine calls,
the `_internal.c` with the object's life cycle), `source-arm/TR-181/board_sbapi`
(backends: syscfg, sysevent, Utopia, shell) and `custom/comcast`. `source-pc`,
`source-mips` and `arch` are platform variants.

| Component | State | Operations | Interacts with | Hard behaviour | What makes it correct |
|---|---|---|---|---|---|
| NAT port-mapping table (`cosa_nat_dml.c`, `cosa_nat_internal.c`, `cosa_nat_apis.c`) | list of rows, `MaxInstanceNumber`, one alias buffer, registry of delay-added rows, two rule tables in the store, three feature switches | Add, Delete, Set, Validate, Commit, Rollback, IsUpdated/Synchronize, switches | engine, registry, Utopia, bridge mode | three copies of a rule; several rows per session; restart and crash between saves | enabled rules do not overlap, a number names one rule, nothing is lost or resurrected, a refused session changes nothing |
| WebConfig `portforwarding` (`cosa_webconfig_api.c`) | `pf_cache`, `pf_cache_bkup`, their sizes, `gpfEnable`, syscfg, blob version | `Data` handler, Process, rollback, freeResources, init | WebConfig framework, syscfg, firewall, the port-mapping table and its switches (same keys) | a syscfg call fails at any key; the start, a crash or a power cut between two commits; TR-181 handlers write the keys behind the back of the buffers | a refused blob leaves the old rules; the committed store is complete; the buffer knows every key in the store |
| WebConfig `wan` and the DMZ object (`cosa_nat_webconfig_apis.c`, `cosa_nat_dml.c`) | `dmz_cache`, its backup, `pNat->Dmz`, three keys | the same protocol; Set, Validate, Commit, Rollback of the object | engine and worker on one object and the same keys | the engine commits the object for the request the worker is handling; keys committed one by one | a refused blob leaves the setting, the DMZ is never on without an address, the data model shows the store |
| WebConfig `macbinding` and `lan`, the StaticAddress table, the LAN entry (`cosa_dhcpv4_webconfig_apis.c`, `cosa_dhcpv4_dml.c`) | leases in syscfg, one backup buffer and two mutexes for both documents, list of rows, synchronize flag | Process/rollback under a mutex; the handlers of the table and of the entry | Utopia, the engine, bridge mode | clients write the same keys between the calls of a blob; a mutex taken again by the rollback | an applied blob is in force, a rolled back one is not, every request ends |
| WebConfig `hotspot`, GRE | tunnel and SSID parameters | request to another component | GRE, sysevents | late answers | not in this repository |
| NAT port triggers | second list, own registry folder | as the port mappings | Utopia | as the port mappings | as the port mappings |
| VideoService (`cosa_x_rdkcentral_com_videoservice_dml.c`) | in-progress flag, mutex, worker thread, syscfg value | enable/disable, worker | firewall level, bridge mode, MoCA | flag read outside the mutex; calls that fail half way | one worker, which ends; a service that is on can be reached |
| Bridge mode (`cosa_x_cisco_com_devicecontrol_apis.c`) | stored mode, two ticket counters, notifier threads | SetConf, SetErouterEnabled, notifier | the WiFi component | several notifiers at once, while the mode goes on changing | one at a time, WiFi ends up with the stored mode, every ticket is served |
| Users and login lockout (`cosa_users_dml.c`) | failed attempts, remaining lockout, syscfg | set attempts, lockout thread | web interface, syscfg | several lockout threads on one user | a lockout ends, and the time shown is taken back |
| Parodus notifications (`parodus_interface.c`) | connection, `deviceMAC` and its mutex, threads | connect, fetch the address, send | registrar, cable modem, libparodus | threads race for the address; retries against a connection that comes up late | one address, every notification ends, the connection is made |
| Networking mode over rbus (`cosa_rbus_handler_apis.c`) | one value, one mutex | get, set, publish | sysevent, PSM | error exits under the mutex | see Not modelled |
| Other tables (DHCPv6, routing, bridging, IP, DNS, PPP, DDNS, ...) | list, registry, backend | the same handler pattern | Utopia, sysevent | as the port mappings | as the port mappings |
| SSP life cycle (`ssp_*.c`), plugin registration | engaged state, bus handle | engage, cancel, health | component registrar | order of registration | engaged once |
| DHCPv6 events, MAP-T, Ethernet WAN, Time, DeviceInfo, DeviceControl | files, sysevents | event threads, getters, shell commands | other processes | lost and repeated events | in daemons and scripts outside |

Components interact in three ways: the data-model engine calls the handlers of
every object from one thread; the threads of the WebConfig framework write the
same syscfg keys as those handlers, with or without a mutex; and worker threads
call back into the data model or into other processes through the bus.

## Plan

The order was: the port-mapping table and its proofs; the blob that replaces its
rules; the abstract `RuleBook` and the refinement; the other sub-documents
together with the objects they share keys with (`StaticLeases`, `DmzWebConfig`);
the threads (`VideoService`, `BridgeNotifier`, `LoginLockout`, `ParodusNotify`)
with their liveness; proofs of the safety properties of all of them. All of it is
done. What comes next:

1. the address pool of DHCPv4, which takes the mutex of the `lan` document too;
2. the port triggers as an instance of a table module shared with the port
   mappings.

A composition of `NatPortMapping` and `PfWebConfig` was planned and dropped: which
rule ids Utopia gives to rules that a blob has written is decided outside this
repository, so that the list and the blob cannot be related faithfully. What the
table does to the keys of the blob is in `PfWebConfig`.

## Modules

| Module | Content |
|---|---|
| `NatPortMapping` | the port-mapping table, its registry and the rule store |
| `RuleBook` | what the table promises a client, without list, session, registry or process |
| `NatRuleBook` | the refinement mapping: the table implements `RuleBook` |
| `PfWebConfig` | the `portforwarding` blob, and the TR-181 handlers as writers of its keys |
| `StaticLeases` | the `macbinding` and `lan` blobs, the StaticAddress table and the LAN entry |
| `DmzWebConfig` | the `wan` blob and the DMZ object |
| `VideoService` | the VideoService switch and its worker |
| `BridgeNotifier` | bridge mode and the notifiers of the WiFi component |
| `LoginLockout` | failed log-in attempts and the lockout threads |
| `ParodusNotify` | the connection to Parodus and the notifications |
| `MCNatPortMapping`, `MCPfWebConfig`, `MCStaticLeases`, `MCDmzWebConfig` | the values, blobs and faults of the instances; the other modules are instantiated by their `.cfg` alone |
| `NatPortMappingProofs` | theorems about the table, and that it implements `RuleBook` |
| `PfWebConfigProofs`, `StaticLeasesProofs`, `VideoServiceProofs`, `BridgeNotifierProofs`, `DmzWebConfigProofs`, `LoginLockoutProofs`, `ParodusNotifyProofs` | theorems about the module of that name |

Faults. What may happen in a behaviour besides the ordinary steps is chosen in
the initial state and never changes: the variable `faults` (`scenario` in
`StaticLeases`, `persistent` and `faults` in `LoginLockout`, `empty` in
`ParodusNotify`). One run so covers behaviours with and without each fault, and a
property that depends on the absence of one says so in its own text. Calls that
fail are counted where an unlimited number would hide a property
(`MaxUpsets`, `MaxFailures`, `MaxCallFailures`, `MaxInitFailures`).

### NatPortMapping

`entries` is `NatPMappingList`; a row has its number, alias, values and `bNew`.
`registry` is what `CosaNatRegSetNatInfo` saves, `rules` what Utopia stores, in
two tables. `phase`, `touched` and `todo` are the engine's side of a session:
values are staged directly into rows; then every touched row is validated; then
every row is committed, or, when one is refused, every row is rolled back.

| Action | Code |
|---|---|
| `AddEntry`, `DelEntry` | `PortMapping_AddEntry`, `PortMapping_DelEntry` with `CosaNatGen`, `CosaDmlNatDelPortMapping`, `CosaNatRegSetNatInfo` |
| `SetParamValue`, `SetParamAlias` | the `SetParam...Value` handlers; a port is truncated to the port space, a protocol to a byte |
| `Validate`, `Commit`, `Rollback` | the handlers of these names with `CosaDmlNatAdd/Set/GetPortMapping` |
| `IntervalElapses`, `Synchronize` | `PortMapping_IsUpdated`, `PortMapping_Synchronize` |
| `NatSet` | `CosaDmlNatSet` |
| `Restart`, `CrashInCommit` | the process ends and `CosaNatInitialize` runs; the crash is between the two saves of Commit |

Abstractions. `InternalClient` and `Description` stand for the verdicts of their
checks, `kind` for the three rule types the code tells apart by internal port and
public address. The text of an alias is a number, with 0 the empty string and i
the generated `PortMapping<i>`. One `SetParamValue` writes all values of a row:
the engine calls one handler per parameter, and no other handler sees the row in
between. A protocol that is neither TCP nor UDP is stored as both (`StoredForm`). In
bridge mode the handlers that write refuse and change nothing, which is a step
less and not a step of its own. `CosaDmlNatChkPortMappingMaxRuleNum` always answers TRUE and is left
out. Builds with `MULTILAN_FEATURE`, `_BWG_PRODUCT_REQ_` and the MAP-T branches
are not modelled. The IPv6 fields are not modelled.

Assumed of the engine, which is not part of this repository: it calls
`IsUpdated`, and `Synchronize` after a TRUE, before it uses the table; it does not
start a new request inside the validate/commit/rollback calls of another; after a
failed Validate it rolls back all touched rows; after a failed Commit it either
goes on or rolls back the remaining rows (both are allowed). Assumed of Utopia:
a context is stored as a whole when it is freed with 1; `Utopia_CheckPortRange`
compares with the enabled rules of other numbers that have no public address and
share a protocol.

Faults: calls on the rule store fail (`"read"`; a failing `Utopia_Init` in
`CosaDmlNatChkPortRange` lets a range pass unchecked, since its status is not
FALSE), saves of the registry fail and leave it as it was or partly written
(`"registry"`), and the process dies inside a Commit (`"midcommit"`).

### PfWebConfig

`db` is syscfg in shared memory, `flash` what was last committed, `cache`, `size`,
`bkup`, `bsize` and `gpf` the globals of `cosa_webconfig_api.c`. The roughly eight
attribute keys of a rule are one key `Attrs(t, i)`. A request goes through `Push`,
`Clear` (backup and `clear_pf_cache_DB`), `Conf` (`set_portmap_conf`), `Apply`
(`apply_pf_cache_ToDB`) and `Ack` (`setBlobVersion`), or leaves this path for
`Rollback`. A loop of syscfg calls can end after any number of calls (`Ends`).
`Restart` reloads the buffers from `db` as `init_pf_cache` does; `PowerCut` takes
`db` back to `flash`. Four history variables record how the last request ended,
the last version applied, whether it was applied by this process, and whether
an apply or rollback has failed halfway.

The TR-181 handlers write the same keys and commit them, between requests and in
the middle of one, and update neither `pf_cache` nor `gpfEnable`: `TableAdd`,
`TableDel` and `TableSet` are what `CosaDmlNatAddPortMapping`,
`CosaDmlNatDelPortMapping` and `CosaDmlNatSetPortMapping` make of the tables in
syscfg, `SwitchSet` what `CosaDmlNatSet` makes of them and of the enable flag. How
Utopia keeps the rows of a table together (a new row at the end, the rows behind a
deleted one moved up) is outside this repository and assumed; so is that rows and
their names stay within `MaxEntries`, a bound of the model. A handler whose commit
or whose Utopia calls fail is left out, and a Set whose replacement Utopia refuses
is a `TableDel`. A fifth history variable, `outside`, records what these handlers have
written: rules since `pf_cache` was loaded, the switch since `gpfEnable` was, and
that a blob was handled in between, which may leave keys that no start of the process
finds. `StoreTracked` and `FlagFollowsBlob` are false in the code without these
conditions, and say what holds with them; `RefusalKeepsRules` and `FlashComplete` hold
whatever handlers wrote between the requests. Nothing is claimed of a request in
which a handler has written: its loops of calls are single steps here, and the
handler's commit could fall between two of them. Such a request counts as strayed.

Assumed of the framework: one request at a time, rollback after every failure,
`setBlobVersion` after a success. A blob is assumed to fit into
`PORTMAP_CACHE_SIZE`; the `sysevent set firewall-restart` is left out, and so
is the build with `WEBCFG_TEST_SIM`.

### RuleBook and NatRuleBook

`RuleBook` has six variables: the numbers that wait for a first commit, the
book of stored rules, the switches, the numbers in force, the rows the client
sees, and whether the table is open to the client, storing, or closed. The client
creates, withdraws and drops rows only while the table is open (`Create`,
`Withdraw`, `Drop`); rules are stored only in a session (`Store`), and only a
session can `Lose` one, when its replacement was refused after the old one was
taken out. Everything else (`Proceed`, `Switch`, `Restart`, `Reload`) leaves the
waiting numbers and the book alone, and the table never opens with a waiting
number or a rule out of the client's sight. The mapping takes the waiting numbers
from the *registry*, the rows from the list, a rule's value as it was stored
(with the enabled state it then had), and the mode from the engine's phase, so that
`KeepsRuleBook` says more than any single invariant: no restart, rollback or
synchronization loses a row or a rule, wherever it falls into a session; a rule
moves between the two tables of the store in one step; a switch changes what is in
force and nothing else. It holds for `faults = {}`: a crash between the two saves of
a Commit leaves a number both waiting and stored. `Lose` is what the code does
without any fault of the model's (`CommitOldLost`), and the one loss there is.

### StaticLeases

Two threads on the same syscfg keys. The WebConfig thread executes `Push`,
then (`Blobwork`) refuses the blob or backs up, unsets and sets key by key, and
rolls back after a failure; the data-model thread serves the table
(`SyncBegins`/`SyncReads`, `AddEntry`, `DelEntry`, `SetParamValue`, `Validate`,
`Commit`, `RollbackRow`) and the LAN entry (`LanSet`, `LanCommit`,
`LanRevert`). `DelEntry`, `Commit` and the LAN handlers try the mutex of the
document, the others do not. The backup buffer and the count of received
parameters are shared by the two documents, and `NotUsed` counts syscfg
parameters where the code does. A buffer is the function of the keys in its slots
to their values; a loop over a buffer or over the store has a set `pending` of
keys still to visit and takes the first by `Rank`, which is the order of the
slots. Comments on clients (`Comments`), which nothing else here writes, are backed
up, unset and restored as well and take slots: one on a mac takes one for every
host with it (`NumOfParam`). The histories `before` and `intact` record the table at
the backup, whether it had as many hosts as its count said, and whether a call of
the rollback failed. Reading the LAN entry back may fail (`LeaveEntry`), in a blob, in
its rollback and in `LanMngm_Rollback`; the history `unread` records it.

Abstractions: `Ins(i)` is the instance number and the alias of a host, `Lan` the
six LAN keys; the pool of the data model, which Dhcpv4_Lan_Synchronize reads after
the LAN entry, is not modelled, but that read may fail; the alias buffer, the
registry and a restart are left out.
Utopia is external: a lease is appended, and deleting one closes the gap. `Init`
starts from any table of distinct leases. The framework runs one request at a
time and rolls back after every failure; the engine synchronizes only between
sessions. `Scenarios` says which clients, blobs, requests and failures occur
together; the full product is out of TLC's reach.

### DmzWebConfig

`dml` is `pNat->Dmz`, written by the engine (`SetEnable`, `SetInternalIP`,
`SetIPv6Host`, `Validate`, `Commit`, `Rollback`) and by the worker
(`Start`, `Clear`, `Conf`, `Apply`, `ToDml`, `RollbackDmz`). `Push` hands a blob
over and leaves the engine in a session of its own, because a blob is a
parameter of the object: the engine then commits `pNat->Dmz` while the worker
works. With `"overlap" \in faults` the two interleave at every call, which the
code allows; without it they take turns, which is how the promises made to one
thread are stated (`TakesTurns`).

Abstractions: slots are values, `Blank` a slot cleared with its key; syscfg calls
with an empty name change nothing; a session of Utopia is one step; an absent
key reads as off. The blob version, the firewall restart, `RemoteIPStart/End` and
`InternalMAC` are left out. `DmlFollowsStore` excludes the IPv6 host, which
`apply_dmz_ToDML` resets in memory only.

### VideoService

The handler of the switch is split where a worker can run in between (`SetTrue`
reads the flag, then `Lock`, `Create`, `Unlock`, `Store`); a worker takes one
step per call into the data model (`GetLevel` ... `SetMoca`, `Clear`). A set and
its commit of the firewall level or the LAN mode are one step. The data-model
thread executes one handler at a time; MoCA is external and may turn itself off.
The switch, the level and the mode outlive the process (`Restart`), the flag and
the worker do not; `cut` remembers that the stored "1" is of a process that ended
before its worker, for which nothing starts a new one.

### BridgeNotifier

The build for XF3, which calls the WiFi component from
`bridge_mode_wifi_notifier_thread`. A notifier is named by its ticket;
`TakeTurn` reads the mode, `SetRadios`, `SetSsids` and `Apply` are the calls,
`Leave` increments `curticket`. The WiFi component is external: values are staged
and run with after ApplySettings. The mesh thread, the restart of the web
interface and the sysevents are left out.

### LoginLockout

One user. `Write`, `Store`, `Assign`, `Compare` are the handler of
`NumOfFailedAttempts`; `Count`, `Finish`, `StoreZero`, `Reset`, `Show` are
`ResetFailedAttepmts`, one step per second. A `char` has no sign on ARM. The web
interface is external and writes up to one more than the limit, 256, or a value
of ten digits, which the handler refuses for "cusadmin" after it has set the
attempts. The handler calls the user locked out at the limit and beyond it
(`LockedOut`) and starts a thread at the limit alone; a limit that cannot be read is
0. `missed` remembers a set beyond the limit, or a refused one, that found no
thread at work: the lockout nobody ends. A new value is only written while one of
the `Threads` is free, which bounds the threads.

### ParodusNotify

`connect_parodus` with its backoff; each notifier runs `getDeviceMac` (`Look`
without the mutex, `Lock`, `Check`, `Read`, `Write`, `ReadFails`), `Frame`,
`SendOk`/`SendFails`. The address is written in two steps, so that another
notifier may see a part of it. Pauses other than the value of the backoff, the
second read of `deviceMAC` while framing, and the contents of events are left out.

## Runs

| Run | Instance | Shows |
|---|---|---|
| `nat_core` | 2 numbers, 3 ports, kinds pf and hs, 3 values, no faults | `NoOverlap`: enabled rules of a kind stay apart although two rows may be validated together and switches disable and re-enable rules. `NothingResurrected`: the registry holds delay-added rows only. `KeepsRuleBook` |
| `nat_crash` | 2 numbers, both tables, a port and a protocol that wrap, an alias, a crash in Commit or failing saves of the registry | `TypeOK`; `OneRulePerInstance`: a number names one rule; `PendingDurable` |
| `pf_store` | 5 blobs; 2 failing calls with power cuts, with and without crashes; 2 failing calls or handlers without either; 3.2 million states | `TypeOK`; `RefusalKeepsRules`; `FlashComplete`; `StoreTracked`; `FlagFollowsBlob` |
| `sl_table` | 2 leases, 7 blobs in 5 scenarios: one blob and a failing call against clients of the table; three `lan` or invalid blobs and two failing calls against clients of the LAN entry; three `macbinding` blobs and two failing calls without clients, on stores without a count and on incomplete tables; two `macbinding` blobs, three failing calls and comments on clients; two blobs of either document with bridge mode | `TypeOK`, `AppliedAsAsked`, `RollbackRestores`, `InvalidBlobChangesNothing`, `LanEntryCurrent`, and that every request ends with its mutex free |
| `vs` | 2 threads, any subset of the faults, restarts, any stored switch at the start | `OneWorker`, `ServiceReachable`, and that the flag comes down |
| `bn` | 3 tickets, three sets of faults | `OneAtATime`, `WifiFollowsMode`, and that every ticket is served |
| `dmz` | 2 hosts and an IPv6 host, 5 blobs, 1 failing call, two sets of faults | `TypeOK`, `RefusalKeepsDmz`, `SavedHasHost`, `BroadcastNeverStored`, `DmlFollowsStore` |
| `lk` | 3 threads, limit 2, 2 seconds, any subset of the faults, stored and unstored user | `TypeOK`, `TimeSettles`, `LockoutHasThread`, and that every lockout with a thread ends |
| `pn` | 2 notifications, 6 failing calls, 4 failing connections | `TypeOK`, `MacSettled`, and that notifications end, the connection is made and notifications asked for after it are sent |
| `nat_alias` | three aliases, two values | violation of `AliasExclusive` |
| `nat_rollback` | kinds pf and nat, 4 values | violation of `RollbackRestores` |
| `pf_cold` | no failing call | violation of `RulesRestored` |

Bounds. Two instance numbers are enough for two rows of a session, a deleted and
reused number after a restart, and a rule in each table. Three ports hold a port,
a range that overlaps it, and, in `nat_crash`, one value that wraps. Blobs of at
most two entries give a longer and a shorter blob than the one before, both
tables, and an entry refused after another was expanded. Two failing calls allow
a failure to clear followed by a failing rollback; failing calls and commits of
TR-181 handlers share the bound of two (`MaxUpsets`), so that a handler may come before
or within a request that fails, or two may come between blobs. Handlers together
with power cuts or crashes make the state space too large for a run and are
covered by the theorems, which hold for every set of faults. Three tickets and three
lockout threads are one more than a pair, so that a third can overtake or reset
what two have agreed on. Six failing calls use up the six tries of `getDeviceMac`,
four failing connections take the backoff around once. No symmetry is used.

The fault `"read"` of `NatPortMapping` (calls on the rule store fail) makes the
state space too large for a run; the theorems cover it, since they are proved for
every set of faults.

Deadlock is checked but for `sl_table`, `bn` and `pn` (`CHECK_DEADLOCK FALSE`),
where blobs, tickets and notifications are bounded and clients need not do anything.

Fairness. Weak fairness of each thread of the program, and of nothing else: the
WebConfig thread of `StaticLeases`, the handler and the workers of
`VideoService`, the notifiers of `BridgeNotifier`, the handler and the threads of
`LoginLockout`, the connector and the notifiers of `ParodusNotify`. They are
threads of a preemptive scheduler, which wait only for the mutex or the
ticket that the model gives them as a guard, and their calls return. No client has
to ask for anything, and no failing call has to succeed in the end beyond the
bound on failures.

Each property of a passing run is accompanied by a changed definition in the
same module (`Seeded fault`) under which TLC finds the property violated.

### What the violations show

* `nat_alias`: "promise the alias is exclusive" is only checked when the shared
  buffer of the previous alias is not empty. A client gives row 1 the alias
  `PortMapping2` and commits it; the row added next has the number 2 and gets that
  alias from `PortMapping_AddEntry`; the client stages values and no alias on it, so
  that the buffer is empty and nothing is compared; both committed rows carry
  one alias.
* `nat_rollback`: a committed row that validated is not restored when another row
  of the session is refused.
* `pf_cold`: the first refused blob after a start of the process empties the rules
  it was to restore, because `init_pf_cache` reads keys without values.

### Further behaviour the models reach

The following is what the code does, met while modelling; the models take these
steps, the properties are stated without them, and no run is kept for them.

* `NatPortMapping`: a rule whose replacement Utopia refuses after the deletes is
  gone (`cosa_nat_apis.c:3382`); a Delete whose save of the registry fails leaves the
  row, no longer delay-added and without a rule (`cosa_nat_dml.c:1773`); a failing
  `Utopia_Init` lets a range pass unchecked (`cosa_nat_apis.c:4377`).
* `PfWebConfig`: an enable flag written by an apply that fails stays, because the
  rollback compares `gpfEnable` with itself (`cosa_webconfig_api.c:807`); a later blob
  without rules then agrees with `gpfEnable` and leaves forwarding on (hence the
  condition of `FlagFollowsBlob`). A
  process that dies in the middle of a blob leaves keys that `init_pf_cache` does
  not find (hence the condition of `StoreTracked`). A rule that a client adds through
  the table is not in `pf_cache`: the next blob does not unset its keys
  (`cosa_webconfig_api.c:273`), and they stay behind when the counts of the blob no
  longer lead to them. A client that sets `EnablePortMapping` does not change
  `gpfEnable`: the next blob may find it equal to what it wants and leave the flag
  as the client set it (`cosa_webconfig_api.c:332`).
* `StaticLeases`: a blob refused in bridge mode is rolled back with the backup of
  an earlier blob (`cosa_dhcpv4_webconfig_apis.c:686`); a blob applied while the
  table is read loses its synchronization (`cosa_dhcpv4_dml.c:7185`); a row read
  back from a blob is marked new, so that deleting it leaves its lease stored
  (`cosa_dhcpv4_webconfig_apis.c:559`). A blob that fails after its count was written
  over a store without one leaves that count after its rollback, which only unsets
  hosts; the next rollback restores this count and takes hosts beyond it for used
  ones, so that hosts of a failed blob may stay. The same happens when the backup
  consists of comments only: `lan_clients_count` alone makes it one parameter, and
  host 1 and the count of the failed blob stay (`:298`, `:394`). Hence the condition on
  `before` in `RollbackRestores`. A rollback of `lan` whose synchronization fails
  (`:1170`), or a `LanMngm_Rollback` whose read fails, leaves refused settings in the LAN
  entry until the next commit or blob: hence `unread` in `LanEntryCurrent`.
* `DmzWebConfig`: the first refused blob after a start of the process empties both
  keys (`cosa_nat_webconfig_apis.c:31`); when engine and worker interleave the
  store can end with the flag of one setting and the address of another; a blob
  that switches the DMZ off resets the IPv6 host in memory only.
* `VideoService`: a worker whose call fails leaves the service stored as on, and
  nothing tries again; nor does anything after a restart in the middle of a worker,
  and an enable finds "1" stored and returns; the flag stays up when the thread
  cannot be created or the last read fails.
* `BridgeNotifier`: with the WiFi component missing, the new mode is stored and
  nobody is told; a ticket whose thread is not created is never served, and all
  later ones wait for it.
* `LoginLockout`: without the thread a lockout does not end. None is started for
  a set beyond the limit, as of a web interface that read the attempts before a
  thread took them back (`cosa_users_dml.c:1082`), for a value of ten digits that is
  refused after the attempts were set (`:1042`, `:1048`), when the limit cannot be
  read (`:1069`; a thread is then started at 0 attempts), and after a restart of a
  locked out `cusadmin`.
* `ParodusNotify`: a notification may read a part of the address while another
  thread writes it; an answer with an empty address drops the notification.

## Proofs

TLAPS proves the following for every value of the constants allowed by the named
assumptions of the modules, and for every set of faults.

The port-mapping table:

* `TypeCorrect`: `TypeOK` is inductive; the proof has one step per action.
* `PendingRowsDurable`: inductive with `TypeOK`, while saves succeed: every action
  that creates a delay-added row saves the registry, and the ones that save it
  write all delay-added rows.
* `EnabledRulesApart`: `NoOverlap`, which is about behaviours in which calls on
  the rule store succeed: a switch that misses a table leaves its rules as they
  were. `NoOverlap` alone is not inductive: a switch turned on re-enables rules
  that were not compared while they were off. `ApartInv` adds that a rule is
  enabled exactly when its switch is on and it was stored enabled, and that rules
  stored enabled are apart whatever the switches say.
* `InstanceNamesOneRule`: `NumberInv` adds that rows and saved rows have distinct
  numbers, that rows of an open session exist, and that unless a synchronization
  is due every stored rule has a row that is not delay-added, so that a number in
  use is never generated and never added again. With failing reads the statement
  is false: a table that reads as empty loses its rows and `CosaNatGen` reuses
  their numbers.
* `NoRowResurrected`: without faults `RegistryInv` adds that the registry holds
  exactly the delay-added rows and none that is stored.
* `ImplementsRuleBook` (`ASSUME FaultSets = {{}}`): the initial states map to the
  initial state of `RuleBook`, and, from `NumberInv`, `RegistryInv` and `ApartInv`
  together, each action maps to a step of `RuleBook`: that a synchronization is a
  `Reload` and that every phase ends with all rows in sight follows from `NumberInv`,
  that a restart is a `Restart` from `RegistryInv`.

The `portforwarding` blob, for every set of blobs, every order of them, every failing
call and every write of the TR-181 handlers. The proofs rest on what a buffer of pairs does to *any* store it is set in,
so that no step has to know how far an earlier loop of syscfg calls came. A buffer
`Describes` a table when it lists its counts, and for each row up to a count the
alias and the attributes that alias names. Setting such a buffer leaves a store
whose counts name only rules that are there (`Sound`: the tables whose count the
buffer lacks must be complete, and the buffer leaves them alone) and in which the counts lead to every rule key (`Neat`: it
must have no rule key that the buffer lacks). `ConfSlots` and `InitSlots` describe
the tables of a blob and of a store; for the first this needs that the ranks of
the entries of a table run from 1 to their number (`RankBijection`). The buffer a
failure would put back, `Held`, is the backup from the clearing on and `pf_cache`
otherwise; `HeldStep` shows that only an accepted blob, a failed apply and a start
of the process change it. Of the TR-181 handlers the proofs need three facts
(`HandlerParts`): they keep a complete store complete and a whole one whole (`Keeps`);
those of the table leave the flag alone; and the switch gives attributes only to rows
of a table, which has them already when it is complete.

* `PfTypes`: `TypedInv` strengthens `TypeOK` by a bound on every stored count and
  alias, without which `init_pf_cache` could read more rows than the buffer takes.
* `PfRefusalKeepsRules`: `RestInv` says that the held buffer leaves the rules of the
  last applied blob in every store. `SizeInv` is needed for the copy back, which
  goes by the size of `pf_cache`: it is that of the backup unless an apply failed.
* `PfFlashComplete`: `SoundInv`, the held buffer is sound and has the count of every
  table in syscfg that is not complete, at each step of a request and after a start
  from a half cleared store; at rest the store is complete, so that what a handler
  commits is.
* `PfStoreTracked`: `NeatInv`, the same for every rule key until a handler of the table
  writes; it adds that the committed store is whole, since a power cut makes it the
  current one, and that the store is whole at rest even after such a handler, so
  that the next start finds its rules. It needs `SoundInv` for the switch.
* `PfFlagFollowsBlob`: `FlagInv` and `CopyInv` split the statement at `gpfEnable`: the flag
  in syscfg is the copy, which no pair of a buffer overwrites, and the copy is that
  of the last applied blob.

The static leases, for every number of hosts, blobs, clients and failing calls, with
the two threads interleaving at every syscfg call:

* `LeaseTypes`: `TypedInv` strengthens `TypeOK` by the values each key may have, in
  the store and in the backup: without it a count read from the store could send a
  loop to hosts beyond the bound.
* `InvalidIsHarmless`: `RequestInv` says which mutex is held at each position of a
  request, what a rollback may be for, that a refused blob has emptied the shared
  buffers, and that a request touches the keys of its own sub-document only.
* `LanEntryIsStored`: `LanInv` adds that, without bridge mode and unless the last
  attempt to read the entry failed, it is the stored one as soon as the request in
  hand is not one of `lan` past its start.
* `BlobIsApplied`: `ApplyInv` says that the keys a loop has passed hold what the
  buffer says, except for the instance numbers, which Synchronize writes without
  the mutex; and that the count is gone once the clearing loop has passed it, which
  is why a handler that runs in between adds no host.
* `RollbackIsExact`: `BackupInv` ties the backup to the history `before` (a
  complete table, or neither a count nor a number of comments); `RestoredInv` says what the restoring loop
  has passed; `CountInv` is about the last loop, which takes the number of received
  *parameters* for a number of hosts: after an empty backup it is no less than the
  hosts that may be left, and after a complete one it exceeds the restored hosts.

The threads:

* `WorkersExclude`, `EnabledReachable` (`VideoService`): the invariant ties the
  flag to the position of the handler and of the one worker; the second adds what
  the worker has achieved at each of its steps, given that the handlers of level
  and mode refuse while the switch is stored as on, and that a "1" about to be
  stored replaces another value, so that it is not the one of an earlier process.
* `NotifiersExclude`, `WifiFollows` (`BridgeNotifier`): at most the notifier of
  `curticket` has started, whatever fails; and, without faults, the notifier of the
  last ticket has still to read the mode, or is setting the stored one, or is done
  and has left the component with it.
* `LockoutTypes`, `TimeIsTakenBack`, `LockoutIsAttended` (`LoginLockout`): a shown
  time belongs to a thread that will take it back; attempts at the limit or beyond
  it belong to the handler before its comparison, to a thread before its reset, or
  to a set that `missed` records.
* `DeviceKeepsMac` (`ParodusNotify`): between its check and its write a thread
  holds the mutex, so that the address is empty when it begins to write.
  `NotifyTypes` bounds the pauses of the connector and the tries of a notifier.

The DMZ:

* `DmzTypes`, `BroadcastStaysOut`: one inductive invariant, with the two threads
  interleaving freely: the broadcast address may be in `pNat->Dmz` and in the blob,
  never in the store or a buffer, nor in `pNat->Dmz` between Validate and Commit.
* `HostSaved`, `RefusalKeeps`: for behaviours in which the threads take turns, the
  invariant relates the keys, the committed keys, the cache and the backup at each
  position of the worker.
* `DmlShowsStore`: as long as no call fails, `Follows` says what `pNat->Dmz` shows at
  each position of the worker: between blobs the store, during a blob the setting
  in the backup, and of an applied blob the flag before the host.

Only model-checked: the liveness properties (`RequestEnds`, `WorkEnds`, `TurnComes`,
`LockoutEnds`, `NotifierEnds`, `ConnectionMade`, `NotificationSent`), which are
outside what the prover can do. Every other property of a passing run is stated
by a theorem.

## Not modelled

The components marked `not_modelled` in `PROJECT.json`, each with its reason. In
short: most of the repository's lines are getters, parsing, shell commands and
tables of the same pattern as the ones modelled (the port triggers, DHCPv6,
routing and the rest), or platform variants of the same files; what could go
wrong in the event threads is in daemons and scripts outside the repository.

`setUlongHandler` of `cosa_rbus_handler_apis.c` leaves its mutex locked at an
invalid value, at a failing sysevent and at a failing publication; one parameter
under one mutex is not worth a module of its own.

The hazards listed without a property say why none covers them.
