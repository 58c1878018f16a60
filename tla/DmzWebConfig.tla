---------------------------- MODULE DmzWebConfig ----------------------------
(***************************************************************************)
(* The DMZ host of the NAT component, which two threads write:              *)
(*                                                                          *)
(*   the data-model engine   stages values into pNat->Dmz, validates them   *)
(*                           and commits them through Utopia                *)
(*                           (X_CISCO_COM_DMZ_*, CosaDmlNatSetDmz)          *)
(*   the WebConfig worker    replaces the setting of the "wan" sub-document: *)
(*                           the two keys are unset, the blob is checked    *)
(*                           into dmz_cache, the keys are set again, and    *)
(*                           the result is copied into pNat->Dmz            *)
(*                           (cosa_nat_webconfig_apis.c)                    *)
(*                                                                          *)
(* A blob arrives as the parameter "Data" of the same object, so that the   *)
(* engine validates and commits pNat->Dmz for it as well, while the worker  *)
(* handles it.  Any failure makes the framework call rollback_dmz.          *)
(***************************************************************************)
EXTENDS Integers

CONSTANTS
    Hosts,       \* addresses of the LAN, numbers below Broadcast
    V6Hosts,     \* IPv6 addresses a client may stage
    Blobs,       \* the blobs that may arrive
    MaxFailures, \* bound: syscfg and Utopia calls that fail
    FaultSets    \* what may happen besides: sets of faults

\* The power is cut, the process ends while a blob is handled, the engine and
\* the worker interleave (the code lets them).
AllFaults == {"powercut", "crash", "overlap"}

\* Values of the keys: the absence of the key, the empty string, an address.
Unset     == -2
Empty     == -1
None      == 0    \* "0.0.0.0"; also the value "0" of dmz_enabled
On        == 1    \* the value "1" of dmz_enabled
Broadcast == 255  \* "255.255.255.255"

ASSUME HostsAssumption == Hosts \subseteq 1 .. Broadcast - 1
ASSUME V6HostsAssumption == V6Hosts \subseteq Nat \ {0}
ASSUME DmzBlobsAssumption == Blobs \subseteq [en : BOOLEAN, ip : {Empty, Broadcast} \cup Hosts]
ASSUME MaxFailuresAssumption == MaxFailures \in Nat
ASSUME DmzFaultsAssumption == FaultSets \subseteq SUBSET AllFaults

Ips == {Unset, Empty, None, Broadcast} \cup Hosts
Ens == {Unset, Empty, None, On}
V6s == {Empty} \cup V6Hosts

\* dmz_enabled, dmz_dst_ip_addr, and the IPv6 host, which only Utopia writes.
Store == [en : Ens, ip : Ips, v6 : V6s]

\* A slot of dmz_cache is the value of its key, or cleared with its key.
Blank == -3
Cache == [en : Ens \cup {Blank}, ip : Ips \cup {Blank}]

\* COSA_DML_NAT_DMZ.
Dmz(e, a, v) == [bEnabled |-> e, InternalIP |-> a, IPv6Host |-> v]

Dml == [bEnabled : BOOLEAN, InternalIP : Ips \ {Unset}, IPv6Host : V6s]

VARIABLES
    db,        \* syscfg in shared memory
    flash,     \* syscfg as last committed
    dml,       \* pNat->Dmz
    phase,     \* the engine's session on it
    cache,     \* dmz_cache
    bkup,      \* dmz_cache_bkup
    pc,        \* where the worker is
    key,       \* the slot its loop is at
    blob,      \* the blob in hand
    failures,  \* calls that have failed
    outcome,   \* history: how the last blob of this process ended
    last,      \* history: the setting that was last requested and applied
    warm,      \* history: a blob of this process has requested it
    faults     \* what may happen in this behaviour

syscfg   == <<db, flash>>
engine   == <<dml, phase>>
buffers  == <<cache, bkup>>
worker   == <<pc, key, blob>>
requests == <<outcome, last, warm>>
system   == <<syscfg, engine, buffers, worker, failures, requests>>
vars     == <<system, faults>>

Setting == [en : Ens, ip : Ips]
NoBlob  == [en |-> FALSE, ip |-> Empty]

\* Every variable stays within its type.
TypeOK ==
    /\ db \in Store /\ flash \in Store
    /\ dml \in Dml
    /\ phase \in {"idle", "set", "commit", "rollback"}
    /\ cache \in Cache /\ bkup \in Cache
    /\ pc \in {"idle", "queued", "clear", "conf", "apply", "dml", "rollback"}
    /\ key \in {"en", "ip", "save"}
    /\ blob \in Blobs \cup {NoBlob}
    /\ failures \in 0 .. MaxFailures
    /\ outcome \in {"none", "done", "restored", "failed"}
    /\ last \in Setting
    /\ warm \in BOOLEAN
    /\ faults \subseteq AllFaults

----------------------------------------------------------------------------
(* The store and the start of the process.                                  *)

SettingOf(d) == [en |-> d.en, ip |-> d.ip]
Flag(b)      == IF b THEN On ELSE None

\* Seeded fault: an absent or empty address is taken over as it is.
LoadedRaw(d) == Dmz(d.en = On, d.ip, d.v6)

\* CosaDmlNatGetDmz: an absent or empty address reads as "0.0.0.0".
Loaded(d) == Dmz(d.en = On, IF d.ip \in {Unset, Empty} THEN None ELSE d.ip, d.v6)

\* Utopia_SetDMZSettings.
Saved(m) == [en |-> Flag(m.bEnabled), ip |-> m.InternalIP, v6 |-> m.IPv6Host]

\* A call succeeds, or uses up one of the failures.
Succeeds == failures' = failures
Fails    == failures < MaxFailures /\ failures' = failures + 1

\* CosaDmlNatGetDmz into m: when Utopia fails nothing is copied.
GetDmz(m, d) == (Succeeds /\ dml' = Loaded(d)) \/ (Fails /\ dml' = m)

ZeroDml == Dmz(FALSE, Empty, Empty)

\* init_dmz_cache: the keys only, their values stay empty.
InitCache == [en |-> Empty, ip |-> Empty]

\* CosaNatInitialize on the store d.
Initialize(d) ==
    /\ GetDmz(ZeroDml, d)
    /\ phase' = "idle"
    /\ cache' = InitCache
    /\ bkup' = [en |-> Blank, ip |-> Blank]
    /\ pc' = "idle" /\ key' = "en" /\ blob' = NoBlob
    /\ outcome' = "none"
    /\ warm' = FALSE
    /\ UNCHANGED last

\* A gateway whose setting was stored by an earlier run.
Init ==
    /\ db \in {[en |-> e, ip |-> i, v6 |-> v] : e \in {On}, i \in Hosts, v \in V6s}
              \cup {[en |-> None, ip |-> None, v6 |-> Empty],
                    [en |-> Unset, ip |-> Unset, v6 |-> Empty]}
    /\ flash = db
    /\ dml = Loaded(db) /\ phase = "idle"
    /\ cache = InitCache /\ bkup = [en |-> Blank, ip |-> Blank]
    /\ pc = "idle" /\ key = "en" /\ blob = NoBlob
    /\ failures = 0
    /\ outcome = "none" /\ last = SettingOf(db) /\ warm = FALSE
    /\ faults \in FaultSets

\* The process is started again; what is in shared memory stays.
Restart ==
    /\ pc = "idle" \/ "crash" \in faults
    /\ Initialize(db)
    /\ UNCHANGED syscfg

\* The gateway reboots from what was committed.
PowerCut ==
    /\ "powercut" \in faults
    /\ db' = flash
    /\ Initialize(flash)
    /\ UNCHANGED flash

----------------------------------------------------------------------------
(* The data-model engine.                                                   *)

\* Nothing in the code keeps the two threads apart; in some behaviours they take
\* turns.
EngineRuns == pc \in {"idle", "queued"} \/ "overlap" \in faults
WorkerRuns == phase = "idle" \/ "overlap" \in faults

Stage(m) ==
    /\ EngineRuns
    /\ phase \in {"idle", "set"}
    /\ dml' = m
    /\ phase' = "set"
    /\ UNCHANGED <<syscfg, buffers, worker, failures, requests>>

\* X_CISCO_COM_DMZ_SetParamBoolValue: switching off drops the hosts, to "keep
\* sync between webui and snmp".
SetEnable ==
    \/ Stage(Dmz(TRUE, dml.InternalIP, dml.IPv6Host))
    \/ Stage(Dmz(FALSE, None, Empty))

\* X_CISCO_COM_DMZ_SetParamStringValue: an address is one of the LAN, or the
\* broadcast address, which CosaDmlNatChkPortMappingClient lets through.
SetInternalIP ==
    \/ Stage(Dmz(dml.bEnabled, None, dml.IPv6Host))
    \/ \E a \in Hosts \cup {Broadcast} : Stage(Dmz(TRUE, a, dml.IPv6Host))

SetIPv6Host == \E v \in V6s : Stage(Dmz(dml.bEnabled, dml.InternalIP, v))

\* Seeded fault: Validate does not look at the address.
ValidateAny ==
    /\ EngineRuns
    /\ phase = "set"
    /\ phase' \in {"commit", "rollback"}
    /\ UNCHANGED <<dml, failures, syscfg, buffers, worker, requests>>

\* A refusal reloads the setting; so does the rollback that follows.  Another
\* object of the same request may be the one that is refused.
Validate ==
    /\ EngineRuns
    /\ phase = "set"
    /\ IF dml.InternalIP = Broadcast
       THEN GetDmz(dml, db) /\ phase' = "rollback"
       ELSE phase' \in {"commit", "rollback"} /\ UNCHANGED <<dml, failures>>
    /\ UNCHANGED <<syscfg, buffers, worker, requests>>

\* The keys of Utopia's session are written and committed, and with them what
\* a worker has set and not committed yet.
CommitOk ==
    /\ db' = Saved(dml)
    /\ flash' = db'
    /\ last' = SettingOf(db')
    /\ warm' = (warm /\ last' = last)
    /\ phase' = "idle"
    /\ Succeeds
    /\ UNCHANGED outcome

CommitFail ==
    /\ phase' \in {"idle", "rollback"}
    /\ Fails
    /\ UNCHANGED <<syscfg, requests>>

Commit ==
    /\ EngineRuns
    /\ phase = "commit"
    /\ CommitOk \/ CommitFail
    /\ UNCHANGED <<dml, buffers, worker>>

Rollback ==
    /\ EngineRuns
    /\ phase = "rollback"
    /\ GetDmz(dml, db)
    /\ phase' = "idle"
    /\ UNCHANGED <<syscfg, buffers, worker, requests>>

----------------------------------------------------------------------------
(* The WebConfig worker.  The framework runs one blob at a time.            *)

\* X_CISCO_COM_DMZ_SetParamStringValue("Data") and PushBlobRequest: nothing is
\* staged, and the engine goes on to Validate and Commit.
Push ==
    /\ phase \in {"idle", "set"}
    /\ pc = "idle"
    /\ blob' \in Blobs
    /\ pc' = "queued"
    /\ phase' = "set"
    /\ UNCHANGED <<syscfg, dml, buffers, key, failures, requests>>

\* Seeded fault: a copy that is there is kept.
StartKeepsCopy ==
    /\ pc = "queued"
    /\ WorkerRuns
    /\ bkup' = IF bkup.en = Blank THEN cache ELSE bkup
    /\ pc' = "clear" /\ key' = "en"
    /\ UNCHANGED <<syscfg, engine, cache, blob, failures, requests>>

\* Process_DMZ_WebConfigRequest begins with backup_dmz_cache.
Start ==
    /\ pc = "queued"
    /\ WorkerRuns
    /\ bkup' = cache
    /\ pc' = "clear" /\ key' = "en"
    /\ UNCHANGED <<syscfg, engine, cache, blob, failures, requests>>

SetKey(d, k, v) == IF v = Blank THEN d ELSE [d EXCEPT ![k] = v]

\* Something of the blob failed: the framework rolls it back.
GiveUp == pc' = "rollback" /\ key' = "en"

\* Seeded fault: the address is unset before the flag.
ClearFlagLast ==
    /\ pc = "clear"
    /\ \/ /\ Succeeds
          /\ db' = IF key = "en" THEN [db EXCEPT !.ip = Unset] ELSE [db EXCEPT !.en = Unset]
          /\ flash' = db'
          /\ cache' = [cache EXCEPT ![key] = Blank]
          /\ IF key = "en" THEN key' = "ip" /\ UNCHANGED pc ELSE key' = "en" /\ pc' = "conf"
       \/ /\ Fails
          /\ GiveUp
          /\ UNCHANGED <<cache, syscfg>>
    /\ UNCHANGED <<engine, bkup, blob, requests>>

\* clear_dmz_cache_DB: each key is unset, its slot cleared, and the store
\* committed, before the next.
ClearKey ==
    /\ Succeeds
    /\ db' = SetKey(db, key, IF cache[key] = Blank THEN Blank ELSE Unset)
    /\ flash' = db'
    /\ cache' = [cache EXCEPT ![key] = Blank]
    /\ IF key = "en" THEN key' = "ip" /\ UNCHANGED pc ELSE key' = "en" /\ pc' = "conf"

UnsetFails == Fails /\ GiveUp /\ UNCHANGED <<cache, syscfg>>

ClearCommitFails ==
    /\ Fails
    /\ db' = SetKey(db, key, IF cache[key] = Blank THEN Blank ELSE Unset)
    /\ cache' = [cache EXCEPT ![key] = Blank]
    /\ GiveUp
    /\ UNCHANGED flash

Clear ==
    /\ pc = "clear"
    /\ ClearKey \/ UnsetFails \/ ClearCommitFails
    /\ UNCHANGED <<engine, bkup, blob, requests>>

\* An address that is missing, or not one of the LAN, refuses the blob.
Acceptable(b) == ~b.en \/ b.ip \in Hosts

\* What a blob asks for: switched off, the address is "0.0.0.0".
SettingAsked(b) == [en |-> Flag(b.en), ip |-> IF b.en THEN b.ip ELSE None]

\* set_dmz_conf.
Conf ==
    /\ pc = "conf"
    /\ IF Acceptable(blob)
       THEN cache' = SettingAsked(blob) /\ pc' = "apply" /\ key' = "en"
       ELSE cache' = [cache EXCEPT !.en = On] /\ GiveUp
    /\ UNCHANGED <<syscfg, engine, bkup, blob, failures, requests>>

\* One call of apply_dmz_cache_ToDB on the slots of arr.
Put(arr) ==
    /\ key \in {"en", "ip"}
    /\ Succeeds
    /\ db' = SetKey(db, key, arr[key])
    /\ key' = IF key = "en" THEN "ip" ELSE "save"
    /\ UNCHANGED flash

Save == key = "save" /\ Succeeds /\ flash' = db /\ UNCHANGED db

Apply ==
    /\ pc = "apply"
    /\ \/ Put(cache) /\ UNCHANGED pc
       \/ Save /\ pc' = "dml" /\ key' = "en"
       \/ Fails /\ GiveUp /\ UNCHANGED syscfg
    /\ UNCHANGED <<engine, buffers, blob, requests>>

\* apply_dmz_ToDML: the flag, and then the hosts that go with it.
ToDmlFlag ==
    /\ key = "en"
    /\ dml' = Dmz(cache.en = On, dml.InternalIP, dml.IPv6Host)
    /\ key' = "ip"
    /\ UNCHANGED <<pc, requests>>

ToDmlHosts ==
    /\ key = "ip"
    /\ dml' = IF dml.bEnabled THEN Dmz(TRUE, cache.ip, dml.IPv6Host)
              ELSE Dmz(FALSE, None, Empty)
    /\ pc' = "idle" /\ key' = "en"
    /\ outcome' = "done"
    /\ last' = SettingAsked(blob)
    /\ warm' = TRUE

\* Seeded fault: the data model is not told.
ToDmlNothing ==
    /\ pc = "dml"
    /\ pc' = "idle" /\ key' = "en"
    /\ outcome' = "done"
    /\ last' = SettingAsked(blob)
    /\ warm' = TRUE
    /\ UNCHANGED <<syscfg, engine, buffers, blob, failures>>

ToDml ==
    /\ pc = "dml"
    /\ ToDmlFlag \/ ToDmlHosts
    /\ UNCHANGED <<syscfg, phase, buffers, blob, failures>>

\* rollback_dmz: the copy is applied, and becomes the cache again.
RollbackDmz ==
    /\ pc = "rollback"
    /\ \/ Put(bkup) /\ UNCHANGED <<cache, pc, outcome>>
       \/ Save /\ cache' = bkup /\ pc' = "idle" /\ key' = "en" /\ outcome' = "restored"
       \/ Fails /\ cache' = bkup /\ pc' = "idle" /\ key' = "en" /\ outcome' = "failed"
                /\ UNCHANGED syscfg
    /\ UNCHANGED <<engine, bkup, blob, last, warm>>

Next ==
    /\ \/ SetEnable \/ SetInternalIP \/ SetIPv6Host
       \/ Validate \/ Commit \/ Rollback
       \/ Push \/ Start \/ Clear \/ Conf \/ Apply \/ ToDml \/ RollbackDmz
       \/ Restart \/ PowerCut
    /\ UNCHANGED faults

Spec == Init /\ [][Next]_vars

----------------------------------------------------------------------------
(* Properties.                                                              *)

TakesTurns == "overlap" \notin faults

\* While the two threads take turns, and the last setting that was applied is
\* a blob's of this process, a blob that is refused, or whose keys could not
\* be cleared or set, leaves that setting in the store, unless the rollback
\* itself reports a failure, however often blobs fail and at whichever call
\* (Process_DMZ_WebConfigRequest, backup_dmz_cache, rollback_dmz).
RefusalKeepsDmz ==
    TakesTurns /\ pc \in {"idle", "queued"} /\ warm /\ outcome # "failed" => SettingOf(db) = last

\* While the two threads take turns, a power cut never finds the DMZ switched
\* on without an address, although the keys are unset and committed one by one
\* and any of the calls may fail (clear_dmz_cache_DB, apply_dmz_cache_ToDB).
SavedHasHost == TakesTurns /\ flash.en = On => flash.ip # Unset

\* The broadcast address, which CosaDmlNatChkPortMappingClient lets through,
\* never gets into the store, from either thread, although it may sit in
\* pNat->Dmz, reloading it may fail, and the threads interleave
\* (X_CISCO_COM_DMZ_Validate, set_dmz_conf).
BroadcastNeverStored == db.ip # Broadcast

\* While the two threads take turns and no call fails, the flag and the host of
\* the data model are those of the store whenever neither is busy, through
\* refused sets and blobs, crashes and power cuts, except after a rollback that
\* had no copy of the setting (apply_dmz_ToDML, CosaDmlNatGetDmz, rollback_dmz).
DmlFollowsStore ==
    TakesTurns /\ failures = 0 /\ (outcome = "restored" => warm)
        /\ pc = "idle" /\ phase = "idle"
    => dml = [Loaded(db) EXCEPT !.IPv6Host = dml.IPv6Host]

=============================================================================
