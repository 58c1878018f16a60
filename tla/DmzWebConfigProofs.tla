------------------------- MODULE DmzWebConfigProofs -------------------------
(***************************************************************************)
(* What no instance can show of DmzWebConfig, for any hosts, blobs, faults  *)
(* and numbers of failures: with the two threads interleaving freely, its   *)
(* types, and that the broadcast address stays out of the store; for        *)
(* threads that take turns, what a power cut finds, what a refused blob     *)
(* leaves, and that the data model shows the store.                         *)
(***************************************************************************)
EXTENDS DmzWebConfig, TLAPS

\* Clearing visits the two keys; and from the moment a blob is accepted until
\* the data model shows it, the cache holds what it asks for.
Accepted ==
    /\ pc = "clear" => key \in {"en", "ip"}
    /\ pc \in {"apply", "dml"} => cache = SettingAsked(blob) /\ Acceptable(blob)

\* The broadcast address is nowhere but in staged values: not in the store, not
\* in what a rollback would put there, not in what Commit is about to write.
Contained ==
    /\ db.ip # Broadcast
    /\ flash.ip # Broadcast
    /\ cache.ip # Broadcast
    /\ bkup.ip # Broadcast
    /\ phase = "commit" => dml.InternalIP # Broadcast

IInv == TypeOK /\ Accepted /\ Contained

USE HostsAssumption, V6HostsAssumption, DmzBlobsAssumption, MaxFailuresAssumption,
    DmzFaultsAssumption
    DEF Unset, Empty, None, On, Broadcast, Blank

----------------------------------------------------------------------------
(* Values.                                                                  *)

\* What is read from the store, or asked for by a blob, has its type.
LEMMA DmzType ==
  ASSUME NEW e \in BOOLEAN, NEW a \in Ips \ {Unset}, NEW v \in V6s
  PROVE  Dmz(e, a, v) \in Dml
BY DEF Dmz, Dml

LEMMA LoadedType ==
  ASSUME NEW d \in Store
  PROVE  Loaded(d) \in Dml
BY DEF Loaded, Dmz, Store, Dml, Ips, Ens, V6s

LEMMA ZeroDmlType == ZeroDml \in Dml
BY DEF ZeroDml, Dmz, Dml, Ips, V6s

LEMMA SavedType ==
  ASSUME NEW m \in Dml
  PROVE  Saved(m) \in Store
BY DEF Saved, Flag, Store, Dml, Ips, Ens, V6s

LEMMA SettingAskedType ==
  ASSUME NEW b \in Blobs \cup {NoBlob}
  PROVE  /\ SettingAsked(b) \in Setting
         /\ SettingAsked(b) \in Cache
         /\ Acceptable(b) => SettingAsked(b).ip \in {None} \cup Hosts
BY DEF SettingAsked, Setting, Cache, Acceptable, NoBlob, Flag, Ips, Ens

\* A call on a key gives the key its value, and leaves the rest alone.
LEMMA SetKeyType ==
  ASSUME NEW d \in Store, d.ip # Broadcast,
         NEW k \in {"en", "ip"}, NEW v,
         v \in (IF k = "en" THEN Ens ELSE Ips) \cup {Blank}, v # Broadcast
  PROVE  SetKey(d, k, v) \in Store /\ SetKey(d, k, v).ip # Broadcast
BY DEF SetKey, Store, Ips, Ens, V6s

----------------------------------------------------------------------------
(* The start of the process.                                                *)

LEMMA InitHolds == Init => IInv
<1> SUFFICES ASSUME Init PROVE IInv
  OBVIOUS
<1>1. db \in Store /\ db.ip # Broadcast
  BY DEF Init, Store, Ips, Ens, V6s
<1>2. TypeOK
  <2>1. db \in Store /\ flash \in Store /\ dml \in Dml
    BY <1>1, LoadedType DEF Init
  <2>2. cache \in Cache /\ bkup \in Cache
    BY DEF Init, InitCache, Cache, Ips, Ens
  <2>3. last \in Setting
    BY <1>1 DEF Init, SettingOf, Setting, Store
  <2>4. failures \in 0 .. MaxFailures
    BY DEF Init
  <2>5. faults \subseteq AllFaults
    BY DEF Init
  <2> QED
    BY <2>1, <2>2, <2>3, <2>4, <2>5 DEF Init, TypeOK
<1>3. Accepted /\ Contained
  BY <1>1 DEF Init, Accepted, Contained, InitCache
<1> QED
  BY <1>2, <1>3 DEF IInv

LEMMA InitializeHolds ==
  ASSUME IInv, UNCHANGED faults, NEW d \in Store, d.ip # Broadcast, Initialize(d),
         db' \in Store, db'.ip # Broadcast, flash' \in Store, flash'.ip # Broadcast
  PROVE  IInv'
<1>1. dml' \in Dml /\ failures' \in 0 .. MaxFailures
  BY LoadedType, ZeroDmlType DEF Initialize, GetDmz, Succeeds, Fails, IInv, TypeOK
<1>2. TypeOK'
  BY <1>1 DEF Initialize, InitCache, IInv, TypeOK, Cache, Ips, Ens
<1>3. Accepted' /\ Contained'
  BY DEF Initialize, InitCache, Accepted, Contained
<1> QED
  BY <1>2, <1>3 DEF IInv

----------------------------------------------------------------------------
(* The data-model engine.                                                   *)

LEMMA StageHolds ==
  ASSUME IInv, UNCHANGED faults, NEW m \in Dml, Stage(m)
  PROVE  IInv'
BY DEF Stage, IInv, TypeOK, Accepted, Contained, syscfg, buffers, worker, requests

LEMMA SetParamHolds ==
  ASSUME IInv, UNCHANGED faults, SetEnable \/ SetInternalIP \/ SetIPv6Host
  PROVE  IInv'
<1>1. /\ dml.bEnabled \in BOOLEAN /\ dml.InternalIP \in Ips \ {Unset}
      /\ dml.IPv6Host \in V6s /\ Empty \in V6s
  BY DEF IInv, TypeOK, Dml, V6s
<1>2. \A a \in Hosts \cup {None, Broadcast} : a \in Ips \ {Unset}
  BY DEF Ips
<1>3. CASE SetEnable
  BY <1>1, <1>2, <1>3, DmzType, StageHolds DEF SetEnable
<1>4. CASE SetInternalIP
  <2>1. CASE Stage(Dmz(dml.bEnabled, None, dml.IPv6Host))
    BY <1>1, <1>2, <2>1, DmzType, StageHolds
  <2>2. ASSUME NEW a \in Hosts \cup {Broadcast}, Stage(Dmz(TRUE, a, dml.IPv6Host))
        PROVE  IInv'
    <3>1. a \in Ips \ {Unset} /\ dml.IPv6Host \in V6s
      BY <1>1 DEF Ips
    <3>2. Dmz(TRUE, a, dml.IPv6Host) \in Dml
      BY <3>1 DEF Dmz, Dml
    <3> QED
      BY <2>2, <3>2, StageHolds, Zenon
  <2> QED
    BY <1>4, <2>1, <2>2, Zenon DEF SetInternalIP
<1>5. CASE SetIPv6Host
  BY <1>1, <1>5, DmzType, StageHolds DEF SetIPv6Host
<1> QED
  BY <1>3, <1>4, <1>5

\* What Validate lets through to Commit is not the broadcast address.
LEMMA ValidateHolds ==
  ASSUME IInv, UNCHANGED faults, Validate
  PROVE  IInv'
<1>1. dml' \in Dml /\ failures' \in 0 .. MaxFailures
  BY LoadedType DEF Validate, GetDmz, Succeeds, Fails, IInv, TypeOK
<1>2. phase' = "commit" => dml'.InternalIP # Broadcast
  BY DEF Validate
<1> QED
  BY <1>1, <1>2 DEF Validate, IInv, TypeOK, Accepted, Contained, syscfg, buffers, worker, requests

LEMMA CommitHolds ==
  ASSUME IInv, UNCHANGED faults, Commit
  PROVE  IInv'
<1>1. UNCHANGED <<dml, buffers, worker>> /\ phase = "commit"
  BY DEF Commit
<1>2. CASE CommitOk
  <2>1. db' \in Store /\ db'.ip # Broadcast /\ flash' = db'
    BY <1>1, <1>2, SavedType DEF CommitOk, Saved, IInv, TypeOK, Contained
  <2>2. last' \in Setting
    BY <1>2, <2>1 DEF CommitOk, SettingOf, Setting, Store
  <2> QED
    BY <1>1, <1>2, <2>1, <2>2
    DEF CommitOk, Succeeds, IInv, TypeOK, Accepted, Contained, buffers, worker
<1>3. CASE CommitFail
  BY <1>1, <1>3 DEF CommitFail, Fails, IInv, TypeOK, Accepted, Contained, syscfg, requests,
                    buffers, worker
<1> QED
  BY <1>2, <1>3 DEF Commit

LEMMA RollbackHolds ==
  ASSUME IInv, UNCHANGED faults, Rollback
  PROVE  IInv'
<1>1. dml' \in Dml /\ failures' \in 0 .. MaxFailures
  BY LoadedType DEF Rollback, GetDmz, Succeeds, Fails, IInv, TypeOK
<1> QED
  BY <1>1 DEF Rollback, IInv, TypeOK, Accepted, Contained, syscfg, buffers, worker, requests

----------------------------------------------------------------------------
(* The worker.                                                              *)

LEMMA PushStartHold ==
  ASSUME IInv, UNCHANGED faults, Push \/ Start
  PROVE  IInv'
<1>1. CASE Push
  BY <1>1 DEF Push, IInv, TypeOK, Accepted, Contained, syscfg, buffers, requests
<1>2. CASE Start
  BY <1>2 DEF Start, IInv, TypeOK, Accepted, Contained, syscfg, engine, requests
<1> QED
  BY <1>1, <1>2

\* The key the loop is at, unset.
LEMMA UnsetType ==
  ASSUME IInv, NEW k \in {"en", "ip"}
  PROVE  LET d == SetKey(db, k, IF cache[k] = Blank THEN Blank ELSE Unset)
             c == [cache EXCEPT ![k] = Blank]
         IN  d \in Store /\ d.ip # Broadcast /\ c \in Cache /\ c.ip # Broadcast
<1>1. db \in Store /\ db.ip # Broadcast /\ cache \in Cache /\ cache.ip # Broadcast
  BY DEF IInv, TypeOK, Contained
<1>2. SetKey(db, k, IF cache[k] = Blank THEN Blank ELSE Unset) \in Store
      /\ SetKey(db, k, IF cache[k] = Blank THEN Blank ELSE Unset).ip # Broadcast
  BY <1>1, SetKeyType DEF Ens, Ips
<1>3. [cache EXCEPT ![k] = Blank] \in Cache /\ [cache EXCEPT ![k] = Blank].ip # Broadcast
  BY <1>1 DEF Cache
<1> QED
  BY <1>2, <1>3

LEMMA ClearHolds ==
  ASSUME IInv, UNCHANGED faults, Clear
  PROVE  IInv'
<1>1. key \in {"en", "ip"} /\ UNCHANGED <<engine, bkup, blob, requests>>
  BY DEF Clear, IInv, Accepted
<1>2. db' \in Store /\ db'.ip # Broadcast /\ flash' \in Store /\ flash'.ip # Broadcast
  BY <1>1, UnsetType DEF Clear, ClearKey, UnsetFails, ClearCommitFails, syscfg, IInv, TypeOK, Contained
<1>3. cache' \in Cache /\ cache'.ip # Broadcast
  <2>1. cache \in Cache /\ cache.ip # Broadcast
    BY DEF IInv, TypeOK, Contained
  <2>2. cache' = cache \/ cache' = [cache EXCEPT ![key] = Blank]
    BY DEF Clear, ClearKey, UnsetFails, ClearCommitFails
  <2>3. [cache EXCEPT ![key] = Blank] \in Cache /\ [cache EXCEPT ![key] = Blank].ip # Broadcast
    BY <1>1, UnsetType
  <2> QED
    BY <2>1, <2>2, <2>3
<1>4. /\ pc' \in {"clear", "conf", "rollback"}
      /\ key' \in {"en", "ip"}
      /\ failures' \in 0 .. MaxFailures
  BY DEF Clear, ClearKey, UnsetFails, ClearCommitFails, GiveUp, Succeeds, Fails, IInv, TypeOK
<1> QED
  BY <1>1, <1>2, <1>3, <1>4 DEF IInv, TypeOK, Accepted, Contained, engine, requests

\* A blob that names no host of the LAN goes no further than the cache's flag.
LEMMA ConfHolds ==
  ASSUME IInv, UNCHANGED faults, Conf
  PROVE  IInv'
<1>1. UNCHANGED <<syscfg, engine, bkup, blob, failures, requests>> /\ blob \in Blobs \cup {NoBlob}
  BY DEF Conf, IInv, TypeOK
<1>2. CASE Acceptable(blob)
  <2>1. SettingAsked(blob) \in Cache /\ SettingAsked(blob).ip # Broadcast
    BY <1>1, <1>2, SettingAskedType
  <2> QED
    BY <1>1, <1>2, <2>1 DEF Conf, IInv, TypeOK, Accepted, Contained, syscfg, engine, requests
<1>3. CASE ~Acceptable(blob)
  <2>1. cache' \in Cache /\ cache'.ip # Broadcast /\ GiveUp
    BY <1>3 DEF Conf, IInv, TypeOK, Contained, Cache, Ens
  <2> QED
    BY <1>1, <2>1 DEF GiveUp, IInv, TypeOK, Accepted, Contained, syscfg, engine, requests
<1> QED
  BY <1>2, <1>3

\* What apply_dmz_cache_ToDB does to the store, with the cache or the copy.
LEMMA PutSaveType ==
  ASSUME IInv, NEW arr \in Cache, arr.ip # Broadcast, Put(arr) \/ Save
  PROVE  /\ db' \in Store /\ db'.ip # Broadcast
         /\ flash' \in Store /\ flash'.ip # Broadcast
         /\ failures' \in 0 .. MaxFailures
<1>1. db \in Store /\ db.ip # Broadcast /\ flash \in Store /\ flash.ip # Broadcast
  BY DEF IInv, TypeOK, Contained
<1>2. CASE Put(arr)
  <2>1. arr[key] \in (IF key = "en" THEN Ens ELSE Ips) \cup {Blank} /\ arr[key] # Broadcast
    BY <1>2 DEF Put, Cache, Ens
  <2> QED
    BY <1>1, <1>2, <2>1, SetKeyType DEF Put, Succeeds, IInv, TypeOK
<1>3. CASE Save
  BY <1>1, <1>3 DEF Save, Succeeds, IInv, TypeOK
<1> QED
  BY <1>2, <1>3

LEMMA ApplyHolds ==
  ASSUME IInv, UNCHANGED faults, Apply
  PROVE  IInv'
<1>1. cache \in Cache /\ cache.ip # Broadcast /\ pc = "apply"
      /\ UNCHANGED <<engine, buffers, blob, requests>>
  BY DEF Apply, IInv, TypeOK, Contained
<1>2. CASE Put(cache) /\ UNCHANGED pc
  BY <1>1, <1>2, PutSaveType DEF Put, IInv, TypeOK, Accepted, Contained, engine, buffers, requests
<1>3. CASE Save /\ pc' = "dml" /\ key' = "en"
  BY <1>1, <1>3, PutSaveType DEF IInv, TypeOK, Accepted, Contained, engine, buffers, requests
<1>4. CASE Fails /\ GiveUp /\ UNCHANGED syscfg
  BY <1>1, <1>4 DEF Fails, GiveUp, IInv, TypeOK, Accepted, Contained, syscfg, engine, buffers, requests
<1> QED
  BY <1>2, <1>3, <1>4 DEF Apply

\* The data model gets the blob's address, or none.
LEMMA ToDmlHolds ==
  ASSUME IInv, UNCHANGED faults, ToDml
  PROVE  IInv'
<1>1. /\ pc = "dml" /\ blob \in Blobs \cup {NoBlob}
      /\ UNCHANGED <<syscfg, phase, buffers, blob, failures>>
      /\ cache = SettingAsked(blob) /\ Acceptable(blob)
      /\ dml \in Dml /\ dml.bEnabled \in BOOLEAN
      /\ dml.InternalIP \in Ips \ {Unset} /\ dml.IPv6Host \in V6s /\ Empty \in V6s
  BY DEF ToDml, IInv, TypeOK, Accepted, Dml, V6s
<1>2. /\ SettingAsked(blob) \in Setting
      /\ cache.ip \in {None} \cup Hosts
      /\ \A a \in {None} \cup Hosts : a \in Ips \ {Unset} /\ a # Broadcast
  BY <1>1, SettingAskedType DEF Ips
<1>3. CASE ToDmlFlag
  <2>1. dml' \in Dml /\ dml'.InternalIP = dml.InternalIP
    BY <1>1, <1>3, DmzType DEF ToDmlFlag, Dmz
  <2> QED
    BY <1>1, <1>3, <2>1
    DEF ToDmlFlag, IInv, TypeOK, Accepted, Contained, syscfg, buffers, requests
<1>4. CASE ToDmlHosts
  <2>1. CASE dml.bEnabled
    BY <1>1, <1>2, <1>4, <2>1, DmzType
    DEF ToDmlHosts, Dmz, IInv, TypeOK, Accepted, Contained, syscfg, buffers
  <2>2. CASE ~dml.bEnabled
    BY <1>1, <1>2, <1>4, <2>2, DmzType
    DEF ToDmlHosts, Dmz, IInv, TypeOK, Accepted, Contained, syscfg, buffers
  <2> QED
    BY <2>1, <2>2
<1> QED
  BY <1>3, <1>4 DEF ToDml

LEMMA RollbackDmzHolds ==
  ASSUME IInv, UNCHANGED faults, RollbackDmz
  PROVE  IInv'
<1>1. bkup \in Cache /\ bkup.ip # Broadcast /\ pc = "rollback"
      /\ UNCHANGED <<engine, bkup, blob, last, warm>>
  BY DEF RollbackDmz, IInv, TypeOK, Contained
<1>2. CASE Put(bkup) /\ UNCHANGED <<cache, pc, outcome>>
  BY <1>1, <1>2, PutSaveType DEF Put, IInv, TypeOK, Accepted, Contained, engine
<1>3. CASE Save /\ cache' = bkup /\ pc' = "idle" /\ key' = "en" /\ outcome' = "restored"
  BY <1>1, <1>3, PutSaveType DEF IInv, TypeOK, Accepted, Contained, engine
<1>4. CASE Fails /\ cache' = bkup /\ pc' = "idle" /\ key' = "en" /\ outcome' = "failed"
           /\ UNCHANGED syscfg
  BY <1>1, <1>4 DEF Fails, IInv, TypeOK, Accepted, Contained, syscfg, engine
<1> QED
  BY <1>2, <1>3, <1>4 DEF RollbackDmz

----------------------------------------------------------------------------
(* The theorems.                                                            *)

LEMMA Inductive == IInv /\ [Next]_vars => IInv'
<1> SUFFICES ASSUME IInv, [Next]_vars PROVE IInv'
  OBVIOUS
<1>0. UNCHANGED faults
  BY DEF Next, vars
<1>1. CASE SetEnable \/ SetInternalIP \/ SetIPv6Host
  BY <1>0, <1>1, SetParamHolds
<1>2. CASE Validate \/ Commit \/ Rollback
  BY <1>0, <1>2, ValidateHolds, CommitHolds, RollbackHolds
<1>3. CASE Push \/ Start \/ Clear \/ Conf
  BY <1>0, <1>3, PushStartHold, ClearHolds, ConfHolds
<1>4. CASE Apply \/ ToDml \/ RollbackDmz
  BY <1>0, <1>4, ApplyHolds, ToDmlHolds, RollbackDmzHolds
<1>5. CASE Restart
  BY <1>0, <1>5, InitializeHolds DEF Restart, syscfg, IInv, TypeOK, Contained
<1>6. CASE PowerCut
  BY <1>0, <1>6, InitializeHolds DEF PowerCut, IInv, TypeOK, Contained
<1>7. CASE UNCHANGED vars
  BY <1>7 DEF vars, system, syscfg, engine, buffers, worker, requests, IInv, TypeOK, Accepted, Contained
<1> QED
  BY <1>1, <1>2, <1>3, <1>4, <1>5, <1>6, <1>7 DEF Next

\* Every variable stays within its type (COSA_DML_NAT_DMZ, t_cache).
THEOREM DmzTypes == Spec => []TypeOK
<1>1. Init => IInv
  BY InitHolds
<1>2. IInv /\ [Next]_vars => IInv'
  BY Inductive
<1>3. IInv => TypeOK
  BY DEF IInv
<1> QED
  BY <1>1, <1>2, <1>3, PTL DEF Spec

\* The broadcast address never gets into the store, for any hosts and blobs,
\* any failures, crashes and power cuts, and any interleaving of the engine
\* with the worker (X_CISCO_COM_DMZ_Validate, set_dmz_conf).
THEOREM BroadcastStaysOut == Spec => []BroadcastNeverStored
<1>1. Init => IInv
  BY InitHolds
<1>2. IInv /\ [Next]_vars => IInv'
  BY Inductive
<1>3. IInv => BroadcastNeverStored
  BY DEF IInv, Contained, BroadcastNeverStored
<1> QED
  BY <1>1, <1>2, <1>3, PTL DEF Spec

----------------------------------------------------------------------------
(* What the worker promises while the engine keeps out of its way: a power  *)
(* cut never finds half of a setting committed, and a refused blob leaves    *)
(* the setting it found, however many calls fail.                           *)


\* The slots of a cache that can be written back: both keys, and an address.
Full(c) == c.en # Blank /\ c.ip \notin {Blank, Unset}

Busy == {"clear", "conf", "apply", "dml", "rollback"}

\* The engine has no session open while the worker is at a blob.
Turns == pc \in Busy => phase = "idle"

\* Between blobs the cache is full, and during a blob the copy of it.
Copied ==
    /\ pc \notin Busy => Full(cache)
    /\ pc \in Busy => Full(bkup)
    /\ pc = "clear" /\ key = "en" => cache = bkup

\* What the loops over the two keys have done so far.
Written(arr) ==
    /\ key \in {"ip", "save"} => db.en = arr.en
    /\ key = "save" => db.ip = arr.ip

Halfway ==
    /\ pc = "clear" /\ key = "ip" => db.en # On
    /\ pc = "apply" => Written(cache)
    /\ pc = "rollback" => Written(bkup)
    /\ pc = "dml" => SettingOf(db) = cache

\* The setting that was last applied is in the cache, or in the copy.
Remembered ==
    /\ warm /\ pc \notin Busy => cache = last
    /\ warm /\ pc \in Busy => bkup = last

\* The two properties, for threads that take turns.
HostKept == flash.en = On => flash.ip # Unset
LastKept == pc \in {"idle", "queued"} /\ warm /\ outcome # "failed" => SettingOf(db) = last

TurnsInv == Turns /\ Copied /\ Halfway /\ Remembered /\ HostKept /\ LastKept

----------------------------------------------------------------------------
(* The start of the process, and the engine.                                *)

LEMMA InitTurns == Init => TurnsInv
<1> SUFFICES ASSUME Init PROVE TurnsInv
  OBVIOUS
<1>1. flash.en = On => flash.ip # Unset
  BY DEF Init
<1> QED
  BY <1>1 DEF Init, InitCache, TurnsInv, Turns, Copied, Full, Halfway, Written, Remembered,
              Busy, HostKept, LastKept

\* A start of the process finds the committed store as it was, and empty buffers.
LEMMA InitializeTurns ==
  ASSUME TurnsInv, NEW d, Initialize(d), flash' = flash
  PROVE  TurnsInv'
BY DEF Initialize, InitCache, TurnsInv, Turns, Copied, Full, Halfway, Written, Remembered,
       Busy, HostKept, LastKept

\* The engine stages and checks while the worker waits.
LEMMA EngineTurns ==
  ASSUME TurnsInv, TakesTurns,
         SetEnable \/ SetInternalIP \/ SetIPv6Host \/ Validate \/ Rollback
  PROVE  TurnsInv'
<1>1. pc \notin Busy /\ UNCHANGED <<syscfg, buffers, worker, requests>>
  BY DEF SetEnable, SetInternalIP, SetIPv6Host, Stage, Validate, Rollback, EngineRuns, TakesTurns, Busy
<1> QED
  BY <1>1 DEF TurnsInv, Turns, Copied, Halfway, Remembered, Busy, HostKept, LastKept,
              syscfg, buffers, worker, requests

\* A commit of the engine stores an address, and ends the memory of a blob
\* whose setting it changes.
LEMMA CommitTurns ==
  ASSUME IInv, TurnsInv, TakesTurns, Commit
  PROVE  TurnsInv'
<1>1. pc \notin Busy /\ pc' = pc /\ key' = key /\ cache' = cache /\ bkup' = bkup
  BY DEF Commit, EngineRuns, TakesTurns, Busy, buffers, worker
<1>2. CASE CommitOk
  <2>1. flash' = db' /\ db'.ip # Unset
    BY <1>2 DEF CommitOk, Saved, IInv, TypeOK, Dml
  <2>2. last' = SettingOf(db') /\ warm' = (warm /\ last' = last) /\ outcome' = outcome
    BY <1>2 DEF CommitOk
  <2> QED
    BY <1>1, <2>1, <2>2 DEF TurnsInv, Turns, Copied, Halfway, Remembered, Busy, HostKept,
                            LastKept
<1>3. CASE CommitFail
  BY <1>1, <1>3 DEF CommitFail, TurnsInv, Turns, Copied, Halfway, Remembered, Busy,
                    HostKept, LastKept, syscfg, requests
<1> QED
  BY <1>2, <1>3 DEF Commit

----------------------------------------------------------------------------
(* The worker.                                                              *)

LEMMA PushStartTurns ==
  ASSUME IInv, TurnsInv, TakesTurns, Push \/ Start
  PROVE  TurnsInv'
<1>1. CASE Push
  BY <1>1 DEF Push, TurnsInv, Turns, Copied, Halfway, Remembered, Busy, HostKept,
              LastKept, syscfg, buffers, requests
<1>2. CASE Start
  BY <1>2 DEF Start, WorkerRuns, TakesTurns, TurnsInv, Turns, Copied, Halfway, Remembered, Busy,
              HostKept, LastKept, syscfg, engine, requests
<1> QED
  BY <1>1, <1>2

\* The flag is unset before the address: what is committed between the two
\* is switched off.
LEMMA ClearTurns ==
  ASSUME IInv, TurnsInv, Clear
  PROVE  TurnsInv'
<1>1. /\ pc = "clear" /\ pc \in Busy /\ key \in {"en", "ip"} /\ db \in Store
      /\ UNCHANGED <<engine, bkup, blob, requests>>
  BY DEF Clear, IInv, Accepted, TypeOK, Busy
<1>2. /\ phase = "idle" /\ Full(bkup) /\ (key = "en" => cache.en # Blank)
      /\ (key = "ip" => db.en # On) /\ (warm => bkup = last) /\ HostKept
  BY <1>1 DEF TurnsInv, Turns, Copied, Full, Halfway, Remembered
<1>3. CASE ClearKey
  <2>1. db'.en # On /\ flash' = db'
    BY <1>1, <1>2, <1>3 DEF ClearKey, SetKey, Store
  <2>2. (pc' = "clear" /\ key' = "ip") \/ pc' = "conf"
    BY <1>1, <1>3 DEF ClearKey
  <2> QED
    BY <1>1, <1>2, <2>1, <2>2
    DEF TurnsInv, Turns, Copied, Halfway, Remembered, Busy, HostKept, LastKept,
        engine, requests
<1>4. CASE UnsetFails \/ ClearCommitFails
  <2>1. flash' = flash /\ pc' = "rollback" /\ key' = "en"
    BY <1>4 DEF UnsetFails, ClearCommitFails, GiveUp, syscfg
  <2> QED
    BY <1>1, <1>2, <2>1
    DEF TurnsInv, Turns, Copied, Halfway, Written, Remembered, Busy, HostKept,
        LastKept, engine, requests
<1> QED
  BY <1>3, <1>4 DEF Clear

LEMMA ConfTurns ==
  ASSUME TurnsInv, Conf
  PROVE  TurnsInv'
<1>1. /\ pc = "conf" /\ pc' \in {"apply", "rollback"} /\ key' = "en"
      /\ UNCHANGED <<syscfg, engine, bkup, blob, failures, requests>>
  BY DEF Conf, GiveUp
<1> QED
  BY <1>1 DEF TurnsInv, Turns, Copied, Halfway, Written, Remembered, Busy, HostKept,
              LastKept, syscfg, engine, requests

\* A call writes the slot of its key.
LEMMA PutTurns ==
  ASSUME IInv, NEW arr \in Cache, Full(arr), Written(arr), Put(arr)
  PROVE  /\ key' \in {"ip", "save"} => db'.en = arr.en
         /\ key' = "save" => db'.ip = arr.ip
         /\ flash' = flash
<1>1. db \in Store /\ key \in {"en", "ip"} /\ flash' = flash
  BY DEF IInv, TypeOK, Put
<1>2. db' = [db EXCEPT ![key] = arr[key]]
  BY <1>1 DEF Put, SetKey, Full
<1>3. CASE key = "en"
  BY <1>1, <1>2, <1>3 DEF Put, Written, Store
<1>4. CASE key = "ip"
  BY <1>1, <1>2, <1>4 DEF Put, Written, Store
<1> QED
  BY <1>1, <1>3, <1>4

\* An accepted blob names an address to write.
LEMMA AskedFull ==
  ASSUME NEW b \in Blobs \cup {NoBlob}, Acceptable(b)
  PROVE  Full(SettingAsked(b))
BY DmzBlobsAssumption DEF Acceptable, SettingAsked, Flag, Full, NoBlob

LEMMA ApplyTurns ==
  ASSUME IInv, TurnsInv, Apply
  PROVE  TurnsInv'
<1>1. /\ pc = "apply" /\ pc \in Busy /\ cache \in Cache /\ Full(cache)
      /\ UNCHANGED <<engine, buffers, blob, requests>>
  BY AskedFull DEF Apply, IInv, TypeOK, Accepted, Busy
<1>2. /\ phase = "idle" /\ Full(bkup) /\ Written(cache) /\ (warm => bkup = last) /\ HostKept
  BY <1>1 DEF TurnsInv, Turns, Copied, Halfway, Remembered
<1>3. CASE Put(cache) /\ UNCHANGED pc
  <2>1. /\ key' \in {"ip", "save"} => db'.en = cache.en
        /\ key' = "save" => db'.ip = cache.ip
        /\ flash' = flash /\ cache' = cache /\ bkup' = bkup
    BY <1>1, <1>2, <1>3, PutTurns DEF buffers
  <2> QED
    BY <1>1, <1>2, <1>3, <2>1
    DEF TurnsInv, Turns, Copied, Halfway, Written, Remembered, Busy, HostKept,
        LastKept, engine, buffers, requests
<1>4. CASE Save /\ pc' = "dml" /\ key' = "en"
  <2>1. flash' = db /\ db' = db /\ db.en = cache.en /\ db.ip = cache.ip
    BY <1>2, <1>4 DEF Save, Written
  <2>2. SettingOf(db) = cache
    BY <1>1, <2>1 DEF SettingOf, Cache
  <2> QED
    BY <1>1, <1>2, <1>4, <2>1, <2>2
    DEF TurnsInv, Turns, Copied, Full, Halfway, Remembered, Busy, HostKept,
        LastKept, engine, buffers, requests
<1>5. CASE Fails /\ GiveUp /\ UNCHANGED syscfg
  BY <1>1, <1>2, <1>5
  DEF GiveUp, TurnsInv, Turns, Copied, Halfway, Written, Remembered, Busy, HostKept,
      LastKept, syscfg, engine, buffers, requests
<1> QED
  BY <1>3, <1>4, <1>5 DEF Apply

\* The request ends with its setting in the store and in the cache.
LEMMA ToDmlTurns ==
  ASSUME IInv, TurnsInv, ToDml
  PROVE  TurnsInv'
<1>1. /\ pc = "dml" /\ pc \in Busy /\ cache = SettingAsked(blob) /\ Full(cache)
      /\ UNCHANGED <<syscfg, phase, buffers, blob, failures>>
  BY AskedFull DEF ToDml, IInv, TypeOK, Accepted, Busy
<1>2. CASE ToDmlFlag
  BY <1>1, <1>2
  DEF ToDmlFlag, TurnsInv, Turns, Copied, Halfway, Remembered, Busy, HostKept,
      LastKept, syscfg, buffers, requests
<1>3. CASE ToDmlHosts
  BY <1>1, <1>3
  DEF ToDmlHosts, TurnsInv, Turns, Copied, Halfway, Remembered, Busy, HostKept,
      LastKept, syscfg, buffers
<1> QED
  BY <1>2, <1>3 DEF ToDml

\* The copy holds the last setting, and is written back whole.
LEMMA RollbackDmzTurns ==
  ASSUME IInv, TurnsInv, RollbackDmz
  PROVE  TurnsInv'
<1>1. /\ pc = "rollback" /\ pc \in Busy /\ bkup \in Cache
      /\ UNCHANGED <<engine, bkup, blob, last, warm>>
  BY DEF RollbackDmz, IInv, TypeOK, Busy
<1>2. /\ phase = "idle" /\ Full(bkup) /\ Written(bkup) /\ (warm => bkup = last) /\ HostKept
  BY <1>1 DEF TurnsInv, Turns, Copied, Halfway, Remembered
<1>3. CASE Put(bkup) /\ UNCHANGED <<cache, pc, outcome>>
  <2>1. /\ key' \in {"ip", "save"} => db'.en = bkup.en
        /\ key' = "save" => db'.ip = bkup.ip
        /\ flash' = flash /\ bkup' = bkup
    BY <1>1, <1>2, <1>3, PutTurns
  <2> QED
    BY <1>1, <1>2, <1>3, <2>1
    DEF TurnsInv, Turns, Copied, Halfway, Written, Remembered, Busy, HostKept,
        LastKept, engine
<1>4. CASE Save /\ cache' = bkup /\ pc' = "idle" /\ key' = "en" /\ outcome' = "restored"
  <2>1. flash' = db /\ db' = db /\ db.en = bkup.en /\ db.ip = bkup.ip
    BY <1>2, <1>4 DEF Save, Written
  <2>2. SettingOf(db) = bkup
    BY <1>1, <2>1 DEF SettingOf, Cache
  <2> QED
    BY <1>1, <1>2, <1>4, <2>1, <2>2
    DEF TurnsInv, Turns, Copied, Full, Halfway, Remembered, Busy, HostKept,
        LastKept, engine
<1>5. CASE Fails /\ cache' = bkup /\ pc' = "idle" /\ key' = "en" /\ outcome' = "failed"
           /\ UNCHANGED syscfg
  BY <1>1, <1>2, <1>5
  DEF TurnsInv, Turns, Copied, Halfway, Remembered, Busy, HostKept, LastKept,
      syscfg, engine
<1> QED
  BY <1>3, <1>4, <1>5 DEF RollbackDmz

----------------------------------------------------------------------------
(* The theorems of taking turns.                                            *)

LEMMA StepTurns ==
  ASSUME IInv, TurnsInv, TakesTurns, [Next]_vars
  PROVE  TurnsInv'
<1>1. CASE SetEnable \/ SetInternalIP \/ SetIPv6Host \/ Validate \/ Rollback
  BY <1>1, EngineTurns
<1>2. CASE Commit
  BY <1>2, CommitTurns
<1>3. CASE Push \/ Start \/ Clear \/ Conf
  BY <1>3, PushStartTurns, ClearTurns, ConfTurns
<1>4. CASE Apply \/ ToDml \/ RollbackDmz
  BY <1>4, ApplyTurns, ToDmlTurns, RollbackDmzTurns
<1>5. CASE Restart
  BY <1>5, InitializeTurns DEF Restart, syscfg
<1>6. CASE PowerCut
  BY <1>6, InitializeTurns DEF PowerCut
<1>7. CASE UNCHANGED vars
  BY <1>7 DEF vars, system, syscfg, engine, buffers, worker, requests, TurnsInv, Turns, Copied, Halfway,
              Written, Remembered, HostKept, LastKept
<1> QED
  BY <1>1, <1>2, <1>3, <1>4, <1>5, <1>6, <1>7 DEF Next

LEMMA TurnsInductive ==
  /\ Init => IInv /\ (TakesTurns => TurnsInv)
  /\ IInv /\ (TakesTurns => TurnsInv) /\ [Next]_vars => IInv' /\ (TakesTurns' => TurnsInv')
<1>1. [Next]_vars => faults' = faults
  BY DEF Next, vars
<1>2. [Next]_vars /\ TakesTurns' => TakesTurns
  BY <1>1 DEF TakesTurns
<1> QED
  BY <1>2, InitHolds, InitTurns, Inductive, StepTurns

\* While the two threads take turns, a power cut never finds the DMZ switched
\* on without an address, whatever fails (clear_dmz_cache_DB,
\* apply_dmz_cache_ToDB).
THEOREM HostSaved == Spec => []SavedHasHost
<1>1. (TakesTurns => TurnsInv) => SavedHasHost
  BY DEF TurnsInv, HostKept, SavedHasHost
<1> QED
  BY <1>1, TurnsInductive, PTL DEF Spec

\* While the two threads take turns, a blob that is refused or fails leaves the
\* last setting in the store, unless its rollback reports a failure
\* (Process_DMZ_WebConfigRequest, rollback_dmz).
THEOREM RefusalKeeps == Spec => []RefusalKeepsDmz
<1>1. (TakesTurns => TurnsInv) => RefusalKeepsDmz
  BY DEF TurnsInv, LastKept, RefusalKeepsDmz
<1> QED
  BY <1>1, TurnsInductive, PTL DEF Spec

----------------------------------------------------------------------------
(* The data model shows the store while no call fails: a reload always       *)
(* succeeds then, and the copy that a rollback writes back is the setting    *)
(* pNat->Dmz still has.                                                      *)

\* The flag and the host of pNat->Dmz are those of the setting s.
Shows(s) ==
    /\ dml.bEnabled = (s.en = On)
    /\ dml.InternalIP = IF s.ip \in {Unset, Empty} THEN None ELSE s.ip

\* Between blobs the data model shows the store; during a blob that has not
\* been applied yet it shows the setting before the blob; of an applied one it
\* gets the flag first.
Follows ==
    /\ dml.InternalIP # Empty
    /\ outcome # "failed"
    /\ phase = "idle" /\ pc \notin Busy /\ (outcome = "restored" => warm) => Shows(db)
    /\ warm /\ pc \in Busy \ {"dml"} => Shows(bkup)
    /\ pc = "dml" /\ key = "ip" => dml.bEnabled = (cache.en = On)

\* An address that is loaded is never the empty string.
LEMMA LoadedShows ==
  ASSUME NEW d \in Store, dml' = Loaded(d)
  PROVE  dml'.InternalIP # Empty /\ Shows(d)'
BY DEF Loaded, Dmz, Shows

\* No call has failed up to a step, and none fails in it.
LEMMA NoneFailed ==
  ASSUME IInv, [Next]_vars, failures' = 0
  PROVE  failures = 0
<1>1. failures \in Nat
  BY DEF IInv, TypeOK
<1>2. failures' = failures \/ failures' = failures + 1
  <2>1. CASE SetEnable \/ SetInternalIP \/ SetIPv6Host \/ Validate \/ Commit \/ Rollback
    BY <2>1 DEF SetEnable, SetInternalIP, SetIPv6Host, Stage, Validate, Commit, CommitOk, CommitFail,
                Rollback, GetDmz, Succeeds, Fails
  <2>2. CASE Push \/ Start \/ Clear \/ Conf
    BY <2>2 DEF Push, Start, Clear, ClearKey, UnsetFails, ClearCommitFails, Conf, Succeeds, Fails
  <2>3. CASE Apply \/ ToDml \/ RollbackDmz
    BY <2>3 DEF Apply, Put, Save, ToDml, RollbackDmz, Succeeds, Fails
  <2>4. CASE Restart \/ PowerCut
    BY <2>4 DEF Restart, PowerCut, Initialize, GetDmz, Succeeds, Fails
  <2>5. CASE UNCHANGED vars
    BY <2>5 DEF vars, system
  <2> QED
    BY <2>1, <2>2, <2>3, <2>4, <2>5 DEF Next
<1> QED
  BY <1>1, <1>2

LEMMA InitFollows == Init => Follows
<1> SUFFICES ASSUME Init PROVE Follows
  OBVIOUS
<1>1. dml.InternalIP # Empty /\ Shows(db)
  BY DEF Init, Loaded, Dmz, Shows
<1> QED
  BY <1>1 DEF Init, Follows, Busy

\* The start of the process loads the store.
LEMMA InitializeFollows ==
  ASSUME IInv, NEW d \in Store, db' = d, Initialize(d), failures = 0, failures' = 0
  PROVE  Follows'
<1>1. dml' = Loaded(d)
  BY DEF Initialize, GetDmz, Fails
<1>2. dml'.InternalIP # Empty /\ Shows(d)'
  BY <1>1, LoadedShows
<1> QED
  BY <1>2 DEF Initialize, Follows, Busy, Shows

\* The engine opens and checks a session while the worker waits; a session that
\* ends without a commit ends with a reload.
LEMMA EngineFollows ==
  ASSUME IInv, TurnsInv, Follows, TakesTurns, failures = 0, failures' = 0,
         SetEnable \/ SetInternalIP \/ SetIPv6Host \/ Validate \/ Rollback
  PROVE  Follows'
<1>1. pc \notin Busy /\ UNCHANGED <<syscfg, buffers, worker, requests>>
  BY DEF SetEnable, SetInternalIP, SetIPv6Host, Stage, Validate, Rollback, EngineRuns, TakesTurns,
         Busy
<1>2. dml.InternalIP # Empty /\ outcome # "failed" /\ db \in Store
  BY DEF Follows, IInv, TypeOK
<1>3. CASE SetEnable \/ SetInternalIP \/ SetIPv6Host
  <2>1. phase' = "set"
    BY <1>3 DEF SetEnable, SetInternalIP, SetIPv6Host, Stage
  <2>2. dml'.InternalIP # Empty
    BY <1>2, <1>3 DEF SetEnable, SetInternalIP, SetIPv6Host, Stage, Dmz
  <2> QED
    BY <1>1, <1>2, <2>1, <2>2 DEF Follows, Busy, worker, requests
<1>4. CASE Validate
  <2>1. phase' # "idle"
    BY <1>4 DEF Validate
  <2>2. dml'.InternalIP # Empty
    BY <1>2, <1>4, LoadedShows DEF Validate, GetDmz
  <2> QED
    BY <1>1, <1>2, <2>1, <2>2 DEF Follows, Busy, worker, requests
<1>5. CASE Rollback
  <2>1. dml' = Loaded(db)
    BY <1>5 DEF Rollback, GetDmz, Fails
  <2>2. dml'.InternalIP # Empty /\ Shows(db)'
    BY <1>1, <1>2, <2>1, LoadedShows DEF Shows, syscfg
  <2> QED
    BY <1>1, <1>2, <2>2 DEF Follows, Busy, worker, requests
<1> QED
  BY <1>3, <1>4, <1>5

\* A commit stores what is staged.
LEMMA CommitFollows ==
  ASSUME IInv, TurnsInv, Follows, TakesTurns, failures = 0, failures' = 0, Commit
  PROVE  Follows'
<1>1. pc \notin Busy /\ UNCHANGED <<dml, worker>>
  BY DEF Commit, EngineRuns, TakesTurns, Busy
<1>2. db' = Saved(dml) /\ outcome' = outcome
  BY DEF Commit, CommitOk, CommitFail, Fails
<1>3. Shows(db)'
  BY <1>1, <1>2 DEF Saved, Flag, Shows, Follows, IInv, TypeOK, Dml
<1> QED
  BY <1>1, <1>2, <1>3 DEF Follows, Busy, worker

\* A blob starts from the setting that the data model shows.
LEMMA PushStartFollows ==
  ASSUME IInv, TurnsInv, Follows, TakesTurns, Push \/ Start
  PROVE  Follows'
<1>1. CASE Push
  BY <1>1 DEF Push, Follows, Busy, requests
<1>2. CASE Start
  <2>1. pc = "queued" /\ phase = "idle" /\ bkup' = cache /\ pc' = "clear"
        /\ UNCHANGED <<syscfg, engine, requests>>
    BY <1>2 DEF Start, WorkerRuns, TakesTurns
  <2>2. ASSUME warm
        PROVE  Shows(cache)
    <3>1. SettingOf(db) = last /\ cache = last
      BY <2>1, <2>2 DEF TurnsInv, LastKept, Remembered, Follows, Busy
    <3>2. Shows(db)
      BY <2>1, <2>2 DEF Follows, Busy
    <3> QED
      BY <3>1, <3>2 DEF SettingOf, Shows
  <2> QED
    BY <2>1, <2>2 DEF Follows, Busy, Shows, syscfg, engine, requests
<1> QED
  BY <1>1, <1>2

\* Until it is applied a blob leaves the data model and the copy alone.
LEMMA WorkerFollows ==
  ASSUME Follows, Clear \/ Conf \/ Apply
  PROVE  Follows'
<1>1. /\ pc \in Busy \ {"dml"} /\ pc' \in Busy /\ (pc' = "dml" => key' = "en")
      /\ UNCHANGED <<engine, bkup, requests>>
  BY DEF Clear, ClearKey, UnsetFails, ClearCommitFails, Conf, Apply, GiveUp, Busy, buffers
<1> QED
  BY <1>1 DEF Follows, Shows, engine, requests

LEMMA ToDmlFollows ==
  ASSUME IInv, TurnsInv, Follows, ToDml
  PROVE  Follows'
<1>1. /\ pc = "dml" /\ cache = SettingAsked(blob) /\ Acceptable(blob) /\ SettingOf(db) = cache
      /\ blob \in Blobs \cup {NoBlob} /\ dml \in Dml
      /\ UNCHANGED <<syscfg, phase, buffers, blob, failures>>
  BY DEF ToDml, IInv, TypeOK, Accepted, TurnsInv, Halfway
<1>2. dml.InternalIP # Empty /\ outcome # "failed"
  BY DEF Follows
<1>3. CASE ToDmlFlag
  BY <1>1, <1>2, <1>3 DEF ToDmlFlag, Dmz, Follows, Busy, requests, buffers
<1>4. CASE ToDmlHosts
  <2>1. /\ dml.bEnabled = (cache.en = On)
        /\ pc' = "idle" /\ outcome' = "done"
        /\ db'.en = cache.en /\ db'.ip = cache.ip
    BY <1>1, <1>4 DEF ToDmlHosts, Follows, SettingOf, syscfg
  <2>2. Shows(db)' /\ dml'.InternalIP # Empty
    <3>1. CASE blob.en
      <4>1. cache.en = On /\ cache.ip \in Hosts
        BY <1>1, <3>1 DEF SettingAsked, Flag, Acceptable
      <4>2. dml.bEnabled
        BY <2>1, <4>1
      <4>3. dml'.bEnabled = TRUE /\ dml'.InternalIP = cache.ip
        BY <1>4, <4>2 DEF ToDmlHosts, Dmz
      <4>4. db'.en = On /\ db'.ip \notin {Unset, Empty} /\ dml'.InternalIP = db'.ip
        BY <2>1, <4>1, <4>3
      <4> QED
        BY <4>3, <4>4 DEF Shows
    <3>2. CASE ~blob.en
      <4>1. cache.en # On /\ cache.ip = None
        BY <1>1, <3>2 DEF SettingAsked, Flag
      <4>2. ~dml.bEnabled
        BY <2>1, <4>1, Zenon
      <4>3. dml'.bEnabled = FALSE /\ dml'.InternalIP = None
        BY <1>4, <4>2 DEF ToDmlHosts, Dmz
      <4>4. db'.en # On /\ db'.ip = None
        BY <2>1, <4>1
      <4>5. dml'.bEnabled = (db'.en = On)
        BY <4>3, <4>4, Zenon
      <4> QED
        BY <4>3, <4>4, <4>5 DEF Shows
    <3> QED
      BY <3>1, <3>2
  <2> QED
    BY <2>1, <2>2 DEF Follows, Busy
<1> QED
  BY <1>3, <1>4 DEF ToDml

\* The copy is written back whole.
LEMMA RollbackDmzFollows ==
  ASSUME IInv, TurnsInv, Follows, failures = 0, failures' = 0, RollbackDmz
  PROVE  Follows'
<1>1. pc = "rollback" /\ UNCHANGED <<engine, bkup, blob, last, warm>>
  BY DEF RollbackDmz
<1>2. CASE Put(bkup) /\ UNCHANGED <<cache, pc, outcome>>
  BY <1>1, <1>2 DEF Follows, Shows, Busy, engine
<1>3. CASE Save /\ cache' = bkup /\ pc' = "idle" /\ key' = "en" /\ outcome' = "restored"
  <2>1. db' = db /\ db.en = bkup.en /\ db.ip = bkup.ip
    BY <1>1, <1>3 DEF Save, TurnsInv, Halfway, Written
  <2>2. warm => Shows(bkup)
    BY <1>1 DEF Follows, Busy
  <2> QED
    BY <1>1, <1>3, <2>1, <2>2 DEF Follows, Shows, Busy, engine
<1>4. ~Fails
  BY DEF Fails
<1> QED
  BY <1>2, <1>3, <1>4 DEF RollbackDmz

LEMMA StepFollows ==
  ASSUME IInv, TurnsInv, Follows, TakesTurns, [Next]_vars, failures = 0, failures' = 0
  PROVE  Follows'
<1>1. CASE SetEnable \/ SetInternalIP \/ SetIPv6Host \/ Validate \/ Rollback
  BY <1>1, EngineFollows
<1>2. CASE Commit
  BY <1>2, CommitFollows
<1>3. CASE Push \/ Start \/ Clear \/ Conf
  BY <1>3, PushStartFollows, WorkerFollows
<1>4. CASE Apply \/ ToDml \/ RollbackDmz
  BY <1>4, WorkerFollows, ToDmlFollows, RollbackDmzFollows
<1>5. CASE Restart
  BY <1>5, InitializeFollows DEF Restart, syscfg, IInv, TypeOK
<1>6. CASE PowerCut
  BY <1>6, InitializeFollows DEF PowerCut, IInv, TypeOK
<1>7. CASE UNCHANGED vars
  BY <1>7 DEF vars, system, syscfg, engine, buffers, worker, requests, Follows, Shows
<1> QED
  BY <1>1, <1>2, <1>3, <1>4, <1>5, <1>6, <1>7 DEF Next

LEMMA FollowsInductive ==
  /\ Init => (TakesTurns /\ failures = 0 => Follows)
  /\ IInv /\ (TakesTurns => TurnsInv) /\ (TakesTurns /\ failures = 0 => Follows) /\ [Next]_vars
       => (TakesTurns /\ failures = 0 => Follows)'
<1>1. [Next]_vars /\ TakesTurns' => TakesTurns
  BY DEF Next, vars, TakesTurns
<1> QED
  BY <1>1, InitFollows, NoneFailed, StepFollows

\* While the two threads take turns and no call fails, the data model shows the
\* stored setting whenever neither is busy, through refused sets and blobs,
\* crashes and power cuts, except after a rollback that had no copy
\* (apply_dmz_ToDML, CosaDmlNatGetDmz, rollback_dmz).
THEOREM DmlShowsStore == Spec => []DmlFollowsStore
<1>1. IInv /\ (TakesTurns /\ failures = 0 => Follows) => DmlFollowsStore
  <2> SUFFICES ASSUME IInv, Follows, outcome = "restored" => warm, pc = "idle", phase = "idle"
               PROVE  dml = [Loaded(db) EXCEPT !.IPv6Host = dml.IPv6Host]
    BY DEF DmlFollowsStore
  <2>1. Shows(db) /\ dml \in Dml
    BY DEF Follows, Busy, IInv, TypeOK
  <2> QED
    BY <2>1 DEF Shows, Loaded, Dmz, Dml
<1> QED
  BY <1>1, TurnsInductive, FollowsInductive, PTL DEF Spec

=============================================================================
