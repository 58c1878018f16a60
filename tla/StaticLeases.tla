----------------------------- MODULE StaticLeases -----------------------------
(***************************************************************************)
(* The static DHCP leases and the LAN settings, written by two threads:     *)
(*                                                                          *)
(*   the WebConfig thread executes the "macbinding" and "lan" sub-documents *)
(*   (cosa_dhcpv4_webconfig_apis.c): under a mutex of the sub-document it   *)
(*   backs the settings up, unsets them and sets those of the blob, one     *)
(*   syscfg call at a time; a failure is followed by a rollback;            *)
(*                                                                          *)
(*   the data-model thread serves DHCPv4.Server.Pool.1.StaticAddress.{i}    *)
(*   and LanManagementEntry.1.  Delete and Commit give up when the mutex is *)
(*   taken; Add, Set, Validate and Synchronize do not look at it.           *)
(*                                                                          *)
(* Both sub-documents share ONE backup buffer and one count of received     *)
(* parameters.                                                              *)
(***************************************************************************)
EXTENDS Integers, Sequences, FiniteSets

CONSTANTS
    MaxHosts,    \* bound: static hosts in the store
    Ip, Mac,     \* the address and the hardware address of a lease
    Blobs,       \* version -> [doc, valid, leases, lan]
    LanValues,   \* the LAN settings a client may stage
    Scenarios    \* what may happen together, and bounds

Leases   == DOMAIN Ip
Versions == DOMAIN Blobs
Docs     == {"macbinding", "lan"}
Blob     == [doc : Docs, valid : BOOLEAN, leases : Seq(Leases), lan : Nat]

\* Values are numbers: a count, a lease ("mac,ip,"), an instance number (its
\* key stands for dhcp_static_host_insNum_<i> and dhcp_static_host_alias_<i>),
\* the six LAN settings as one, or a comment on a client (lan_clients_count,
\* lan_clients_<i>, lan_clients_mac_<mac>).
Unset == -1
Atoi(v) == IF v = Unset THEN 0 ELSE v

Count      == <<"count", 0>>
Host(i)    == <<"host", i>>
Ins(i)     == <<"ins", i>>
Lan        == <<"lan", 0>>
Notes      == <<"notes", 0>>
Note(i)    == <<"note", i>>
Comment(l) == <<"comment", Mac[l]>>
Comments   == {Notes} \cup {Note(i) : i \in 1 .. MaxHosts} \cup {Comment(l) : l \in Leases}
Keys       == {Count, Lan} \cup {Host(i) : i \in 1 .. MaxHosts} \cup {Ins(i) : i \in 1 .. MaxHosts}
                           \cup Comments

\* The blobs that are pushed, their number, the calls that fail, what is
\* written otherwise, the instance number up to which clients add rows, and the
\* comments that are found.
Scenario == [blobs : SUBSET Versions, requests : Nat, failures : Nat,
             clients : SUBSET {"table", "lan", "bridge"}, maxIns : Nat,
             comments : SUBSET Comments]

ASSUME BoundsAssumption == MaxHosts \in Nat /\ Scenarios \subseteq Scenario
ASSUME LeasesAssumption == Leases \subseteq Nat \ {0} /\ IsFiniteSet(Leases) /\ DOMAIN Mac = Leases
ASSUME BlobsAssumption  == \A v \in Versions : v \in Nat \ {0} /\ Blobs[v] \in Blob
                                               /\ Len(Blobs[v].leases) <= MaxHosts
ASSUME LanAssumption    == LanValues \subseteq Nat \ {0}

VARIABLES
    db,        \* syscfg
    locked,    \* the mutexes the WebConfig thread holds
    bkup,      \* g_dhcpv4bkup_cache: the keys of its slots, with their values
    received,  \* g_numOfReceivedParam
    pc,        \* where the request in hand is
    blob,      \* its version, 0 when there is none
    pending,   \* the keys the current loop has still to write
    requests,  \* blobs that have been pushed
    failures,  \* calls that have failed
    sync,      \* pDhcpv4->syncStaticClientsTable
    rows,      \* StaticAddressList
    maxIns,    \* maxInstanceOfStaticAddress
    spos,      \* Synchronize: the host it reads next, 0 when it is not running
    scount,    \* Synchronize: the number of hosts it has read
    phase, touched, todo,  \* the engine's session on the rows
    lanRow,    \* LanManagementEntry.1
    lanOpen,   \* a client has staged LAN settings
    unread,    \* history: the entry could not be read when it should have been
    bridge,    \* the gateway is in bridge mode
    origin,    \* history: why the request is rolled back
    before,    \* history: the table when the request took its backup
    intact,    \* history: no call of the rollback has failed
    scenario   \* what may happen in this behaviour

web     == <<requests, bkup, received, pc, blob, pending, origin, before, intact>>
session == <<phase, touched, todo>>
reading == <<spos, scount>>
lan     == <<lanRow, lanOpen, unread>>
system  == <<db, locked, web, failures, sync, rows, maxIns, reading, session, lan, bridge>>
vars    == <<system, scenario>>

Row == [id : Nat \ {0}, lease : {0} \cup Leases, bNew : BOOLEAN, bEnabled : BOOLEAN,
        ActiveFlag : BOOLEAN]

\* Every variable stays within its type; the two threads never write keys of
\* hosts beyond the bound, and a row has one entry in the list.
TypeOK ==
    /\ db \in [Keys -> {v \in Int : v >= Unset}]
    /\ locked \subseteq Docs
    /\ bkup \in [DOMAIN bkup -> Nat] /\ DOMAIN bkup \subseteq Keys
    /\ pending \subseteq Keys /\ received \in Nat
    /\ pc \in {"idle", "start", "clear", "apply", "rollback", "restore", "unused"}
    /\ blob \in {0} \cup Versions
    /\ requests \in 0 .. scenario.requests /\ failures \in 0 .. scenario.failures
    /\ sync \in BOOLEAN
    /\ rows \subseteq Row /\ \A r, s \in rows : r.id = s.id => r = s
    /\ maxIns \in Nat /\ spos \in 0 .. MaxHosts + 1 /\ scount \in 0 .. MaxHosts
    /\ phase \in {"set", "validate", "commit", "rollback"}
    /\ touched \subseteq {r.id : r \in rows} /\ todo \subseteq touched
    /\ lanRow \in {v \in Int : v >= Unset} /\ lanOpen \in BOOLEAN
    /\ unread \in BOOLEAN /\ bridge \in BOOLEAN
    /\ origin \in {"none", "bridge", "invalid", "failed"}
    /\ before \in [leases : SUBSET Leases, hosts : {"uncounted", "all", "some"}]
    /\ intact \in BOOLEAN
    /\ scenario \in Scenarios

----------------------------------------------------------------------------
(* The store.                                                               *)

Hosts(d)    == {i \in 1 .. MaxHosts : i <= Atoi(d[Count]) /\ d[Host(i)] # Unset}
LeasesIn(d) == {d[Host(i)] : i \in Hosts(d)}

\* History: the leases, and whether there are as many hosts as the count says,
\* or nothing at all to back up.
TableIn(d) ==
    [leases |-> LeasesIn(d),
     hosts  |-> IF d[Count] = Unset /\ d[Notes] = Unset THEN "uncounted"
                ELSE IF d[Count] # Unset /\ Hosts(d) = 1 .. d[Count] THEN "all" ELSE "some"]
NoTable == [leases |-> {}, hosts |-> "uncounted"]

\* The keys of a table of n hosts, and the comments on it.
StaticKeys(n) == {Count} \cup {Host(i) : i \in 1 .. n} \cup {Ins(i) : i \in 1 .. n}
CommentKeys(d) == {Notes} \cup {Note(i) : i \in 1 .. Atoi(d[Count])} \cup {Comment(l) : l \in LeasesIn(d)}

\* The order in which the loops visit keys: the count, host by host with the
\* comments on it (one on a mac with its first host), the number of comments.
Place(k) ==
    CASE k[1] = "notes"   -> MaxHosts + 1
      [] k[1] = "comment" -> CHOOSE i \in 1 .. MaxHosts :
                                /\ Host(i) \in DOMAIN bkup /\ k = Comment(bkup[Host(i)])
                                /\ \A j \in 1 .. i - 1 : Host(j) \in DOMAIN bkup => k # Comment(bkup[Host(j)])
      [] OTHER -> k[2]
Rank(k) == 4 * Place(k) + (CASE k[1] = "ins" -> 1 [] k[1] = "note" -> 2 [] k[1] = "comment" -> 3 [] OTHER -> 0)
First(k, K) == \A l \in K : Rank(k) <= Rank(l)

\* Seeded fault: the backup stops before the last host.
BackupFromDbShort(doc) ==
    LET n == Atoi(db[Count])
        visited == IF doc = "lan" THEN {Lan} ELSE StaticKeys(IF n > 0 THEN n - 1 ELSE 0)
    IN  [k \in {l \in visited : db[l] # Unset} |-> db[k]]

\* Dhcpv4_StaticClients_BackupFromDb, Dhcpv4_Lan_BackupFromDb: a key that is
\* not set takes no slot.
BackupFromDb(doc) ==
    LET visited == IF doc = "lan" THEN {Lan} ELSE StaticKeys(Atoi(db[Count])) \cup CommentKeys(db)
    IN  [k \in {l \in visited : db[l] # Unset} |-> db[k]]

\* Dhcpv4_StaticClients_UpdateConfToCache, Dhcpv4_Lan_UpdateConfToCache.
UpdateConfToCache(b) ==
    IF b.doc = "lan" THEN [k \in {Lan} |-> b.lan]
    ELSE [k \in StaticKeys(Len(b.leases)) |->
            CASE k[1] = "count" -> Len(b.leases)
              [] k[1] = "host"  -> b.leases[k[2]]
              [] k[1] = "ins"   -> k[2]]

\* The slots of a buffer: the comment on a mac has one for every host with it.
NumOfParam(b) ==
    LET K == DOMAIN b
    IN  Cardinality({k \in K : k[1] # "comment"}) + Cardinality({k \in K : k[1] = "ins"})
        + 5 * Cardinality(K \cap {Lan})
        + Cardinality({k \in K : k[1] = "host" /\ Comment(b[k]) \in K})

\* Dhcpv4_StaticClients_UnsetNotUsedParamFromDb counts parameters and takes
\* them for hosts.
NotUsed == (NumOfParam(bkup) + 1 .. received) \cap (1 .. MaxHosts)
UnsetHosts(I) == [k \in Keys |-> IF k \in {Host(i) : i \in I} \cup {Ins(i) : i \in I}
                                 THEN Unset ELSE db[k]]

NoBackup == [k \in {} |-> 0]

\* Host i as Utopia finds it by its instance number.
HostOf(id) == {i \in Hosts(db) : db[Ins(i)] = id}

\* The tables the daemon can find when it starts: no address twice.
Tables ==
    {s \in UNION {[1 .. n -> Leases] : n \in 0 .. MaxHosts} :
        \A i, j \in DOMAIN s : i # j => Ip[s[i]] # Ip[s[j]] /\ Mac[s[i]] # Mac[s[j]]}

\* The rows are read back from the store (CosaDhcpv4Initialize).
Init ==
    /\ scenario \in Scenarios
    /\ \E s \in Tables :
          /\ db = [k \in Keys |->
                     CASE k = Count -> Len(s)
                       [] k = Lan -> 0
                       [] k \in Comments -> IF k \in scenario.comments THEN 0 ELSE Unset
                       [] OTHER -> IF k[2] \notin DOMAIN s THEN Unset
                                   ELSE IF k[1] = "host" THEN s[k[2]] ELSE k[2]]
          /\ rows = {[id |-> i, lease |-> s[i], bNew |-> FALSE, bEnabled |-> TRUE,
                       ActiveFlag |-> TRUE] : i \in DOMAIN s}
          /\ maxIns = Len(s)
    /\ locked = {}
    /\ bkup = NoBackup /\ received = 0 /\ pc = "idle" /\ blob = 0 /\ pending = {}
    /\ requests = 0 /\ failures = 0 /\ sync = FALSE
    /\ spos = 0 /\ scount = 0
    /\ phase = "set" /\ touched = {} /\ todo = {}
    /\ lanRow = 0 /\ lanOpen = FALSE /\ unread = FALSE /\ bridge = FALSE
    /\ origin = "none" /\ before = NoTable /\ intact = TRUE

----------------------------------------------------------------------------
(* The WebConfig thread.  The framework executes one request at a time and  *)
(* calls the rollback function after every failure.                         *)

dataModel == <<requests, rows, maxIns, reading, session, bridge>>
Doc == Blobs[blob].doc

\* Server_SetParamStringValue ("StaticClientsData", "Lan"), PushBlobRequest.
Push ==
    /\ pc = "idle" /\ requests < scenario.requests
    /\ requests' = requests + 1
    /\ blob' \in scenario.blobs
    /\ pc' = "start"
    /\ intact' = TRUE
    /\ UNCHANGED <<db, locked, bkup, received, pending, origin, before, failures, sync,
                   lan, rows, maxIns, reading, session, bridge>>

\* In bridge mode the request fails before Dhcpv4_Reset_Cache.
RefuseInBridgeMode ==
    /\ pc = "start" /\ bridge
    /\ pc' = "rollback"
    /\ origin' = "bridge"
    /\ UNCHANGED <<db, locked, bkup, received, blob, pending, before, intact, failures, sync,
                   lan, dataModel>>

\* Seeded fault: the buffers are only reset for a valid blob.
RefuseInvalidStale ==
    /\ pc = "start" /\ ~bridge /\ ~Blobs[blob].valid
    /\ pc' = "rollback"
    /\ origin' = "invalid"
    /\ UNCHANGED <<db, locked, bkup, received, blob, pending, before, intact, failures, sync,
                   lan, dataModel>>

RefuseInvalid ==
    /\ pc = "start" /\ ~bridge /\ ~Blobs[blob].valid
    /\ bkup' = NoBackup /\ received' = 0
    /\ pc' = "rollback"
    /\ origin' = "invalid"
    /\ UNCHANGED <<db, locked, blob, pending, before, intact, failures, sync, lan, dataModel>>

\* Reset, lock, backup.
Backup ==
    /\ pc = "start" /\ ~bridge /\ Blobs[blob].valid
    /\ Doc \notin locked
    /\ locked' = locked \cup {Doc}
    /\ bkup' = BackupFromDb(Doc) /\ received' = 0
    /\ pending' = DOMAIN bkup'
    /\ pc' = "clear"
    /\ before' = TableIn(db)
    /\ UNCHANGED <<db, blob, origin, intact, failures, sync, lan, dataModel>>

\* Seeded fault: the error path leaves without unlocking.
FailLocked ==
    /\ failures < scenario.failures
    /\ failures' = failures + 1
    /\ pending' = {}
    /\ pc' = "rollback"
    /\ origin' = "failed"
    /\ UNCHANGED <<db, locked, sync>>

\* A call fails: unlock and report.
Fail ==
    /\ failures < scenario.failures
    /\ failures' = failures + 1
    /\ pending' = {}
    /\ locked' = locked \ {Doc}
    /\ pc' = "rollback"
    /\ origin' = "failed"
    /\ UNCHANGED <<db, sync>>

\* CosaDmlLanMngm_GetEntryByIndex, CosaDmlLanMngm_GetConf.
ReadEntry == lanRow' = db[Lan] /\ unread' = FALSE
LeaveEntry == unread' = TRUE /\ UNCHANGED lanRow

\* Dhcpv4_StaticClients_SetSyncFlag or Dhcpv4_Lan_Synchronize.
Synchronize ==
    /\ IF Doc = "lan" THEN ReadEntry /\ UNCHANGED sync
                      ELSE sync' = TRUE /\ UNCHANGED <<lanRow, unread>>
    /\ UNCHANGED lanOpen

\* Unlock and report.
Ends ==
    /\ locked' = locked \ {Doc}
    /\ pc' = "idle"
    /\ blob' = 0
    /\ origin' = "none"
    /\ before' = NoTable

\* The loops go on to the next key.
Unsets(k) ==
    /\ First(k, pending)
    /\ db' = [db EXCEPT ![k] = Unset]
    /\ pending' = pending \ {k}

Sets(k, buffer) ==
    /\ First(k, pending)
    /\ db' = [db EXCEPT ![k] = buffer[k]]
    /\ pending' = pending \ {k}

\* An iteration of Dhcpv4_UnsetAllDbValues.
ClearKey ==
    /\ pc = "clear" /\ pending # {}
    /\ \/ /\ \E k \in pending : Unsets(k)
          /\ UNCHANGED <<locked, pc, origin, failures, sync>>
       \/ Fail
    /\ UNCHANGED <<bkup, received, blob, before, intact, lan, dataModel>>

\* Seeded fault: the mutex is released between the two loops.
ClearedUnlocking ==
    /\ pc = "clear" /\ pending = {}
    /\ \/ /\ Doc = "macbinding" /\ Blobs[blob].leases = <<>>
          /\ Synchronize /\ Ends
          /\ UNCHANGED <<db, pending, received, failures>>
       \/ /\ Doc = "lan" \/ Blobs[blob].leases # <<>>
          /\ pending' = DOMAIN UpdateConfToCache(Blobs[blob])
          /\ received' = NumOfParam(UpdateConfToCache(Blobs[blob]))
          /\ pc' = "apply"
          /\ locked' = locked \ {Doc}
          /\ UNCHANGED <<db, blob, origin, before, failures, sync, lan>>
       \/ DOMAIN bkup # {} /\ Fail /\ UNCHANGED <<blob, received, before, lan>>
    /\ UNCHANGED <<bkup, intact, dataModel>>

\* Its commit, then the next loop; a macbinding blob without entries is done.
Cleared ==
    /\ pc = "clear" /\ pending = {}
    /\ \/ /\ Doc = "macbinding" /\ Blobs[blob].leases = <<>>
          /\ Synchronize /\ Ends
          /\ UNCHANGED <<db, pending, received, failures>>
       \/ /\ Doc = "lan" \/ Blobs[blob].leases # <<>>
          /\ pending' = DOMAIN UpdateConfToCache(Blobs[blob])
          /\ received' = NumOfParam(UpdateConfToCache(Blobs[blob]))
          /\ pc' = "apply"
          /\ UNCHANGED <<db, locked, blob, origin, before, failures, sync, lan>>
       \/ DOMAIN bkup # {} /\ Fail /\ UNCHANGED <<blob, received, before, lan>>
    /\ UNCHANGED <<bkup, intact, dataModel>>

\* An iteration of Dhcpv4_Cache_ApplyAllToDb.
ApplyKey ==
    /\ pc = "apply" /\ pending # {}
    /\ \/ /\ \E k \in pending : Sets(k, UpdateConfToCache(Blobs[blob]))
          /\ UNCHANGED <<locked, pc, origin, failures, sync>>
       \/ Fail
    /\ UNCHANGED <<bkup, received, blob, before, intact, lan, dataModel>>

\* Its commit may fail, and Dhcpv4_Lan_Synchronize, before or after it has read
\* the entry.
Applied ==
    /\ pc = "apply" /\ pending = {}
    /\ \/ Synchronize /\ Ends /\ UNCHANGED <<db, pending, failures>>
       \/ /\ Fail
          /\ \/ UNCHANGED <<lanRow, unread>>
             \/ Doc = "lan" /\ (ReadEntry \/ LeaveEntry)
          /\ UNCHANGED <<blob, before, lanOpen>>
    /\ UNCHANGED <<bkup, received, intact, dataModel>>

\* rollback_StaticClients, rollback_Lan: lock, and apply the backup.
Rollback ==
    /\ pc = "rollback"
    /\ Doc \notin locked
    /\ locked' = locked \cup {Doc}
    /\ pending' = DOMAIN bkup
    /\ pc' = "restore"
    /\ UNCHANGED <<db, bkup, received, blob, origin, before, intact, failures, sync, lan,
                   dataModel>>

\* A call that fails ends the loop; its result is overwritten.
RestoreKey ==
    /\ pc = "restore" /\ pending # {}
    /\ \/ /\ \E k \in pending : Sets(k, bkup)
          /\ UNCHANGED <<pc, intact, failures>>
       \/ /\ failures < scenario.failures
          /\ failures' = failures + 1
          /\ pending' = {}
          /\ pc' = "unused"
          /\ intact' = FALSE
          /\ UNCHANGED db
    /\ UNCHANGED <<locked, bkup, received, blob, origin, before, sync, lan, dataModel>>

\* The commit; whether it fails makes no difference to the running system.
Restored ==
    /\ pc = "restore" /\ pending = {}
    /\ pc' = "unused"
    /\ UNCHANGED <<db, locked, bkup, received, blob, pending, origin, before, intact, failures,
                   sync, lan, dataModel>>

\* Seeded fault: the LAN entry is not read back.
RollbackEndsStale ==
    /\ pc = "unused"
    /\ db' = IF Doc = "macbinding" THEN UnsetHosts(NotUsed) ELSE db
    /\ sync' = (sync \/ Doc = "macbinding")
    /\ Ends
    /\ UNCHANGED <<lan, bkup, received, pending, intact, failures, dataModel>>

\* The unused hosts go, and the data model is told; a call that fails, of
\* Dhcpv4_Lan_Synchronize too, ends the rollback all the same.
RollbackEnds ==
    /\ pc = "unused"
    /\ \/ /\ db' = IF Doc = "macbinding" THEN UnsetHosts(NotUsed) ELSE db
          /\ Synchronize
          /\ UNCHANGED <<intact, failures>>
       \/ /\ failures < scenario.failures
          /\ failures' = failures + 1
          /\ intact' = FALSE
          /\ \/ /\ Doc = "macbinding"
                /\ \E i \in NotUsed : db' = UnsetHosts({j \in NotUsed : j < i})
                /\ Synchronize
             \/ /\ Doc = "lan"
                /\ LeaveEntry
                /\ UNCHANGED <<db, sync, lanOpen>>
    /\ Ends
    /\ UNCHANGED <<bkup, received, pending, dataModel>>

Blobwork ==
    \/ RefuseInBridgeMode \/ RefuseInvalid \/ Backup
    \/ ClearKey \/ Cleared \/ ApplyKey \/ Applied
    \/ Rollback \/ RestoreKey \/ Restored \/ RollbackEnds

----------------------------------------------------------------------------
(* The data-model thread: the table of static addresses.  Its handlers run  *)
(* one after the other.                                                     *)

Free == spos = 0 /\ phase = "set"

\* StaticAddress_Synchronize, when the flag is set: every row goes first.
SyncBegins ==
    /\ Free /\ touched = {} /\ sync
    /\ rows' = {}
    /\ maxIns' = 0
    /\ scount' = Atoi(db[Count])
    /\ spos' = 1
    /\ UNCHANGED <<db, locked, web, failures, sync, session, lan, bridge>>

\* Seeded fault: the number of a host that is read is not reserved.
RaisedNever(id) == maxIns

Raised(id) == IF id > maxIns THEN id ELSE maxIns

\* A host becomes a row that is marked new; a host without a number gets the
\* next one; the flag is only reset at the end.
SyncReads ==
    /\ spos > 0
    /\ IF spos <= scount /\ db[Host(spos)] # Unset
       THEN LET id == IF Atoi(db[Ins(spos)]) = 0 THEN maxIns + 1 ELSE db[Ins(spos)]
                r  == [id |-> id, lease |-> db[Host(spos)], bEnabled |-> TRUE, ActiveFlag |-> TRUE,
                       bNew |-> \A s \in rows : s.id # id]
            IN  /\ rows' = {s \in rows : s.id # id} \cup {r}
                /\ maxIns' = Raised(id)
                /\ db' = IF Atoi(db[Ins(spos)]) = 0 THEN [db EXCEPT ![Ins(spos)] = id] ELSE db
                /\ spos' = spos + 1
                /\ UNCHANGED <<sync, scount>>
       ELSE /\ spos' = 0 /\ scount' = 0
            /\ sync' = FALSE
            /\ UNCHANGED <<db, rows, maxIns>>
    /\ UNCHANGED <<locked, web, failures, session, lan, bridge>>

DefaultRow(id) ==
    [id |-> id, lease |-> 0, bNew |-> TRUE, bEnabled |-> TRUE, ActiveFlag |-> FALSE]

\* StaticAddress_AddEntry.
AddEntry ==
    /\ Free /\ "table" \in scenario.clients
    /\ maxIns < scenario.maxIns
    /\ maxIns' = maxIns + 1
    /\ rows' = rows \cup {DefaultRow(maxIns + 1)}
    /\ UNCHANGED <<db, locked, web, failures, sync, reading, session, lan, bridge>>

\* Utopia takes the host of number id out and closes the gap.
DelSaddr(id) ==
    LET n   == Atoi(db[Count])
        gap == CHOOSE i \in HostOf(id) : \A j \in HostOf(id) : i <= j
        at(i) == IF i < gap THEN i ELSE i + 1
    IN  [k \in Keys |->
            IF k = Count THEN n - 1
            ELSE IF k[1] \in {"host", "ins"} /\ k[2] < n THEN db[<<k[1], at(k[2])>>]
            ELSE IF k[1] \in {"host", "ins"} THEN Unset ELSE db[k]]

\* StaticAddress_DelEntry: a row marked new is not looked for in the store.
DelEntry ==
    /\ Free /\ "table" \in scenario.clients
    /\ "macbinding" \notin locked
    /\ \E r \in rows :
          /\ \/ r.bNew /\ UNCHANGED db
             \/ ~r.bNew /\ HostOf(r.id) # {} /\ db' = DelSaddr(r.id)
          /\ rows' = rows \ {r}
          /\ touched' = touched \ {r.id}
    /\ UNCHANGED <<locked, web, failures, sync, maxIns, reading, phase, todo, lan, bridge>>

\* StaticAddress_SetParamUlongValue, ..StringValue, ..BoolValue.
SetParamValue ==
    /\ Free /\ "table" \in scenario.clients /\ ~bridge
    /\ \E r \in rows, l \in Leases, on \in BOOLEAN :
          /\ rows' = (rows \ {r}) \cup {[r EXCEPT !.lease = l, !.bEnabled = on]}
          /\ touched' = touched \cup {r.id}
    /\ UNCHANGED <<db, locked, web, failures, sync, maxIns, reading, phase, todo, lan, bridge>>

\* The engine ends the staging and validates every touched row.
BeginCommit ==
    /\ Free /\ touched # {}
    /\ phase' = "validate"
    /\ todo' = touched
    /\ UNCHANGED <<db, locked, web, failures, sync, rows, maxIns, reading, touched, lan, bridge>>

\* Row id is done with; after the last one the engine enters phase nxt.
Done(id, nxt) ==
    IF todo \ {id} # {}
    THEN todo' = todo \ {id} /\ UNCHANGED <<phase, touched>>
    ELSE /\ phase' = nxt
         /\ todo' = IF nxt = "set" THEN {} ELSE touched
         /\ touched' = IF nxt = "set" THEN {} ELSE touched

RollBack(rest) ==
    /\ phase' = IF rest = {} THEN "set" ELSE "rollback"
    /\ todo' = rest
    /\ touched' = IF rest = {} THEN {} ELSE touched

\* StaticAddress_Validate compares with the hosts of other numbers.
Unique(r) ==
    \A i \in Hosts(db) : db[Ins(i)] # r.id =>
        r.lease = 0 \/ (Ip[r.lease] # Ip[db[Host(i)]] /\ Mac[r.lease] # Mac[db[Host(i)]])

Validate ==
    /\ phase = "validate"
    /\ \E r \in rows :
          /\ r.id \in todo
          /\ IF Unique(r) THEN Done(r.id, "commit") ELSE RollBack(touched)
    /\ UNCHANGED <<db, locked, web, failures, sync, rows, maxIns, reading, lan, bridge>>

\* CosaDmlDhcpsAddSaddr: the host is appended.
Addable(r) == r.lease # 0 /\ Atoi(db[Count]) < MaxHosts

AddSaddr(r) ==
    LET n == Atoi(db[Count]) + 1
    IN  [db EXCEPT ![Count] = n, ![Host(n)] = r.lease, ![Ins(n)] = r.id]

\* CosaDmlDhcpsSetSaddr.
SetSaddr(r) == [k \in Keys |-> IF k \in {Host(i) : i \in HostOf(r.id)} THEN r.lease ELSE db[k]]

\* What StaticAddress_Commit makes of the store and of the row.
Outcome(r) ==
    IF r.bEnabled THEN
        IF r.bNew \/ ~r.ActiveFlag
        THEN IF Addable(r)
             THEN [d |-> AddSaddr(r), r |-> [r EXCEPT !.bNew = FALSE, !.ActiveFlag = TRUE], ok |-> TRUE]
             ELSE [d |-> db, r |-> r, ok |-> FALSE]
        ELSE [d |-> SetSaddr(r), r |-> r, ok |-> r.lease # 0 /\ HostOf(r.id) # {}]
    ELSE IF ~r.bNew /\ r.ActiveFlag
         THEN IF HostOf(r.id) # {}
              THEN [d |-> DelSaddr(r.id), r |-> [r EXCEPT !.ActiveFlag = FALSE], ok |-> TRUE]
              ELSE [d |-> db, r |-> r, ok |-> FALSE]
         ELSE [d |-> db, r |-> [r EXCEPT !.ActiveFlag = FALSE], ok |-> TRUE]

\* StaticAddress_Commit; when the mutex is taken the row is left as it is.
\* After a failure the engine goes on with the other rows or rolls them back.
Commit ==
    /\ phase = "commit"
    /\ \E r \in rows :
          /\ r.id \in todo
          /\ LET o == IF "macbinding" \in locked THEN [d |-> db, r |-> r, ok |-> FALSE] ELSE Outcome(r)
             IN  /\ db' = IF o.ok THEN o.d ELSE db
                 /\ rows' = (rows \ {r}) \cup {o.r}
                 /\ IF o.ok THEN Done(r.id, "set") ELSE Done(r.id, "set") \/ RollBack(todo \ {r.id})
    /\ UNCHANGED <<locked, web, failures, sync, maxIns, reading, lan, bridge>>

\* StaticAddress_Rollback: CosaDmlDhcpsGetSaddrbyInsNum, or the default values.
RollbackRow ==
    /\ phase = "rollback"
    /\ \E r \in rows :
          /\ r.id \in todo
          /\ rows' = (rows \ {r}) \cup
                {IF r.bNew THEN DefaultRow(r.id)
                 ELSE IF HostOf(r.id) = {} THEN r
                 ELSE [r EXCEPT !.lease = db[Host(CHOOSE i \in HostOf(r.id) : TRUE)],
                                !.ActiveFlag = TRUE, !.bEnabled = TRUE]}
          /\ Done(r.id, "set")
    /\ UNCHANGED <<db, locked, web, failures, sync, maxIns, reading, lan, bridge>>

----------------------------------------------------------------------------
(* The data-model thread: LanManagementEntry.1, and bridge mode.            *)

\* LanMngm_SetParamUlongValue.
LanSet ==
    /\ Free /\ "lan" \in scenario.clients /\ ~bridge /\ "lan" \notin locked
    /\ \E v \in LanValues : lanRow' = v
    /\ lanOpen' = TRUE
    /\ UNCHANGED <<db, locked, web, failures, sync, rows, maxIns, reading, session, unread, bridge>>

\* LanMngm_Commit, after a LanMngm_Validate that found nothing wrong.  While
\* the blob holds the mutex nothing is stored.
LanCommit ==
    /\ lanOpen
    /\ db' = IF "lan" \in locked THEN db ELSE [db EXCEPT ![Lan] = Atoi(lanRow)]
    /\ lanRow' = IF "lan" \in locked THEN lanRow ELSE Atoi(lanRow)
    /\ unread' = ("lan" \in locked /\ unread)
    /\ lanOpen' = FALSE
    /\ UNCHANGED <<locked, web, failures, sync, rows, maxIns, reading, session, bridge>>

\* LanMngm_Validate refuses, LanMngm_Commit cannot store, or LanMngm_Rollback:
\* CosaDmlLanMngm_GetConf, which may fail.
LanRevert ==
    /\ lanOpen
    /\ \/ ReadEntry /\ UNCHANGED failures
       \/ failures < scenario.failures /\ failures' = failures + 1 /\ LeaveEntry
    /\ lanOpen' = FALSE
    /\ UNCHANGED <<db, locked, web, sync, rows, maxIns, reading, session, bridge>>

SetBridgeMode ==
    /\ "bridge" \in scenario.clients
    /\ bridge' = ~bridge
    /\ UNCHANGED <<db, locked, web, failures, sync, rows, maxIns, reading, session, lan>>

Next ==
    /\ \/ Push \/ Blobwork
       \/ SyncBegins \/ SyncReads \/ AddEntry \/ DelEntry \/ SetParamValue
       \/ BeginCommit \/ Validate \/ Commit \/ RollbackRow
       \/ LanSet \/ LanCommit \/ LanRevert \/ SetBridgeMode
    /\ UNCHANGED scenario

\* The thread of the WebConfig framework is scheduled and goes on.
Fairness == WF_system(Blobwork)

Spec == Init /\ [][Next]_vars /\ Fairness

----------------------------------------------------------------------------
(* Properties.                                                              *)

\* A macbinding blob that is applied leaves exactly its leases in the store,
\* although the handlers of the table run between its syscfg calls
\* (Process_StaticClients_WebConfigRequest, Dhcpv4_StaticClients_MutexTryLock).
AppliedAsAsked ==
    [][pc' = "idle" /\ pc \in {"clear", "apply"} /\ Doc = "macbinding"
          => LeasesIn(db') = {Blobs[blob].leases[i] : i \in DOMAIN Blobs[blob].leases}]_vars

\* A rollback whose own calls succeed leaves the leases there were when the
\* request took its backup, whatever call of the request failed and whatever
\* the clients committed between its failure and the rollback and whatever
\* comments take slots of the backup, provided that the store held as many hosts
\* as its count said, or nothing to back up and no client adds hosts
\* (rollback_StaticClients, Dhcpv4_StaticClients_UnsetNotUsedParamFromDb).
RollbackRestores ==
    [][pc = "unused" /\ pc' = "idle" /\ origin = "failed" /\ intact' /\ Doc = "macbinding"
       /\ (before.hosts = "all" \/ (before.hosts = "uncounted" /\ "table" \notin scenario.clients))
          => LeasesIn(db') = before.leases]_vars

\* The rollback of a blob that was found invalid changes no setting, although
\* the buffers are shared with all earlier requests of both sub-documents
\* (Dhcpv4_Reset_Cache).
InvalidBlobChangesNothing ==
    [][origin = "invalid" /\ pc \in {"restore", "unused"} /\ <<pc, pending>> # <<pc, pending>>'
          => LeasesIn(db') = LeasesIn(db) /\ db'[Lan] = db[Lan]]_vars

\* Without bridge mode the LAN entry of the data model is the stored one
\* whenever no blob is in hand and no client has staged values, unless the last
\* time it should have been read it could not be: a commit that was refused
\* because of a blob does not leave its values in the entry, whatever call of
\* the blob fails (LanMngm_Commit, LanMngm_Rollback, Dhcpv4_Lan_Synchronize).
LanEntryCurrent ==
    "bridge" \notin scenario.clients /\ pc = "idle" /\ ~lanOpen /\ ~unread => lanRow = db[Lan]

\* A request ends and its mutex is released, on every error path; otherwise
\* the rollback waits for the mutex of its own request for ever
\* (Process_StaticClients_WebConfigRequest, Process_Lan_WebConfigRequest).
RequestEnds == pc # "idle" ~> pc = "idle" /\ locked = {}

=============================================================================
