---------------------------- MODULE PfWebConfig ----------------------------
(***************************************************************************)
(* The "portforwarding" sub-document of WebConfig (cosa_webconfig_api.c).   *)
(* A blob replaces all port-forwarding rules: the rules of the last blob,   *)
(* remembered as key/value pairs in pf_cache, are unset in syscfg and       *)
(* committed, the new blob is checked and expanded into pf_cache, and the   *)
(* pairs are set and committed.  Any failure makes the framework call       *)
(* rollback_PortForwarding, which sets the pairs of pf_cache_bkup again.    *)
(*                                                                          *)
(* The handlers of the TR-181 table PortMapping and of its switches write   *)
(* the same keys through the Utopia library (cosa_nat_apis.c) and commit    *)
(* them, and know nothing of pf_cache and gpfEnable.                        *)
(*                                                                          *)
(* Several keys of the code stand for one here: Attrs(t, i) is the group    *)
(* "spf_<i>::external_port", "::to_ip", "::name", ... of one rule.          *)
(***************************************************************************)
EXTENDS Integers, Sequences, FiniteSets

CONSTANTS
    MaxEntries,  \* bound: rules in a blob
    Blobs,       \* version -> the sequence of entries of that blob
    MaxUpsets,   \* bound: syscfg calls that fail and commits of TR-181 handlers
    FaultSets    \* what to look at besides failing calls: sets of "powercut" (at
                 \* any time), "crash" (the process may die while it handles a
                 \* blob) and "clients" (TR-181 handlers write the keys)

Tables   == {"spf", "pfr"}  \* single ports and port ranges
Verdicts == {"ok", "ip", "port", "protocol"}

Versions == DOMAIN Blobs
Row      == [t : Tables, r : Nat \ {0}, verdict : Verdicts]

ASSUME MaxEntriesAssumption == MaxEntries \in Nat
ASSUME BlobsAssumption ==
    \A v \in Versions : v \in Nat \ {0} /\ Blobs[v] \in Seq(Row) /\ Len(Blobs[v]) <= MaxEntries
ASSUME MaxUpsetsAssumption == MaxUpsets \in Nat
ASSUME PfFaultsAssumption == FaultSets \subseteq SUBSET {"powercut", "crash", "clients"}

\* Values: numbers (a count, the <i> of "spf_<i>", the attributes of a rule),
\* the empty string, and the absence of the key.
Empty == -1
Unset == -2
Foreign == 0  \* the attributes of a rule as a TR-181 handler wrote them
Atoi(v) == IF v < 0 THEN 0 ELSE v

\* Keys.  NoKey is the empty string, the key of a slot that was cleared.
NoKey       == <<"", "", 0>>
Flag        == <<"port_forward_enabled", "", 0>>
Version     == <<"portforwarding_version", "", 0>>
Count(t)    == <<"count", t, 0>>
Alias(t, j) == <<"alias", t, j>>
Attrs(t, i) == <<"attrs", t, i>>
RuleKeys    == {Count(t) : t \in Tables} \cup {Alias(t, j) : t \in Tables, j \in 1 .. MaxEntries}
               \cup {Attrs(t, i) : t \in Tables, i \in 0 .. MaxEntries}
Keys        == RuleKeys \cup {NoKey, Flag, Version}

\* PORTMAP_CACHE_SIZE.  The code checks no index against it; here it is large
\* enough for what failed applies can leave: MaxEntries rules in each table.
Slots == 1 .. 4 * MaxEntries + 2
Slot  == [cmd : Keys, val : {v \in Int : v >= Empty}]
Blank == [cmd |-> NoKey, val |-> Empty]

VARIABLES
    db,        \* syscfg in shared memory: what the firewall reads
    flash,     \* syscfg as last committed
    cache,     \* pf_cache
    size,      \* pf_cache_size
    bkup,      \* pf_cache_bkup
    bsize,     \* pf_cache_size_bkup
    gpf,       \* gpfEnable
    pc,        \* where the request in hand is
    blob,      \* its version, 0 once freeResources_PortForwarding has freed it
    upsets,    \* syscfg calls that have failed and commits of TR-181 handlers
    outcome,   \* history: how the last request of this process ended
    applied,   \* history: the last version whose rules were all applied
    clean,     \* history: applied in this process, and no apply failed since
    strayed,   \* history: writing rules has failed halfway, in an apply or a
               \* rollback, or a TR-181 handler has written during a request
    outside,   \* history: what TR-181 handlers have written (see HandlerCommits)
    faults     \* rigid: what may happen in this behaviour besides failing calls

system  == <<db, flash, cache, size, bkup, bsize, gpf, pc, blob, upsets, outcome, applied, clean,
             strayed, outside>>
vars    == <<system, faults>>
buffers == <<cache, size, bkup, bsize>>

\* Every variable stays within its type.
TypeOK ==
    /\ db \in [Keys -> {v \in Int : v >= Unset}]
    /\ flash \in [Keys -> {v \in Int : v >= Unset}]
    /\ cache \in [Slots -> Slot]
    /\ bkup \in [Slots -> Slot]
    /\ size \in {0} \cup Slots
    /\ bsize \in {0} \cup Slots
    /\ gpf \in Nat
    /\ pc \in {"idle", "clear", "conf", "apply", "ack", "rollback"}
    /\ blob \in {0} \cup Versions
    /\ upsets \in 0 .. MaxUpsets
    /\ outcome \in {"none", "done", "restored", "failed"}
    /\ applied \in {0} \cup Versions
    /\ clean \in BOOLEAN
    /\ strayed \in BOOLEAN
    /\ outside \subseteq {"rules", "switch", "litter", "mixed"}
    /\ faults \in FaultSets

----------------------------------------------------------------------------
(* A buffer of pairs and the store.                                         *)

Loaded(s)         == [i \in Slots |-> IF i <= Len(s) THEN s[i] ELSE Blank]
Overwrite(arr, s) == [i \in Slots |-> IF i <= Len(s) THEN s[i] ELSE arr[i]]

\* backup_pf_cache copies pf_cache_size slots, whatever cache_size it is given.
Copied(from, to, n) == [i \in Slots |-> IF i <= n THEN from[i] ELSE to[i]]

\* The first n pairs are set, in order.
SetPairs(d, arr, n) ==
    [k \in Keys |->
        LET W == {i \in 1 .. n : arr[i].cmd = k}
        IN  IF W = {} THEN d[k] ELSE arr[CHOOSE i \in W : \A j \in W : j <= i].val]

\* The keys of the first n pairs are unset.
UnsetPairs(d, arr, n) ==
    [k \in Keys |-> IF \E i \in 1 .. n : arr[i].cmd = k THEN Unset ELSE d[k]]

\* How a loop of n syscfg calls followed by syscfg_commit ends: the calls made
\* and whether everything succeeded.  With all n made, the commit failed.
Ends(n) == {[calls |-> n, ok |-> TRUE]}
           \cup (IF upsets < MaxUpsets THEN {[calls |-> k, ok |-> FALSE] : k \in 0 .. n} ELSE {})

\* apply_pf_cache_ToDB: the enable flag first, when it differs from gpfEnable.
ApplyEnds(arr, n, enable) ==
    LET flagged == IF gpf # enable THEN [db EXCEPT ![Flag] = enable] ELSE db
    IN  {[d |-> SetPairs(flagged, arr, e.calls), ok |-> e.ok] : e \in Ends(n)}
        \cup (IF upsets < MaxUpsets THEN {[d |-> db, ok |-> FALSE]} ELSE {})

Write(w) ==
    /\ db' = w.d
    /\ flash' = IF w.ok THEN w.d ELSE flash
    /\ upsets' = IF w.ok THEN upsets ELSE upsets + 1

----------------------------------------------------------------------------
(* The start of the process.                                                *)

\* A count that is not in syscfg takes no slot.
CountSlots(d, t) ==
    IF d[Count(t)] = Unset THEN <<>> ELSE <<[cmd |-> Count(t), val |-> d[Count(t)]]>>

\* Seeded fault: a missing alias is taken over as it is.
RowSlotsRaw(d, t) ==
    [m \in 1 .. 2 * Atoi(d[Count(t)]) |->
        LET j == (m + 1) \div 2 IN
        IF m % 2 = 1 THEN [cmd |-> Alias(t, j), val |-> d[Alias(t, j)]]
                     ELSE [cmd |-> Attrs(t, Atoi(d[Alias(t, j)])), val |-> Empty]]

\* The alias with its value; of the attributes only the keys.
RowSlots(d, t) ==
    [m \in 1 .. 2 * Atoi(d[Count(t)]) |->
        LET j     == (m + 1) \div 2
            alias == IF d[Alias(t, j)] = Unset THEN Empty ELSE d[Alias(t, j)]
        IN  IF m % 2 = 1 THEN [cmd |-> Alias(t, j), val |-> alias]
                         ELSE [cmd |-> Attrs(t, Atoi(alias)), val |-> Empty]]

\* Seeded fault: the rows of the second table are forgotten.
InitSlotsFirst(d) == CountSlots(d, "spf") \o CountSlots(d, "pfr") \o RowSlots(d, "spf")

InitSlots(d) ==
    CountSlots(d, "spf") \o CountSlots(d, "pfr") \o RowSlots(d, "spf") \o RowSlots(d, "pfr")

\* init_pf_cache, on static buffers that are zero.
InitCache(d) ==
    /\ cache' = Loaded(InitSlots(d))
    /\ size' = Len(InitSlots(d))
    /\ bkup' = Loaded(<<>>)
    /\ bsize' = 0
    /\ gpf' = Atoi(d[Flag])
    /\ pc' = "idle"
    /\ blob' = 0
    /\ outcome' = "none"
    /\ clean' = FALSE
    /\ outside' = outside \cap {"litter"}

Init ==
    /\ db = [k \in Keys |-> Unset]
    /\ flash = db
    /\ cache = Loaded(<<>>) /\ size = 0
    /\ bkup = Loaded(<<>>) /\ bsize = 0
    /\ gpf = 0
    /\ pc = "idle" /\ blob = 0 /\ upsets = 0
    /\ outcome = "none" /\ applied = 0 /\ clean = FALSE /\ strayed = FALSE
    /\ outside = {}
    /\ faults \in FaultSets

\* The process is started again; what is in shared memory stays.  A crash in
\* the middle of a loop of syscfg calls leaves the same store as a call that
\* fails there followed by a crash before the rollback.
Restart ==
    /\ pc = "idle" \/ "crash" \in faults
    /\ InitCache(db)
    /\ UNCHANGED <<db, flash, upsets, applied, strayed>>

\* The gateway reboots from what was committed.
PowerCut ==
    /\ "powercut" \in faults
    /\ db' = flash
    /\ InitCache(flash)
    /\ UNCHANGED <<flash, upsets, applied, strayed>>

----------------------------------------------------------------------------
(* A request.  The framework runs one at a time.                            *)

\* X_RDK_PortMapping_SetParamStringValue("Data") and PushBlobRequest.
Push ==
    /\ pc = "idle"
    /\ blob' \in Versions
    /\ pc' = "clear"
    /\ outside' = (outside \ {"mixed"}) \cup (IF "rules" \in outside THEN {"litter"} ELSE {})
    /\ UNCHANGED <<db, flash, buffers, gpf, upsets, outcome, applied, clean, strayed>>

\* Seeded fault: the loop breaks at a failing key and commits all the same.
ClearCommitting ==
    /\ pc = "clear"
    /\ bkup' = Copied(cache, bkup, size)
    /\ bsize' = size
    /\ \E e \in Ends(size) :
          /\ db' = UnsetPairs(db, cache, e.calls)
          /\ flash' = db'
          /\ upsets' = IF e.ok THEN upsets ELSE upsets + 1
          /\ cache' = [i \in Slots |-> IF i <= e.calls THEN Blank ELSE cache[i]]
          /\ pc' = IF e.ok THEN "conf" ELSE "rollback"
    /\ UNCHANGED <<size, gpf, blob, outcome, applied, clean, strayed, outside>>

\* Seeded fault: the backup is taken of the buffer that was just cleared.
ClearThenBackup ==
    /\ pc = "clear"
    /\ bsize' = size
    /\ \E e \in Ends(size) :
          /\ Write([d |-> UnsetPairs(db, cache, e.calls), ok |-> e.ok])
          /\ cache' = [i \in Slots |-> IF i <= e.calls THEN Blank ELSE cache[i]]
          /\ bkup' = Copied(cache', bkup, size)
          /\ pc' = IF e.ok THEN "conf" ELSE "rollback"
    /\ UNCHANGED <<size, gpf, blob, outcome, applied, clean, strayed, outside>>

\* backup_pf_cache and clear_pf_cache_DB: the pairs are unset and blanked one
\* by one; the committed state is one without rules.
Clear ==
    /\ pc = "clear"
    /\ bkup' = Copied(cache, bkup, size)
    /\ bsize' = size
    /\ \E e \in Ends(size) :
          /\ Write([d |-> UnsetPairs(db, cache, e.calls), ok |-> e.ok])
          /\ cache' = [i \in Slots |-> IF i <= e.calls THEN Blank ELSE cache[i]]
          /\ pc' = IF e.ok THEN "conf" ELSE "rollback"
    /\ UNCHANGED <<size, gpf, blob, outcome, applied, clean, strayed, outside>>

\* The entries of table t among the first n of b, and how many there are.
OfTable(b, t, n) == {i \in 1 .. n : b[i].t = t}
Rank(b, t, n)    == Cardinality(OfTable(b, t, n))

\* The pairs of the first n entries of b: entry i is named "spf_<i>" or
\* "pfr_<i>" and is the next one of its table.
EntrySlots(b, n) ==
    [m \in 1 .. 2 * n |->
        LET i == (m + 1) \div 2
            t == b[i].t
        IN  IF m % 2 = 1 THEN [cmd |-> Alias(t, Rank(b, t, i)), val |-> i]
                         ELSE [cmd |-> Attrs(t, i), val |-> b[i].r]]

ConfSlots(b) ==
    EntrySlots(b, Len(b))
    \o <<[cmd |-> Count("spf"), val |-> Rank(b, "spf", Len(b))],
         [cmd |-> Count("pfr"), val |-> Rank(b, "pfr", Len(b))]>>

Bad(b) == {i \in 1 .. Len(b) : b[i].verdict # "ok"}

\* How far set_portmap_conf gets: addresses and ports are looked at before the
\* pairs of the entry are written, the protocol in the middle of them.
Expanded(b) ==
    LET m == CHOOSE i \in Bad(b) : \A k \in Bad(b) : i <= k
    IN  IF b[m].verdict = "protocol" THEN m ELSE m - 1

ConfOk ==
    LET s == ConfSlots(Blobs[blob])
    IN  /\ Bad(Blobs[blob]) = {}
        /\ cache' = Overwrite(cache, s)
        /\ size' = Len(s)
        /\ pc' = "apply"

ConfBad ==
    /\ Bad(Blobs[blob]) # {}
    /\ cache' = Overwrite(cache, EntrySlots(Blobs[blob], Expanded(Blobs[blob])))
    /\ pc' = "rollback"
    /\ UNCHANGED size

Conf ==
    /\ pc = "conf"
    /\ ConfOk \/ ConfBad
    /\ UNCHANGED <<db, flash, bkup, bsize, gpf, blob, upsets, outcome, applied, clean, strayed,
                   outside>>

\* lpfEnable: forwarding is on when the blob has rules.
Enable(b) == IF Len(b) > 0 THEN 1 ELSE 0

\* Seeded fault: gpfEnable is not brought up to date.
ApplyOkStale ==
    /\ pc' = "ack"
    /\ applied' = blob
    /\ clean' = ("mixed" \notin outside)
    /\ UNCHANGED <<gpf, strayed>>

ApplyOk ==
    /\ gpf' = Enable(Blobs[blob])
    /\ pc' = "ack"
    /\ applied' = blob
    /\ clean' = ("mixed" \notin outside)
    /\ UNCHANGED strayed

ApplyFail ==
    /\ pc' = "rollback"
    /\ clean' = FALSE
    /\ strayed' = TRUE
    /\ UNCHANGED <<gpf, applied>>

Apply ==
    /\ pc = "apply"
    /\ \E w \in ApplyEnds(cache, size, Enable(Blobs[blob])) :
          /\ Write(w)
          /\ IF w.ok THEN ApplyOk ELSE ApplyFail
    /\ UNCHANGED <<buffers, blob, outcome, outside>>

\* The framework records the version with setBlobVersion, which may fail.
Ack ==
    /\ pc = "ack"
    /\ \E e \in Ends(1) : Write([d |-> SetPairs(db, [i \in 1 .. 1 |-> [cmd |-> Version, val |-> blob]],
                                               e.calls), ok |-> e.ok])
    /\ pc' = "idle"
    /\ blob' = 0
    /\ outcome' = "done"
    /\ UNCHANGED <<buffers, gpf, applied, clean, strayed, outside>>

\* rollback_PortForwarding: gpfEnable is compared with itself, and the copy
\* back goes by the size of the new rules.
Rollback ==
    /\ pc = "rollback"
    /\ \E w \in ApplyEnds(bkup, bsize, gpf) :
          /\ Write(w)
          /\ outcome' = IF w.ok THEN "restored" ELSE "failed"
          /\ strayed' = (strayed \/ ~w.ok)
    /\ cache' = Copied(bkup, cache, size)
    /\ size' = bsize
    /\ pc' = "idle"
    /\ blob' = 0
    /\ UNCHANGED <<bkup, bsize, gpf, applied, clean, outside>>

----------------------------------------------------------------------------
(* The TR-181 handlers, which run at any time beside the framework.  The     *)
(* Utopia library keeps the rows of a table together.                       *)

Rows(d, t)      == 1 .. Atoi(d[Count(t)])
Number(d, t, j) == Atoi(d[Alias(t, j)])

\* Utopia_AddPortForwarding, Utopia_AddPortForwardingRange: a row at the end,
\* with attributes that are those of no other row.
Added(d, t, i) ==
    LET n == Atoi(d[Count(t)]) + 1
    IN  [d EXCEPT ![Count(t)] = n, ![Alias(t, n)] = i, ![Attrs(t, i)] = Foreign]

Additions(d) ==
    {Added(d, x[1], x[2]) : x \in {y \in Tables \X (1 .. MaxEntries) :
        /\ Atoi(d[Count(y[1])]) < MaxEntries
        /\ \A j \in Rows(d, y[1]) : Number(d, y[1], j) # y[2]}}

\* Utopia_DelPortForwardingByRuleId, ...RangeByRuleId: the rows behind row j
\* move up, and its attributes go unless another row has them as well.
Deleted(d, t, j) ==
    LET n       == Atoi(d[Count(t)])
        orphan  == \A m \in Rows(d, t) \ {j} : Number(d, t, m) # Number(d, t, j)
        moved   == {Alias(t, m) : m \in j .. n - 1}
        dropped == {Alias(t, n)} \cup (IF orphan THEN {Attrs(t, Number(d, t, j))} ELSE {})
    IN  [k \in Keys |-> CASE k = Count(t)  -> n - 1
                          [] k \in moved   -> d[Alias(t, k[3] + 1)]
                          [] k \in dropped -> Unset
                          [] OTHER         -> d[k]]

Deletions(d) == UNION {{Deleted(d, t, j) : j \in Rows(d, t)} : t \in Tables}

\* _Update_NAT_PF_HS_Enable: the rules are written again, switched on or off,
\* and then the flag.
Switched(d, value) ==
    [k \in Keys |-> CASE k = Flag -> value
                      [] \E t \in Tables : \E j \in Rows(d, t) : k = Attrs(t, Number(d, t, j)) -> Foreign
                      [] OTHER -> d[k]]

\* Utopia_Free(&Ctx, 1) at the end of a handler commits all of syscfg.  What a
\* handler writes stays unknown to pf_cache ("rules") and gpfEnable ("switch")
\* until the process starts again; and once a blob has been taken while
\* pf_cache did not know of rules, keys may stay behind that no start finds
\* ("litter", see Push).  A handler may also write between two calls of one of
\* the loops of a request, which are one step here: so nothing is claimed of a
\* request that a handler has written in ("mixed").
HandlerCommits(d, what) ==
    /\ "clients" \in faults /\ upsets < MaxUpsets
    /\ upsets' = upsets + 1
    /\ db' = d
    /\ flash' = d
    /\ outside' = outside \cup {what} \cup (IF pc = "idle" THEN {} ELSE {"mixed"})
    /\ clean' = FALSE
    /\ strayed' = (strayed \/ pc # "idle")
    /\ UNCHANGED <<buffers, gpf, pc, blob, outcome, applied>>

\* CosaDmlNatAddPortMapping, CosaDmlNatDelPortMapping, and
\* CosaDmlNatSetPortMapping, which deletes the rule and adds the new one.
TableAdd == \E d \in Additions(db) : HandlerCommits(d, "rules")
TableDel == \E d \in Deletions(db) : HandlerCommits(d, "rules")
TableSet == \E d \in Deletions(db) : \E e \in Additions(d) : HandlerCommits(e, "rules")

\* CosaDmlNatSet, for EnablePortMapping or for the switches beside it, which
\* leave the flag as it is.
SwitchSet ==
    \E value \in {0, 1, db[Flag]} : HandlerCommits(Switched(db, value), "switch")

Next ==
    /\ \/ Push \/ Clear \/ Conf \/ Apply \/ Ack \/ Rollback
       \/ Restart \/ PowerCut
       \/ TableAdd \/ TableDel \/ TableSet \/ SwitchSet
    /\ UNCHANGED faults

Spec == Init /\ [][Next]_vars

----------------------------------------------------------------------------
(* Properties.                                                              *)

\* The rules the firewall makes of a store, and those a blob asks for.
RulesIn(d) ==
    [t \in Tables |-> [j \in 1 .. Atoi(d[Count(t)]) |-> d[Attrs(t, Atoi(d[Alias(t, j)]))]]]

RulesOf(b) ==
    [t \in Tables |-> [j \in 1 .. Rank(b, t, Len(b)) |->
        b[CHOOSE i \in OfTable(b, t, Len(b)) : Rank(b, t, i) = j].r]]

RulesApplied == IF applied = 0 THEN [t \in Tables |-> <<>>] ELSE RulesOf(Blobs[applied])

\* While the last writer of the rules was a blob of this process, handled while
\* no TR-181 handler wrote, a later blob that is refused, or whose old rules
\* could not be cleared, leaves exactly the rules of that blob, unless the
\* rollback itself reports a failure.  It does so whatever TR-181 handlers had
\* written before that blob (Process_PF_WebConfigRequest, rollback_PortForwarding).
RefusalKeepsRules ==
    pc = "idle" /\ clean /\ outcome # "failed" => RulesIn(db) = RulesApplied

\* As long as no apply and no rollback has failed halfway, a power cut never
\* finds a committed state whose counts name a rule that is not there, although
\* the keys of a rule are set and unset one by one, clearing them may fail at
\* each, the cut may come between any two steps, and TR-181 handlers change the
\* rules between the blobs behind the back of pf_cache (clear_pf_cache_DB,
\* apply_pf_cache_ToDB, rollback_PortForwarding).  A handler that writes during
\* a request, or after the process died in one, commits what it finds: nothing
\* is said of these.
FlashComplete ==
    ~strayed /\ ~({"crash", "clients"} \subseteq faults) =>
        \A t \in Tables : \A j \in 1 .. Atoi(flash[Count(t)]) :
            /\ flash[Alias(t, j)] # Unset
            /\ flash[Attrs(t, Atoi(flash[Alias(t, j)]))] # Unset

\* As long as no apply and no rollback has failed halfway, the process has not
\* died in the middle of a blob, and no TR-181 handler has changed the rules
\* since pf_cache was loaded, pf_cache lists every rule key in syscfg, so that
\* the next blob removes all the old rules, however often blobs were refused,
\* clearing failed, the process was started again between blobs or the power
\* was cut.  The start of the process also takes in what TR-181 handlers wrote
\* before, unless a blob was handled without knowing of it (init_pf_cache,
\* backup_pf_cache, set_portmap_conf).
StoreTracked ==
    /\ pc = "idle" /\ ~strayed /\ "crash" \notin faults
    /\ outside \cap {"rules", "litter"} = {}
    =>
        \A k \in RuleKeys : db[k] # Unset => \E i \in 1 .. size : cache[i].cmd = k

\* The enable flag is written only when it differs from gpfEnable, a copy that
\* init_pf_cache and every applied blob renew.  As long as no apply and no
\* rollback has failed halfway, and no TR-181 handler has written the switch
\* since the process was started, forwarding is on exactly when the last
\* applied blob has rules, also while a later blob is handled or after it was
\* refused (apply_pf_cache_ToDB, rollback_PortForwarding).
FlagFollowsBlob ==
    clean /\ ~strayed /\ "switch" \notin outside => Atoi(db[Flag]) = Enable(Blobs[applied])

\* "return 0 to notify framework when rollback is success": a rollback that
\* returned 0 has put the rules back (rollback_PortForwarding).
RulesRestored ==
    pc = "idle" /\ outcome = "restored" => RulesIn(db) = RulesApplied

=============================================================================
