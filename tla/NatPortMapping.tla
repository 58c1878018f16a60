--------------------------- MODULE NatPortMapping ---------------------------
(***************************************************************************)
(* Device.NAT.PortMapping.{i}: the writable TR-181 table of port-forwarding *)
(* rules.  Three copies of every rule exist and must be kept in step:       *)
(*                                                                          *)
(*   entries   the in-memory list the data model reads and writes           *)
(*             (cosa_nat_dml.c, pNat->NatPMappingList)                      *)
(*   registry  the persistent record of delay-added rows: rows a client has *)
(*             created and not committed yet (cosa_nat_internal.c)          *)
(*   rules     the router's rule store behind Utopia, which the firewall    *)
(*             reads: a table of single ports and a table of ranges         *)
(*             (source-arm/.../cosa_nat_apis.c)                             *)
(*                                                                          *)
(* A client stages values straight into the entries; the data-model engine  *)
(* then calls Validate on every touched row and Commit on each, or Rollback *)
(* on each when one row does not validate.                                  *)
(***************************************************************************)
EXTENDS Integers, FiniteSets

CONSTANTS
    MaxInstance,  \* bound: no instance number above it is handed out
    PortSpace,    \* size of the port space; the code stores a USHORT (2^16)
    Kinds,        \* the kinds of rules, see below
    UserCfgs,     \* the values a client may stage, before truncation
    UserAliases,  \* the aliases a client may stage
    FaultSets     \* what may happen besides: sets of faults

\* A Utopia call that reads the rules, checks a range against them, or is made
\* by a switch, may fail; a save of the registry may fail; the process may die
\* between the two saves of a Commit.
AllFaults == {"read", "registry", "midcommit"}

Ins   == 1 .. MaxInstance
Ports == 0 .. PortSpace - 1

\* Protocol is a UCHAR: 1 is TCP, 2 is UDP, 3 is both.
Bytes         == 0 .. 255
Protocols     == 1 .. 3
BothProtocols == 3

\* "" is 0 and the generated alias "PortMapping<i>" is i; a client may write
\* any of them.
Empty   == 0
Aliases == Nat

\* What a rule forwards: plain port forwarding (no internal port), home
\* security forwarding (an internal port) or one-to-one NAT (a public address).
AllKinds == {"pf", "hs", "nat"}

\* The part of COSA_DML_NAT_PMAPPING the properties tell apart.  InternalClient
\* and Description stand for the verdicts of CosaDmlNatChkPortMappingClient and
\* CosaDmlChkDesp on the stored text.
CfgOver(P, B) == [bEnabled : BOOLEAN, ExternalPort : P, ExternalPortEndRange : P,
                  Protocol : B, kind : Kinds, InternalClient : BOOLEAN,
                  Description : BOOLEAN]
Cfg == CfgOver(Ports, Bytes)

ASSUME MaxInstanceAssumption == MaxInstance \in Nat
ASSUME PortSpaceAssumption   == PortSpace \in Nat \ {0}
ASSUME KindsAssumption       == {"pf"} \subseteq Kinds /\ Kinds \subseteq AllKinds
ASSUME UserCfgsAssumption    == UserCfgs \subseteq CfgOver(Nat, Nat)
ASSUME UserAliasesAssumption == UserAliases \subseteq Aliases
ASSUME FaultsAssumption      == FaultSets \subseteq SUBSET AllFaults

VARIABLES
    entries,     \* NatPMappingList
    MaxIns,      \* pNat->MaxInstanceNumber
    savedAlias,  \* pNat->AliasOfPortMapping: ONE buffer for the whole table
    registry,    \* delay-added rows in the persistent registry
    rules,       \* the rule store
    enabled,     \* g_NatPFEnable, g_NatHSPFEnable, g_NatOne2OneEnable
    due,         \* the access interval has elapsed: the next visit synchronizes
    phase,       \* what the data-model engine is doing with the touched rows
    touched,     \* instance numbers with staged values
    todo,        \* touched rows the current phase has still to call
    faults       \* what may happen in this behaviour

table   == <<entries, MaxIns, savedAlias>>
store   == <<registry, rules, enabled>>
session == <<phase, touched, todo>>
system  == <<table, store, due, session>>
vars    == <<system, faults>>

Entry == [id : Ins, alias : Aliases, c : Cfg, bNew : BOOLEAN]
Rule  == [tbl : {"single", "range"}, id : Ins, c : Cfg, prev : BOOLEAN]

Phases == {"set", "validate", "commit", "rollback"}

\* Every variable stays within its type.
TypeOK ==
    /\ entries \subseteq Entry
    /\ MaxIns \in 0 .. MaxInstance
    /\ savedAlias \in Aliases
    /\ registry \subseteq [id : Ins, alias : Aliases]
    /\ rules \subseteq Rule
    /\ enabled \in [Kinds -> BOOLEAN]
    /\ due \in BOOLEAN
    /\ phase \in Phases
    /\ touched \subseteq Ins
    /\ todo \subseteq Ins
    /\ faults \subseteq AllFaults

----------------------------------------------------------------------------
(* Values.                                                                  *)

IdsOf(S) == {x.id : x \in S}
New(es)  == {e \in es : e.bNew}

ZeroCfg == [bEnabled |-> FALSE, ExternalPort |-> 0, ExternalPortEndRange |-> 0,
            Protocol |-> 0, kind |-> "pf", InternalClient |-> FALSE, Description |-> FALSE]

\* The macro leaves PublicIP and Description (and Alias) alone.
SetDefaultValue(c) ==
    [bEnabled |-> FALSE, ExternalPort |-> 0, ExternalPortEndRange |-> 0, Protocol |-> 0,
     kind |-> IF c.kind = "nat" THEN "nat" ELSE "pf",
     InternalClient |-> FALSE, Description |-> c.Description]

\* Seeded fault: the cast is left out.
TruncateNoCast(c) == c

\* SetParamUlongValue stores (USHORT)uValue, and (UCHAR)uValue of Protocol.
Truncate(c) ==
    [c EXCEPT !.ExternalPort = c.ExternalPort % PortSpace,
              !.ExternalPortEndRange = c.ExternalPortEndRange % PortSpace,
              !.Protocol = c.Protocol % 256]

\* The memset of CosaDmlNatGetPortMappings leaves Alias empty.
FromRule(r) == [id |-> r.id, alias |-> Empty, c |-> r.c, bNew |-> FALSE]

----------------------------------------------------------------------------
(* The rule store.                                                          *)

TableOf(c) == IF c.ExternalPortEndRange = c.ExternalPort /\ c.kind # "nat"
              THEN "single" ELSE "range"

InTable(t, i) == {r \in rules : r.tbl = t /\ r.id = i}

\* SB_2_U_PF_PPOTOCOL, and back: what is neither TCP nor UDP is both.
StoredForm(c) ==
    [c EXCEPT !.Protocol = IF c.Protocol \in {1, 2} THEN c.Protocol ELSE BothProtocols]

MkRule(i, c) ==
    [tbl |-> TableOf(c), id |-> i, c |-> StoredForm(c), prev |-> c.bEnabled]

Intersect(c, d) ==
    /\ c.ExternalPort <= d.ExternalPortEndRange
    /\ d.ExternalPort <= c.ExternalPortEndRange
    /\ c.Protocol = d.Protocol \/ BothProtocols \in {c.Protocol, d.Protocol}

\* Utopia_CheckPortRange: an enabled rule of another number claims a port.
CheckPortRange(i, c) ==
    \A r \in rules : r.id # i /\ r.c.bEnabled /\ r.c.kind # "nat"
                        => ~Intersect(c, r.c)

\* Whether Utopia_Init succeeds in CosaDmlNatChkPortRange.
Inits == {TRUE} \cup (IF "read" \in faults THEN {FALSE} ELSE {})

\* The status of a failed Utopia_Init is not FALSE: the check passes.
NatChkPortRange(i, c, init) == c.bEnabled /\ init => CheckPortRange(i, c)

Check_PF_parameter(i, c, init) ==
    /\ c.kind # "nat" => /\ c.ExternalPort # 0
                         /\ c.ExternalPort <= c.ExternalPortEndRange
                         /\ c.Protocol \in Protocols
                         /\ NatChkPortRange(i, c, init)
    /\ c.InternalClient

NatChkEnableFlg(c) == enabled[c.kind]

\* A rule read back by its number: the range table is looked at last by
\* GetPortMappings and first by GetPortMapping, so it wins in both.
Stored(seen, i) ==
    CHOOSE r \in seen : /\ r.id = i
                        /\ (\E s \in seen : s.id = i /\ s.tbl = "range")
                              => r.tbl = "range"

\* GetPortMapping of a row; when it fails the row gets the default values.
Reread(e) ==
    {[e EXCEPT !.c = IF e.id \in IdsOf(rules) THEN Stored(rules, e.id).c
                                              ELSE SetDefaultValue(e.c)]}
    \cup (IF "read" \in faults THEN {[e EXCEPT !.c = SetDefaultValue(e.c)]} ELSE {})

----------------------------------------------------------------------------
(* The registry and the start of the process.                               *)

\* CosaNatRegSetNatInfo rewrites the folder with the delay-added rows of es.
RegSaved(es) == {[id |-> e.id, alias |-> e.alias] : e \in New(es)}

\* A save that fails leaves the folder as it was, or cleared and partly
\* written: the code goes on after a row it could not write.
RegSetFails(es) ==
    /\ "registry" \in faults
    /\ registry' \in {registry} \cup SUBSET RegSaved(es)

RegSetNatInfo(es) == registry' = RegSaved(es) \/ RegSetFails(es)

\* CosaNatRegGetNatInfo: each saved row comes back as a delay-added row.
RegGetNatInfo ==
    {[id |-> r.id, alias |-> r.alias, c |-> ZeroCfg, bNew |-> TRUE] : r \in registry}

Idle ==
    /\ phase = "set"
    /\ touched = {}
    /\ todo = {}

Init ==
    /\ entries = {}
    /\ MaxIns = 0
    /\ savedAlias = Empty
    /\ registry = {}
    /\ rules = {}
    /\ enabled \in [Kinds -> BOOLEAN]
    /\ due = TRUE
    /\ Idle
    /\ faults \in FaultSets

\* CosaNatCreate and CosaNatInitialize on the saved registry.
Initialize ==
    /\ entries' = RegGetNatInfo
    /\ MaxIns' = 0
    /\ savedAlias' = Empty
    /\ due' = TRUE
    /\ phase' = "set" /\ touched' = {} /\ todo' = {}

\* The process ends at any moment and is started again.
Restart ==
    /\ Initialize
    /\ UNCHANGED store

----------------------------------------------------------------------------
(* Visiting the table.  The engine asks IsUpdated before it uses the table, *)
(* and synchronizes when the answer is TRUE; a due table is therefore       *)
(* synchronized before any row is added, written or deleted.                *)

\* COSA_DML_NAT_PORTMAPPING_ACCESS_INTERVAL seconds pass.
IntervalElapses ==
    /\ ~due
    /\ due' = TRUE
    /\ UNCHANGED <<table, store, session>>

\* What GetPortMappings can return: everything, or without the tables whose
\* read failed.
Reads == {rules} \cup (IF "read" \in faults
                       THEN {{}, {r \in rules : r.tbl = "single"},
                                 {r \in rules : r.tbl = "range"}}
                       ELSE {})

\* Seeded fault: a rule without a row gets none.
SyncedKnownOnly(seen) ==
    {FromRule(Stored(seen, i)) : i \in IdsOf(entries) \cap IdsOf(seen)}
    \cup {e \in New(entries) : e.id \notin IdsOf(seen)}

\* Rows found in the store are overwritten and stop being delay-added (the
\* registry is not saved); rows not found go, unless delay-added; rules
\* without a row get one.
Synced(seen) ==
    {FromRule(Stored(seen, i)) : i \in IdsOf(entries) \cap IdsOf(seen)}
    \cup {e \in New(entries) : e.id \notin IdsOf(seen)}
    \cup {FromRule(r) : r \in {x \in seen : x.id \notin IdsOf(entries)}}

\* IsUpdated answers TRUE and Synchronize runs.
Synchronize ==
    /\ due
    /\ phase = "set"
    /\ due' = FALSE
    /\ \E seen \in Reads :
          /\ entries' = Synced(seen)
          /\ touched' = touched \cap IdsOf(entries')
    /\ UNCHANGED <<MaxIns, savedAlias, store, phase, todo>>

\* In bridge mode the handlers that write refuse and change nothing: a step
\* less, whatever the mode does.
Writable == ~due /\ phase = "set"

\* CosaNatGen: count up, skipping the numbers of the list.
NatGen(n) ==
    /\ n > MaxIns
    /\ n \notin IdsOf(entries)
    /\ \A m \in Ins : MaxIns < m /\ m < n => m \in IdsOf(entries)

\* Seeded fault: the new row is not saved.
AddEntryUnsaved ==
    /\ Writable
    /\ \E n \in Ins :
          /\ NatGen(n)
          /\ MaxIns' = n
          /\ entries' = entries \cup {[id |-> n, alias |-> n, c |-> ZeroCfg, bNew |-> TRUE]}
    /\ UNCHANGED <<savedAlias, store, due, session>>

AddEntry ==
    /\ Writable
    /\ \E n \in Ins :
          /\ NatGen(n)
          /\ MaxIns' = n
          /\ entries' = entries \cup {[id |-> n, alias |-> n, c |-> ZeroCfg, bNew |-> TRUE]}
    /\ RegSetNatInfo(entries')
    /\ UNCHANGED <<savedAlias, rules, enabled, due, session>>

\* DelPortMapping looks at the single table first and stops there.
DelPortMapping(i) ==
    IF InTable("single", i) # {} THEN rules \ InTable("single", i)
                                 ELSE rules \ InTable("range", i)

\* A delay-added row is only taken out of the registry.
DelNewEntry(e) ==
    /\ e.bNew
    /\ entries' = entries \ {e}
    /\ RegSetNatInfo(entries \ {e})
    /\ touched' = touched \ {e.id}
    /\ UNCHANGED <<rules, enabled>>

\* The save failed: the row stays, and is no longer delay-added.
DelNewFail(e) ==
    /\ e.bNew
    /\ entries' = (entries \ {e}) \cup {[e EXCEPT !.bNew = FALSE]}
    /\ RegSetFails(entries \ {e})
    /\ UNCHANGED <<rules, enabled, touched>>

\* A committed row goes when its rule went; "Nothing to delete" and a failing
\* Utopia keep it.
DelOldEntry(e) ==
    /\ ~e.bNew
    /\ e.id \in IdsOf(rules)
    /\ entries' = entries \ {e}
    /\ rules' = DelPortMapping(e.id)
    /\ touched' = touched \ {e.id}
    /\ UNCHANGED <<registry, enabled>>

DelEntry ==
    /\ Writable
    /\ \E e \in entries : DelNewEntry(e) \/ DelNewFail(e) \/ DelOldEntry(e)
    /\ UNCHANGED <<MaxIns, savedAlias, due, phase, todo>>

----------------------------------------------------------------------------
(* Staging values: they go straight into the row.                           *)

\* SetParamBoolValue, SetParamUlongValue, SetParamStringValue.
SetParamValue ==
    /\ Writable
    /\ \E e \in entries, c \in UserCfgs :
          /\ entries' = (entries \ {e}) \cup {[e EXCEPT !.c = Truncate(c)]}
          /\ touched' = touched \cup {e.id}
    /\ UNCHANGED <<MaxIns, savedAlias, store, due, phase, todo>>

\* The old alias goes into the buffer the whole table shares.
SetParamAlias ==
    /\ Writable
    /\ \E e \in entries, a \in UserAliases :
          /\ entries' = (entries \ {e}) \cup {[e EXCEPT !.alias = a]}
          /\ savedAlias' = e.alias
          /\ touched' = touched \cup {e.id}
    /\ UNCHANGED <<MaxIns, store, due, phase, todo>>

\* The engine ends the staging of a SetParameterValues and validates.
BeginCommit ==
    /\ phase = "set"
    /\ touched # {}
    /\ phase' = "validate"
    /\ todo' = touched
    /\ UNCHANGED <<table, store, due, touched>>

\* The engine is done with row i of the phase; after the last one it enters
\* phase nxt, or ends the session.
Done(i, nxt) ==
    IF todo \ {i} # {}
    THEN todo' = todo \ {i} /\ UNCHANGED <<phase, touched>>
    ELSE /\ phase' = nxt
         /\ todo' = IF nxt = "set" THEN {} ELSE touched
         /\ touched' = IF nxt = "set" THEN {} ELSE touched

\* A failure: the engine rolls back the rows in rest.
Fail(rest) ==
    /\ phase' = IF rest = {} THEN "set" ELSE "rollback"
    /\ todo' = rest
    /\ touched' = IF rest = {} THEN {} ELSE touched

----------------------------------------------------------------------------
(* Validate.                                                                *)

ValidParams(e, init) ==
    /\ Check_PF_parameter(e.id, e.c, init)
    /\ e.c.Description
    /\ NatChkEnableFlg(e.c)

\* "promise the alias is exclusive": only checked when the buffer holds text.
AliasFree(e) ==
    savedAlias # Empty => \A f \in entries \ {e} : f.alias # e.alias

\* Bad parameters: the row gets its stored, or the default, values back.
ValidateBadParams(e, init) ==
    /\ ~ValidParams(e, init)
    /\ \E f \in IF e.bNew THEN {[e EXCEPT !.c = SetDefaultValue(e.c)]} ELSE Reread(e) :
          entries' = (entries \ {e}) \cup {f}
    /\ Fail(touched)

ValidateBadAlias(e, init) ==
    /\ ValidParams(e, init)
    /\ ~AliasFree(e)
    /\ Fail(touched)
    /\ UNCHANGED entries

ValidateOk(e, init) ==
    /\ ValidParams(e, init)
    /\ AliasFree(e)
    /\ Done(e.id, "commit")
    /\ UNCHANGED entries

Validate ==
    /\ phase = "validate"
    /\ \E e \in entries, init \in Inits :
          /\ e.id \in todo
          /\ \/ ValidateOk(e, init)
             \/ ValidateBadParams(e, init) \/ ValidateBadAlias(e, init)
    /\ UNCHANGED <<MaxIns, savedAlias, store, due>>

----------------------------------------------------------------------------
(* Commit and Rollback.                                                     *)

\* Seeded fault: Commit trusts what Validate checked.
StorableUnchecked(e) == NatChkEnableFlg(e.c)

\* The checks AddPortMapping and SetPortMapping repeat before they write.
Storable(e) ==
    /\ \E init \in Inits : Check_PF_parameter(e.id, e.c, init)
    /\ NatChkEnableFlg(e.c)

\* After a row whose Commit failed the engine goes on with the other rows or
\* rolls them back.
CommitFailed(e) == Done(e.id, "set") \/ Fail(todo \ {e.id})

\* Seeded fault: the registry keeps a row that is no longer delay-added.
CommitNewOkUnsaved(e) ==
    /\ e.bNew
    /\ Storable(e)
    /\ rules' = rules \cup {MkRule(e.id, e.c)}
    /\ entries' = (entries \ {e}) \cup {[e EXCEPT !.bNew = FALSE]}
    /\ Done(e.id, "set")
    /\ UNCHANGED registry

CommitNewOk(e) ==
    /\ e.bNew
    /\ Storable(e)
    /\ rules' = rules \cup {MkRule(e.id, e.c)}
    /\ entries' = (entries \ {e}) \cup {[e EXCEPT !.bNew = FALSE]}
    /\ RegSetNatInfo(entries')
    /\ Done(e.id, "set")

\* Refused by the checks or failed by Utopia: nothing is written.
CommitNewFail(e) ==
    /\ e.bNew
    /\ entries' = (entries \ {e}) \cup
                  {[e EXCEPT !.c = SetDefaultValue(e.c),
                             !.alias = IF savedAlias # Empty THEN savedAlias ELSE e.alias]}
    /\ CommitFailed(e)
    /\ UNCHANGED <<registry, rules>>

\* Seeded fault: only the table the new value belongs to is cleaned.
WithoutSingleRule(i) == rules \ InTable("single", i)

\* SetPortMapping deletes the rule from both tables and adds the new one.
WithoutRule(i) == rules \ (InTable("range", i) \cup InTable("single", i))

CommitOldOk(e) ==
    /\ ~e.bNew
    /\ Storable(e)
    /\ rules' = WithoutRule(e.id) \cup {MkRule(e.id, e.c)}
    /\ Done(e.id, "set")
    /\ UNCHANGED <<entries, registry>>

\* Refused by the checks, or a delete failed: the context is dropped.
CommitOldFail(e) ==
    /\ ~e.bNew
    /\ \E f \in Reread(e) : entries' = (entries \ {e}) \cup {f}
    /\ CommitFailed(e)
    /\ UNCHANGED <<registry, rules>>

\* The add failed after the deletes: the context is saved all the same.
CommitOldLost(e) ==
    /\ ~e.bNew
    /\ Storable(e)
    /\ rules' = WithoutRule(e.id)
    /\ entries' = (entries \ {e}) \cup {[e EXCEPT !.c = SetDefaultValue(e.c)]}
    /\ CommitFailed(e)
    /\ UNCHANGED registry

Commit ==
    /\ phase = "commit"
    /\ \E e \in entries :
          /\ e.id \in todo
          /\ \/ CommitNewOk(e) \/ CommitNewFail(e)
             \/ CommitOldOk(e) \/ CommitOldFail(e) \/ CommitOldLost(e)
    /\ savedAlias' = Empty
    /\ UNCHANGED <<MaxIns, enabled, due>>

\* The rule of a delay-added row is stored and the process ends before the
\* registry is saved.
CrashInCommit ==
    /\ "midcommit" \in faults
    /\ phase = "commit"
    /\ \E e \in entries :
          /\ e.id \in todo
          /\ e.bNew
          /\ Storable(e)
          /\ rules' = rules \cup {MkRule(e.id, e.c)}
    /\ Initialize
    /\ UNCHANGED <<registry, enabled>>

\* A committed row keeps what was staged: only its alias is put back.
RolledBack(e) ==
    LET f == IF savedAlias # Empty THEN [e EXCEPT !.alias = savedAlias] ELSE e
    IN  IF f.bNew THEN [f EXCEPT !.c = SetDefaultValue(f.c)] ELSE f

Rollback ==
    /\ phase = "rollback"
    /\ \E e \in entries :
          /\ e.id \in todo
          /\ entries' = (entries \ {e}) \cup {RolledBack(e)}
          /\ Done(e.id, "set")
    /\ savedAlias' = Empty
    /\ UNCHANGED <<MaxIns, store, due>>

----------------------------------------------------------------------------
(* The switches of the whole feature.                                       *)

\* UPDATE_PF_*_RULE_ENABLE for the kinds whose switch changes: off disables
\* the rule, on gives it back the state it was stored with.
UpdateRuleEnable(r, f) ==
    IF f[r.c.kind] = enabled[r.c.kind] THEN r
    ELSE [r EXCEPT !.c.bEnabled = f[r.c.kind] /\ r.prev]

\* The switches after a request for f: a Utopia_RawSet that fails keeps one.
SwitchesSet(f) ==
    IF "read" \in faults
    THEN {g \in [Kinds -> BOOLEAN] : \A k \in Kinds : g[k] \in {f[k], enabled[k]}}
    ELSE {f}

\* CosaDmlNatSet: Device.NAT.X_Comcast_com_EnablePortMapping and its siblings.
\* The rules of a table that could not be read, or written back, are left.
NatSet ==
    /\ \E f \in [Kinds -> BOOLEAN], seen \in Reads :
          /\ f # enabled
          /\ enabled' \in SwitchesSet(f)
          /\ rules' = (rules \ seen) \cup {UpdateRuleEnable(r, f) : r \in seen}
    /\ UNCHANGED <<table, registry, due, session>>

Next ==
    /\ \/ IntervalElapses \/ Synchronize
       \/ AddEntry \/ DelEntry \/ SetParamValue \/ SetParamAlias
       \/ BeginCommit \/ Validate \/ Commit \/ Rollback
       \/ NatSet
       \/ Restart \/ CrashInCommit
    /\ UNCHANGED faults

Spec == Init /\ [][Next]_vars

----------------------------------------------------------------------------
(* Properties.                                                              *)

ReadsSucceed == "read" \notin faults

Disjoint ==
    \A r, s \in rules :
        /\ r.id # s.id
        /\ r.c.bEnabled /\ s.c.bEnabled
        /\ r.c.kind = s.c.kind /\ r.c.kind # "nat"
        => ~Intersect(r.c, s.c)

\* When a switch reaches every rule and every check of a range is made, no two
\* enabled rules of one kind claim one external port of a protocol, whatever
\* rows are validated together before any is committed, and whatever the
\* feature switches do to rules that were stored while they were on
\* (_Check_PF_parameter, _Update_NAT_PF_HS_Enable).
NoOverlap == ReadsSucceed => Disjoint

OneRule == \A r, s \in rules : r.id = s.id => r = s

\* When reads of the store succeed, an instance number names one rule: never
\* one in the single table and another in the range table, and never two of
\* one table, although a rule moves between the tables, a crashed Commit
\* leaves a stored rule marked delay-added, and numbers restart from 1 with
\* the process (CosaNatGen, CosaDmlNatSetPortMapping,
\* PortMapping_Synchronize).
OneRulePerInstance == ReadsSucceed => OneRule

\* Every delay-added row is in the registry.
RegistryFull == IdsOf(New(entries)) \subseteq IdsOf(registry)

\* While saves of the registry succeed, a row a client has created and not
\* committed is in it, so that it is still there after a restart
\* (PortMapping_AddEntry, CosaNatRegSetNatInfo).
PendingDurable == "registry" \notin faults => RegistryFull

RegistryExact == IdsOf(registry) \subseteq IdsOf(New(entries))

\* While reads of the store and saves of the registry succeed and the process
\* does not die inside a Commit, the registry holds no more than the
\* delay-added rows: a committed or deleted row does not come back as an empty
\* row after a restart (PortMapping_DelEntry, PortMapping_Commit).
NothingResurrected == faults = {} => RegistryExact

\* A Commit that stores a row leaves its alias different from that of every
\* other committed row ("promise the alias is exclusive", PortMapping_Validate).
AliasExclusive ==
    [][\A e \in entries :
          /\ phase = "commit" /\ e.id \in todo \ todo'
          /\ rules' # rules /\ MkRule(e.id, e.c) \in rules'
          => \A f \in entries' : f.id = e.id /\ ~f.bNew =>
             \A g \in entries' \ {f} : ~g.bNew => g.alias # f.alias]_vars

\* A committed row that was rolled back shows the stored rule again: "either
\* all of the value changes are applied together, or none" (the note at the
\* head of cosa_nat_dml.c, PortMapping_Rollback).
RollbackRestores ==
    [][\A e \in entries : phase = "rollback" /\ e.id \in todo \ todo' /\ ~e.bNew =>
          \A f \in entries' : \A r \in rules : f.id = e.id /\ r.id = e.id => f.c = r.c]_vars

=============================================================================
