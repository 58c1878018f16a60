------------------------ MODULE NatPortMappingProofs ------------------------
(***************************************************************************)
(* Proofs about the port mapping table, for every bound, every port space   *)
(* and every set of staged values: its types; its safety: delay-added rows  *)
(* are durable, enabled rules of one kind do not overlap, and an instance   *)
(* number names one rule; and that without faults it implements RuleBook,   *)
(* because every step on the list, the registry and the store is one step   *)
(* of the book.                                                             *)
(***************************************************************************)
EXTENDS NatRuleBook, TLAPS

----------------------------------------------------------------------------
(* The operators on values.                                                 *)

\* The default values and the truncated values of a client are rule contents.
LEMMA ValueTypes ==
    /\ ZeroCfg \in Cfg
    /\ \A c \in Cfg : SetDefaultValue(c) \in Cfg
    /\ \A c \in UserCfgs : Truncate(c) \in Cfg
<1>1. ZeroCfg \in Cfg
  BY PortSpaceAssumption, KindsAssumption DEF ZeroCfg, Cfg, CfgOver, Ports, Bytes
<1>2. ASSUME NEW c \in Cfg PROVE SetDefaultValue(c) \in Cfg
  <2>1. c.kind \in Kinds /\ c.Description \in BOOLEAN
    BY DEF Cfg, CfgOver
  <2>2. (IF c.kind = "nat" THEN "nat" ELSE "pf") \in Kinds
    BY <2>1, KindsAssumption
  <2>3. 0 \in Ports /\ 0 \in Bytes
    BY PortSpaceAssumption DEF Ports, Bytes
  <2> QED BY <2>1, <2>2, <2>3 DEF SetDefaultValue, Cfg, CfgOver
<1>3. ASSUME NEW c \in UserCfgs PROVE Truncate(c) \in Cfg
  <2>1. c \in CfgOver(Nat, Nat)
    BY UserCfgsAssumption
  <2>2. /\ c.ExternalPort % PortSpace \in Ports
        /\ c.ExternalPortEndRange % PortSpace \in Ports
        /\ c.Protocol % 256 \in Bytes
    BY <2>1, PortSpaceAssumption DEF CfgOver, Ports, Bytes
  <2> QED BY <2>1, <2>2 DEF Truncate, Cfg, CfgOver
<1> QED BY <1>1, <1>2, <1>3

\* A stored value differs from the staged one in the protocol only.
LEMMA StoredFormParts ==
    ASSUME NEW c \in Cfg
    PROVE  /\ StoredForm(c) \in Cfg
           /\ StoredForm(c).bEnabled = c.bEnabled
           /\ StoredForm(c).kind = c.kind
           /\ StoredForm(c).ExternalPort = c.ExternalPort
           /\ StoredForm(c).ExternalPortEndRange = c.ExternalPortEndRange
           /\ c.Protocol \in Protocols => StoredForm(c).Protocol = c.Protocol
<1> DEFINE p == IF c.Protocol \in {1, 2} THEN c.Protocol ELSE BothProtocols
<1>1. p \in Bytes /\ (c.Protocol \in Protocols => p = c.Protocol)
  BY DEF Cfg, CfgOver, Bytes, Protocols, BothProtocols
<1>2. StoredForm(c) = [c EXCEPT !.Protocol = p]
  BY DEF StoredForm
<1> HIDE DEF p
<1> QED BY <1>1, <1>2 DEF Cfg, CfgOver

\* A stored rule and the row read back from it keep number and content.
LEMMA RuleTypes ==
    /\ \A i \in Ins, c \in Cfg : MkRule(i, c) \in Rule
    /\ \A r \in Rule : /\ FromRule(r) \in Entry
                       /\ FromRule(r).id = r.id
                       /\ ~FromRule(r).bNew
<1>1. ASSUME NEW i \in Ins, NEW c \in Cfg PROVE MkRule(i, c) \in Rule
  <2>1. StoredForm(c) \in Cfg /\ c.bEnabled \in BOOLEAN
    BY StoredFormParts DEF Cfg, CfgOver
  <2> QED BY <2>1 DEF MkRule, Rule, TableOf
<1>2. \A r \in Rule : FromRule(r) \in Entry /\ FromRule(r).id = r.id /\ ~FromRule(r).bNew
  BY DEF FromRule, Rule, Entry, Aliases, Empty
<1> QED BY <1>1, <1>2

\* Reading a number back finds a rule of that number.
LEMMA StoredIn ==
    ASSUME NEW seen, NEW i \in IdsOf(seen)
    PROVE  Stored(seen, i) \in seen /\ Stored(seen, i).id = i
<1>1. \E r \in seen : /\ r.id = i
                      /\ (\E s \in seen : s.id = i /\ s.tbl = "range") => r.tbl = "range"
  BY DEF IdsOf
<1> QED BY <1>1 DEF Stored

\* A row read back keeps its number and stays what it was, delay-added or not.
LEMMA RereadRow ==
    ASSUME rules \subseteq Rule, NEW e \in Entry, NEW f \in Reread(e)
    PROVE  f \in Entry /\ f.id = e.id /\ f.bNew = e.bNew
<1>1. e.id \in IdsOf(rules) => Stored(rules, e.id).c \in Cfg
  BY StoredIn DEF Rule
<1>2. SetDefaultValue(e.c) \in Cfg
  BY ValueTypes DEF Entry
<1> QED BY <1>1, <1>2 DEF Reread, Entry

\* Synchronize produces rows.
LEMMA SyncedType ==
    ASSUME TypeOK, NEW seen \in Reads
    PROVE  seen \subseteq rules /\ Synced(seen) \subseteq Entry
<1>1. seen \subseteq rules
  BY DEF Reads
<1>2. seen \subseteq Rule
  BY <1>1 DEF TypeOK
<1>3. \A i \in IdsOf(seen) : FromRule(Stored(seen, i)) \in Entry
  BY <1>2, StoredIn, RuleTypes
<1>4. \A r \in seen : FromRule(r) \in Entry
  BY <1>2, RuleTypes
<1>5. New(entries) \subseteq Entry
  BY DEF New, TypeOK
<1> QED BY <1>1, <1>3, <1>4, <1>5 DEF Synced

----------------------------------------------------------------------------
(* Type correctness.                                                        *)

\* How the engine's bookkeeping moves, whatever the row handler did.
LEMMA DoneType ==
    ASSUME TypeOK, NEW i, NEW nxt \in Phases, Done(i, nxt)
    PROVE  phase' \in Phases /\ touched' \subseteq Ins /\ todo' \subseteq Ins
BY DEF TypeOK, Done

\* The same for the roll back of a set of rows.
LEMMA FailType ==
    ASSUME TypeOK, NEW rest \in SUBSET Ins, Fail(rest)
    PROVE  phase' \in Phases /\ touched' \subseteq Ins /\ todo' \subseteq Ins
BY DEF TypeOK, Fail, Phases

\* The same for a row whose Commit failed.
LEMMA CommitFailedType ==
    ASSUME TypeOK, NEW e, CommitFailed(e)
    PROVE  phase' \in Phases /\ touched' \subseteq Ins /\ todo' \subseteq Ins
<1>1. todo \ {e.id} \in SUBSET Ins
  BY DEF TypeOK
<1>2. "set" \in Phases
  BY DEF Phases
<1> QED BY <1>1, <1>2, DoneType, FailType DEF CommitFailed

\* The registry only ever holds numbers and aliases of rows.
LEMMA RegSetType ==
    ASSUME TypeOK, NEW es \in SUBSET Entry, RegSetNatInfo(es)
    PROVE  registry' \subseteq [id : Ins, alias : Aliases]
<1>1. RegSaved(es) \subseteq [id : Ins, alias : Aliases]
  BY DEF RegSaved, New, Entry
<1> QED BY <1>1 DEF RegSetNatInfo, RegSetFails, TypeOK

\* Starting the process from a well-typed registry.
LEMMA InitializeType ==
    ASSUME TypeOK, Initialize
    PROVE  /\ entries' \subseteq Entry
           /\ MaxIns' \in 0 .. MaxInstance
           /\ savedAlias' \in Aliases
           /\ due' \in BOOLEAN
           /\ phase' \in Phases /\ touched' \subseteq Ins /\ todo' \subseteq Ins
<1>1. \A r \in registry :
         [id |-> r.id, alias |-> r.alias, c |-> ZeroCfg, bNew |-> TRUE] \in Entry
  BY ValueTypes DEF TypeOK, Entry
<1>2. entries' \subseteq Entry
  BY <1>1 DEF Initialize, RegGetNatInfo
<1> QED BY <1>2, MaxInstanceAssumption DEF Initialize, Aliases, Empty, Phases

\* Validate, Commit and Rollback replace one row by a row.
LEMMA RowReplaced ==
    ASSUME TypeOK, NEW e, NEW f \in Entry, entries' = (entries \ {e}) \cup {f}
    PROVE  entries' \subseteq Entry
BY DEF TypeOK

\* The steps on one row keep the types of the rows, the stores and the session.
LEMMA CommitRowType ==
    ASSUME TypeOK, NEW e \in entries,
           \/ CommitNewOk(e) \/ CommitNewFail(e)
           \/ CommitOldOk(e) \/ CommitOldFail(e) \/ CommitOldLost(e)
    PROVE  /\ entries' \subseteq Entry
           /\ registry' \subseteq [id : Ins, alias : Aliases]
           /\ rules' \subseteq Rule
           /\ phase' \in Phases /\ touched' \subseteq Ins /\ todo' \subseteq Ins
<1>1. /\ e \in Entry /\ e.id \in Ins /\ e.c \in Cfg
      /\ entries \subseteq Entry /\ rules \subseteq Rule
      /\ "set" \in Phases
  BY DEF TypeOK, Entry, Phases
<1>2. MkRule(e.id, e.c) \in Rule /\ SetDefaultValue(e.c) \in Cfg
  BY <1>1, RuleTypes, ValueTypes
<1>3. CASE CommitNewOk(e)
  <2>1. [e EXCEPT !.bNew = FALSE] \in Entry
    BY <1>1 DEF Entry
  <2>2. entries' \subseteq Entry
    BY <1>3, <2>1, RowReplaced DEF CommitNewOk
  <2> QED BY <1>1, <1>2, <1>3, <2>2, RegSetType, DoneType DEF CommitNewOk
<1>4. CASE CommitNewFail(e)
  <2> DEFINE a == IF savedAlias # Empty THEN savedAlias ELSE e.alias
  <2>1. a \in Aliases
    BY <1>1 DEF TypeOK, Entry
  <2>2. [e EXCEPT !.c = SetDefaultValue(e.c), !.alias = a] \in Entry
    BY <1>1, <1>2, <2>1 DEF Entry
  <2>3. entries' \subseteq Entry
    BY <1>4, <2>2, RowReplaced DEF CommitNewFail
  <2> QED BY <1>4, <2>3, CommitFailedType DEF CommitNewFail, TypeOK
<1>5. CASE CommitOldOk(e)
  BY <1>1, <1>2, <1>5, DoneType DEF CommitOldOk, WithoutRule, TypeOK
<1>6. CASE CommitOldFail(e)
  <2>1. entries' \subseteq Entry
    BY <1>1, <1>6, RereadRow, RowReplaced DEF CommitOldFail
  <2> QED BY <1>6, <2>1, CommitFailedType DEF CommitOldFail, TypeOK
<1>7. CASE CommitOldLost(e)
  <2>1. [e EXCEPT !.c = SetDefaultValue(e.c)] \in Entry
    BY <1>1, <1>2 DEF Entry
  <2>2. entries' \subseteq Entry
    BY <1>7, <2>1, RowReplaced DEF CommitOldLost
  <2> QED BY <1>1, <1>7, <2>2, CommitFailedType DEF CommitOldLost, WithoutRule, TypeOK
<1> QED BY <1>3, <1>4, <1>5, <1>6, <1>7

\* What may happen is settled at the start.
LEMMA FaultsStay == [Next]_vars => faults' = faults
BY DEF Next, vars

\* Every step keeps the types.
LEMMA TypeStep == TypeOK /\ [Next]_vars => TypeOK'
<1> SUFFICES ASSUME TypeOK, [Next]_vars, UNCHANGED faults PROVE TypeOK'
  BY FaultsStay
<1>1. CASE IntervalElapses
  BY <1>1 DEF IntervalElapses, TypeOK, table, store, session
<1>2. CASE Synchronize
  <2> PICK seen \in Reads : entries' = Synced(seen) /\ touched' = touched \cap IdsOf(entries')
    BY <1>2 DEF Synchronize
  <2>1. entries' \subseteq Entry
    BY SyncedType
  <2>2. touched' \subseteq Ins
    BY DEF TypeOK
  <2> QED BY <1>2, <2>1, <2>2 DEF Synchronize, TypeOK, store
<1>3. CASE AddEntry
  <2> PICK n \in Ins :
        /\ MaxIns' = n
        /\ entries' = entries \cup {[id |-> n, alias |-> n, c |-> ZeroCfg, bNew |-> TRUE]}
    BY <1>3 DEF AddEntry
  <2>1. n \in 0 .. MaxInstance /\ n \in Aliases
    BY MaxInstanceAssumption DEF Ins, Aliases
  <2>2. [id |-> n, alias |-> n, c |-> ZeroCfg, bNew |-> TRUE] \in Entry
    BY <2>1, ValueTypes DEF Entry
  <2>3. entries' \subseteq Entry
    BY <2>2 DEF TypeOK
  <2>4. registry' \subseteq [id : Ins, alias : Aliases]
    BY <1>3, <2>3, RegSetType DEF AddEntry
  <2> QED BY <1>3, <2>1, <2>3, <2>4 DEF AddEntry, TypeOK, session
<1>4. CASE DelEntry
  <2> PICK e \in entries : DelNewEntry(e) \/ DelNewFail(e) \/ DelOldEntry(e)
    BY <1>4 DEF DelEntry
  <2>0. [e EXCEPT !.bNew = FALSE] \in Entry
    BY DEF TypeOK, Entry
  <2>1. entries' \subseteq Entry /\ touched' \subseteq Ins
    BY <2>0, RowReplaced DEF DelNewEntry, DelNewFail, DelOldEntry, TypeOK
  <2>2. /\ registry' \subseteq [id : Ins, alias : Aliases]
        /\ rules' \subseteq Rule
        /\ enabled' = enabled
    <3>1. CASE DelNewEntry(e)
      <4>1. entries \ {e} \in SUBSET Entry
        BY DEF TypeOK
      <4> QED BY <3>1, <4>1, RegSetType DEF DelNewEntry, TypeOK
    <3>2. CASE DelOldEntry(e)
      BY <3>2 DEF DelOldEntry, DelPortMapping, TypeOK
    <3>3. CASE DelNewFail(e)
      <4>1. entries \ {e} \in SUBSET Entry
        BY DEF TypeOK
      <4> QED BY <3>3, <4>1, RegSetType DEF DelNewFail, RegSetNatInfo, TypeOK
    <3> QED BY <3>1, <3>2, <3>3
  <2> QED BY <1>4, <2>1, <2>2 DEF DelEntry, TypeOK
<1>5. CASE SetParamValue
  <2> PICK e \in entries, c \in UserCfgs :
        /\ entries' = (entries \ {e}) \cup {[e EXCEPT !.c = Truncate(c)]}
        /\ touched' = touched \cup {e.id}
    BY <1>5 DEF SetParamValue
  <2>1. [e EXCEPT !.c = Truncate(c)] \in Entry /\ e.id \in Ins
    BY ValueTypes DEF TypeOK, Entry
  <2>2. entries' \subseteq Entry
    BY <2>1, RowReplaced
  <2> QED BY <1>5, <2>1, <2>2 DEF SetParamValue, TypeOK, store
<1>6. CASE SetParamAlias
  <2> PICK e \in entries, a \in UserAliases :
        /\ entries' = (entries \ {e}) \cup {[e EXCEPT !.alias = a]}
        /\ savedAlias' = e.alias
        /\ touched' = touched \cup {e.id}
    BY <1>6 DEF SetParamAlias
  <2>1. [e EXCEPT !.alias = a] \in Entry /\ e.id \in Ins /\ e.alias \in Aliases
    BY UserAliasesAssumption DEF TypeOK, Entry
  <2>2. entries' \subseteq Entry
    BY <2>1, RowReplaced
  <2> QED BY <1>6, <2>1, <2>2 DEF SetParamAlias, TypeOK, store
<1>7. CASE BeginCommit
  BY <1>7 DEF BeginCommit, TypeOK, table, store, Phases
<1>8. CASE Validate
  <2> PICK e \in entries, init \in Inits :
        ValidateOk(e, init) \/ ValidateBadParams(e, init) \/ ValidateBadAlias(e, init)
    BY <1>8 DEF Validate
  <2>1. e \in Entry /\ e.c \in Cfg /\ rules \subseteq Rule /\ "commit" \in Phases
    BY DEF TypeOK, Entry, Phases
  <2>2. CASE ValidateOk(e, init)
    BY <1>8, <2>1, <2>2, DoneType DEF ValidateOk, Validate, TypeOK, store
  <2>3. CASE ValidateBadParams(e, init)
    <3>1. [e EXCEPT !.c = SetDefaultValue(e.c)] \in Entry
      BY <2>1, ValueTypes DEF Entry
    <3>2. entries' \subseteq Entry
      BY <2>1, <2>3, <3>1, RereadRow, RowReplaced DEF ValidateBadParams
    <3>3. touched \in SUBSET Ins
      BY DEF TypeOK
    <3> QED BY <1>8, <2>3, <3>2, <3>3, FailType DEF ValidateBadParams, Validate, TypeOK, store
  <2>4. CASE ValidateBadAlias(e, init)
    <3>1. touched \in SUBSET Ins
      BY DEF TypeOK
    <3> QED BY <1>8, <2>4, <3>1, FailType DEF ValidateBadAlias, Validate, TypeOK, store
  <2> QED BY <2>2, <2>3, <2>4
<1>9. CASE Commit
  <2> PICK e \in entries : \/ CommitNewOk(e) \/ CommitNewFail(e)
                           \/ CommitOldOk(e) \/ CommitOldFail(e) \/ CommitOldLost(e)
    BY <1>9 DEF Commit
  <2> QED BY <1>9, CommitRowType DEF Commit, TypeOK, Aliases, Empty
<1>10. CASE Rollback
  <2> PICK e \in entries : /\ entries' = (entries \ {e}) \cup {RolledBack(e)}
                           /\ Done(e.id, "set")
    BY <1>10 DEF Rollback
  <2>1. RolledBack(e) \in Entry
    <3> DEFINE f == IF savedAlias # Empty THEN [e EXCEPT !.alias = savedAlias] ELSE e
    <3>1. f \in Entry
      BY DEF TypeOK, Entry
    <3>2. SetDefaultValue(f.c) \in Cfg
      BY <3>1, ValueTypes DEF Entry
    <3>3. RolledBack(e) = IF f.bNew THEN [f EXCEPT !.c = SetDefaultValue(f.c)] ELSE f
      BY DEF RolledBack
    <3> HIDE DEF f
    <3> QED BY <3>1, <3>2, <3>3 DEF Entry
  <2>2. entries' \subseteq Entry
    BY <2>1, RowReplaced
  <2>3. "set" \in Phases
    BY DEF Phases
  <2> QED BY <1>10, <2>2, <2>3, DoneType DEF Rollback, TypeOK, store, Aliases, Empty
<1>11. CASE NatSet
  <2> PICK f \in [Kinds -> BOOLEAN], seen \in Reads :
        /\ enabled' \in SwitchesSet(f)
        /\ rules' = (rules \ seen) \cup {UpdateRuleEnable(r, f) : r \in seen}
    BY <1>11 DEF NatSet
  <2>0. seen \subseteq rules /\ enabled' \in [Kinds -> BOOLEAN]
    BY DEF Reads, SwitchesSet
  <2>1. ASSUME NEW r \in rules PROVE UpdateRuleEnable(r, f) \in Rule
    <3>1. r \in Rule /\ r.c \in Cfg /\ r.prev \in BOOLEAN
      BY DEF TypeOK, Rule
    <3>2. [r.c EXCEPT !.bEnabled = f[r.c.kind] /\ r.prev] \in Cfg
      BY <3>1 DEF Cfg, CfgOver
    <3> QED BY <3>1, <3>2 DEF UpdateRuleEnable, Rule
  <2>2. rules' \subseteq Rule
    BY <2>0, <2>1 DEF TypeOK
  <2> QED BY <1>11, <2>0, <2>2 DEF NatSet, TypeOK, table, session
<1>13. CASE Restart
  BY <1>13, InitializeType DEF Restart, TypeOK, store
<1>14. CASE CrashInCommit
  <2>1. \A e \in entries : MkRule(e.id, e.c) \in Rule
    BY RuleTypes DEF TypeOK, Entry
  <2>2. rules' \subseteq Rule
    BY <1>14, <2>1 DEF CrashInCommit, TypeOK
  <2> QED BY <1>14, <2>2, InitializeType DEF CrashInCommit, TypeOK
<1>15. CASE UNCHANGED vars
  BY <1>15 DEF vars, system, TypeOK, table, store, session
<1> QED BY <1>1, <1>2, <1>3, <1>4, <1>5, <1>6, <1>7, <1>8, <1>9, <1>10, <1>11,
           <1>13, <1>14, <1>15 DEF Next

\* The initial states are well typed.
LEMMA TypeInit == Init => TypeOK
<1> SUFFICES ASSUME Init PROVE TypeOK
  OBVIOUS
<1>1. MaxIns \in 0 .. MaxInstance /\ savedAlias \in Aliases
  BY MaxInstanceAssumption DEF Init, Aliases, Empty
<1>2. /\ entries \subseteq Entry /\ rules \subseteq Rule
      /\ registry \subseteq [id : Ins, alias : Aliases]
      /\ touched \subseteq Ins /\ todo \subseteq Ins
  BY DEF Init, Idle
<1>3. /\ enabled \in [Kinds -> BOOLEAN] /\ due \in BOOLEAN
      /\ phase \in Phases
  BY DEF Init, Idle, Phases
<1>4. faults \subseteq AllFaults
  BY FaultsAssumption DEF Init
<1> QED BY <1>1, <1>2, <1>3, <1>4 DEF TypeOK

\* Every reachable state is well typed, for every bound and every fault.
THEOREM TypeCorrect == Spec => []TypeOK
BY TypeInit, TypeStep, PTL DEF Spec

----------------------------------------------------------------------------
(* What the row handlers do to the set of rows.                             *)

\* A save that succeeds records exactly the delay-added rows.
LEMMA RegSetIds ==
    ASSUME "registry" \notin faults, NEW es, RegSetNatInfo(es)
    PROVE  IdsOf(registry') = IdsOf(New(es))
<1> DEFINE Row(e) == [id |-> e.id, alias |-> e.alias]
<1>1. registry' = {Row(e) : e \in New(es)}
  BY DEF RegSetNatInfo, RegSetFails, RegSaved
<1>2. \A e : Row(e).id = e.id
  OBVIOUS
<1> HIDE DEF Row
<1> QED BY <1>1, <1>2 DEF IdsOf

\* The handlers of one row put a row of the same number in its place, and
\* none makes a row delay-added.
RowStep(e, f) ==
    /\ entries' = (entries \ {e}) \cup {f}
    /\ f.id = e.id
    /\ f.bNew => e.bNew

\* Such a step adds no delay-added row and keeps the numbers of the list.
LEMMA RowStepIds ==
    ASSUME NEW e \in entries, NEW f, RowStep(e, f)
    PROVE  /\ IdsOf(New(entries')) \subseteq IdsOf(New(entries))
           /\ IdsOf(entries') = IdsOf(entries)
BY DEF RowStep, IdsOf, New

\* Each handler of one row is such a step.
LEMMA ValidateRow ==
    ASSUME TypeOK, NEW e \in entries, NEW init \in Inits,
           ValidateOk(e, init) \/ ValidateBadParams(e, init) \/ ValidateBadAlias(e, init)
    PROVE  \E f : RowStep(e, f)
<1>1. e \in Entry /\ rules \subseteq Rule
  BY DEF TypeOK
<1>2. CASE ValidateBadParams(e, init)
  <2>1. PICK f \in IF e.bNew THEN {[e EXCEPT !.c = SetDefaultValue(e.c)]} ELSE Reread(e) :
           entries' = (entries \ {e}) \cup {f}
    BY <1>2 DEF ValidateBadParams
  <2>2. f.id = e.id /\ f.bNew = e.bNew
    <3>1. CASE e.bNew
      BY <1>1, <2>1, <3>1 DEF Entry
    <3>2. CASE ~e.bNew
      BY <1>1, <2>1, <3>2, RereadRow
    <3> QED BY <3>1, <3>2
  <2> QED BY <2>1, <2>2 DEF RowStep
<1>3. CASE UNCHANGED entries
  <2>1. RowStep(e, e)
    BY <1>3 DEF RowStep
  <2> QED BY <2>1
<1> QED BY <1>2, <1>3 DEF ValidateOk, ValidateBadAlias

\* Commit of a row; only the success of a delay-added one saves the registry.
LEMMA CommitRow ==
    ASSUME TypeOK, NEW e \in entries,
           \/ CommitNewOk(e) \/ CommitNewFail(e)
           \/ CommitOldOk(e) \/ CommitOldFail(e) \/ CommitOldLost(e)
    PROVE  \E f : RowStep(e, f)
<1>1. e \in Entry /\ rules \subseteq Rule
  BY DEF TypeOK
<1>2. CASE CommitNewOk(e)
  <2>1. RowStep(e, [e EXCEPT !.bNew = FALSE])
    BY <1>1, <1>2 DEF CommitNewOk, RowStep, Entry
  <2> QED BY <2>1
<1>3. CASE CommitNewFail(e)
  <2> DEFINE a == IF savedAlias # Empty THEN savedAlias ELSE e.alias
             f == [e EXCEPT !.c = SetDefaultValue(e.c), !.alias = a]
  <2>1. f.id = e.id /\ f.bNew = e.bNew
    BY <1>1 DEF Entry
  <2>2. entries' = (entries \ {e}) \cup {f}
    BY <1>3 DEF CommitNewFail
  <2> HIDE DEF f
  <2> QED BY <2>1, <2>2 DEF RowStep
<1>4. CASE CommitOldOk(e)
  <2>1. RowStep(e, e)
    BY <1>4 DEF CommitOldOk, RowStep
  <2> QED BY <2>1
<1>5. CASE CommitOldFail(e)
  BY <1>1, <1>5, RereadRow DEF CommitOldFail, RowStep
<1>6. CASE CommitOldLost(e)
  <2>1. RowStep(e, [e EXCEPT !.c = SetDefaultValue(e.c)])
    BY <1>1, <1>6 DEF CommitOldLost, RowStep, Entry
  <2> QED BY <2>1
<1> QED BY <1>2, <1>3, <1>4, <1>5, <1>6

\* Rollback of a row.
LEMMA RollbackRow ==
    ASSUME TypeOK, NEW e \in entries, entries' = (entries \ {e}) \cup {RolledBack(e)}
    PROVE  RowStep(e, RolledBack(e))
<1> DEFINE f == IF savedAlias # Empty THEN [e EXCEPT !.alias = savedAlias] ELSE e
<1>1. e \in Entry
  BY DEF TypeOK
<1>2. f \in Entry /\ f.id = e.id /\ f.bNew = e.bNew
  BY <1>1 DEF Entry, TypeOK
<1>3. RolledBack(e) = IF f.bNew THEN [f EXCEPT !.c = SetDefaultValue(f.c)] ELSE f
  BY DEF RolledBack
<1> HIDE DEF f
<1>4. RolledBack(e).id = e.id /\ RolledBack(e).bNew = e.bNew
  BY <1>2, <1>3 DEF Entry
<1> QED BY <1>4 DEF RowStep

----------------------------------------------------------------------------
(* Delay-added rows are durable.                                            *)

\* Every step whose saves succeed keeps every delay-added row in the registry.
LEMMA RegistryFullStep ==
    ASSUME "registry" \notin faults, TypeOK, RegistryFull, [Next]_vars
    PROVE  RegistryFull'
<1>0. ASSUME NEW e \in entries, NEW f, RowStep(e, f), registry' = registry
      PROVE  RegistryFull'
  BY <1>0, RowStepIds DEF RegistryFull
<1>1. CASE Synchronize
  <2> PICK seen \in Reads : entries' = Synced(seen)
    BY <1>1 DEF Synchronize
  <2>1. seen \subseteq Rule
    BY SyncedType DEF TypeOK
  <2>2. /\ \A r \in seen : ~FromRule(r).bNew
        /\ \A i \in IdsOf(seen) : ~FromRule(Stored(seen, i)).bNew
    BY <2>1, RuleTypes, StoredIn
  <2>3. New(entries') \subseteq New(entries)
    BY <2>2 DEF Synced, New
  <2> QED BY <1>1, <2>3 DEF Synchronize, store, RegistryFull, IdsOf
<1>2. CASE AddEntry
  BY <1>2, RegSetIds DEF AddEntry, RegistryFull
<1>3. CASE DelEntry
  <2> PICK e \in entries : DelNewEntry(e) \/ DelOldEntry(e)
    BY <1>3 DEF DelEntry, DelNewFail, RegSetFails
  <2>1. CASE DelNewEntry(e)
    <3>1. IdsOf(registry') = IdsOf(New(entries \ {e}))
      BY <2>1, RegSetIds DEF DelNewEntry
    <3> QED BY <2>1, <3>1 DEF DelNewEntry, RegistryFull
  <2>2. CASE DelOldEntry(e)
    BY <2>2 DEF DelOldEntry, RegistryFull, New, IdsOf
  <2> QED BY <2>1, <2>2
<1>4. CASE SetParamValue
  <2> PICK e \in entries, c \in UserCfgs :
        entries' = (entries \ {e}) \cup {[e EXCEPT !.c = Truncate(c)]}
    BY <1>4 DEF SetParamValue
  <2>1. RowStep(e, [e EXCEPT !.c = Truncate(c)])
    BY DEF RowStep, TypeOK, Entry
  <2> QED BY <1>0, <1>4, <2>1 DEF SetParamValue, store
<1>5. CASE SetParamAlias
  <2> PICK e \in entries, a \in UserAliases :
        entries' = (entries \ {e}) \cup {[e EXCEPT !.alias = a]}
    BY <1>5 DEF SetParamAlias
  <2>1. RowStep(e, [e EXCEPT !.alias = a])
    BY DEF RowStep, TypeOK, Entry
  <2> QED BY <1>0, <1>5, <2>1 DEF SetParamAlias, store
<1>6. CASE Validate
  BY <1>0, <1>6, ValidateRow DEF Validate, store
<1>7. CASE Commit
  <2> PICK e \in entries : \/ CommitNewOk(e) \/ CommitNewFail(e)
                           \/ CommitOldOk(e) \/ CommitOldFail(e) \/ CommitOldLost(e)
    BY <1>7 DEF Commit
  <2>1. CASE CommitNewOk(e)
    BY <2>1, RegSetIds DEF CommitNewOk, RegistryFull
  <2>2. CASE ~CommitNewOk(e)
    <3>1. registry' = registry
      BY <2>2 DEF CommitNewFail, CommitOldOk, CommitOldFail, CommitOldLost
    <3>2. PICK f : RowStep(e, f)
      BY CommitRow
    <3> QED BY <1>0, <3>1, <3>2
  <2> QED BY <2>1, <2>2
<1>8. CASE Rollback
  BY <1>0, <1>8, RollbackRow DEF Rollback, store
<1>9. CASE Restart \/ CrashInCommit
  <2>1. Initialize /\ registry' = registry
    BY <1>9 DEF Restart, CrashInCommit, store
  <2>2. IdsOf(New(entries')) \subseteq IdsOf(registry)
    BY <2>1 DEF Initialize, RegGetNatInfo, New, IdsOf
  <2> QED BY <2>1, <2>2 DEF RegistryFull
<1>10. CASE UNCHANGED <<entries, registry>>
  BY <1>10 DEF RegistryFull
<1> QED BY <1>1, <1>2, <1>3, <1>4, <1>5, <1>6, <1>7, <1>8, <1>9, <1>10
        DEF Next, IntervalElapses, BeginCommit, NatSet, vars, system, table, store

\* The same, as the property states it.
LEMMA PendingStep == TypeOK /\ PendingDurable /\ [Next]_vars => PendingDurable'
BY RegistryFullStep, FaultsStay DEF PendingDurable

\* A row a client created survives every restart, crash and failed read, while
\* saves of the registry succeed.
THEOREM PendingRowsDurable == Spec => []PendingDurable
<1>1. Init => PendingDurable
  BY DEF Init, PendingDurable, RegistryFull, New, IdsOf
<1> QED BY <1>1, TypeCorrect, PendingStep, PTL DEF Spec

----------------------------------------------------------------------------
(* Enabled rules of one kind do not overlap.  The switches disable rules    *)
(* without checking anything when they enable them again, so the invariant  *)
(* has to be about the state a rule was STORED with.                        *)

\* A rule is enabled when it was stored enabled and its kind is switched on.
SwitchesApplied ==
    \A r \in rules : r.c.bEnabled <=> (enabled[r.c.kind] /\ r.prev)

\* Rules of one kind that were stored enabled are apart, whatever the switches.
StoredApart ==
    \A r, s \in rules :
        /\ r.id # s.id
        /\ r.prev /\ s.prev
        /\ r.c.kind = s.c.kind /\ r.c.kind # "nat"
        => ~Intersect(r.c, s.c)

\* The inductive invariant for Disjoint.
ApartInv == SwitchesApplied /\ StoredApart

\* It says at least what Disjoint says.
LEMMA ApartImplies == ApartInv => Disjoint
BY DEF ApartInv, SwitchesApplied, StoredApart, Disjoint

\* When no Utopia call fails, the check of the range is made.
LEMMA InitSucceeds ==
    ASSUME ReadsSucceed, NEW e, Storable(e)
    PROVE  Check_PF_parameter(e.id, e.c, TRUE)
<1>1. Inits = {TRUE}
  BY DEF Inits, ReadsSucceed
<1> QED BY <1>1 DEF Storable

\* Storing a row that passed the checks of Commit, and dropping any rules.
LEMMA StoreKeepsApart ==
    ASSUME ReadsSucceed, TypeOK, ApartInv, NEW e \in entries, Storable(e), enabled' = enabled,
           rules' \subseteq rules \cup {MkRule(e.id, e.c)}
    PROVE  ApartInv'
<1> DEFINE n == MkRule(e.id, e.c)
<1>0. e.c \in Cfg
  BY DEF TypeOK, Entry
<1>1. n.id = e.id /\ n.c = StoredForm(e.c) /\ n.prev = e.c.bEnabled
  BY DEF MkRule
<1>a. n.c.bEnabled = e.c.bEnabled /\ n.c.kind = e.c.kind
  BY <1>0, <1>1, StoredFormParts
<1>2. e.c.bEnabled \in BOOLEAN /\ enabled[e.c.kind]
  BY <1>0 DEF Cfg, CfgOver, Storable, NatChkEnableFlg
<1>3. n.c.bEnabled <=> (enabled[n.c.kind] /\ n.prev)
  BY <1>1, <1>2, <1>a
<1>4. ASSUME NEW r \in rules, r.id # n.id, r.prev, n.prev, r.c.kind = n.c.kind,
             r.c.kind # "nat"
      PROVE  ~Intersect(n.c, r.c) /\ ~Intersect(r.c, n.c)
  <2>1. r.c.bEnabled
    BY <1>2, <1>4, <1>a DEF ApartInv, SwitchesApplied
  <2>2. Check_PF_parameter(e.id, e.c, TRUE)
    BY InitSucceeds
  <2>3. CheckPortRange(e.id, e.c) /\ e.c.Protocol \in Protocols
    BY <1>1, <1>4, <1>a, <2>2 DEF Check_PF_parameter, NatChkPortRange
  <2>4. ~Intersect(e.c, r.c)
    BY <1>1, <1>4, <2>1, <2>3 DEF CheckPortRange
  <2>5. /\ n.c.ExternalPort = e.c.ExternalPort
        /\ n.c.ExternalPortEndRange = e.c.ExternalPortEndRange
        /\ n.c.Protocol = e.c.Protocol
    BY <1>0, <1>1, <2>3, StoredFormParts
  <2> QED BY <2>4, <2>5 DEF Intersect
<1> HIDE DEF n
<1>5. rules' \subseteq rules \cup {n}
  BY DEF n
<1>6. SwitchesApplied'
  BY <1>3, <1>5 DEF ApartInv, SwitchesApplied
<1>7. StoredApart'
  BY <1>4, <1>5 DEF ApartInv, StoredApart
<1> QED BY <1>6, <1>7 DEF ApartInv

\* When no Utopia call fails, a switch reaches every rule.
LEMMA SwitchWithoutFault ==
    ASSUME ReadsSucceed, NatSet
    PROVE  \E f \in [Kinds -> BOOLEAN] :
              enabled' = f /\ rules' = {UpdateRuleEnable(r, f) : r \in rules}
<1>1. Reads = {rules} /\ \A f : SwitchesSet(f) = {f}
  BY DEF ReadsSucceed, Reads, SwitchesSet
<1> PICK f \in [Kinds -> BOOLEAN], seen \in Reads :
      /\ enabled' \in SwitchesSet(f)
      /\ rules' = (rules \ seen) \cup {UpdateRuleEnable(r, f) : r \in seen}
  BY DEF NatSet
<1>2. enabled' = f /\ seen = rules
  BY <1>1
<1>3. rules' = {UpdateRuleEnable(r, f) : r \in rules}
  BY <1>2
<1> QED BY <1>2, <1>3

\* The switches change nothing but the enabled state of the rules.
LEMMA SwitchKeepsApart ==
    ASSUME ReadsSucceed, TypeOK, ApartInv, NatSet
    PROVE  ApartInv'
<1> PICK f \in [Kinds -> BOOLEAN] :
      enabled' = f /\ rules' = {UpdateRuleEnable(r, f) : r \in rules}
  BY SwitchWithoutFault
<1>1. ASSUME NEW r \in rules
      PROVE  LET u == UpdateRuleEnable(r, f)
             IN  /\ u.id = r.id /\ u.prev = r.prev /\ u.c.kind = r.c.kind
                 /\ u.c.ExternalPort = r.c.ExternalPort
                 /\ u.c.ExternalPortEndRange = r.c.ExternalPortEndRange
                 /\ u.c.Protocol = r.c.Protocol
                 /\ u.c.bEnabled <=> (f[u.c.kind] /\ u.prev)
  <2> DEFINE u == UpdateRuleEnable(r, f)
  <2>1. /\ r \in Rule /\ r.c \in Cfg /\ r.prev \in BOOLEAN
        /\ r.c.kind \in Kinds /\ r.c.bEnabled \in BOOLEAN
    BY DEF TypeOK, Rule, Cfg, CfgOver
  <2>2. CASE f[r.c.kind] = enabled[r.c.kind]
    <3>1. u = r
      BY <2>2 DEF UpdateRuleEnable
    <3>2. r.c.bEnabled <=> (f[r.c.kind] /\ r.prev)
      BY <2>2 DEF ApartInv, SwitchesApplied
    <3> HIDE DEF u
    <3> QED BY <3>1, <3>2 DEF u
  <2>3. CASE f[r.c.kind] # enabled[r.c.kind]
    <3> DEFINE d == [r.c EXCEPT !.bEnabled = f[r.c.kind] /\ r.prev]
    <3>1. u = [r EXCEPT !.c = d]
      BY <2>3 DEF UpdateRuleEnable
    <3>2. /\ d.kind = r.c.kind /\ d.ExternalPort = r.c.ExternalPort
          /\ d.ExternalPortEndRange = r.c.ExternalPortEndRange
          /\ d.Protocol = r.c.Protocol
          /\ d.bEnabled = (f[r.c.kind] /\ r.prev)
      BY <2>1 DEF Cfg, CfgOver
    <3> HIDE DEF d
    <3>3. u.id = r.id /\ u.prev = r.prev /\ u.c = d
      BY <2>1, <3>1 DEF Rule
    <3> HIDE DEF u
    <3> QED BY <3>2, <3>3 DEF u
  <2> QED BY <2>2, <2>3
<1>2. SwitchesApplied'
  BY <1>1 DEF SwitchesApplied
<1>3. StoredApart'
  BY <1>1 DEF ApartInv, StoredApart, Intersect
<1> QED BY <1>2, <1>3 DEF ApartInv

\* Every step keeps the stored rules of one kind apart, unless a switch may
\* miss a table.
LEMMA ApartStep ==
    ASSUME ReadsSucceed, TypeOK, ApartInv, [Next]_vars
    PROVE  ApartInv'
<1>0. ASSUME rules' \subseteq rules, enabled' = enabled PROVE ApartInv'
  BY <1>0 DEF ApartInv, SwitchesApplied, StoredApart
<1>1. CASE DelEntry
  BY <1>0, <1>1 DEF DelEntry, DelNewEntry, DelNewFail, DelOldEntry, DelPortMapping
<1>2. CASE Commit
  <2> PICK e \in entries : \/ CommitNewOk(e) \/ CommitNewFail(e)
                           \/ CommitOldOk(e) \/ CommitOldFail(e) \/ CommitOldLost(e)
    BY <1>2 DEF Commit
  <2>1. enabled' = enabled
    BY <1>2 DEF Commit
  <2>2. CASE CommitNewOk(e) \/ CommitOldOk(e)
    <3>1. Storable(e) /\ rules' \subseteq rules \cup {MkRule(e.id, e.c)}
      BY <2>2 DEF CommitNewOk, CommitOldOk, WithoutRule
    <3> QED BY <2>1, <3>1, StoreKeepsApart
  <2>3. CASE CommitNewFail(e) \/ CommitOldFail(e) \/ CommitOldLost(e)
    BY <1>0, <2>1, <2>3 DEF CommitNewFail, CommitOldFail, CommitOldLost, WithoutRule
  <2> QED BY <2>2, <2>3
<1>3. CASE CrashInCommit
  <2> PICK e \in entries : Storable(e) /\ rules' = rules \cup {MkRule(e.id, e.c)}
    BY <1>3 DEF CrashInCommit
  <2>1. enabled' = enabled
    BY <1>3 DEF CrashInCommit
  <2> QED BY <2>1, StoreKeepsApart
<1>4. CASE NatSet
  BY <1>4, SwitchKeepsApart
<1>5. CASE UNCHANGED <<rules, enabled>>
  BY <1>0, <1>5
<1> QED BY <1>1, <1>2, <1>3, <1>4, <1>5
        DEF Next, IntervalElapses, Synchronize, AddEntry, SetParamValue, SetParamAlias,
            BeginCommit, Validate, Rollback, Restart, vars, system, table, store

\* No two enabled rules of one kind claim a port, crashes in Commit included,
\* when a switch reaches every rule.
THEOREM EnabledRulesApart == Spec => []NoOverlap
<1> DEFINE Inv == ReadsSucceed => ApartInv
<1>1. Init => Inv
  BY DEF Init, ApartInv, SwitchesApplied, StoredApart
<1>2. TypeOK /\ Inv /\ [Next]_vars => Inv'
  BY ApartStep, FaultsStay DEF ReadsSucceed
<1>3. TypeOK /\ Inv => NoOverlap
  BY ApartImplies DEF NoOverlap
<1> QED BY <1>1, <1>2, <1>3, TypeCorrect, PTL DEF Spec

----------------------------------------------------------------------------
(* An instance number names one rule, when reads of the store succeed.      *)

\* The list and the registry hold a number once.
UniqueRows  == \A e, f \in entries : e.id = f.id => e = f
UniqueSaved == \A a, b \in registry : a.id = b.id => a = b

\* Every stored rule has a row, and that row is not delay-added.
InStep == \A r \in rules : \E e \in entries : e.id = r.id /\ ~e.bNew

\* The engine only validates, commits or rolls back rows a client has touched.
SessionOpen == phase # "set" => touched # {}

\* The inductive invariant for OneRule.  The list is in step from
\* the first visit to the table on, and may only be out of step after a start
\* of the process, when no row can be added or staged before Synchronize.
NumberInv ==
    /\ OneRule
    /\ UniqueRows
    /\ UniqueSaved
    /\ SessionOpen
    /\ (~due \/ touched # {}) => InStep

\* A step on one row keeps numbers unique, and stored rules keep their rows.
LEMMA RowStepNumbers ==
    ASSUME NEW e \in entries, NEW f, RowStep(e, f), UniqueRows
    PROVE  /\ UniqueRows'
           /\ InStep /\ rules' \subseteq rules => InStep'
<1>1. UniqueRows'
  BY DEF RowStep, UniqueRows
<1>2. InStep /\ rules' \subseteq rules => InStep'
  BY DEF RowStep, InStep
<1> QED BY <1>1, <1>2

\* Saving rows with unique numbers, successfully or not, gives a registry with
\* unique numbers.
LEMMA RegSetUnique ==
    ASSUME UniqueSaved, NEW es, \A e, f \in es : e.id = f.id => e = f, RegSetNatInfo(es)
    PROVE  UniqueSaved'
<1> DEFINE Row(e) == [id |-> e.id, alias |-> e.alias]
<1>1. registry' = registry \/ registry' \subseteq {Row(e) : e \in New(es)}
  BY DEF RegSetNatInfo, RegSetFails, RegSaved
<1>2. \A e : Row(e).id = e.id
  OBVIOUS
<1> HIDE DEF Row
<1> QED BY <1>1, <1>2 DEF UniqueSaved, New

\* The rows a started process loads have unique numbers.
LEMMA InitializeUnique ==
    ASSUME UniqueSaved, Initialize
    PROVE  UniqueRows' /\ SessionOpen' /\ ~(~due' \/ touched' # {})
<1> DEFINE Row(r) == [id |-> r.id, alias |-> r.alias, c |-> ZeroCfg, bNew |-> TRUE]
<1>1. entries' = {Row(r) : r \in registry}
  BY DEF Initialize, RegGetNatInfo
<1>2. \A r : Row(r).id = r.id
  OBVIOUS
<1> HIDE DEF Row
<1>3. UniqueRows'
  BY <1>1, <1>2 DEF UniqueSaved, UniqueRows
<1> QED BY <1>3 DEF Initialize, SessionOpen

\* Synchronize puts the list in step with a store that was read completely.
LEMMA SyncInStep ==
    ASSUME TypeOK, OneRule, UniqueRows, entries' = Synced(rules), rules' = rules
    PROVE  UniqueRows' /\ InStep'
<1> DEFINE A == {FromRule(Stored(rules, i)) : i \in IdsOf(entries) \cap IdsOf(rules)}
           B == {e \in New(entries) : e.id \notin IdsOf(rules)}
           C == {FromRule(r) : r \in {x \in rules : x.id \notin IdsOf(entries)}}
<1>0. \A r \in rules : FromRule(r).id = r.id /\ ~FromRule(r).bNew
  BY RuleTypes DEF TypeOK
<1>1. \A i \in IdsOf(rules) : Stored(rules, i) \in rules /\ Stored(rules, i).id = i
  BY StoredIn
<1>2. entries' = A \cup B \cup C
  BY DEF Synced
<1>3. \A e \in A : /\ e.id \in IdsOf(entries) \cap IdsOf(rules)
                   /\ ~e.bNew
                   /\ e = FromRule(Stored(rules, e.id))
  BY <1>0, <1>1
<1>4. \A e \in B : e \in entries /\ e.id \in IdsOf(entries) /\ e.id \notin IdsOf(rules)
  BY DEF New, IdsOf
<1>5. \A e \in C : \E r \in rules : /\ r.id \notin IdsOf(entries)
                                   /\ e = FromRule(r) /\ e.id = r.id
  BY <1>0
<1>6. \A r \in rules : r.id \in IdsOf(rules)
  BY DEF IdsOf
<1>7. \A r \in rules : \E e \in A \cup C : e.id = r.id /\ ~e.bNew
  <2> SUFFICES ASSUME NEW r \in rules PROVE \E e \in A \cup C : e.id = r.id /\ ~e.bNew
    OBVIOUS
  <2>1. CASE r.id \in IdsOf(entries)
    <3>1. FromRule(Stored(rules, r.id)) \in A
      BY <1>6, <2>1
    <3>2. FromRule(Stored(rules, r.id)).id = r.id /\ ~FromRule(Stored(rules, r.id)).bNew
      BY <1>0, <1>1, <1>6
    <3> QED BY <3>1, <3>2
  <2>2. CASE r.id \notin IdsOf(entries)
    <3>1. FromRule(r) \in C
      BY <2>2
    <3> QED BY <1>0, <3>1
  <2> QED BY <2>1, <2>2
<1> HIDE DEF A, B, C
<1>8. InStep'
  BY <1>2, <1>7 DEF InStep
<1>9. UniqueRows'
  <2> SUFFICES ASSUME NEW e \in entries', NEW f \in entries', e.id = f.id PROVE e = f
    BY DEF UniqueRows
  <2>1. CASE e \in A
    BY <1>2, <1>3, <1>4, <1>5, <2>1
  <2>2. CASE e \in B
    BY <1>2, <1>3, <1>4, <1>5, <1>6, <2>2 DEF UniqueRows
  <2>3. CASE e \in C
    BY <1>2, <1>3, <1>4, <1>5, <1>6, <2>3 DEF OneRule
  <2> QED BY <1>2, <2>1, <2>2, <2>3
<1> QED BY <1>8, <1>9

\* While an engine phase goes on, and when it ends or fails, a session that
\* is not over has touched rows.
LEMMA DoneOpen ==
    ASSUME touched # {}, NEW i, NEW nxt, Done(i, nxt) PROVE SessionOpen'
BY DEF Done, SessionOpen

\* The same when the engine turns to rolling back.
LEMMA FailOpen ==
    ASSUME touched # {}, NEW rest, Fail(rest) PROVE SessionOpen'
BY DEF Fail, SessionOpen

\* The rule of a delay-added row is the first of its number.
LEMMA StoreNewRule ==
    ASSUME NumberInv, touched # {}, NEW e \in entries, e.bNew,
           rules' = rules \cup {MkRule(e.id, e.c)}
    PROVE  OneRule'
<1>1. \A r \in rules : r.id # e.id
  BY DEF NumberInv, InStep, UniqueRows
<1>2. MkRule(e.id, e.c).id = e.id
  BY DEF MkRule
<1> QED BY <1>1, <1>2 DEF NumberInv, OneRule

\* Committing a row keeps numbers unique and the list in step.
LEMMA CommitNumbers ==
    ASSUME TypeOK, NumberInv, Commit
    PROVE  NumberInv'
<1>1. touched # {} /\ InStep /\ UniqueRows /\ OneRule
  BY DEF Commit, NumberInv, SessionOpen
<1> PICK e \in entries : \/ CommitNewOk(e) \/ CommitNewFail(e)
                         \/ CommitOldOk(e) \/ CommitOldFail(e) \/ CommitOldLost(e)
  BY DEF Commit
<1>2. PICK f : RowStep(e, f)
  BY CommitRow
<1>3. UniqueRows'
  BY <1>1, <1>2, RowStepNumbers
<1>4. SessionOpen'
  BY <1>1, DoneOpen, FailOpen
  DEF CommitNewOk, CommitNewFail, CommitOldOk, CommitOldFail, CommitOldLost, CommitFailed
<1>5. UniqueSaved'
  <2>1. CASE CommitNewOk(e)
    <3>1. \A x, y \in entries' : x.id = y.id => x = y
      BY <1>3 DEF UniqueRows
    <3> QED BY <2>1, <3>1, RegSetUnique DEF CommitNewOk, NumberInv
  <2>2. CASE ~CommitNewOk(e)
    BY <2>2 DEF CommitNewFail, CommitOldOk, CommitOldFail, CommitOldLost, NumberInv, UniqueSaved
  <2> QED BY <2>1, <2>2
<1>6. MkRule(e.id, e.c).id = e.id
  BY DEF MkRule
<1>7. CASE CommitNewOk(e)
  <2>1. OneRule'
    BY <1>1, <1>7, StoreNewRule DEF CommitNewOk
  <2>2. e.id = [e EXCEPT !.bNew = FALSE].id /\ ~[e EXCEPT !.bNew = FALSE].bNew
    BY DEF TypeOK, Entry
  <2>3. InStep'
    BY <1>1, <1>6, <1>7, <2>2 DEF CommitNewOk, InStep
  <2> QED BY <1>3, <1>4, <1>5, <2>1, <2>3 DEF NumberInv
<1>8. CASE CommitOldOk(e)
  <2>1. \A r \in WithoutRule(e.id) : r \in rules /\ r.id # e.id
    BY DEF WithoutRule, InTable, TypeOK, Rule
  <2>2. OneRule'
    BY <1>1, <1>6, <1>8, <2>1 DEF CommitOldOk, OneRule
  <2>3. InStep'
    BY <1>1, <1>6, <1>8, <2>1 DEF CommitOldOk, InStep
  <2> QED BY <1>3, <1>4, <1>5, <2>2, <2>3 DEF NumberInv
<1>9. CASE CommitNewFail(e) \/ CommitOldFail(e) \/ CommitOldLost(e)
  <2>1. rules' \subseteq rules
    BY <1>9 DEF CommitNewFail, CommitOldFail, CommitOldLost, WithoutRule
  <2>2. OneRule'
    BY <1>1, <2>1 DEF OneRule
  <2>3. InStep'
    BY <1>1, <1>2, <2>1, RowStepNumbers
  <2> QED BY <1>3, <1>4, <1>5, <2>2, <2>3 DEF NumberInv
<1> QED BY <1>7, <1>8, <1>9

\* Every step keeps the invariant, unless a read of the store may fail.
LEMMA NumberStep ==
    ASSUME ReadsSucceed, TypeOK, NumberInv, [Next]_vars
    PROVE  NumberInv'
<1>a. OneRule /\ UniqueRows /\ UniqueSaved /\ SessionOpen
  BY DEF NumberInv
\* A step on one row that leaves the stores alone, while the list is in step.
<1>0. ASSUME NEW e \in entries, NEW f, RowStep(e, f), InStep, SessionOpen',
             UNCHANGED <<rules, registry>>
      PROVE  NumberInv'
  <2>1. UniqueRows' /\ InStep'
    BY <1>0, <1>a, RowStepNumbers
  <2> QED BY <1>0, <1>a, <2>1 DEF NumberInv, OneRule, UniqueSaved
<1>1. CASE IntervalElapses
  BY <1>1, <1>a DEF IntervalElapses, table, store, session, NumberInv, OneRule,
     UniqueRows, UniqueSaved, SessionOpen, InStep
<1>2. CASE Synchronize
  <2>1. entries' = Synced(rules) /\ rules' = rules /\ registry' = registry /\ phase' = "set"
    BY <1>2 DEF Synchronize, Reads, ReadsSucceed, store
  <2>2. UniqueRows' /\ InStep'
    BY <1>a, <2>1, SyncInStep
  <2> QED BY <1>a, <2>1, <2>2 DEF NumberInv, OneRule, UniqueSaved, SessionOpen
<1>3. CASE AddEntry
  <2> DEFINE row(n) == [id |-> n, alias |-> n, c |-> ZeroCfg, bNew |-> TRUE]
  <2>1. PICK n \in Ins : n \notin IdsOf(entries) /\ entries' = entries \cup {row(n)}
    BY <1>3 DEF AddEntry, NatGen
  <2>2. row(n).id = n
    OBVIOUS
  <2> HIDE DEF row
  <2>3. InStep
    BY <1>3 DEF AddEntry, Writable, NumberInv
  <2>4. UniqueRows' /\ \A x, y \in entries' : x.id = y.id => x = y
    BY <1>a, <2>1, <2>2 DEF UniqueRows, IdsOf
  <2>5. UniqueSaved'
    BY <1>3, <1>a, <2>4, RegSetUnique DEF AddEntry
  <2>6. rules' = rules /\ InStep'
    BY <1>3, <2>1, <2>3 DEF AddEntry, InStep
  <2> QED BY <1>3, <1>a, <2>4, <2>5, <2>6
          DEF AddEntry, session, NumberInv, OneRule, SessionOpen
<1>4. CASE DelEntry
  <2> PICK e \in entries : DelNewEntry(e) \/ DelNewFail(e) \/ DelOldEntry(e)
    BY <1>4 DEF DelEntry
  <2>1. InStep /\ phase' = "set"
    BY <1>4 DEF DelEntry, Writable, NumberInv
  <2>0. \A x, y \in entries \ {e} : x.id = y.id => x = y
    BY <1>a DEF UniqueRows
  <2>5. CASE DelNewFail(e)
    <3> DEFINE f == [e EXCEPT !.bNew = FALSE]
    <3>1. f.id = e.id /\ ~f.bNew
      BY DEF TypeOK, Entry
    <3>2. entries' = (entries \ {e}) \cup {f} /\ rules' = rules
      BY <2>5 DEF DelNewFail
    <3> HIDE DEF f
    <3>3. RowStep(e, f)
      BY <3>1, <3>2 DEF RowStep
    <3>4. UniqueRows' /\ InStep'
      BY <1>a, <2>1, <3>2, <3>3, RowStepNumbers
    <3>5. UniqueSaved'
      BY <1>a, <2>0, <2>5, RegSetUnique DEF DelNewFail, RegSetNatInfo
    <3> QED BY <1>a, <2>1, <3>2, <3>4, <3>5 DEF NumberInv, OneRule, SessionOpen
  <2>3. CASE DelNewEntry(e)
    <3>1. UniqueSaved'
      BY <1>a, <2>0, <2>3, RegSetUnique DEF DelNewEntry
    <3>2. UniqueRows' /\ entries' = entries \ {e} /\ rules' = rules
      BY <2>0, <2>3 DEF DelNewEntry, UniqueRows
    <3>3. InStep'
      BY <2>1, <2>3, <3>2 DEF DelNewEntry, InStep
    <3> QED BY <1>a, <2>1, <3>1, <3>2, <3>3 DEF NumberInv, OneRule, SessionOpen
  <2>4. CASE DelOldEntry(e)
    <3>1. \A r \in rules' : r \in rules /\ r.id # e.id
      BY <1>a, <2>4 DEF DelOldEntry, DelPortMapping, InTable, OneRule, TypeOK, Rule
    <3>2. UniqueRows' /\ entries' = entries \ {e}
      BY <2>0, <2>4 DEF DelOldEntry, UniqueRows
    <3>3. InStep'
      BY <2>1, <3>1, <3>2 DEF InStep
    <3>4. OneRule' /\ UniqueSaved'
      BY <1>a, <2>4, <3>1 DEF DelOldEntry, OneRule, UniqueSaved
    <3> QED BY <2>1, <3>2, <3>3, <3>4 DEF NumberInv, SessionOpen
  <2> QED BY <2>3, <2>4, <2>5
<1>5. CASE SetParamValue
  <2> PICK e \in entries, c \in UserCfgs :
        entries' = (entries \ {e}) \cup {[e EXCEPT !.c = Truncate(c)]}
    BY <1>5 DEF SetParamValue
  <2>1. RowStep(e, [e EXCEPT !.c = Truncate(c)])
    BY DEF RowStep, TypeOK, Entry
  <2>2. InStep /\ SessionOpen' /\ UNCHANGED <<rules, registry>>
    BY <1>5 DEF SetParamValue, Writable, NumberInv, SessionOpen, store
  <2> QED BY <1>0, <2>1, <2>2
<1>6. CASE SetParamAlias
  <2> PICK e \in entries, a \in UserAliases :
        entries' = (entries \ {e}) \cup {[e EXCEPT !.alias = a]}
    BY <1>6 DEF SetParamAlias
  <2>1. RowStep(e, [e EXCEPT !.alias = a])
    BY DEF RowStep, TypeOK, Entry
  <2>2. InStep /\ SessionOpen' /\ UNCHANGED <<rules, registry>>
    BY <1>6 DEF SetParamAlias, Writable, NumberInv, SessionOpen, store
  <2> QED BY <1>0, <2>1, <2>2
<1>7. CASE BeginCommit
  BY <1>7, <1>a DEF BeginCommit, table, store, NumberInv, OneRule, UniqueRows,
     UniqueSaved, SessionOpen, InStep
<1>8. CASE Validate
  <2> PICK e \in entries, init \in Inits :
        ValidateOk(e, init) \/ ValidateBadParams(e, init) \/ ValidateBadAlias(e, init)
    BY <1>8 DEF Validate
  <2>1. touched # {} /\ InStep
    BY <1>8, <1>a DEF Validate, NumberInv, SessionOpen
  <2>2. SessionOpen'
    BY <2>1, DoneOpen, FailOpen DEF ValidateOk, ValidateBadParams, ValidateBadAlias
  <2>3. PICK f : RowStep(e, f)
    BY ValidateRow
  <2> QED BY <1>0, <1>8, <2>1, <2>2, <2>3 DEF Validate, store
<1>9. CASE Commit
  BY <1>9, CommitNumbers
<1>10. CASE Rollback
  <2> PICK e \in entries : /\ entries' = (entries \ {e}) \cup {RolledBack(e)}
                           /\ Done(e.id, "set")
    BY <1>10 DEF Rollback
  <2>1. touched # {} /\ InStep
    BY <1>10, <1>a DEF Rollback, NumberInv, SessionOpen
  <2>2. SessionOpen' /\ RowStep(e, RolledBack(e))
    BY <2>1, DoneOpen, RollbackRow
  <2> QED BY <1>0, <1>10, <2>1, <2>2 DEF Rollback, store
<1>11. CASE NatSet
  <2> PICK f \in [Kinds -> BOOLEAN] : rules' = {UpdateRuleEnable(r, f) : r \in rules}
    BY <1>11, SwitchWithoutFault
  <2>1. \A r \in rules : UpdateRuleEnable(r, f).id = r.id
    BY DEF UpdateRuleEnable, TypeOK, Rule
  <2>2. OneRule'
    BY <1>a, <2>1 DEF OneRule
  <2>3. InStep => InStep'
    BY <1>11, <2>1 DEF NatSet, table, InStep
  <2> QED BY <1>11, <1>a, <2>2, <2>3
          DEF NatSet, table, session, NumberInv, UniqueRows, UniqueSaved, SessionOpen
<1>13. CASE Restart
  BY <1>13, <1>a, InitializeUnique
  DEF Restart, store, NumberInv, OneRule, UniqueSaved
<1>14. CASE CrashInCommit
  <2> PICK e \in entries : e.bNew /\ rules' = rules \cup {MkRule(e.id, e.c)}
    BY <1>14 DEF CrashInCommit
  <2>1. touched # {}
    BY <1>14, <1>a DEF CrashInCommit, SessionOpen
  <2>2. OneRule'
    BY <2>1, StoreNewRule
  <2>3. Initialize /\ registry' = registry
    BY <1>14 DEF CrashInCommit
  <2> QED BY <1>a, <2>2, <2>3, InitializeUnique DEF NumberInv, UniqueSaved
<1>15. CASE UNCHANGED vars
  BY <1>15 DEF vars, system, table, store, session, NumberInv, OneRule, UniqueRows,
     UniqueSaved, SessionOpen, InStep
<1> QED BY <1>1, <1>2, <1>3, <1>4, <1>5, <1>6, <1>7, <1>8, <1>9, <1>10, <1>11,
           <1>13, <1>14, <1>15 DEF Next

\* An instance number names one rule across commits, moves between the two
\* tables, restarts and crashes inside a Commit.
THEOREM InstanceNamesOneRule == Spec => []OneRulePerInstance
<1> DEFINE Inv == ReadsSucceed => NumberInv
<1>1. Init => Inv
  BY DEF Init, Idle, NumberInv, OneRule, UniqueRows, UniqueSaved, SessionOpen, InStep
<1>2. TypeOK /\ Inv /\ [Next]_vars => Inv'
  BY NumberStep, FaultsStay DEF ReadsSucceed
<1>3. Inv => OneRulePerInstance
  BY DEF NumberInv, OneRulePerInstance
<1> QED BY <1>1, <1>2, <1>3, TypeCorrect, PTL DEF Spec

----------------------------------------------------------------------------
(* The registry is exact.                                                   *)

\* No row of the registry has a stored rule.
SavedUnstored == \A a \in registry, r \in rules : a.id # r.id

\* What the registry says, given what the list says (NumberInv).
RegistryInv == RegistryExact /\ SavedUnstored

\* While the list is in step with the store, no delay-added row has a rule.
LEMMA NewUnstored ==
    ASSUME InStep, UniqueRows, NEW i \in IdsOf(New(entries))
    PROVE  \A r \in rules : r.id # i
BY DEF InStep, UniqueRows, IdsOf, New

\* A row that is replaced by one of the same number and the same mark leaves
\* the delay-added numbers alone.
LEMMA MarkKept ==
    ASSUME NEW e \in entries, NEW f, entries' = (entries \ {e}) \cup {f},
           f.id = e.id, f.bNew = e.bNew
    PROVE  IdsOf(New(entries')) = IdsOf(New(entries))
BY DEF IdsOf, New

\* A step on one row that saves nothing and stores nothing.
LEMMA RowKeepsRegistry ==
    ASSUME RegistryInv, NEW e \in entries, NEW f, entries' = (entries \ {e}) \cup {f},
           f.id = e.id, f.bNew = e.bNew, registry' = registry, rules' \subseteq rules
    PROVE  RegistryInv'
BY MarkKept DEF RegistryInv, RegistryExact, SavedUnstored

\* A handler that puts the defaults, or the stored value, back keeps the mark.
LEMMA ValidateKeepsMark ==
    ASSUME TypeOK, NEW e \in entries, NEW init \in Inits,
           ValidateOk(e, init) \/ ValidateBadParams(e, init) \/ ValidateBadAlias(e, init)
    PROVE  \E f : /\ entries' = (entries \ {e}) \cup {f}
                  /\ f.id = e.id /\ f.bNew = e.bNew
<1>1. e \in Entry /\ rules \subseteq Rule
  BY DEF TypeOK
<1>2. CASE ValidateBadParams(e, init)
  <2>1. PICK f \in IF e.bNew THEN {[e EXCEPT !.c = SetDefaultValue(e.c)]} ELSE Reread(e) :
           entries' = (entries \ {e}) \cup {f}
    BY <1>2 DEF ValidateBadParams
  <2>2. CASE e.bNew
    BY <1>1, <2>1, <2>2 DEF Entry
  <2>3. CASE ~e.bNew
    BY <1>1, <2>1, <2>3, RereadRow
  <2> QED BY <2>2, <2>3
<1>3. CASE UNCHANGED entries
  <2>1. entries' = (entries \ {e}) \cup {e}
    BY <1>3
  <2> QED BY <2>1
<1> QED BY <1>2, <1>3 DEF ValidateOk, ValidateBadAlias

\* A rollback of a row keeps its mark.
LEMMA RolledBackMark ==
    ASSUME TypeOK, NEW e \in entries
    PROVE  RolledBack(e).id = e.id /\ RolledBack(e).bNew = e.bNew
<1> DEFINE f == IF savedAlias # Empty THEN [e EXCEPT !.alias = savedAlias] ELSE e
<1>1. f \in Entry /\ f.id = e.id /\ f.bNew = e.bNew
  BY DEF TypeOK, Entry
<1>2. RolledBack(e) = IF f.bNew THEN [f EXCEPT !.c = SetDefaultValue(f.c)] ELSE f
  BY DEF RolledBack
<1> HIDE DEF f
<1> QED BY <1>1, <1>2 DEF Entry

\* Commit keeps the registry exact.
LEMMA CommitRegistry ==
    ASSUME "registry" \notin faults, TypeOK, NumberInv, RegistryInv, NEW e \in entries, InStep,
           \/ CommitNewOk(e) \/ CommitNewFail(e)
           \/ CommitOldOk(e) \/ CommitOldFail(e) \/ CommitOldLost(e)
    PROVE  RegistryInv'
<1>1. UniqueRows /\ e \in Entry /\ rules \subseteq Rule
  BY DEF NumberInv, TypeOK
<1>2. \A c : MkRule(e.id, c).id = e.id
  BY DEF MkRule
<1>3. CASE CommitNewOk(e)
  <2> DEFINE f == [e EXCEPT !.bNew = FALSE]
  <2>1. ~f.bNew /\ entries' = (entries \ {e}) \cup {f}
    BY <1>1, <1>3 DEF CommitNewOk, Entry
  <2> HIDE DEF f
  <2>2. IdsOf(registry') = IdsOf(New(entries'))
    BY <1>3, RegSetIds DEF CommitNewOk
  <2>3. \A i \in IdsOf(New(entries')) : i \in IdsOf(New(entries)) /\ i # e.id
    BY <1>1, <2>1 DEF IdsOf, New, UniqueRows
  <2>4. \A r \in rules' : r \in rules \/ r.id = e.id
    BY <1>2, <1>3 DEF CommitNewOk
  <2>5. SavedUnstored'
    <3> SUFFICES ASSUME NEW a \in registry', NEW r \in rules' PROVE a.id # r.id
      BY DEF SavedUnstored
    <3>1. a.id \in IdsOf(New(entries'))
      BY <2>2 DEF IdsOf
    <3> QED BY <1>1, <2>3, <2>4, <3>1, NewUnstored
  <2> QED BY <2>2, <2>5 DEF RegistryInv, RegistryExact
<1>4. CASE CommitNewFail(e)
  <2> DEFINE a == IF savedAlias # Empty THEN savedAlias ELSE e.alias
             f == [e EXCEPT !.c = SetDefaultValue(e.c), !.alias = a]
  <2>1. f.id = e.id /\ f.bNew = e.bNew
    BY <1>1 DEF Entry
  <2>2. entries' = (entries \ {e}) \cup {f} /\ UNCHANGED <<registry, rules>>
    BY <1>4 DEF CommitNewFail
  <2> HIDE DEF f
  <2> QED BY <2>1, <2>2, RowKeepsRegistry
<1>5. CASE CommitOldOk(e)
  <2>1. \A a \in registry : a.id # e.id
    BY <1>1, <1>5 DEF CommitOldOk, RegistryInv, RegistryExact, IdsOf, New, UniqueRows
  <2>2. \A r \in rules' : r \in rules \/ r.id = e.id
    BY <1>2, <1>5 DEF CommitOldOk, WithoutRule
  <2>3. UNCHANGED <<entries, registry>>
    BY <1>5 DEF CommitOldOk
  <2> QED BY <2>1, <2>2, <2>3 DEF RegistryInv, RegistryExact, SavedUnstored
<1>6. CASE CommitOldFail(e)
  BY <1>1, <1>6, RereadRow, RowKeepsRegistry DEF CommitOldFail
<1>7. CASE CommitOldLost(e)
  <2> DEFINE f == [e EXCEPT !.c = SetDefaultValue(e.c)]
  <2>1. f.id = e.id /\ f.bNew = e.bNew
    BY <1>1 DEF Entry
  <2>2. /\ entries' = (entries \ {e}) \cup {f}
        /\ registry' = registry /\ rules' \subseteq rules
    BY <1>7 DEF CommitOldLost, WithoutRule
  <2> HIDE DEF f
  <2> QED BY <2>1, <2>2, RowKeepsRegistry
<1> QED BY <1>3, <1>4, <1>5, <1>6, <1>7

\* Every step keeps the registry exact, when nothing fails.
LEMMA RegistryStep ==
    ASSUME faults = {}, TypeOK, NumberInv, RegistryInv, [Next]_vars
    PROVE  RegistryInv'
<1>0. UniqueRows /\ SessionOpen /\ ReadsSucceed
  BY DEF NumberInv, ReadsSucceed
<1>1. CASE Synchronize
  <2>1. entries' = Synced(rules) /\ rules' = rules /\ registry' = registry
    BY <1>1 DEF Synchronize, Reads, store
  <2>2. ASSUME NEW a \in registry PROVE a.id \in IdsOf(New(entries'))
    <3>1. PICK e \in New(entries) : e.id = a.id
      BY DEF RegistryInv, RegistryExact, IdsOf
    <3>2. e.id \notin IdsOf(rules)
      BY <3>1 DEF RegistryInv, SavedUnstored, IdsOf
    <3>3. e \in New(entries')
      BY <2>1, <3>1, <3>2 DEF Synced, New
    <3> QED BY <3>1, <3>3 DEF IdsOf
  <2> QED BY <2>1, <2>2 DEF RegistryInv, RegistryExact, SavedUnstored, IdsOf
<1>2. CASE AddEntry
  <2> DEFINE row(n) == [id |-> n, alias |-> n, c |-> ZeroCfg, bNew |-> TRUE]
  <2>1. PICK n \in Ins : n \notin IdsOf(entries) /\ entries' = entries \cup {row(n)}
    BY <1>2 DEF AddEntry, NatGen
  <2>2. row(n).id = n
    OBVIOUS
  <2> HIDE DEF row
  <2>3. InStep /\ rules' = rules
    BY <1>2 DEF AddEntry, Writable, NumberInv
  <2>4. IdsOf(registry') = IdsOf(New(entries'))
    BY <1>2, RegSetIds DEF AddEntry
  <2>5. \A i \in IdsOf(New(entries')) : i = n \/ i \in IdsOf(New(entries))
    BY <2>1, <2>2 DEF IdsOf, New
  <2>6. \A r \in rules : r.id # n
    BY <2>1, <2>3 DEF InStep, IdsOf
  <2>7. SavedUnstored'
    <3> SUFFICES ASSUME NEW a \in registry', NEW r \in rules PROVE a.id # r.id
      BY <2>3 DEF SavedUnstored
    <3>1. a.id \in IdsOf(New(entries'))
      BY <2>4 DEF IdsOf
    <3> QED BY <1>0, <2>3, <2>5, <2>6, <3>1, NewUnstored
  <2> QED BY <2>4, <2>7 DEF RegistryInv, RegistryExact
<1>3. CASE DelEntry
  <2> PICK e \in entries : DelNewEntry(e) \/ DelOldEntry(e)
    BY <1>3 DEF DelEntry, DelNewFail, RegSetFails
  <2>1. InStep
    BY <1>3 DEF DelEntry, Writable, NumberInv
  <2>2. CASE DelNewEntry(e)
    <3>1. IdsOf(registry') = IdsOf(New(entries')) /\ rules' = rules
      BY <2>2, RegSetIds DEF DelNewEntry
    <3>2. IdsOf(New(entries')) \subseteq IdsOf(New(entries))
      BY <2>2 DEF DelNewEntry, IdsOf, New
    <3>3. SavedUnstored'
      <4> SUFFICES ASSUME NEW a \in registry', NEW r \in rules PROVE a.id # r.id
        BY <3>1 DEF SavedUnstored
      <4>1. a.id \in IdsOf(New(entries))
        BY <3>1, <3>2 DEF IdsOf
      <4> QED BY <1>0, <2>1, <4>1, NewUnstored
    <3> QED BY <3>1, <3>3 DEF RegistryInv, RegistryExact
  <2>3. CASE DelOldEntry(e)
    <3>1. New(entries') = New(entries) /\ registry' = registry /\ rules' \subseteq rules
      BY <2>3 DEF DelOldEntry, DelPortMapping, New
    <3> QED BY <3>1 DEF RegistryInv, RegistryExact, SavedUnstored
  <2> QED BY <2>2, <2>3
<1>4. CASE SetParamValue
  <2> PICK e \in entries, c \in UserCfgs :
        entries' = (entries \ {e}) \cup {[e EXCEPT !.c = Truncate(c)]}
    BY <1>4 DEF SetParamValue
  <2> DEFINE f == [e EXCEPT !.c = Truncate(c)]
  <2>1. f.id = e.id /\ f.bNew = e.bNew
    BY DEF TypeOK, Entry
  <2>2. UNCHANGED <<registry, rules>>
    BY <1>4 DEF SetParamValue, store
  <2> QED BY <2>1, <2>2, RowKeepsRegistry
<1>5. CASE SetParamAlias
  <2> PICK e \in entries, a \in UserAliases :
        entries' = (entries \ {e}) \cup {[e EXCEPT !.alias = a]}
    BY <1>5 DEF SetParamAlias
  <2> DEFINE f == [e EXCEPT !.alias = a]
  <2>1. f.id = e.id /\ f.bNew = e.bNew
    BY DEF TypeOK, Entry
  <2>2. UNCHANGED <<registry, rules>>
    BY <1>5 DEF SetParamAlias, store
  <2> QED BY <2>1, <2>2, RowKeepsRegistry
<1>6. CASE Validate
  BY <1>6, ValidateKeepsMark, RowKeepsRegistry DEF Validate, store
<1>7. CASE Commit
  <2>1. InStep
    BY <1>0, <1>7 DEF Commit, NumberInv, SessionOpen
  <2> QED BY <1>7, <2>1, CommitRegistry DEF Commit
<1>8. CASE Rollback
  <2> PICK e \in entries : entries' = (entries \ {e}) \cup {RolledBack(e)}
    BY <1>8 DEF Rollback
  <2>1. RolledBack(e).id = e.id /\ RolledBack(e).bNew = e.bNew
    BY RolledBackMark
  <2>2. UNCHANGED <<registry, rules>>
    BY <1>8 DEF Rollback, store
  <2> QED BY <2>1, <2>2, RowKeepsRegistry
<1>9. CASE NatSet
  <2> PICK f \in [Kinds -> BOOLEAN] : rules' = {UpdateRuleEnable(r, f) : r \in rules}
    BY <1>0, <1>9, SwitchWithoutFault
  <2>1. \A r \in rules : UpdateRuleEnable(r, f).id = r.id
    BY DEF UpdateRuleEnable, TypeOK, Rule
  <2>2. UNCHANGED <<entries, registry>>
    BY <1>9 DEF NatSet, table
  <2> QED BY <2>1, <2>2 DEF RegistryInv, RegistryExact, SavedUnstored
<1>10. CASE Restart
  <2>1. UNCHANGED <<registry, rules>> /\ entries' = RegGetNatInfo
    BY <1>10 DEF Restart, Initialize, store
  <2> DEFINE Row(r) == [id |-> r.id, alias |-> r.alias, c |-> ZeroCfg, bNew |-> TRUE]
  <2>2. entries' = {Row(r) : r \in registry}
    BY <2>1 DEF RegGetNatInfo
  <2>3. \A r : Row(r).id = r.id /\ Row(r).bNew
    OBVIOUS
  <2> HIDE DEF Row
  <2>4. IdsOf(registry) \subseteq IdsOf(New(entries'))
    BY <2>2, <2>3 DEF IdsOf, New
  <2> QED BY <2>1, <2>4 DEF RegistryInv, RegistryExact, SavedUnstored
<1>11. CASE CrashInCommit
  BY <1>11 DEF CrashInCommit
<1>12. CASE UNCHANGED <<entries, registry, rules>>
  BY <1>12 DEF RegistryInv, RegistryExact, SavedUnstored
<1> QED BY <1>1, <1>2, <1>3, <1>4, <1>5, <1>6, <1>7, <1>8, <1>9, <1>10, <1>11, <1>12
        DEF Next, IntervalElapses, BeginCommit, vars, system, table, store

\* While the process does not die inside a Commit and reads succeed, no
\* committed or deleted row comes back after a restart.
THEOREM NoRowResurrected == Spec => []NothingResurrected
<1> DEFINE Inv == faults = {} => NumberInv /\ RegistryInv
<1>1. Init => Inv
  BY DEF Init, Idle, NumberInv, OneRule, UniqueRows, UniqueSaved, SessionOpen,
         InStep, RegistryInv, RegistryExact, SavedUnstored, IdsOf
<1>2. TypeOK /\ Inv /\ [Next]_vars => Inv'
  <2> SUFFICES ASSUME TypeOK, Inv, [Next]_vars, faults' = {}
               PROVE  NumberInv' /\ RegistryInv'
    OBVIOUS
  <2>1. faults = {} /\ NumberInv /\ RegistryInv /\ ReadsSucceed
    BY FaultsStay DEF ReadsSucceed
  <2> QED BY <2>1, NumberStep, RegistryStep
<1>3. Inv => NothingResurrected
  BY DEF RegistryInv, NothingResurrected
<1> QED BY <1>1, <1>2, <1>3, TypeCorrect, PTL DEF Spec

----------------------------------------------------------------------------
(* The steps of the book.                                                   *)

\* The rules of a set have different numbers.
Numbered(R) == R \subseteq Rule /\ \A r, s \in R : r.id = s.id => r = s

\* What the book holds under the number of a rule, and nothing else.
LEMMA BookAt ==
    ASSUME NEW R, Numbered(R)
    PROVE  /\ \A i : i \in DOMAIN BookOf(R) <=> \E r \in R : r.id = i
           /\ \A r \in R : r.id \in DOMAIN BookOf(R) /\ BookOf(R)[r.id] = AsStored(r)
<1>1. ASSUME NEW r \in R PROVE r.id \in IdsOf(R) /\ Stored(R, r.id) = r
  <2>1. r.id \in IdsOf(R)
    BY DEF IdsOf
  <2>2. Stored(R, r.id) \in R /\ Stored(R, r.id).id = r.id
    BY <2>1, StoredIn
  <2> QED BY <2>1, <2>2 DEF Numbered
<1>2. \A i : i \in IdsOf(R) <=> \E r \in R : r.id = i
  BY DEF IdsOf
<1> QED BY <1>1, <1>2 DEF BookOf

\* The value a rule was stored with.
LEMMA AsStoredParts ==
    ASSUME NEW r \in Rule
    PROVE  /\ AsStored(r).bEnabled = r.prev
           /\ AsStored(r).kind = r.c.kind
           /\ AsStored(r).ExternalPort = r.c.ExternalPort
           /\ AsStored(r).ExternalPortEndRange = r.c.ExternalPortEndRange
           /\ AsStored(r).Protocol = r.c.Protocol
BY DEF Rule, Cfg, CfgOver, AsStored

\* What is in force is what is stored enabled and switched on.
LEMMA InForceEffective ==
    ASSUME NEW R, Numbered(R), NEW o, \A r \in R : r.c.bEnabled <=> (o[r.c.kind] /\ r.prev)
    PROVE  InForceOf(R) = RB!Effective(BookOf(R), o)
<1>1. \A i \in DOMAIN BookOf(R) : \E r \in R : r.id = i
  BY BookAt
<1>2. \A r \in R : /\ r.id \in DOMAIN BookOf(R)
                   /\ BookOf(R)[r.id].bEnabled = r.prev
                   /\ BookOf(R)[r.id].kind = r.c.kind
  BY BookAt, AsStoredParts DEF Numbered
<1>3. \A i \in InForceOf(R) : \E r \in R : r.id = i /\ r.c.bEnabled
  BY DEF InForceOf, IdsOf
<1>4. \A r \in R : r.c.bEnabled => r.id \in InForceOf(R)
  BY DEF InForceOf, IdsOf
<1>5. ASSUME NEW i \in InForceOf(R) PROVE i \in RB!Effective(BookOf(R), o)
  BY <1>2, <1>3, <1>5 DEF RB!Effective
<1>6. ASSUME NEW i \in RB!Effective(BookOf(R), o) PROVE i \in InForceOf(R)
  <2>1. i \in DOMAIN BookOf(R) /\ BookOf(R)[i].bEnabled /\ o[BookOf(R)[i].kind]
    BY <1>6 DEF RB!Effective
  <2>2. PICK r \in R : r.id = i
    BY <1>1, <2>1
  <2>3. r.c.bEnabled
    BY <1>2, <2>1, <2>2
  <2> QED BY <1>4, <2>2, <2>3
<1> QED BY <1>5, <1>6

\* The rule of a number is dropped.
LEMMA BookDropped ==
    ASSUME NEW R, Numbered(R), NEW i, NEW Q, Q = {r \in R : r.id # i}
    PROVE  BookOf(Q) = [j \in DOMAIN BookOf(R) \ {i} |-> BookOf(R)[j]]
<1>1. Numbered(Q)
  BY DEF Numbered
<1>2. DOMAIN BookOf(Q) = DOMAIN BookOf(R) \ {i}
  <2>1. \A j : (\E r \in Q : r.id = j) <=> (j # i /\ \E r \in R : r.id = j)
    OBVIOUS
  <2>2. \A j : j \in DOMAIN BookOf(Q) <=> j \in DOMAIN BookOf(R) \ {i}
    BY <1>1, <2>1, BookAt
  <2> QED BY <2>2
<1>3. ASSUME NEW j \in DOMAIN BookOf(Q) PROVE BookOf(Q)[j] = BookOf(R)[j]
  <2>1. PICK r \in Q : r.id = j
    BY <1>1, <1>3, BookAt
  <2>2. r \in R
    OBVIOUS
  <2> QED BY <1>1, <2>1, <2>2, BookAt
<1>4. BookOf(Q) = [j \in DOMAIN BookOf(Q) |-> BookOf(Q)[j]]
  BY DEF BookOf
<1> QED BY <1>2, <1>3, <1>4

\* A rule takes the place of the rule of its number, if there is one.
LEMMA BookStored ==
    ASSUME NEW R, Numbered(R), NEW n \in Rule, NEW Q, Q = {r \in R : r.id # n.id} \cup {n}
    PROVE  BookOf(Q) = [j \in DOMAIN BookOf(R) \cup {n.id} |->
                           IF j = n.id THEN AsStored(n) ELSE BookOf(R)[j]]
<1>1. Numbered(Q)
  BY DEF Numbered
<1>2. DOMAIN BookOf(Q) = DOMAIN BookOf(R) \cup {n.id}
  BY <1>1, BookAt
<1>3. BookOf(Q)[n.id] = AsStored(n)
  BY <1>1, BookAt
<1>4. ASSUME NEW j \in DOMAIN BookOf(Q), j # n.id PROVE BookOf(Q)[j] = BookOf(R)[j]
  <2>1. PICK r \in Q : r.id = j
    BY <1>1, <1>4, BookAt
  <2>2. r \in R
    BY <1>4, <2>1
  <2> QED BY <1>1, <2>1, <2>2, BookAt
<1>5. BookOf(Q) = [j \in DOMAIN BookOf(Q) |-> BookOf(Q)[j]]
  BY DEF BookOf
<1> QED BY <1>2, <1>3, <1>4, <1>5

\* A switch leaves every rule as it was stored.
LEMMA BookSwitched ==
    ASSUME NEW f \in [Kinds -> BOOLEAN], Numbered(rules), Numbered(rules'),
           rules' = {UpdateRuleEnable(r, f) : r \in rules}
    PROVE  BookOf(rules') = BookOf(rules)
<1>1. ASSUME NEW r \in rules
      PROVE  /\ UpdateRuleEnable(r, f).id = r.id
             /\ AsStored(UpdateRuleEnable(r, f)) = AsStored(r)
  BY DEF Numbered, Rule, Cfg, CfgOver, AsStored, UpdateRuleEnable
<1>2. DOMAIN BookOf(rules') = DOMAIN BookOf(rules)
  <2>1. \A j : (\E r \in rules' : r.id = j) <=> (\E r \in rules : r.id = j)
    BY <1>1
  <2>2. \A j : j \in DOMAIN BookOf(rules') <=> j \in DOMAIN BookOf(rules)
    BY <2>1, BookAt
  <2> QED BY <2>2
<1>3. ASSUME NEW j \in DOMAIN BookOf(rules) PROVE BookOf(rules')[j] = BookOf(rules)[j]
  <2>1. PICK r \in rules : r.id = j
    BY <1>3, BookAt
  <2>2. UpdateRuleEnable(r, f) \in rules'
    OBVIOUS
  <2> QED BY <1>1, <2>1, <2>2, BookAt
<1> QED BY <1>2, <1>3 DEF BookOf

\* The invariant the refinement rests on.
BookInv ==
    /\ TypeOK
    /\ NumberInv
    /\ ApartInv
    /\ RegistryFull
    /\ RegistryInv

\* What the mapping makes of a state of the invariant.
LEMMA BookState ==
    ASSUME BookInv
    PROVE  /\ Numbered(rules)
           /\ Waiting = IdsOf(New(entries))
           /\ InForceOf(rules) = RB!Effective(BookOf(rules), enabled)
<1>1. Numbered(rules)
  BY DEF BookInv, TypeOK, NumberInv, OneRule, Numbered
<1>2. Waiting = IdsOf(New(entries))
  BY DEF BookInv, RegistryFull, RegistryInv, RegistryExact, Waiting
<1>3. \A r \in rules : r.c.bEnabled <=> (enabled[r.c.kind] /\ r.prev)
  BY DEF BookInv, ApartInv, SwitchesApplied
<1>4. InForceOf(rules) = RB!Effective(BookOf(rules), enabled)
  BY <1>1, <1>3, InForceEffective
<1> QED BY <1>1, <1>2, <1>4

\* The same of the state after a step.
LEMMA BookStateAfter ==
    ASSUME BookInv'
    PROVE  /\ Numbered(rules')
           /\ Waiting' = IdsOf(New(entries'))
           /\ InForceOf(rules') = RB!Effective(BookOf(rules'), enabled')
<1>1. Numbered(rules')
  BY DEF BookInv, TypeOK, NumberInv, OneRule, Numbered
<1>2. Waiting' = IdsOf(New(entries'))
  BY DEF BookInv, RegistryFull, RegistryInv, RegistryExact, Waiting
<1>3. \A r \in rules' : r.c.bEnabled <=> (enabled'[r.c.kind] /\ r.prev)
  BY DEF BookInv, ApartInv, SwitchesApplied
<1>4. InForceOf(rules') = RB!Effective(BookOf(rules'), enabled')
  BY <1>1, <1>3, InForceEffective
<1> QED BY <1>1, <1>2, <1>4

\* A list in step shows every row that waits and every rule.
LEMMA SeesAllAfter ==
    ASSUME BookInv', InStep'
    PROVE  RB!AllSeen'
<1>1. Waiting' \subseteq Rows'
  BY BookStateAfter DEF Rows, IdsOf, New
<1>2. ASSUME NEW i \in DOMAIN BookOf(rules') PROVE i \in Rows'
  <2>1. PICK r \in rules' : r.id = i
    BY BookStateAfter, BookAt
  <2> QED BY <2>1 DEF InStep, Rows, IdsOf
<1> QED BY <1>1, <1>2 DEF RB!AllSeen

\* A step that shows the same rows, and opens the table only with all in sight.
LEMMA MovesStep ==
    ASSUME BookInv', Rows' = Rows
    PROVE  RB!Moves
<1>1. Mode' \in RB!Modes
  BY DEF Mode, RB!Modes
<1>2. Mode' = "open" => InStep'
  BY DEF Mode, BookInv, NumberInv
<1>3. InStep' => RB!AllSeen'
  BY SeesAllAfter
<1> QED BY <1>1, <1>2, <1>3 DEF RB!Moves

\* A row the checks of Commit let pass claims no port of a rule in force.
LEMMA StorableFree ==
    ASSUME ReadsSucceed, BookInv, NEW e \in entries, Storable(e)
    PROVE  RB!Free(e.id, StoredForm(e.c))
<1> DEFINE v == StoredForm(e.c)
<1>1. Numbered(rules) /\ e.c \in Cfg
  BY BookState DEF BookInv, TypeOK, Entry
<1>2. v.kind = e.c.kind /\ v.bEnabled = e.c.bEnabled
  BY <1>1, StoredFormParts
<1>3. enabled[v.kind]
  BY <1>2 DEF Storable, NatChkEnableFlg
<1>4. ASSUME e.c.bEnabled, e.c.kind # "nat",
             NEW j \in InForceOf(rules) \ {e.id}, BookOf(rules)[j].kind # "nat"
      PROVE  ~Intersect(v, BookOf(rules)[j])
  <2>1. PICK r \in rules : r.id = j /\ r.c.bEnabled
    BY DEF InForceOf, IdsOf
  <2>2. /\ BookOf(rules)[j].kind = r.c.kind
        /\ BookOf(rules)[j].ExternalPort = r.c.ExternalPort
        /\ BookOf(rules)[j].ExternalPortEndRange = r.c.ExternalPortEndRange
        /\ BookOf(rules)[j].Protocol = r.c.Protocol
    BY <1>1, <2>1, BookAt, AsStoredParts DEF Numbered
  <2>3. Check_PF_parameter(e.id, e.c, TRUE)
    BY InitSucceeds
  <2>4. CheckPortRange(e.id, e.c) /\ e.c.Protocol \in Protocols
    BY <1>4, <2>3 DEF Check_PF_parameter, NatChkPortRange
  <2>5. ~Intersect(e.c, r.c)
    BY <1>4, <2>1, <2>2, <2>4 DEF CheckPortRange
  <2>6. /\ v.ExternalPort = e.c.ExternalPort
        /\ v.ExternalPortEndRange = e.c.ExternalPortEndRange
        /\ v.Protocol = e.c.Protocol
    BY <1>1, <2>4, StoredFormParts
  <2> HIDE DEF v
  <2> QED BY <2>2, <2>5, <2>6 DEF Intersect
<1> HIDE DEF v
<1>5. RB!Free(e.id, v)
  BY <1>2, <1>3, <1>4 DEF RB!Free
<1> QED BY <1>5 DEF v

\* A stored row.
LEMMA StoreStep ==
    ASSUME ReadsSucceed, BookInv, BookInv', NEW e \in entries, Storable(e),
           enabled' = enabled, Waiting' = Waiting \ {e.id}, Rows' = Rows,
           Mode = "storing",
           rules' = {r \in rules : r.id # e.id} \cup {MkRule(e.id, e.c)}
    PROVE  RB!Store
<1> DEFINE n == MkRule(e.id, e.c)
           v == StoredForm(e.c)
<1>1. e.id \in Ins /\ e.c \in Cfg /\ e.c.bEnabled \in BOOLEAN
  BY DEF BookInv, TypeOK, Entry, Cfg, CfgOver
<1>a. v \in Cfg /\ v.bEnabled = e.c.bEnabled
  BY <1>1, StoredFormParts
<1>2. n \in Rule /\ n.id = e.id
  BY <1>1, RuleTypes DEF MkRule
<1>b. n.c = v /\ n.prev = e.c.bEnabled
  BY DEF MkRule
<1> HIDE DEF v
<1>c. AsStored(n) = [v EXCEPT !.bEnabled = v.bEnabled]
  BY <1>a, <1>b DEF AsStored
<1>d. AsStored(n) = v
  BY <1>a, <1>c DEF Cfg, CfgOver
<1>3. rules' = {r \in rules : r.id # n.id} \cup {n}
  BY <1>2
<1> HIDE DEF n
<1>4. BookOf(rules') = [j \in DOMAIN BookOf(rules) \cup {e.id} |->
                           IF j = e.id THEN v ELSE BookOf(rules)[j]]
  <2>1. BookOf(rules') = [j \in DOMAIN BookOf(rules) \cup {n.id} |->
                             IF j = n.id THEN AsStored(n) ELSE BookOf(rules)[j]]
    BY <1>2, <1>3, BookState, BookStored
  <2> QED BY <1>2, <1>d, <2>1
<1>5. InForceOf(rules') = RB!Effective(BookOf(rules'), enabled)
  BY BookStateAfter
<1>6. e.id \in DOMAIN BookOf(rules') /\ BookOf(rules')[e.id] = v
  BY <1>4
<1>e. RB!Free(e.id, v)
  BY StorableFree DEF v
<1>7. RB!StoreAs(e.id, v)
  BY <1>4, <1>5, <1>e DEF RB!StoreAs
<1>8. RB!Moves
  BY MovesStep
<1> QED BY <1>1, <1>a, <1>6, <1>7, <1>8 DEF RB!Store

\* The book without a rule.
LEMMA BookWithout ==
    ASSUME BookInv, BookInv', NEW i \in IdsOf(rules), enabled' = enabled,
           rules' = {r \in rules : r.id # i}
    PROVE  /\ i \in DOMAIN BookOf(rules)
           /\ BookOf(rules') = RB!Without(BookOf(rules), i)
           /\ InForceOf(rules') = RB!Effective(BookOf(rules'), enabled)
<1>1. BookOf(rules') = [j \in DOMAIN BookOf(rules) \ {i} |-> BookOf(rules)[j]]
  BY BookState, BookDropped
<1>2. i \in DOMAIN BookOf(rules)
  BY DEF BookOf
<1>3. InForceOf(rules') = RB!Effective(BookOf(rules'), enabled)
  BY BookStateAfter
<1> QED BY <1>1, <1>2, <1>3 DEF RB!Without

\* A step that leaves the waiting numbers, the rules, the switches and the
\* numbers of the list alone.
LEMMA ProceedStep ==
    ASSUME BookInv', Waiting' = Waiting, rules' = rules, enabled' = enabled, Rows' = Rows
    PROVE  RB!Proceed
<1>1. BookOf(rules') = BookOf(rules) /\ InForceOf(rules') = InForceOf(rules)
  OBVIOUS
<1>2. RB!Moves
  BY MovesStep
<1> QED BY <1>1, <1>2 DEF RB!Proceed

\* Each way a Commit ends stores the row, loses its rule, or changes nothing.
LEMMA CommitStep ==
    ASSUME "registry" \notin faults, ReadsSucceed, BookInv, BookInv', NEW e \in entries,
           enabled' = enabled, phase = "commit",
           \/ CommitNewOk(e) \/ CommitNewFail(e)
           \/ CommitOldOk(e) \/ CommitOldFail(e) \/ CommitOldLost(e),
           InStep
    PROVE  RB!Next
<1>1. TypeOK /\ UniqueRows /\ e \in Entry /\ rules \subseteq Rule
  BY DEF BookInv, NumberInv, TypeOK
<1>2. WithoutRule(e.id) = {r \in rules : r.id # e.id}
  BY <1>1 DEF WithoutRule, InTable, Rule
<1>a. Mode = "storing"
  BY DEF Mode
<1>b. Rows' = Rows
  BY <1>1, CommitRow, RowStepIds DEF Rows
<1>3. CASE CommitNewOk(e)
  <2>1. \A r \in rules : r.id # e.id
    BY <1>1, <1>3 DEF CommitNewOk, InStep, UniqueRows
  <2>2. rules' = {r \in rules : r.id # e.id} \cup {MkRule(e.id, e.c)}
    BY <1>3, <2>1 DEF CommitNewOk
  <2> DEFINE f == [e EXCEPT !.bNew = FALSE]
  <2>3. ~f.bNew /\ entries' = (entries \ {e}) \cup {f}
    BY <1>1, <1>3 DEF CommitNewOk, Entry
  <2> HIDE DEF f
  <2>4. IdsOf(New(entries')) = IdsOf(New(entries)) \ {e.id}
    BY <1>1, <2>3 DEF IdsOf, New, UniqueRows
  <2>5. Waiting' = Waiting \ {e.id}
    BY <2>4, BookState, BookStateAfter
  <2>6. Storable(e)
    BY <1>3 DEF CommitNewOk
  <2>7. RB!Store
    BY <1>a, <1>b, <2>2, <2>5, <2>6, StoreStep
  <2> QED BY <2>7 DEF RB!Next
<1>4. CASE CommitOldOk(e)
  <2>1. e.id \notin IdsOf(New(entries))
    BY <1>1, <1>4 DEF CommitOldOk, IdsOf, New, UniqueRows
  <2>2. Waiting' = Waiting \ {e.id}
    BY <1>4, <2>1, BookState DEF CommitOldOk, Waiting
  <2>3. Storable(e) /\ rules' = {r \in rules : r.id # e.id} \cup {MkRule(e.id, e.c)}
    BY <1>2, <1>4 DEF CommitOldOk
  <2>4. RB!Store
    BY <1>a, <1>b, <2>2, <2>3, StoreStep
  <2> QED BY <2>4 DEF RB!Next
<1>5. CASE CommitOldLost(e)
  <2>1. Waiting' = Waiting /\ rules' = {r \in rules : r.id # e.id}
    BY <1>2, <1>5 DEF CommitOldLost, Waiting
  <2>2. CASE e.id \in IdsOf(rules)
    <3>1. RB!Moves
      BY <1>b, MovesStep
    <3>2. RB!Lose
      BY <1>a, <2>1, <2>2, <3>1, BookWithout DEF RB!Lose
    <3> QED BY <3>2 DEF RB!Next
  <2>3. CASE e.id \notin IdsOf(rules)
    <3>1. rules' = rules
      BY <2>1, <2>3 DEF IdsOf
    <3>2. RB!Proceed
      BY <1>b, <2>1, <3>1, ProceedStep
    <3> QED BY <3>2 DEF RB!Next
  <2> QED BY <2>2, <2>3
<1>6. CASE CommitNewFail(e) \/ CommitOldFail(e)
  <2>1. Waiting' = Waiting /\ rules' = rules
    BY <1>6 DEF CommitNewFail, CommitOldFail, Waiting
  <2>2. RB!Proceed
    BY <1>b, <2>1, ProceedStep
  <2> QED BY <2>2 DEF RB!Next
<1> QED BY <1>3, <1>4, <1>5, <1>6

\* The numbers a synchronized list shows.
LEMMA SyncedRows ==
    ASSUME TypeOK, entries' = Synced(rules)
    PROVE  IdsOf(entries') = IdsOf(New(entries)) \cup IdsOf(rules)
<1> DEFINE A == {FromRule(Stored(rules, i)) : i \in IdsOf(entries) \cap IdsOf(rules)}
           B == {e \in New(entries) : e.id \notin IdsOf(rules)}
           C == {FromRule(r) : r \in {x \in rules : x.id \notin IdsOf(entries)}}
<1>1. \A r \in rules : FromRule(r).id = r.id
  BY RuleTypes DEF TypeOK
<1>2. \A i \in IdsOf(rules) : Stored(rules, i) \in rules /\ Stored(rules, i).id = i
  BY StoredIn
<1>3. entries' = A \cup B \cup C
  BY DEF Synced
<1>4. \A e \in A : e.id \in IdsOf(rules)
  BY <1>1, <1>2
<1>5. \A i \in IdsOf(entries) \cap IdsOf(rules) : \E e \in A : e.id = i
  BY <1>1, <1>2
<1>6. \A e \in C : e.id \in IdsOf(rules)
  BY <1>1 DEF IdsOf
<1>7. \A i \in IdsOf(rules) : i \notin IdsOf(entries) => \E e \in C : e.id = i
  BY <1>1 DEF IdsOf
<1>8. \A e \in B : e \in New(entries)
  OBVIOUS
<1>9. \A e \in New(entries) : e.id \in IdsOf(rules) \/ e \in B
  OBVIOUS
<1> HIDE DEF A, B, C
<1>10. ASSUME NEW i \in IdsOf(entries') PROVE i \in IdsOf(New(entries)) \cup IdsOf(rules)
  <2>1. PICK e \in entries' : e.id = i
    BY DEF IdsOf
  <2> QED BY <1>3, <1>4, <1>6, <1>8, <2>1 DEF IdsOf
<1>11. ASSUME NEW i \in IdsOf(rules) PROVE i \in IdsOf(entries')
  <2>1. \E e \in A \cup C : e.id = i
    BY <1>5, <1>7
  <2> QED BY <1>3, <2>1 DEF IdsOf
<1>12. ASSUME NEW i \in IdsOf(New(entries)) PROVE i \in IdsOf(entries')
  <2>1. PICK e \in New(entries) : e.id = i
    BY DEF IdsOf
  <2>2. CASE e \in B
    BY <1>3, <2>1, <2>2 DEF IdsOf
  <2> QED BY <1>9, <1>11, <2>1, <2>2
<1> QED BY <1>10, <1>11, <1>12

\* Each step of the table is a step of the book.
LEMMA BookStep ==
    ASSUME faults = {}
    PROVE  BookInv /\ BookInv' /\ [Next]_vars => [RB!Next]_(RB!vars)
<1> SUFFICES ASSUME BookInv, BookInv', [Next]_vars PROVE RB!Next \/ UNCHANGED RB!vars
  OBVIOUS
<1>0. TypeOK /\ NumberInv /\ UniqueRows /\ SessionOpen /\ ReadsSucceed
  BY DEF BookInv, NumberInv, ReadsSucceed
<1>1. CASE AddEntry
  <2> DEFINE row(n) == [id |-> n, alias |-> n, c |-> ZeroCfg, bNew |-> TRUE]
  <2>1. PICK n \in Ins : n \notin IdsOf(entries) /\ entries' = entries \cup {row(n)}
    BY <1>1 DEF AddEntry, NatGen
  <2>2. row(n).id = n /\ row(n).bNew
    OBVIOUS
  <2> HIDE DEF row
  <2>3. IdsOf(New(entries')) = IdsOf(New(entries)) \cup {n}
    BY <2>1, <2>2 DEF IdsOf, New
  <2>4. Waiting' = Waiting \cup {n}
    BY <2>3, BookState, BookStateAfter
  <2>5. Rows' = Rows \cup {n} /\ n \notin Rows
    BY <2>1, <2>2 DEF Rows, IdsOf
  <2>6. UNCHANGED <<rules, enabled>> /\ Mode = "open" /\ Mode' = "open"
    BY <1>1 DEF AddEntry, Writable, Mode, session
  <2>7. BookOf(rules') = BookOf(rules) /\ InForceOf(rules') = InForceOf(rules)
    BY <2>6
  <2>8. RB!Create
    BY <2>4, <2>5, <2>6, <2>7 DEF RB!Create, RB!StaysOpen
  <2> QED BY <2>8 DEF RB!Next
<1>2. CASE DelEntry
  <2> PICK e \in entries : DelNewEntry(e) \/ DelOldEntry(e)
    BY <1>2 DEF DelEntry, DelNewFail, RegSetFails
  <2>a. Mode = "open" /\ Mode' = "open"
    BY <1>2 DEF DelEntry, Writable, Mode
  <2>b. entries' = entries \ {e}
    BY DEF DelNewEntry, DelOldEntry
  <2>c. Rows' = Rows \ {e.id}
    BY <1>0, <2>b DEF Rows, IdsOf, UniqueRows
  <2>1. CASE DelNewEntry(e)
    <3>1. e.id \in IdsOf(New(entries))
      BY <2>1 DEF DelNewEntry, IdsOf, New
    <3>2. IdsOf(New(entries')) = IdsOf(New(entries)) \ {e.id}
      BY <1>0, <2>1 DEF DelNewEntry, IdsOf, New, UniqueRows
    <3>3. e.id \in Waiting /\ Waiting' = Waiting \ {e.id}
      BY <3>1, <3>2, BookState, BookStateAfter
    <3>4. UNCHANGED <<rules, enabled>>
      BY <2>1 DEF DelNewEntry
    <3>5. BookOf(rules') = BookOf(rules) /\ InForceOf(rules') = InForceOf(rules)
      BY <3>4
    <3>6. RB!Withdraw
      BY <2>a, <2>c, <3>3, <3>4, <3>5 DEF RB!Withdraw, RB!StaysOpen
    <3> QED BY <3>6 DEF RB!Next
  <2>2. CASE DelOldEntry(e)
    <3>1. rules' = {r \in rules : r.id # e.id}
      BY <1>0, <2>2 DEF DelOldEntry, DelPortMapping, InTable, NumberInv, OneRule,
         TypeOK, Rule
    <3>2. e.id \in IdsOf(rules) /\ Waiting' = Waiting /\ enabled' = enabled
      BY <2>2 DEF DelOldEntry, Waiting
    <3>3. RB!Drop
      BY <2>a, <2>c, <3>1, <3>2, BookWithout DEF RB!Drop, RB!StaysOpen
    <3> QED BY <3>3 DEF RB!Next
  <2> QED BY <2>1, <2>2
<1>3. CASE Commit
  <2>1. InStep /\ enabled' = enabled /\ phase = "commit"
    BY <1>0, <1>3 DEF Commit, NumberInv, SessionOpen
  <2> QED BY <1>0, <1>3, <2>1, CommitStep DEF Commit
<1>4. CASE NatSet
  <2> PICK f \in [Kinds -> BOOLEAN] :
        enabled' = f /\ rules' = {UpdateRuleEnable(r, f) : r \in rules}
    BY <1>0, <1>4, SwitchWithoutFault
  <2>1. BookOf(rules') = BookOf(rules)
    BY BookState, BookStateAfter, BookSwitched
  <2>2. Waiting' = Waiting /\ Rows' = Rows /\ Mode' = Mode
    BY <1>4 DEF NatSet, Waiting, Rows, Mode, table, session
  <2>3. InForceOf(rules') = RB!Effective(BookOf(rules), enabled')
    BY <2>1, BookStateAfter
  <2>4. RB!Switch
    BY <2>1, <2>2, <2>3 DEF RB!Switch
  <2> QED BY <2>4 DEF RB!Next
<1>5. CASE CrashInCommit
  BY <1>5 DEF CrashInCommit
<1>6. CASE Synchronize
  <2>1. /\ entries' = Synced(rules) /\ UNCHANGED <<registry, rules, enabled>>
        /\ Mode = "closed" /\ Mode' = "open"
    BY <1>6 DEF Synchronize, Reads, store, Mode
  <2>2. IdsOf(entries') = IdsOf(New(entries)) \cup IdsOf(rules)
    BY <1>0, <2>1, SyncedRows
  <2>3. Rows' = Waiting \cup DOMAIN BookOf(rules)
    BY <2>2, BookState DEF Rows, BookOf
  <2>4. Waiting' = Waiting
    BY <2>1 DEF Waiting
  <2>5. BookOf(rules') = BookOf(rules) /\ InForceOf(rules') = InForceOf(rules)
    BY <2>1
  <2>6. RB!Reload
    BY <2>1, <2>3, <2>4, <2>5 DEF RB!Reload
  <2> QED BY <2>6 DEF RB!Next
<1>7. CASE Restart
  <2>1. UNCHANGED <<registry, rules, enabled>> /\ entries' = RegGetNatInfo
    BY <1>7 DEF Restart, Initialize, store
  <2>2. Mode' = "closed"
    BY <1>7 DEF Restart, Initialize, Mode
  <2> DEFINE Row(r) == [id |-> r.id, alias |-> r.alias, c |-> ZeroCfg, bNew |-> TRUE]
  <2>3. entries' = {Row(r) : r \in registry}
    BY <2>1 DEF RegGetNatInfo
  <2>4. \A r : Row(r).id = r.id
    OBVIOUS
  <2> HIDE DEF Row
  <2>5. Rows' = Waiting
    BY <2>3, <2>4 DEF Rows, Waiting, IdsOf
  <2>6. Waiting' = Waiting
    BY <2>1 DEF Waiting
  <2>7. BookOf(rules') = BookOf(rules) /\ InForceOf(rules') = InForceOf(rules)
    BY <2>1
  <2>8. RB!Restart
    BY <2>1, <2>2, <2>5, <2>6, <2>7 DEF RB!Restart
  <2> QED BY <2>8 DEF RB!Next
<1>8. ASSUME UNCHANGED <<rules, enabled>>, registry' = registry, Rows' = Rows
      PROVE  RB!Next
  <2>1. Waiting' = Waiting
    BY <1>8 DEF Waiting
  <2>2. RB!Proceed
    BY <1>8, <2>1, ProceedStep
  <2> QED BY <2>2 DEF RB!Next
<1>9. CASE SetParamValue
  <2> PICK e \in entries, c \in UserCfgs :
        entries' = (entries \ {e}) \cup {[e EXCEPT !.c = Truncate(c)]}
    BY <1>9 DEF SetParamValue
  <2>1. RowStep(e, [e EXCEPT !.c = Truncate(c)])
    BY <1>0 DEF RowStep, TypeOK, Entry
  <2>2. Rows' = Rows
    BY <2>1, RowStepIds DEF Rows
  <2> QED BY <1>8, <1>9, <2>2 DEF SetParamValue, store
<1>10. CASE SetParamAlias
  <2> PICK e \in entries, a \in UserAliases :
        entries' = (entries \ {e}) \cup {[e EXCEPT !.alias = a]}
    BY <1>10 DEF SetParamAlias
  <2>1. RowStep(e, [e EXCEPT !.alias = a])
    BY <1>0 DEF RowStep, TypeOK, Entry
  <2>2. Rows' = Rows
    BY <2>1, RowStepIds DEF Rows
  <2> QED BY <1>8, <1>10, <2>2 DEF SetParamAlias, store
<1>11. CASE Validate
  <2>1. Rows' = Rows
    BY <1>0, <1>11, ValidateRow, RowStepIds DEF Validate, Rows
  <2> QED BY <1>8, <1>11, <2>1 DEF Validate, store
<1>12. CASE Rollback
  <2>1. Rows' = Rows
    BY <1>0, <1>12, RollbackRow, RowStepIds DEF Rollback, Rows
  <2> QED BY <1>8, <1>12, <2>1 DEF Rollback, store
<1>13. CASE IntervalElapses \/ BeginCommit \/ UNCHANGED vars
  BY <1>8, <1>13 DEF IntervalElapses, BeginCommit, vars, system, table, store, Rows
<1> QED BY <1>1, <1>2, <1>3, <1>4, <1>5, <1>6, <1>7, <1>9, <1>10, <1>11, <1>12, <1>13
        DEF Next

\* Without faults the port mapping table implements RuleBook.
THEOREM ImplementsRuleBook ==
    ASSUME FaultSets = {{}}
    PROVE  Spec => KeepsRuleBook
<1> DEFINE Inv == faults = {} /\ BookInv
<1>1. Init => Inv
  BY TypeInit DEF Init, Idle, BookInv, NumberInv, OneRule, UniqueRows, UniqueSaved,
     SessionOpen, InStep, ApartInv, SwitchesApplied, StoredApart, RegistryFull,
     RegistryInv, RegistryExact, SavedUnstored, IdsOf, New
<1>2. Inv /\ [Next]_vars => Inv'
  <2> SUFFICES ASSUME Inv, [Next]_vars PROVE Inv'
    OBVIOUS
  <2>1. faults' = {} /\ ReadsSucceed
    BY FaultsStay DEF ReadsSucceed
  <2>2. TypeOK' /\ RegistryFull'
    BY TypeStep, RegistryFullStep DEF BookInv
  <2>3. ApartInv' /\ NumberInv' /\ RegistryInv'
    BY <2>1, ApartStep, NumberStep, RegistryStep DEF BookInv
  <2> QED BY <2>1, <2>2, <2>3 DEF BookInv
<1>3. Init => RB!Init
  BY DEF Init, RB!Init, Waiting, BookOf, InForceOf, IdsOf, Rows, Mode, Idle
<1>4. Inv /\ Inv' /\ [Next]_vars => [RB!Next]_(RB!vars)
  BY BookStep
<1> QED BY <1>1, <1>2, <1>3, <1>4, PTL DEF Spec, KeepsRuleBook, RB!Spec
=============================================================================
