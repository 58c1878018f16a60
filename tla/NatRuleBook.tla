----------------------------- MODULE NatRuleBook -----------------------------
(***************************************************************************)
(* The port mapping table implements RuleBook.                              *)
(***************************************************************************)
EXTENDS NatPortMapping

\* The rows that wait are those of the persistent registry, which a restart
\* reads, not those of the list.
Waiting == IdsOf(registry)

\* A rule as it was stored: with the enabled state it had then.
AsStored(r) == [r.c EXCEPT !.bEnabled = r.prev]

BookOf(R) == [i \in IdsOf(R) |-> AsStored(Stored(R, i))]

\* What the firewall finds enabled.
InForceOf(R) == IdsOf({r \in R : r.c.bEnabled})

\* The rows of the list are what a client sees.
Rows == IdsOf(entries)

\* A due table is synchronized before it is used.
Mode == IF phase = "commit" THEN "storing"
        ELSE IF phase = "set" /\ ~due THEN "open" ELSE "closed"

RB == INSTANCE RuleBook WITH
        Numbers <- Ins, Values <- Cfg, Clash <- Intersect,
        waiting <- Waiting, book <- BookOf(rules), on <- enabled,
        inForce <- InForceOf(rules), rows <- Rows, mode <- Mode

\* When no read or check of the rule store and no save fails and the process
\* does not die inside a Commit, the table keeps the promise of RuleBook.  A
\* row that waits, and a stored rule, only go when the client deletes them;
\* the one exception is a stored rule whose replacement Utopia refuses after
\* the deletes.  Restarts between any two steps of a session, rollbacks and
\* synchronizations change neither, and a client that may write sees them all.
\* A rule moves between the single and the range table in one step, and the
\* switches put exactly the stored rules in force (PortMapping_Synchronize,
\* PortMapping_Commit, CosaDmlNatSetPortMapping, CosaNatRegGetNatInfo).
KeepsRuleBook == RB!Spec
=============================================================================
