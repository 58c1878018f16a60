------------------------------ MODULE RuleBook ------------------------------
(***************************************************************************)
(* What Device.NAT.PortMapping.{i} promises a client: a book of numbered    *)
(* rules.  A row is created, and waits under its number until it is stored  *)
(* or withdrawn.  A stored rule changes as a whole, or goes.  A rule is in  *)
(* force exactly when it is stored enabled and its kind is switched on.     *)
(*                                                                          *)
(* The client withdraws rows and drops rules, while the table is open, and  *)
(* the book loses nothing of itself: a start of the process and a reload    *)
(* change no row that waits and no rule, and the table is never open with a *)
(* row that waits, or a rule, out of sight.  The one exception is a rule    *)
(* that a session takes out and cannot put back.                            *)
(***************************************************************************)
CONSTANTS
    Numbers,     \* the instance numbers
    Values,      \* the rules that can be stored
    Kinds,       \* the kinds of rules, each with a switch
    Clash(_, _)  \* two rules claim a port

VARIABLES
    waiting,  \* numbers of rows created and not stored yet
    book,     \* number -> the rule as it was stored
    on,       \* the switches
    inForce,  \* numbers of the rules the firewall applies
    rows,     \* numbers of the rows the client sees
    mode      \* the client may write, a session stores rows, or neither

vars == <<waiting, book, on, inForce, rows, mode>>

Modes == {"open", "storing", "closed"}

Effective(b, o) == {i \in DOMAIN b : b[i].bEnabled /\ o[b[i].kind]}

Without(b, i) == [j \in DOMAIN b \ {i} |-> b[j]]

\* Nothing is out of the client's sight.
AllSeen == waiting \cup DOMAIN book \subseteq rows

Init ==
    /\ waiting = {}
    /\ book = [i \in {} |-> 0]
    /\ on \in [Kinds -> BOOLEAN]
    /\ inForce = {}
    /\ rows = {}
    /\ mode = "closed"

\* The client's own operations.
StaysOpen == mode = "open" /\ mode' = "open"

Create ==
    /\ StaysOpen
    /\ \E i \in Numbers \ rows : waiting' = waiting \cup {i} /\ rows' = rows \cup {i}
    /\ UNCHANGED <<book, on, inForce>>

Withdraw ==
    /\ StaysOpen
    /\ \E i \in waiting : waiting' = waiting \ {i} /\ rows' = rows \ {i}
    /\ UNCHANGED <<book, on, inForce>>

Drop ==
    /\ StaysOpen
    /\ \E i \in DOMAIN book : book' = Without(book, i) /\ rows' = rows \ {i}
    /\ inForce' = Effective(book', on)
    /\ UNCHANGED <<waiting, on>>

\* A session goes on, ends or fails: it opens the table only with all in sight.
Moves ==
    /\ mode' \in Modes
    /\ mode' = "open" => AllSeen'
    /\ UNCHANGED rows

\* A rule is only stored while its kind is on, and, enabled, only when it
\* claims no port of a rule in force; one-to-one NAT claims no port.
Free(i, v) ==
    /\ on[v.kind]
    /\ v.bEnabled /\ v.kind # "nat" =>
          \A j \in inForce \ {i} : book[j].kind # "nat" => ~Clash(v, book[j])

StoreAs(i, v) ==
    /\ Free(i, v)
    /\ waiting' = waiting \ {i}
    /\ book' = [j \in DOMAIN book \cup {i} |-> IF j = i THEN v ELSE book[j]]
    /\ inForce' = Effective(book', on)
    /\ UNCHANGED on

\* Some value is stored: the one the book has afterwards.
Store ==
    /\ mode = "storing"
    /\ \E i \in Numbers \cap DOMAIN book' : book'[i] \in Values /\ StoreAs(i, book'[i])
    /\ Moves

\* The rule was taken out, and what was to replace it was not accepted.
Lose ==
    /\ mode = "storing"
    /\ \E i \in DOMAIN book : book' = Without(book, i)
    /\ inForce' = Effective(book', on)
    /\ Moves
    /\ UNCHANGED <<waiting, on>>

Proceed ==
    /\ Moves
    /\ UNCHANGED <<waiting, book, on, inForce>>

Switch ==
    /\ on' \in [Kinds -> BOOLEAN]
    /\ inForce' = Effective(book, on')
    /\ UNCHANGED <<waiting, book, rows, mode>>

\* The process starts again: it knows the rows that wait.
Restart ==
    /\ mode' = "closed"
    /\ rows' = waiting
    /\ UNCHANGED <<waiting, book, on, inForce>>

\* The client visits the table after a while: it sees what there is.
Reload ==
    /\ mode = "closed" /\ mode' = "open"
    /\ rows' = waiting \cup DOMAIN book
    /\ UNCHANGED <<waiting, book, on, inForce>>

Next ==
    \/ Create \/ Withdraw \/ Drop
    \/ Store \/ Lose \/ Proceed
    \/ Switch \/ Restart \/ Reload

Spec == Init /\ [][Next]_vars
=============================================================================
