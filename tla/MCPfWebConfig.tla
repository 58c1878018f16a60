--------------------------- MODULE MCPfWebConfig ---------------------------
(***************************************************************************)
(* Small instances of PfWebConfig: blobs of both tables and of different    *)
(* lengths, so that a rollback goes from a shorter and from a longer blob;  *)
(* an empty one; and one for each reason to refuse a blob, after an entry   *)
(* that has already been expanded.                                          *)
(***************************************************************************)
EXTENDS PfWebConfig

E(table, rule)   == [t |-> table, r |-> rule, verdict |-> "ok"]
X(table, reason) == [t |-> table, r |-> 9, verdict |-> reason]

MCBlobs == <<
    <<>>,
    <<E("pfr", 1)>>,
    <<E("spf", 2), E("spf", 3)>>,
    <<E("pfr", 4), X("spf", "protocol")>>,
    <<X("spf", "port")>> >>

MCNoFaults  == {{}}
MCFaultSets == {{"powercut"}, {"powercut", "crash"}, {"clients"}}
=============================================================================
