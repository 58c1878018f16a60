---------------------------- MODULE MCStaticLeases ----------------------------
(***************************************************************************)
(* Small instances of StaticLeases: one or two leases, macbinding blobs of  *)
(* none, one and two hosts, LAN blobs, and invalid blobs of both.           *)
(* In one group of scenarios a blob meets a store without a count, comments *)
(* on clients, and a table that the rollback of an earlier blob has left    *)
(* incomplete.                                                              *)
(***************************************************************************)
EXTENDS StaticLeases

Two == <<1, 2>>

MacBinding(s, ok) == [doc |-> "macbinding", valid |-> ok, leases |-> s, lan |-> 0]
LanBlob(v, ok)    == [doc |-> "lan", valid |-> ok, leases |-> <<>>, lan |-> v]

MCBlobs ==
    <<MacBinding(<<>>, TRUE), MacBinding(<<1, 2>>, TRUE), MacBinding(<<1>>, TRUE),
      MacBinding(<<2>>, FALSE), LanBlob(1, TRUE), LanBlob(2, TRUE), LanBlob(0, FALSE)>>

\* Clients of the table and of the LAN settings, and bridge mode.
MCScenarios ==
    {[blobs |-> {3}, requests |-> 1, failures |-> 1, clients |-> {"table"}, maxIns |-> 1,
      comments |-> {}],
     [blobs |-> {5, 6, 7}, requests |-> 3, failures |-> 2, clients |-> {"lan"}, maxIns |-> 0,
      comments |-> {}],
     [blobs |-> {1, 3}, requests |-> 3, failures |-> 2, clients |-> {}, maxIns |-> 0,
      comments |-> {}],
     [blobs |-> {3}, requests |-> 2, failures |-> 3, clients |-> {}, maxIns |-> 0,
      comments |-> {Notes, Comment(1), Note(2)}],
     [blobs |-> {1, 2, 4, 5, 7}, requests |-> 2, failures |-> 0, clients |-> {"bridge"}, maxIns |-> 0,
      comments |-> {}]}

=============================================================================
