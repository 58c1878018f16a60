--------------------------- MODULE MCDmzWebConfig ---------------------------
(***************************************************************************)
(* Small instances of DmzWebConfig: two hosts, and blobs that switch the    *)
(* DMZ on, switch it off, name no address, and name the broadcast address.  *)
(***************************************************************************)
EXTENDS DmzWebConfig

TurnOn(h) == [en |-> TRUE, ip |-> h]
TurnOff   == [en |-> FALSE, ip |-> Empty]

MCBlobs == {TurnOn(1), TurnOn(2), TurnOff, TurnOn(Empty), TurnOn(Broadcast)}

\* Either the process and the gateway fail, or the two threads interleave.
MCFaultSets == {{"powercut", "crash"}, {"crash", "overlap"}}

=============================================================================
