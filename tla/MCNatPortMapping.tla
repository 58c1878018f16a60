-------------------------- MODULE MCNatPortMapping --------------------------
(***************************************************************************)
(* Small instances of NatPortMapping.  The staged values are chosen so that *)
(* a single port and a range overlap, a rule moves between the tables, a    *)
(* rule is stored disabled, a port wraps to 0 in a USHORT, and each reason  *)
(* for Validate to refuse a row occurs.                                     *)
(***************************************************************************)
EXTENDS NatRuleBook

Value(en, lo, hi, pr, k) ==
    [bEnabled |-> en, ExternalPort |-> lo, ExternalPortEndRange |-> hi, Protocol |-> pr,
     kind |-> k, InternalClient |-> TRUE, Description |-> TRUE]

SinglePort  == Value(TRUE, 1, 1, 1, "pf")
UdpPort     == Value(TRUE, 1, 1, 2, "pf")
PortRange   == Value(TRUE, 1, 2, 3, "pf")
DisabledOne == Value(FALSE, 1, 1, 1, "pf")
HomeSec     == Value(TRUE, 1, 1, 2, "hs")
OneToOne    == Value(TRUE, 1, 1, 3, "nat")
NoProtocol  == Value(TRUE, 1, 1, 0, "nat")
Wrapping    == Value(TRUE, 4, 4, 257, "pf")
Nameless    == [SinglePort EXCEPT !.Description = FALSE]

MCOverlapCfgs == {PortRange, DisabledOne, HomeSec}
MCTableCfgs   == {SinglePort, PortRange, OneToOne, Nameless}
MCFaultCfgs   == {Wrapping, PortRange}
MCAliasCfgs   == {SinglePort, UdpPort}

MCNoFaults  == {{}}
MCFaultSets == {{"midcommit"}, {"registry"}}
=============================================================================
