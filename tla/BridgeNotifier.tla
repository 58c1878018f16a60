--------------------------- MODULE BridgeNotifier ---------------------------
(***************************************************************************)
(* Bridge mode and the WiFi component                                       *)
(* (source-arm/.../cosa_x_cisco_com_devicecontrol_apis.c, the XF3 build).   *)
(* A commit of the LAN mode stores bridge_mode and starts a notifier thread *)
(* that switches the radios and the private SSIDs to match, in several      *)
(* calls to another process.  Each notifier holds a ticket and waits until  *)
(* its number is served; the clerk is a plain counter.                      *)
(*                                                                          *)
(* One data-model thread runs the handlers.  A notifier is named by its     *)
(* ticket.                                                                  *)
(***************************************************************************)
EXTENDS Integers

CONSTANTS
    MaxTickets,  \* bound: notifiers since the process started
    FaultSets    \* what may happen in a behaviour: subsets of AllFaults

\* The WiFi component is not found, no thread is created, the number of radios
\* cannot be read, a call to the WiFi component fails, the process ends.
AllFaults == {"component", "task", "count", "set", "crash"}

Modes   == {"router", "static", "fullstatic"}
Tickets == 1 .. MaxTickets

ASSUME MaxTicketsAssumption == MaxTickets \in Nat
ASSUME BnFaultsAssumption == FaultSets \subseteq SUBSET AllFaults

\* The parameters of the WiFi component: radios 1 and 2 with the home-security
\* SSID, radio 3, the private SSIDs of radios 1 and 2, that of radio 3.
Radios == {"radios", "radio3"}
Ssids  == {"ssids", "ssid3"}
Params == Radios \cup Ssids

VARIABLES
    mode,         \* bridge_mode in syscfg
    dm,           \* the data-model thread: idle, or about to call configBridgeMode
    totalticket,  \* tickets handed out
    curticket,    \* the ticket that is served
    pc,           \* ticket -> where its notifier is
    aim,          \* ticket -> what its notifier decided to set
    staged,       \* the parameters the WiFi component holds
    wifi,         \* the parameters it runs with
    faults        \* what may happen in this behaviour

system == <<mode, dm, totalticket, curticket, pc, aim, staged, wifi>>
vars   == <<system, faults>>

Setting  == [Params -> BOOLEAN]
Aim      == [to : Setting, over : SUBSET Params]
Started  == {"radios", "ssids", "apply", "leave"}
Stations == {"none", "waiting", "done", "lost"} \cup Started

\* Every variable stays within its type.
TypeOK ==
    /\ mode \in Modes
    /\ dm \in {"idle", "config"}
    /\ totalticket \in 0 .. MaxTickets
    /\ curticket \in 1 .. MaxTickets + 1
    /\ pc \in [Tickets -> Stations]
    /\ aim \in [Tickets -> Aim]
    /\ staged \in Setting
    /\ wifi \in Setting
    /\ faults \in FaultSets

\* acSetRadioString and acSetSSIDString of a mode.
Wanted(m) == [p \in Params |-> IF p \in Radios THEN m # "fullstatic" ELSE m = "router"]

NoAim == [to |-> Wanted("router"), over |-> {}]

Init ==
    /\ mode \in Modes
    /\ dm = "idle"
    /\ totalticket = 0
    /\ curticket = 1
    /\ pc = [t \in Tickets |-> "none"]
    /\ aim = [t \in Tickets |-> NoAim]
    /\ staged = Wanted(mode)
    /\ wifi = Wanted(mode)
    /\ faults \in FaultSets

----------------------------------------------------------------------------
(* The data-model thread.                                                   *)

\* Seeded fault: a notifier under way is taken to set the new mode as well.
SetConfMerged ==
    /\ dm = "idle"
    /\ totalticket < MaxTickets
    /\ \E m \in Modes \ {mode} : mode' = m
    /\ dm' = IF \E t \in Tickets : pc[t] \in {"waiting"} \cup Started THEN "idle" ELSE "config"
    /\ UNCHANGED <<totalticket, curticket, pc, aim, staged, wifi>>

\* CosaDmlLanMngm_SetConf up to the commit; with the mode it had it is over.
SetConf ==
    /\ dm = "idle"
    /\ totalticket < MaxTickets
    /\ \E m \in Modes \ {mode} : mode' = m
    /\ dm' = "config"
    /\ UNCHANGED <<totalticket, curticket, pc, aim, staged, wifi>>

\* CosaDmlDcSetErouterEnabled starts a notifier without storing a mode.
SetErouterEnabled ==
    /\ dm = "idle"
    /\ totalticket < MaxTickets
    /\ dm' = "config"
    /\ UNCHANGED <<mode, totalticket, curticket, pc, aim, staged, wifi>>

\* configBridgeMode: a ticket and a thread, unless the component is missing.
ConfigBridgeMode ==
    /\ dm = "config"
    /\ dm' = "idle"
    /\ totalticket' = totalticket + 1
    /\ \E s \in {"waiting"} \cup (IF "task" \in faults THEN {"lost"} ELSE {}) :
          pc' = [pc EXCEPT ![totalticket + 1] = s]
    /\ UNCHANGED <<mode, curticket, aim, staged, wifi>>

NoComponent ==
    /\ "component" \in faults
    /\ dm = "config"
    /\ dm' = "idle"
    /\ UNCHANGED <<mode, totalticket, curticket, pc, aim, staged, wifi>>

----------------------------------------------------------------------------
(* A notifier.                                                              *)

\* Seeded fault: nobody waits.
ServedAtOnce(t) == TRUE

\* checkTicket.
Served(t) == t = curticket

\* What can be set, by the answer for RadioNumberOfEntries.
Reach == {Params} \cup (IF "count" \in faults THEN {{"radios", "ssids"}} ELSE {})

\* Its turn comes: bridge_mode is read.
TakeTurn(t) ==
    /\ pc[t] = "waiting"
    /\ Served(t)
    /\ \E r \in Reach : aim' = [aim EXCEPT ![t] = [to |-> Wanted(mode), over |-> r]]
    /\ pc' = [pc EXCEPT ![t] = "radios"]
    /\ UNCHANGED <<mode, dm, totalticket, curticket, staged, wifi>>

Merge(old, t, S) == [p \in Params |-> IF p \in S \cap aim[t].over THEN aim[t].to[p] ELSE old[p]]

\* A call to the component, whose failure is only logged.
Call(var, val) == val \cup (IF "set" \in faults THEN {var} ELSE {})

SetRadios(t) ==
    /\ pc[t] = "radios"
    /\ staged' \in Call(staged, {Merge(staged, t, Radios)})
    /\ pc' = [pc EXCEPT ![t] = "ssids"]
    /\ UNCHANGED <<mode, dm, totalticket, curticket, aim, wifi>>

SetSsids(t) ==
    /\ pc[t] = "ssids"
    /\ staged' \in Call(staged, {Merge(staged, t, Ssids)})
    /\ pc' = [pc EXCEPT ![t] = "apply"]
    /\ UNCHANGED <<mode, dm, totalticket, curticket, aim, wifi>>

\* Seeded fault: the thread returns when the settings cannot be applied.
ApplyReturns(t) ==
    /\ pc[t] = "apply"
    /\ wifi' \in Call(wifi, {[p \in Params |-> IF p \in aim[t].over THEN staged[p] ELSE wifi[p]]})
    /\ pc' = [pc EXCEPT ![t] = IF wifi' = wifi /\ "set" \in faults THEN "done" ELSE "leave"]
    /\ UNCHANGED <<mode, dm, totalticket, curticket, aim, staged>>

\* The radios that are known are told to run with what they hold.
Apply(t) ==
    /\ pc[t] = "apply"
    /\ wifi' \in Call(wifi, {[p \in Params |-> IF p \in aim[t].over THEN staged[p] ELSE wifi[p]]})
    /\ pc' = [pc EXCEPT ![t] = "leave"]
    /\ UNCHANGED <<mode, dm, totalticket, curticket, aim, staged>>

\* The radios are reset, and the next ticket is served.
Leave(t) ==
    /\ pc[t] = "leave"
    /\ curticket' = curticket + 1
    /\ pc' = [pc EXCEPT ![t] = "done"]
    /\ UNCHANGED <<mode, dm, totalticket, aim, staged, wifi>>

Notify(t) == TakeTurn(t) \/ SetRadios(t) \/ SetSsids(t) \/ Apply(t) \/ Leave(t)

\* The process ends and is started again; the WiFi component goes on.
Restart ==
    /\ "crash" \in faults
    /\ dm' = "idle"
    /\ totalticket' = 0
    /\ curticket' = 1
    /\ pc' = [t \in Tickets |-> "none"]
    /\ aim' = [t \in Tickets |-> NoAim]
    /\ UNCHANGED <<mode, staged, wifi>>

Next ==
    /\ \/ SetConf \/ SetErouterEnabled \/ ConfigBridgeMode \/ NoComponent
       \/ \E t \in Tickets : Notify(t)
       \/ Restart
    /\ UNCHANGED faults

Spec == Init /\ [][Next]_vars

\* Every thread gets to run, and its calls return.
FairSpec == Spec /\ \A t \in Tickets : WF_system(Notify(t))

----------------------------------------------------------------------------
(* Properties.                                                              *)

\* "To make multi thread to exec sequentially": of all notifiers at most one
\* is between its turn and its end, whatever calls fail, threads are not
\* created, and however often the process is started again (checkTicket).
OneAtATime == \A t, u \in Tickets : pc[t] \in Started /\ pc[u] \in Started => t = u

\* When nothing fails: once the data-model thread is idle and every notifier is
\* done, the radios and SSIDs run as the stored mode wants, however many changes
\* of the mode came while earlier notifiers were waiting or between their calls
\* (bridge_mode_wifi_notifier_thread, CosaDmlLanMngm_SetConf).
WifiFollowsMode ==
    faults = {} /\ dm = "idle" /\ (\A t \in Tickets : pc[t] \in {"none", "done"}) =>
        wifi = Wanted(mode)

\* When threads can be created and the process goes on, every notifier's turn
\* comes and ends, although calls to the WiFi component fail and it may not be
\* found (checkTicket, curticket++).
TurnComes ==
    \A t \in Tickets :
        faults \cap {"task", "crash"} = {} /\ pc[t] = "waiting" ~> pc[t] = "done"

=============================================================================
