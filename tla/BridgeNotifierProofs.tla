------------------------ MODULE BridgeNotifierProofs ------------------------
(***************************************************************************)
(* The tickets keep the notifiers apart, and the last of them leaves the    *)
(* WiFi component as the stored bridge mode wants it.                       *)
(***************************************************************************)
EXTENDS BridgeNotifier, TLAPS

----------------------------------------------------------------------------
(* The tickets.                                                             *)

\* A notifier between its turn and its end holds the ticket that is served.
Turns == \A t \in Tickets : pc[t] \in Started => t = curticket

\* There is a number left for the call the data-model thread is about to make.
Room == dm = "config" => totalticket < MaxTickets

\* The inductive invariant for OneAtATime.
Inv == TypeOK /\ Room /\ Turns

LEMMA WantedType == \A m \in Modes : Wanted(m) \in Setting
BY DEF Wanted, Setting

LEMMA NoAimType == NoAim \in Aim
BY WantedType DEF NoAim, Aim, Modes

\* The initial states satisfy the invariant.
LEMMA InitInv == Init => Inv
<1> SUFFICES ASSUME Init PROVE Inv
  OBVIOUS
<1>1. TypeOK
  BY WantedType, NoAimType, MaxTicketsAssumption DEF Init, TypeOK, Stations
<1>2. Room /\ Turns
  BY DEF Init, Room, Turns, Started
<1> QED BY <1>1, <1>2 DEF Inv

\* What a notifier does to the WiFi component stays within its parameters.
LEMMA MergeType ==
    ASSUME TypeOK, NEW t \in Tickets, NEW S, NEW old \in Setting
    PROVE  /\ Merge(old, t, S) \in Setting
           /\ [p \in Params |-> IF p \in aim[t].over THEN staged[p] ELSE old[p]] \in Setting
BY DEF TypeOK, Merge, Aim, Setting

\* Each step of a notifier keeps the invariant.
LEMMA NotifyInv ==
    ASSUME Inv, NEW t \in Tickets, Notify(t), UNCHANGED faults
    PROVE  Inv'
<1>0. TypeOK /\ Room /\ Turns
  BY DEF Inv
<1>1. CASE TakeTurn(t)
  <2>1. PICK r \in Reach : aim' = [aim EXCEPT ![t] = [to |-> Wanted(mode), over |-> r]]
    BY <1>1 DEF TakeTurn
  <2>2. [to |-> Wanted(mode), over |-> r] \in Aim
    BY <1>0, WantedType DEF Aim, Reach, Params, Radios, Ssids, TypeOK
  <2>3. TypeOK'
    BY <1>0, <1>1, <2>1, <2>2 DEF TypeOK, TakeTurn, Stations, Started
  <2>4. Room' /\ Turns'
    BY <1>0, <1>1 DEF TypeOK, TakeTurn, Served, Room, Turns
  <2> QED BY <2>3, <2>4 DEF Inv
<1>2. CASE SetRadios(t)
  <2>1. staged' \in Setting
    BY <1>0, <1>2, MergeType DEF SetRadios, Call, TypeOK
  <2>2. TypeOK'
    BY <1>0, <1>2, <2>1 DEF TypeOK, SetRadios, Stations, Started
  <2>3. Room' /\ Turns'
    BY <1>0, <1>2 DEF TypeOK, SetRadios, Room, Turns, Started
  <2> QED BY <2>2, <2>3 DEF Inv
<1>3. CASE SetSsids(t)
  <2>1. staged' \in Setting
    BY <1>0, <1>3, MergeType DEF SetSsids, Call, TypeOK
  <2>2. TypeOK'
    BY <1>0, <1>3, <2>1 DEF TypeOK, SetSsids, Stations, Started
  <2>3. Room' /\ Turns'
    BY <1>0, <1>3 DEF TypeOK, SetSsids, Room, Turns, Started
  <2> QED BY <2>2, <2>3 DEF Inv
<1>4. CASE Apply(t)
  <2>1. wifi' \in Setting
    BY <1>0, <1>4, MergeType DEF Apply, Call, TypeOK
  <2>2. TypeOK'
    BY <1>0, <1>4, <2>1 DEF TypeOK, Apply, Stations, Started
  <2>3. Room' /\ Turns'
    BY <1>0, <1>4 DEF TypeOK, Apply, Room, Turns, Started
  <2> QED BY <2>2, <2>3 DEF Inv
<1>5. CASE Leave(t)
  <2>1. t = curticket
    BY <1>0, <1>5 DEF Leave, Turns, Started
  <2>2. curticket' \in 1 .. MaxTickets + 1
    BY <1>5, <2>1, MaxTicketsAssumption DEF Leave, Tickets
  <2>3. TypeOK'
    BY <1>0, <1>5, <2>2 DEF TypeOK, Leave, Stations
  <2>4. Room' /\ Turns'
    BY <1>0, <1>5, <2>1 DEF TypeOK, Leave, Room, Turns, Started
  <2> QED BY <2>3, <2>4 DEF Inv
<1> QED BY <1>1, <1>2, <1>3, <1>4, <1>5 DEF Notify

\* Every step keeps the invariant.
LEMMA StepInv == Inv /\ [Next]_vars => Inv'
<1> SUFFICES ASSUME Inv, [Next]_vars PROVE Inv'
  OBVIOUS
<1>0. TypeOK /\ Room /\ Turns
  BY DEF Inv
<1>f. faults' = faults
  BY DEF Next, vars
<1>1. CASE SetConf
  BY <1>0, <1>f, <1>1 DEF SetConf, Inv, TypeOK, Room, Turns
<1>2. CASE SetErouterEnabled
  BY <1>0, <1>f, <1>2 DEF SetErouterEnabled, Inv, TypeOK, Room, Turns
<1>3. CASE ConfigBridgeMode
  <2>1. totalticket + 1 \in Tickets
    BY <1>0, <1>f, <1>3, MaxTicketsAssumption DEF ConfigBridgeMode, Room, TypeOK, Tickets
  <2>2. PICK s \in {"waiting", "lost"} : pc' = [pc EXCEPT ![totalticket + 1] = s]
    BY <1>3 DEF ConfigBridgeMode
  <2>3. TypeOK'
    BY <1>0, <1>f, <1>3, <2>1, <2>2 DEF ConfigBridgeMode, TypeOK, Stations, Tickets
  <2>4. Room' /\ Turns'
    BY <1>0, <1>f, <1>3, <2>1, <2>2 DEF ConfigBridgeMode, TypeOK, Room, Turns, Started
  <2> QED BY <2>3, <2>4 DEF Inv
<1>4. CASE NoComponent
  BY <1>0, <1>f, <1>4 DEF NoComponent, Inv, TypeOK, Room, Turns
<1>5. CASE \E t \in Tickets : Notify(t)
  BY <1>5, <1>f, NotifyInv
<1>6. CASE Restart
  <2>1. TypeOK'
    BY <1>0, <1>f, <1>6, NoAimType, MaxTicketsAssumption DEF Restart, TypeOK, Stations
  <2>2. Room' /\ Turns'
    BY <1>6 DEF Restart, Room, Turns, Started
  <2> QED BY <2>1, <2>2 DEF Inv
<1>7. CASE UNCHANGED vars
  BY <1>0, <1>f, <1>7 DEF vars, system, Inv, TypeOK, Room, Turns
<1> QED BY <1>1, <1>2, <1>3, <1>4, <1>5, <1>6, <1>7 DEF Next

\* At most one notifier is at work, for every number of changes of the mode
\* and with every fault.
THEOREM NotifiersExclude == Spec => []OneAtATime
<1>1. Inv => OneAtATime
  BY DEF Inv, Turns, OneAtATime
<1> QED BY <1>1, InitInv, StepInv, PTL DEF Spec

----------------------------------------------------------------------------
(* The mode reaches the WiFi component, when no call fails.                 *)

\* The numbers that are in use are those handed out.
Issued == \A t \in Tickets : (pc[t] # "none" <=> t <= totalticket) /\ pc[t] # "lost"

\* What a notifier has done so far: it sets every parameter, in three calls.
Progress ==
    \A t \in Tickets :
        /\ pc[t] \in Started => aim[t].over = Params
        /\ pc[t] \in {"ssids", "apply", "leave"} => \A p \in Radios : staged[p] = aim[t].to[p]
        /\ pc[t] \in {"apply", "leave"} => \A p \in Ssids : staged[p] = aim[t].to[p]
        /\ pc[t] = "leave" => wifi = aim[t].to

\* The last notifier has still to read the mode, or is setting the stored one,
\* or is done and has left the component with it.
Current ==
    dm = "idle" =>
        \/ curticket = totalticket + 1 /\ wifi = Wanted(mode)
        \/ totalticket \in Tickets /\ pc[totalticket] = "waiting"
        \/ /\ totalticket \in Tickets /\ pc[totalticket] \in Started
           /\ aim[totalticket].to = Wanted(mode)

\* The inductive invariant for WifiFollowsMode.
FollowInv == Issued /\ Progress /\ Current

\* When every notifier is done, the last one was.
LEMMA FollowImplies == Inv /\ FollowInv => WifiFollowsMode
<1> SUFFICES ASSUME Inv, FollowInv, dm = "idle",
                    \A t \in Tickets : pc[t] \in {"none", "done"}
             PROVE  wifi = Wanted(mode)
  BY DEF WifiFollowsMode
<1> QED BY DEF FollowInv, Current, Started

\* Each step of a notifier keeps the invariant.
LEMMA NotifyFollow ==
    ASSUME faults = {}, Inv, FollowInv, NEW t \in Tickets, Notify(t)
    PROVE  FollowInv'
<1>0. TypeOK /\ Turns /\ Issued /\ Progress /\ Current
  BY DEF Inv, FollowInv
<1>1. /\ \A var, val : Call(var, val) = val
      /\ Reach = {Params}
  BY DEF Call, Reach
<1>2. /\ t \in Nat /\ curticket \in Nat /\ totalticket \in Nat
      /\ pc \in [Tickets -> Stations] /\ aim \in [Tickets -> Aim]
      /\ staged \in Setting /\ wifi \in Setting
  BY <1>0, MaxTicketsAssumption DEF TypeOK, Tickets
\* A notifier at work holds a ticket that was handed out.
<1>3. pc[t] # "none" => t <= totalticket
  BY <1>0 DEF Issued
<1>4. CASE TakeTurn(t)
  <2>1. /\ t = curticket
        /\ aim' = [aim EXCEPT ![t] = [to |-> Wanted(mode), over |-> Params]]
        /\ pc' = [pc EXCEPT ![t] = "radios"]
        /\ pc[t] = "waiting"
        /\ UNCHANGED <<mode, dm, totalticket, curticket, staged, wifi>>
    BY <1>1, <1>4 DEF TakeTurn, Served
  <2>2. Issued'
    BY <1>0, <1>2, <2>1 DEF Issued
  <2>3. Progress'
    BY <1>0, <1>2, <2>1 DEF Progress, Started
  <2>4. Current'
    BY <1>0, <1>2, <1>3, <2>1 DEF Current, Started
  <2> QED BY <2>2, <2>3, <2>4 DEF FollowInv
<1>5. CASE SetRadios(t)
  <2>1. /\ pc[t] = "radios" /\ pc' = [pc EXCEPT ![t] = "ssids"]
        /\ staged' = Merge(staged, t, Radios)
        /\ UNCHANGED <<mode, dm, totalticket, curticket, aim, wifi>>
    BY <1>1, <1>5 DEF SetRadios
  <2>2. Issued'
    BY <1>0, <1>2, <2>1 DEF Issued
  <2>3. \A p \in Radios : staged'[p] = aim[t].to[p]
    BY <1>0, <2>1 DEF Progress, Started, Merge, Params
  <2>4. \A u \in Tickets : u # t => pc[u] \notin Started
    BY <1>0, <2>1 DEF Turns, Started
  <2>5. Progress'
    BY <1>0, <1>2, <2>1, <2>3, <2>4 DEF Progress, Started
  <2>6. Current'
    BY <1>0, <1>2, <1>3, <2>1 DEF Current, Turns, Started
  <2> QED BY <2>2, <2>5, <2>6 DEF FollowInv
<1>6. CASE SetSsids(t)
  <2>1. /\ pc[t] = "ssids" /\ pc' = [pc EXCEPT ![t] = "apply"]
        /\ staged' = Merge(staged, t, Ssids)
        /\ UNCHANGED <<mode, dm, totalticket, curticket, aim, wifi>>
    BY <1>1, <1>6 DEF SetSsids
  <2>2. Issued'
    BY <1>0, <1>2, <2>1 DEF Issued
  <2>3. /\ \A p \in Ssids : staged'[p] = aim[t].to[p]
        /\ \A p \in Radios : staged'[p] = aim[t].to[p]
    BY <1>0, <2>1 DEF Progress, Started, Merge, Params, Radios, Ssids
  <2>4. \A u \in Tickets : u # t => pc[u] \notin Started
    BY <1>0, <2>1 DEF Turns, Started
  <2>5. Progress'
    BY <1>0, <1>2, <2>1, <2>3, <2>4 DEF Progress, Started
  <2>6. Current'
    BY <1>0, <1>2, <1>3, <2>1 DEF Current, Turns, Started
  <2> QED BY <2>2, <2>5, <2>6 DEF FollowInv
<1>7. CASE Apply(t)
  <2>1. /\ pc[t] = "apply" /\ pc' = [pc EXCEPT ![t] = "leave"]
        /\ wifi' = [p \in Params |-> IF p \in aim[t].over THEN staged[p] ELSE wifi[p]]
        /\ UNCHANGED <<mode, dm, totalticket, curticket, aim, staged>>
    BY <1>1, <1>7 DEF Apply
  <2>2. Issued'
    BY <1>0, <1>2, <2>1 DEF Issued
  <2>3. wifi' = aim[t].to
    <3>1. \A p \in Params : p \in aim[t].over /\ staged[p] = aim[t].to[p]
      BY <1>0, <2>1 DEF Progress, Started, Params
    <3>2. aim[t].to \in [Params -> BOOLEAN]
      BY <1>2 DEF Aim, Setting
    <3> QED BY <2>1, <3>1, <3>2
  <2>4. \A u \in Tickets : u # t => pc[u] \notin Started
    BY <1>0, <2>1 DEF Turns, Started
  <2>5. Progress'
    BY <1>0, <1>2, <2>1, <2>3, <2>4 DEF Progress, Started
  <2>6. Current'
    BY <1>0, <1>2, <1>3, <2>1 DEF Current, Turns, Started
  <2> QED BY <2>2, <2>5, <2>6 DEF FollowInv
<1>8. CASE Leave(t)
  <2>1. /\ pc[t] = "leave" /\ pc' = [pc EXCEPT ![t] = "done"]
        /\ curticket' = curticket + 1
        /\ UNCHANGED <<mode, dm, totalticket, aim, staged, wifi>>
    BY <1>8 DEF Leave
  <2>2. Issued'
    BY <1>0, <1>2, <2>1 DEF Issued
  <2>3. Progress'
    BY <1>0, <1>2, <2>1 DEF Progress, Started
  <2>4. t = curticket /\ wifi = aim[t].to
    BY <1>0, <2>1 DEF Turns, Progress, Started
  <2>5. Current'
    BY <1>0, <1>2, <1>3, <2>1, <2>4 DEF Current, Turns, Started
  <2> QED BY <2>2, <2>3, <2>5 DEF FollowInv
<1> QED BY <1>4, <1>5, <1>6, <1>7, <1>8 DEF Notify

\* Every step keeps the invariant.
LEMMA StepFollow ==
    ASSUME faults = {}, Inv, FollowInv, [Next]_vars
    PROVE  FollowInv'
<1>0. TypeOK /\ Room /\ Issued /\ Progress /\ Current
  BY DEF Inv, FollowInv
<1>1. CASE SetConf \/ SetErouterEnabled
  <2>1. dm' = "config" /\ UNCHANGED <<totalticket, curticket, pc, aim, staged, wifi>>
    BY <1>1 DEF SetConf, SetErouterEnabled
  <2> QED BY <1>0, <2>1 DEF FollowInv, Issued, Progress, Current
<1>2. CASE ConfigBridgeMode
  <2>1. totalticket + 1 \in Tickets /\ totalticket \in Nat
    BY <1>0, <1>2, MaxTicketsAssumption DEF ConfigBridgeMode, Room, TypeOK, Tickets
  <2>2. /\ pc' = [pc EXCEPT ![totalticket + 1] = "waiting"]
        /\ totalticket' = totalticket + 1
        /\ UNCHANGED <<mode, curticket, aim, staged, wifi>>
    BY <1>2 DEF ConfigBridgeMode
  <2>3. Issued'
    BY <1>0, <2>1, <2>2 DEF Issued, TypeOK, Tickets
  <2>4. Progress'
    BY <1>0, <2>1, <2>2 DEF Progress, TypeOK, Started
  <2>5. Current'
    BY <1>0, <2>1, <2>2 DEF Current, TypeOK
  <2> QED BY <2>3, <2>4, <2>5 DEF FollowInv
<1>3. CASE NoComponent \/ Restart
  BY <1>3 DEF NoComponent, Restart
<1>4. CASE \E t \in Tickets : Notify(t)
  BY <1>4, NotifyFollow
<1>5. CASE UNCHANGED vars
  BY <1>0, <1>5 DEF vars, system, FollowInv, Issued, Progress, Current
<1> QED BY <1>1, <1>2, <1>3, <1>4, <1>5 DEF Next

\* When no call fails, the WiFi component ends up with the stored mode, for
\* every number of changes of the mode.
THEOREM WifiFollows == Spec => []WifiFollowsMode
<1> DEFINE Follow == faults = {} => FollowInv
<1>1. Init => Follow
  BY MaxTicketsAssumption DEF Init, FollowInv, Issued, Progress, Current, Started, Tickets
<1>2. Inv /\ Follow /\ [Next]_vars => Follow'
  BY StepFollow DEF Next, vars
<1>3. Inv /\ Follow => WifiFollowsMode
  BY FollowImplies DEF WifiFollowsMode
<1> QED BY <1>1, <1>2, <1>3, InitInv, StepInv, PTL DEF Spec
=============================================================================
