----------------------------- MODULE VideoService -----------------------------
(***************************************************************************)
(* Device.X_RDKCENTRAL-COM_VideoService.Enabled                             *)
(* (cosa_x_rdkcentral_com_videoservice_dml.c).                              *)
(*                                                                          *)
(* The data-model thread stores the switch, and for a service that is being *)
(* enabled starts a worker thread, which lowers the firewall level, leaves  *)
(* bridge mode and turns MoCA on.  While the switch is stored as on, the    *)
(* handlers of the firewall level and of the LAN mode refuse to go back     *)
(* (cosa_x_cisco_com_security_dml.c, cosa_x_cisco_com_devicecontrol_dml.c). *)
(*                                                                          *)
(* A handler is taken in the steps between which a worker can run; the      *)
(* calls of a worker into the data model are steps of their own.            *)
(*                                                                          *)
(* The switch outlives the process and the worker does not: a process may   *)
(* start with the switch stored as on that no worker has followed.          *)
(***************************************************************************)
CONSTANT Workers   \* bound: threads that may exist at one time

\* pthread_create, syscfg_set_commit, the calls into the data model and to
\* MoCA, and the worker's syscfg_get fail; the process is started again.
AllFaults == {"create", "store", "call", "moca", "restart"}

\* The text of the stored switch: never written, or empty, "0" and "1".
Switches == {"unset", "", "0", "1"}
Levels   == {"High", "Medium"}
Modes    == {"router", "bridge"}

VARIABLES
    stored,      \* syscfg X_RDKCENTRAL-COM_VIDEOSERVICE
    inProgress,  \* videoServiceEnableInProgress
    mutex,       \* g_videoservice_mutex is held
    pc,          \* where SetParamBoolValue is
    bval,        \* what it is going to store
    worker,      \* where each thread is
    level,       \* Device.X_CISCO_COM_Security.Firewall.FirewallLevel
    mode,        \* LanManagementEntry.1.LanMode
    moca,        \* Device.MoCA.Interface.1.Enable
    cut,         \* history: the stored "1" is of a process that ended before its
                 \* worker did
    faults       \* what may fail in this behaviour

handler == <<stored, pc, bval>>
gateway == <<level, mode, moca>>
system  == <<handler, inProgress, mutex, worker, gateway, cut>>
vars    == <<system, faults>>

Running == {w \in Workers : worker[w] # "none"}

\* Every variable stays within its type.
TypeOK ==
    /\ stored \in Switches
    /\ inProgress \in BOOLEAN
    /\ mutex \in BOOLEAN
    /\ pc \in {"idle", "start", "locked", "unlock", "store"}
    /\ bval \in {"", "0", "1"}
    /\ worker \in [Workers -> {"none", "getLevel", "setLevel", "getMode", "setMode", "getMoca",
                               "setMoca", "clear"}]
    /\ level \in Levels
    /\ mode \in Modes
    /\ moca \in BOOLEAN
    /\ cut \in BOOLEAN
    /\ faults \subseteq AllFaults

\* What VideoService_GetParamBoolValue answers to the other handlers.
Enabled == stored = "1"

\* What an enabled service needs.
Reachable == level # "High" /\ mode = "router"

\* The flag starts down, whatever is stored.
Init ==
    /\ stored \in Switches
    /\ inProgress = FALSE /\ mutex = FALSE
    /\ pc = "idle" /\ bval = ""
    /\ worker = [w \in Workers |-> "none"]
    /\ level \in Levels /\ mode \in Modes /\ moca \in BOOLEAN
    /\ cut = (Enabled /\ ~Reachable)
    /\ faults \in SUBSET AllFaults

\* The threads are gone, and what is stored stays.
Restart ==
    /\ "restart" \in faults
    /\ inProgress' = FALSE /\ mutex' = FALSE
    /\ pc' = "idle" /\ bval' = ""
    /\ worker' = [w \in Workers |-> "none"]
    /\ cut' = (Enabled /\ (cut \/ Running # {}))
    /\ UNCHANGED <<stored, gateway>>

----------------------------------------------------------------------------
(* The data-model thread.  It executes one handler at a time.               *)

\* SetParamBoolValue(FALSE).
SetFalse ==
    /\ pc = "idle"
    /\ bval' = "0"
    /\ pc' = "store"
    /\ UNCHANGED <<stored, inProgress, mutex, worker, gateway, cut>>

\* Seeded fault: the value is chosen before the flag is looked at.
SetTrueChosen ==
    /\ pc = "idle"
    /\ stored # "1"
    /\ bval' = "1"
    /\ pc' = IF inProgress THEN "store" ELSE "start"
    /\ UNCHANGED <<stored, inProgress, mutex, worker, gateway, cut>>

\* SetParamBoolValue(TRUE): nothing to do when "1" is stored; the flag is read
\* without the mutex, and when it is up an empty value is stored.
SetTrue ==
    /\ pc = "idle"
    /\ stored # "1"
    /\ IF inProgress THEN bval' = "" /\ pc' = "store"
                     ELSE bval' = "1" /\ pc' = "start"
    /\ UNCHANGED <<stored, inProgress, mutex, worker, gateway, cut>>

Lock ==
    /\ pc = "start" /\ ~mutex
    /\ mutex' = TRUE
    /\ inProgress' = TRUE
    /\ pc' = "locked"
    /\ UNCHANGED <<stored, bval, worker, gateway, cut>>

\* pthread_create.
Create ==
    /\ pc = "locked"
    /\ \E w \in Workers :
          /\ worker[w] = "none"
          /\ worker' = [worker EXCEPT ![w] = "getLevel"]
    /\ pc' = "unlock"
    /\ UNCHANGED <<stored, inProgress, mutex, bval, gateway, cut>>

\* It fails: the handler unlocks and returns; the flag stays up.
CreateFails ==
    /\ pc = "locked"
    /\ "create" \in faults
    /\ mutex' = FALSE
    /\ pc' = "idle"
    /\ UNCHANGED <<stored, inProgress, bval, worker, gateway, cut>>

Unlock ==
    /\ pc = "unlock"
    /\ mutex' = FALSE
    /\ pc' = "store"
    /\ UNCHANGED <<stored, inProgress, bval, worker, gateway, cut>>

\* syscfg_set_commit; the handler returns TRUE in any case.
Store ==
    /\ pc = "store"
    /\ \/ stored' = bval /\ cut' = FALSE
       \/ "store" \in faults /\ UNCHANGED <<stored, cut>>
    /\ pc' = "idle"
    /\ UNCHANGED <<inProgress, mutex, bval, worker, gateway>>

\* Firewall1_SetParamUlongValue and its commit.
SetFirewallLevel ==
    /\ pc = "idle"
    /\ level' \in Levels
    /\ Enabled => level' # "High"
    /\ UNCHANGED <<handler, inProgress, mutex, worker, mode, moca, cut>>

\* LanMngm_SetParamUlongValue and its commit.
SetLanMode ==
    /\ pc = "idle"
    /\ mode' \in Modes
    /\ Enabled => mode' = "router"
    /\ UNCHANGED <<handler, inProgress, mutex, worker, level, moca, cut>>

\* MoCA belongs to another component.
MocaTurnsOff ==
    /\ moca' = FALSE
    /\ UNCHANGED <<handler, inProgress, mutex, worker, level, mode, cut>>

----------------------------------------------------------------------------
(* The worker, SetVideoServiceConfig.                                       *)

Goto(w, from, to) == worker[w] = from /\ worker' = [worker EXCEPT ![w] = to]
Waits == UNCHANGED <<handler, inProgress, mutex, cut>>

\* A call that fails ends the work.
CallFails(w) ==
    /\ "call" \in faults
    /\ \E from \in {"getLevel", "setLevel", "getMode", "setMode", "setMoca"} : Goto(w, from, "clear")
    /\ UNCHANGED gateway /\ Waits

GetLevel(w) ==
    /\ Goto(w, "getLevel", IF level = "High" THEN "setLevel" ELSE "getMode")
    /\ UNCHANGED gateway /\ Waits

SetLevel(w) ==
    /\ Goto(w, "setLevel", "getMode")
    /\ level' = "Medium"
    /\ UNCHANGED <<mode, moca>> /\ Waits

\* Seeded fault: the flag is reset before the mode is changed.
GetModeEarly(w) ==
    /\ Goto(w, "getMode", IF mode = "bridge" THEN "setMode" ELSE "getMoca")
    /\ inProgress' = FALSE
    /\ UNCHANGED <<handler, mutex, gateway, cut>>

\* is_usg_in_bridge_mode.
GetMode(w) ==
    /\ Goto(w, "getMode", IF mode = "bridge" THEN "setMode" ELSE "getMoca")
    /\ UNCHANGED gateway /\ Waits

SetMode(w) ==
    /\ Goto(w, "setMode", "getMoca")
    /\ mode' = "router"
    /\ UNCHANGED <<level, moca>> /\ Waits

GetMoca(w) ==
    /\ Goto(w, "getMoca", IF moca THEN "clear" ELSE "setMoca")
    /\ UNCHANGED gateway /\ Waits

\* The thread returns at once, with the flag up.
GetMocaFails(w) ==
    /\ "moca" \in faults
    /\ Goto(w, "getMoca", "none")
    /\ UNCHANGED gateway /\ Waits

SetMoca(w) ==
    /\ Goto(w, "setMoca", "clear")
    /\ moca' = TRUE
    /\ UNCHANGED <<level, mode>> /\ Waits

\* Seeded fault: the thread leaves the flag up.
ClearNothing(w) ==
    /\ ~mutex
    /\ Goto(w, "clear", "none")
    /\ UNCHANGED inProgress
    /\ UNCHANGED <<handler, mutex, gateway, cut>>

\* Lock, reset the flag, unlock; the end of every path but one.
Clear(w) ==
    /\ ~mutex
    /\ Goto(w, "clear", "none")
    /\ inProgress' = FALSE
    /\ UNCHANGED <<handler, mutex, gateway, cut>>

Work(w) ==
    \/ CallFails(w) \/ GetLevel(w) \/ SetLevel(w) \/ GetMode(w) \/ SetMode(w)
    \/ GetMoca(w) \/ GetMocaFails(w) \/ SetMoca(w) \/ Clear(w)

\* A handler that has started.
Handle == Lock \/ Create \/ CreateFails \/ Unlock \/ Store

Next ==
    /\ \/ SetFalse \/ SetTrue \/ Handle
       \/ SetFirewallLevel \/ SetLanMode \/ MocaTurnsOff
       \/ \E w \in Workers : Work(w)
       \/ Restart
    /\ UNCHANGED faults

\* The system schedules every thread.  Weak fairness is enough for the mutex:
\* while a worker wants it no handler takes it again.
Fairness == WF_system(Handle) /\ \A w \in Workers : WF_system(Work(w))

Spec == Init /\ [][Next]_vars /\ Fairness

----------------------------------------------------------------------------
(* Properties.                                                              *)

\* There is at most one worker, although the flag that is to ensure it is
\* read before the mutex is taken (VideoService_SetParamBoolValue), and a
\* thread that runs has its flag up.
OneWorker ==
    /\ \A v, w \in Running : v = w
    /\ Running # {} => inProgress

\* When calls do not fail: with the service on and no worker under way the
\* firewall is not on its high level and the gateway routes, although clients
\* may switch the service off and on and set both while the worker is between
\* two steps, and the process may be started again once the worker is done;
\* unless the stored switch is of a process that ended before its worker, for
\* which no new worker is started (SetVideoServiceConfig,
\* Firewall1_SetParamUlongValue, LanMngm_SetParamUlongValue).
ServiceReachable ==
    "call" \notin faults /\ Enabled /\ ~cut /\ ~inProgress /\ pc = "idle" => Reachable

\* When the thread can be created and the worker reads moca_enabled, the flag
\* comes down again on every other path of the worker; with the flag up every
\* request to enable the service would store an empty value
\* (SetVideoServiceConfig).
WorkEnds == faults \cap {"create", "moca"} = {} /\ inProgress ~> ~inProgress

=============================================================================
