-------------------------- MODULE VideoServiceProofs --------------------------
(***************************************************************************)
(* At most one worker runs, and a service that is on can be reached.        *)
(***************************************************************************)
EXTENDS VideoService, TLAPS

\* The service is stored as on, or is going to be by the handler that started
\* a worker.
On == Enabled \/ (pc \in {"unlock", "store"} /\ bval = "1")

Before(stages) == \E w \in Workers : worker[w] \in stages

\* The mutex is held by the handler only between two of its steps; a handler
\* on its way to a new worker found the flag down, and nobody else raises it.
LockInv ==
    /\ mutex <=> pc \in {"locked", "unlock"}
    /\ pc = "start" => ~inProgress
    /\ pc \in {"start", "locked"} => Running = {} /\ bval = "1"
    /\ pc = "locked" => inProgress
    /\ pc = "unlock" => bval = "1"

\* A handler that is going to store "1" found another value, and the history is
\* about a stored "1".
CutInv ==
    /\ pc \in {"start", "locked", "unlock", "store"} /\ bval = "1" => ~Enabled
    /\ cut => Enabled

\* With the service on in this process, whatever is still in the way is ahead of a worker.
ReachInv ==
    On /\ ~cut =>
          /\ level # "High" \/ Before({"getLevel", "setLevel"})
          /\ mode = "router" \/ Before({"getLevel", "setLevel", "getMode", "setMode"})

Inv == TypeOK /\ LockInv /\ CutInv /\ OneWorker

-----------------------------------------------------------------------------

LEMMA InitInv == Init => Inv /\ ReachInv
<1> SUFFICES ASSUME Init PROVE Inv /\ ReachInv
  OBVIOUS
<1>1. cut \in BOOLEAN
  BY DEF Init
<1>2. TypeOK
  BY <1>1 DEF Init, TypeOK, Switches, Levels, Modes
<1>3. LockInv /\ OneWorker
  BY DEF Init, LockInv, OneWorker, Running
<1>4. CutInv /\ ReachInv
  BY DEF Init, CutInv, ReachInv, Reachable, On
<1> QED
  BY <1>2, <1>3, <1>4 DEF Inv

\* A step of one worker leaves the others where they are.
LEMMA GotoRunning ==
  ASSUME TypeOK, NEW w \in Workers, NEW from, NEW to, Goto(w, from, to), from # "none"
  PROVE  /\ w \in Running
         /\ Running' \subseteq Running
         /\ to = "none" => Running' = Running \ {w}
  BY DEF TypeOK, Goto, Running

LEMMA StepInv == Inv /\ [Next]_vars => Inv'
<1> SUFFICES ASSUME Inv, [Next]_vars PROVE Inv'
  OBVIOUS
<1> USE DEF Inv
<1>0. faults' = faults
  BY DEF Next, vars
<1>1. CASE SetFalse
  BY <1>0, <1>1 DEF SetFalse, TypeOK, LockInv, CutInv, Enabled, OneWorker, Running, gateway
<1>2. CASE SetTrue
  BY <1>0, <1>2 DEF SetTrue, TypeOK, LockInv, CutInv, Enabled, OneWorker, Running, gateway
<1>3. CASE Lock
  BY <1>0, <1>3 DEF Lock, TypeOK, LockInv, CutInv, Enabled, OneWorker, Running, gateway
<1>4. CASE Create
  <2>1. PICK w \in Workers : worker[w] = "none" /\ worker' = [worker EXCEPT ![w] = "getLevel"]
    BY <1>0, <1>4 DEF Create
  <2>2. Running' = {w}
    BY <1>4, <2>1 DEF Create, TypeOK, LockInv, Running
  <2>3. inProgress
    BY <1>0, <1>4 DEF Create, LockInv
  <2> QED
    BY <1>0, <1>4, <2>1, <2>2, <2>3 DEF Create, TypeOK, LockInv, CutInv, Enabled, OneWorker, gateway
<1>5. CASE CreateFails
  BY <1>0, <1>5 DEF CreateFails, TypeOK, LockInv, CutInv, Enabled, OneWorker, Running, gateway
<1>6. CASE Unlock
  BY <1>0, <1>6 DEF Unlock, TypeOK, LockInv, CutInv, Enabled, OneWorker, Running, gateway
<1>7. CASE Store
  <2>1. cut' \in BOOLEAN
    BY <1>7 DEF Store, TypeOK
  <2>2. TypeOK'
    BY <1>0, <1>7, <2>1 DEF Store, TypeOK, gateway, Switches
  <2>3. CutInv'
    BY <1>7 DEF Store, CutInv, Enabled
  <2> QED
    BY <1>7, <2>2, <2>3 DEF Store, LockInv, OneWorker, Running
<1>8. CASE SetFirewallLevel \/ SetLanMode \/ MocaTurnsOff
  <2>1. UNCHANGED <<stored, inProgress, mutex, pc, bval, worker, cut>>
    BY <1>0, <1>8 DEF SetFirewallLevel, SetLanMode, MocaTurnsOff, handler
  <2>2. level' \in Levels /\ mode' \in Modes /\ moca' \in BOOLEAN
    BY <1>0, <1>8 DEF SetFirewallLevel, SetLanMode, MocaTurnsOff, TypeOK
  <2> QED
    BY <1>0, <2>1, <2>2 DEF TypeOK, LockInv, CutInv, Enabled, OneWorker, Running
<1>9. CASE \E w \in Workers : Work(w)
  <2>1. PICK w \in Workers : Work(w)
    BY <1>9
  <2>2. TypeOK'
    BY <1>0, <2>1 DEF Work, CallFails, GetLevel, SetLevel, GetMode, SetMode, GetMoca, GetMocaFails,
                SetMoca, Clear, Goto, Waits, handler, gateway, TypeOK, Levels, Modes
  <2>3. w \in Running /\ Running' \subseteq Running
    BY <2>1 DEF Work, CallFails, GetLevel, SetLevel, GetMode, SetMode, GetMoca, GetMocaFails,
                SetMoca, Clear, Goto, TypeOK, Running
  <2>4. LockInv' /\ CutInv'
    BY <2>1, <2>3 DEF Work, CallFails, GetLevel, SetLevel, GetMode, SetMode, GetMoca,
                GetMocaFails, SetMoca, Clear, Waits, handler, LockInv, CutInv, Enabled
  <2>5. OneWorker'
    <3>1. CASE Clear(w)
      BY <2>3, <3>1 DEF Clear, Goto, TypeOK, OneWorker, Running
    <3>2. CASE ~Clear(w)
      BY <2>1, <2>3, <3>2 DEF Work, CallFails, GetLevel, SetLevel, GetMode, SetMode, GetMoca,
                GetMocaFails, SetMoca, Waits, OneWorker
    <3> QED
      BY <3>1, <3>2
  <2> QED
    BY <2>2, <2>4, <2>5
<1>10. CASE UNCHANGED vars
  BY <1>10 DEF vars, system, handler, gateway, TypeOK, LockInv, CutInv, Enabled, OneWorker,
               Running
<1>11. CASE Restart
  <2>1. cut' \in BOOLEAN /\ (cut' => Enabled)
    BY <1>11 DEF Restart
  <2>2. TypeOK'
    BY <1>0, <1>11, <2>1 DEF Restart, TypeOK, gateway
  <2>3. CutInv'
    BY <1>11, <2>1 DEF Restart, CutInv, Enabled
  <2>4. Running' = {}
    BY <1>11 DEF Restart, Running
  <2> QED
    BY <1>11, <2>2, <2>3, <2>4 DEF Restart, LockInv, OneWorker
<1> QED
  BY <1>1, <1>2, <1>3, <1>4, <1>5, <1>6, <1>7, <1>8, <1>9, <1>10, <1>11 DEF Next, Handle

\* A worker never skips a stage, and a new one starts at the first.
LEMMA StepReach ==
  ASSUME "call" \notin faults, Inv, ReachInv, [Next]_vars
  PROVE  ReachInv'
<1> USE DEF Inv
<1>1. CASE SetFalse
  BY <1>1 DEF SetFalse, ReachInv, On, Enabled, Before, gateway
<1>2. CASE SetTrue
  BY <1>2 DEF SetTrue, ReachInv, On, Enabled, Before, gateway
<1>3. CASE Lock
  BY <1>3 DEF Lock, ReachInv, On, Enabled, Before, gateway
<1>4. CASE Create
  <2>1. PICK w \in Workers : worker[w] = "none" /\ worker' = [worker EXCEPT ![w] = "getLevel"]
    BY <1>4 DEF Create
  <2>2. worker'[w] = "getLevel"
    BY <2>1 DEF TypeOK
  <2> QED
    BY <2>2 DEF ReachInv, Before
<1>5. CASE CreateFails
  BY <1>5 DEF CreateFails, ReachInv, On, Enabled, Before, gateway
<1>6. CASE Unlock
  BY <1>6 DEF Unlock, ReachInv, On, Enabled, Before, gateway
<1>7. CASE Store
  BY <1>7 DEF Store, CutInv, ReachInv, On, Enabled, Before, gateway
<1>8. CASE SetFirewallLevel \/ SetLanMode \/ MocaTurnsOff
  BY <1>8 DEF SetFirewallLevel, SetLanMode, MocaTurnsOff, handler, ReachInv, On, Enabled, Before
<1>9. CASE \E w \in Workers : Work(w)
  <2>1. PICK w \in Workers : Work(w)
    BY <1>9
  <2>2. On' = On /\ cut' = cut
    BY <2>1 DEF Work, CallFails, GetLevel, SetLevel, GetMode, SetMode, GetMoca, GetMocaFails,
                SetMoca, Clear, Waits, handler, On, Enabled
  <2>3. CASE GetLevel(w)
    BY <2>2, <2>3 DEF GetLevel, Goto, gateway, ReachInv, Before, TypeOK
  <2>4. CASE SetLevel(w)
    BY <2>2, <2>4 DEF SetLevel, Goto, ReachInv, Before, TypeOK
  <2>5. CASE GetMode(w)
    BY <2>2, <2>5 DEF GetMode, Goto, gateway, ReachInv, Before, TypeOK, Modes
  <2>6. CASE SetMode(w)
    BY <2>2, <2>6 DEF SetMode, Goto, ReachInv, Before, TypeOK
  <2>7. CASE GetMoca(w) \/ GetMocaFails(w) \/ SetMoca(w) \/ Clear(w)
    BY <2>2, <2>7 DEF GetMoca, GetMocaFails, SetMoca, Clear, Goto, gateway, ReachInv, Before,
                      TypeOK
  <2> QED
    BY <2>1, <2>3, <2>4, <2>5, <2>6, <2>7 DEF Work, CallFails
<1>10. CASE UNCHANGED vars
  BY <1>10 DEF vars, system, handler, gateway, ReachInv, On, Enabled, Before
<1>11. CASE Restart
  <2>1. SUFFICES ASSUME On', ~cut'
                 PROVE  level # "High" /\ mode = "router"
    BY <1>11 DEF Restart, ReachInv, gateway
  <2>2. Enabled
    BY <1>11, <2>1 DEF Restart, On, Enabled
  <2>3. ~cut /\ Running = {}
    BY <1>11, <2>1, <2>2 DEF Restart
  <2>4. ~Before({"getLevel", "setLevel", "getMode", "setMode"}) /\ ~Before({"getLevel", "setLevel"})
    BY <2>3 DEF Before, Running
  <2> QED
    BY <2>2, <2>3, <2>4 DEF ReachInv, On
<1> QED
  BY <1>1, <1>2, <1>3, <1>4, <1>5, <1>6, <1>7, <1>8, <1>9, <1>10, <1>11 DEF Next, Handle

-----------------------------------------------------------------------------

\* At most one worker runs and its flag is up, whatever fails: the flag is
\* read outside the mutex by the only thread that raises it
\* (VideoService_SetParamBoolValue).
THEOREM WorkersExclude == Spec => []OneWorker
<1>1. Inv => OneWorker
  BY DEF Inv
<1> QED
  BY InitInv, StepInv, <1>1, PTL DEF Spec

\* With the service on and no worker under way the gateway can be reached,
\* when calls into the data model do not fail: the empty value stored for an
\* enable during a worker's run keeps the service off until that worker, which
\* may have looked at the firewall already, has ended; unless the stored switch
\* is of a process that ended before its worker
\* (VideoService_SetParamBoolValue, SetVideoServiceConfig).
THEOREM EnabledReachable == Spec => []ServiceReachable
<1> DEFINE Reach == "call" \notin faults => ReachInv
<1>1. Inv /\ Reach => ServiceReachable
  BY DEF Inv, OneWorker, ReachInv, On, Before, Running, ServiceReachable, Reachable
<1>2. Inv /\ Reach /\ [Next]_vars => Inv' /\ Reach'
  BY StepInv, StepReach DEF Next, vars
<1>3. Init => Inv /\ Reach
  BY InitInv
<1> QED
  BY <1>1, <1>2, <1>3, PTL DEF Spec
=============================================================================
