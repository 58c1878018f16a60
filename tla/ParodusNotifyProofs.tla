------------------------- MODULE ParodusNotifyProofs -------------------------
(***************************************************************************)
(* The address of the device is fetched once, whatever fails and for every  *)
(* number of notifications.                                                 *)
(***************************************************************************)
EXTENDS ParodusNotify, TLAPS

\* The notifiers between lock and unlock of device_mac_mutex.
Inside == {"check", "read", "write"}

\* Who is inside has the mutex, who reads has found no address under it, and
\* who writes has begun one.
MutexInv ==
    /\ mac \in Macs \cup {NoMac}
    /\ at \in [Notifiers -> Steps]
    /\ \A n \in Notifiers :
          /\ at[n] \in Inside => holder = n
          /\ at[n] = "read" => mac = NoMac
          /\ at[n] = "write" => mac \in Macs /\ ~mac.whole

USE NotifiersAssumption, NoMacAssumption DEF Steps, Inside

LEMMA InitMutex == Init => MutexInv
BY DEF Init, MutexInv

\* A notifier leaves what it does not do itself to the others.
LEMMA NotifierMutex ==
    ASSUME MutexInv, NEW n \in Notifiers, sendNotification(n)
    PROVE  MutexInv'
<1>1. CASE Look(n)
  BY <1>1 DEF Look, Goto, device, MutexInv
<1>2. CASE Lock(n)
  BY <1>2 DEF Lock, Goto, MutexInv
<1>3. CASE Check(n)
  BY <1>3 DEF Check, Goto, MutexInv
<1>4. CASE Read(n)
  <2>1. PICK s \in Sources : mac' = [source |-> s, whole |-> FALSE]
    BY <1>4 DEF Read
  <2>2. mac' \in Macs /\ ~mac'.whole
    BY <2>1 DEF Macs
  <2> QED BY <1>4, <2>2 DEF Read, Goto, MutexInv
<1>5. CASE Write(n)
  <2>1. mac' \in Macs
    BY <1>5 DEF Write, MutexInv, Macs
  <2> QED BY <1>5, <2>1 DEF Write, Goto, MutexInv
<1>6. CASE ReadEmpty(n)
  BY <1>6 DEF ReadEmpty, Goto, MutexInv
<1>7. CASE ReadFails(n)
  BY <1>7 DEF ReadFails, Goto, MutexInv
<1>8. CASE Frame(n)
  BY <1>8 DEF Frame, Goto, device, MutexInv
<1>9. CASE SendOk(n)
  BY <1>9 DEF SendOk, Goto, device, MutexInv
<1>10. CASE SendFails(n)
  BY <1>10 DEF SendFails, Goto, device, MutexInv
<1> QED
  BY <1>1, <1>2, <1>3, <1>4, <1>5, <1>6, <1>7, <1>8, <1>9, <1>10
  DEF sendNotification, getDeviceMac

\* Every step keeps the invariant.
LEMMA StepMutex == MutexInv /\ [Next]_vars => MutexInv'
<1> SUFFICES ASSUME MutexInv, [Next]_vars PROVE MutexInv'
  OBVIOUS
<1>1. CASE connect_parodus
  BY <1>1 DEF connect_parodus, Connect, InitFails, device, notifier, MutexInv
<1>2. CASE \E n \in Notifiers : Ask(n)
  BY <1>2 DEF Ask, Goto, device, MutexInv
<1>3. CASE \E n \in Notifiers : sendNotification(n)
  BY <1>3, NotifierMutex
<1>4. CASE UNCHANGED vars
  BY <1>4 DEF vars, system, device, notifier, MutexInv
<1> QED BY <1>1, <1>2, <1>3, <1>4 DEF Next

\* Only a notifier that found no address under the mutex begins to write one.
LEMMA StepSettled ==
    MutexInv /\ [Next]_vars =>
        [mac # NoMac => mac' # NoMac /\ mac'.source = mac.source /\ (mac.whole => mac'.whole)]_vars
<1> SUFFICES ASSUME MutexInv, [Next]_vars, mac # NoMac
             PROVE  mac' # NoMac /\ mac'.source = mac.source /\ (mac.whole => mac'.whole)
  OBVIOUS
<1>1. CASE UNCHANGED mac
  BY <1>1
<1>2. CASE \E n \in Notifiers : Read(n)
  BY <1>2 DEF Read, MutexInv
<1>3. CASE \E n \in Notifiers : Write(n)
  <2>1. PICK n \in Notifiers : Write(n)
    BY <1>3
  <2>2. mac \in Macs /\ mac' = [mac EXCEPT !.whole = TRUE]
    BY <2>1 DEF Write, MutexInv
  <2>3. mac' \in Macs /\ mac'.source = mac.source /\ mac'.whole
    BY <2>2 DEF Macs
  <2> QED BY <2>3
<1>4. UNCHANGED mac \/ (\E n \in Notifiers : Read(n) \/ Write(n))
  BY DEF Next, vars, system, device, connect_parodus, Connect, InitFails, Ask, sendNotification,
         getDeviceMac, Look, Lock, Check, ReadEmpty, ReadFails, Frame, SendOk, SendFails
<1> QED BY <1>1, <1>2, <1>3, <1>4

\* Once a thread has begun to write deviceMAC the device keeps that address,
\* for every number of notifications and failures.
THEOREM DeviceKeepsMac == Spec => MacSettled
BY InitMutex, StepMutex, StepSettled, PTL DEF Spec, MacSettled

----------------------------------------------------------------------------
(* Types.                                                                   *)

\* The pause and the exponent grow together, and a notifier that may still
\* fail has a try left.
Paced ==
    /\ <<backoff, c>> \in {<<0, 2>>, <<3, 3>>, <<7, 4>>, <<15, 5>>}
    /\ \A n \in Notifiers :
          /\ at[n] \in {"none", "look", "lock"} \cup Inside => retryCount[n] <= 5
          /\ at[n] # "sent" /\ at[n] # "lost" => retry_count[n] <= 3

TypedInv == TypeOK /\ Paced /\ MutexInv

LEMMA InitTyped == Init => TypedInv
<1> SUFFICES ASSUME Init PROVE TypedInv
  OBVIOUS
<1>1. MutexInv
  BY InitMutex
<1>2. Paced
  BY DEF Init, Paced
<1>3. TypeOK
  <2>1. connected \in BOOLEAN /\ empty \in BOOLEAN
    BY DEF Init
  <2>2. /\ at \in [Notifiers -> Steps]
        /\ retryCount \in [Notifiers -> 0 .. 6]
        /\ retry_count \in [Notifiers -> 0 .. 4]
    BY DEF Init
  <2>3. failures \in 0 .. MaxCallFailures /\ initFailures \in 0 .. MaxInitFailures
    BY NotifyBoundsAssumption DEF Init
  <2> QED BY <2>1, <2>2, <2>3 DEF Init, TypeOK
<1> QED BY <1>1, <1>2, <1>3 DEF TypedInv

\* The pauses of connect_parodus: 3, 7, 15, and 31 starts over.
LEMMA PauseValues ==
    ASSUME Paced, NextPause(Pause)
    PROVE  <<backoff, c>>' \in {<<0, 2>>, <<3, 3>>, <<7, 4>>, <<15, 5>>}
<1>1. 2^2 = 4 /\ 2^3 = 8 /\ 2^4 = 16 /\ 2^5 = 32
  OBVIOUS
<1>2. Pause = 2^c - 1
  BY DEF Paced, Pause, MaxRetrySleep
<1>3. CASE c = 2
  BY <1>1, <1>2, <1>3 DEF Paced, NextPause, MaxRetrySleep
<1>4. CASE c = 3
  BY <1>1, <1>2, <1>4 DEF Paced, NextPause, MaxRetrySleep
<1>5. CASE c = 4
  BY <1>1, <1>2, <1>5 DEF Paced, NextPause, MaxRetrySleep
<1>6. CASE c = 5
  BY <1>1, <1>2, <1>6 DEF Paced, NextPause, MaxRetrySleep
<1> QED BY <1>3, <1>4, <1>5, <1>6 DEF Paced

LEMMA ConnectorTyped ==
    ASSUME TypedInv, MutexInv', UNCHANGED empty, connect_parodus
    PROVE  TypedInv'
<1>1. CASE Connect
  BY <1>1 DEF Connect, device, notifier, TypedInv, TypeOK, Paced
<1>2. CASE InitFails
  <2>1. Paced'
    BY <1>2, PauseValues DEF InitFails, notifier, TypedInv, Paced
  <2>2. backoff' \in {0, 3, 7, 15} /\ c' \in 2 .. 5
    BY <2>1 DEF Paced
  <2> QED BY <1>2, <2>1, <2>2, NotifyBoundsAssumption
          DEF InitFails, device, notifier, TypedInv, TypeOK
<1> QED BY <1>1, <1>2 DEF connect_parodus

LEMMA NotifierTyped ==
    ASSUME TypedInv, MutexInv', UNCHANGED empty, NEW n \in Notifiers, Ask(n) \/ sendNotification(n)
    PROVE  TypedInv'
<1> USE NotifyBoundsAssumption
<1>1. CASE Ask(n)
  BY <1>1 DEF Ask, Goto, connector, device, TypedInv, TypeOK, Paced
<1>2. CASE Look(n)
  BY <1>2 DEF Look, Goto, connector, device, TypedInv, TypeOK, Paced
<1>3. CASE Lock(n)
  BY <1>3 DEF Lock, Goto, connector, TypedInv, TypeOK, Paced
<1>4. CASE Check(n)
  BY <1>4 DEF Check, Goto, connector, TypedInv, TypeOK, Paced
<1>5. CASE Read(n)
  BY <1>5 DEF Read, Goto, connector, TypedInv, TypeOK, Paced, MutexInv
<1>6. CASE Write(n)
  BY <1>6 DEF Write, Goto, connector, TypedInv, TypeOK, Paced, MutexInv
<1>7. CASE ReadEmpty(n)
  BY <1>7 DEF ReadEmpty, Goto, connector, TypedInv, TypeOK, Paced
<1>8. CASE ReadFails(n)
  BY <1>8 DEF ReadFails, CallFails, Goto, connector, TypedInv, TypeOK, Paced
<1>9. CASE Frame(n)
  BY <1>9 DEF Frame, Goto, connector, device, TypedInv, TypeOK, Paced
<1>10. CASE SendOk(n)
  BY <1>10 DEF SendOk, Goto, connector, device, TypedInv, TypeOK, Paced
<1>11. CASE SendFails(n)
  BY <1>11 DEF SendFails, CallFails, Goto, connector, device, TypedInv, TypeOK, Paced
<1> QED
  BY <1>1, <1>2, <1>3, <1>4, <1>5, <1>6, <1>7, <1>8, <1>9, <1>10, <1>11
  DEF sendNotification, getDeviceMac

LEMMA StepTyped == TypedInv /\ [Next]_vars => TypedInv'
<1> SUFFICES ASSUME TypedInv, [Next]_vars PROVE TypedInv'
  OBVIOUS
<1>1. MutexInv'
  BY StepMutex DEF TypedInv
<1>2. CASE Next
  BY <1>1, <1>2, ConnectorTyped, NotifierTyped DEF Next
<1>3. CASE UNCHANGED vars
  BY <1>1, <1>3 DEF vars, system, connector, device, notifier, TypedInv, TypeOK, Paced
<1> QED BY <1>2, <1>3

\* The pauses of the connector stay within those of its backoff, and a notifier
\* tries to read the address six times and to send four times at most, for every
\* number of notifications and failures (connect_parodus, getDeviceMac,
\* sendNotification).
THEOREM NotifyTypes == Spec => []TypeOK
<1>1. TypedInv => TypeOK
  BY DEF TypedInv
<1> QED BY <1>1, InitTyped, StepTyped, PTL DEF Spec

=============================================================================
