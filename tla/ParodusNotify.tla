---------------------------- MODULE ParodusNotify ----------------------------
(***************************************************************************)
(* Notifications to the cloud (parodus_interface.c).                        *)
(*                                                                          *)
(* A thread connects to Parodus when the process starts and tries again     *)
(* with a growing pause (connect_parodus).  Each notification has a thread  *)
(* of its own (sendNotification): it fetches the MAC address of the device, *)
(* which all of them share (getDeviceMac), frames the event with it and     *)
(* tries to send it four times.  The pauses between two tries are not        *)
(* modelled; the one of the connector is a value of the model.              *)
(***************************************************************************)
EXTENDS Integers

CONSTANTS
    Notifiers,        \* bound: the notifications, one thread each
    NoMac,            \* the empty deviceMAC; also: nobody has the mutex
    MaxCallFailures,  \* bound: failing reads of the MAC and failing sends
    MaxInitFailures   \* bound: failing libparodus_init

ASSUME NotifyBoundsAssumption == MaxCallFailures \in Nat /\ MaxInitFailures \in Nat
ASSUME NotifiersAssumption == NoMac \notin Notifiers

\* The MAC comes from Ethernet WAN or from the cable modem.
Sources == {"wan", "cm"}

\* deviceMAC while it is written and afterwards.
Macs == [source : Sources, whole : BOOLEAN]

ASSUME NoMacAssumption == NoMac \notin Macs

MaxRetrySleep == 31

VARIABLES
    connected,    \* pam_instance can be used
    backoff, c,   \* backoffRetryTime and c of connect_parodus
    mac,          \* deviceMAC
    holder,       \* who has device_mac_mutex
    at,           \* where each notifier is
    retryCount,   \* of its getDeviceMac
    retry_count,  \* of its sendNotification
    failures,     \* calls that have failed
    initFailures, \* libparodus_init that have failed
    empty         \* the MAC may be read as an empty string in this behaviour

connector == <<connected, backoff, c, initFailures>>
device    == <<mac, holder>>
notifier  == <<at, retryCount, retry_count>>
system == <<connector, device, notifier, failures>>
vars == <<system, empty>>

Steps == {"none", "look", "lock", "check", "read", "write", "frame", "send", "sent", "lost"}

\* Every variable stays within its type; the pauses are those of the backoff.
TypeOK ==
    /\ connected \in BOOLEAN
    /\ backoff \in {0, 3, 7, 15}
    /\ c \in 2 .. 5
    /\ mac \in Macs \cup {NoMac}
    /\ holder \in Notifiers \cup {NoMac}
    /\ at \in [Notifiers -> Steps]
    /\ retryCount \in [Notifiers -> 0 .. 6]
    /\ retry_count \in [Notifiers -> 0 .. 4]
    /\ failures \in 0 .. MaxCallFailures
    /\ initFailures \in 0 .. MaxInitFailures
    /\ empty \in BOOLEAN

Init ==
    /\ connected = FALSE /\ backoff = 0 /\ c = 2
    /\ mac = NoMac /\ holder = NoMac
    /\ at = [n \in Notifiers |-> "none"]
    /\ retryCount = [n \in Notifiers |-> 0]
    /\ retry_count = [n \in Notifiers |-> 0]
    /\ failures = 0 /\ initFailures = 0
    /\ empty \in BOOLEAN

----------------------------------------------------------------------------
(* connect_parodus.                                                         *)

\* The pause before the next try.
Pause == IF backoff < MaxRetrySleep THEN 2^c - 1 ELSE backoff

\* Seeded fault: the longest pause does not start over.
NextPauseGrows(p) == backoff' = p /\ c' = c + 1

NextPause(p) ==
    IF p = MaxRetrySleep THEN backoff' = 0 /\ c' = 2
                         ELSE backoff' = p /\ c' = c + 1

InitFails ==
    /\ ~connected
    /\ initFailures < MaxInitFailures
    /\ initFailures' = initFailures + 1
    /\ NextPause(Pause)
    /\ UNCHANGED <<connected, device, notifier, failures>>

\* Seeded fault: the loop is not left, and shuts the instance down.
ConnectAndShutdown ==
    /\ ~connected
    /\ connected' = FALSE
    /\ UNCHANGED <<backoff, c, initFailures, device, notifier, failures>>

Connect ==
    /\ ~connected
    /\ connected' = TRUE
    /\ UNCHANGED <<backoff, c, initFailures, device, notifier, failures>>

----------------------------------------------------------------------------
(* A notification.                                                          *)

Goto(n, l) == at' = [at EXCEPT ![n] = l]

\* A call of n fails.
CallFails == failures < MaxCallFailures /\ failures' = failures + 1

\* Send_Notification_Task; pthread_create may fail.
Ask(n) ==
    /\ at[n] = "none"
    /\ Goto(n, "look") \/ Goto(n, "lost")
    /\ UNCHANGED <<connector, device, retryCount, retry_count, failures>>

\* The loop of getDeviceMac looks at deviceMAC without the mutex.
Look(n) ==
    /\ at[n] = "look"
    /\ Goto(n, IF mac = NoMac THEN "lock" ELSE "frame")
    /\ UNCHANGED <<connector, device, retryCount, retry_count, failures>>

Lock(n) ==
    /\ at[n] = "lock" /\ holder = NoMac
    /\ holder' = n
    /\ Goto(n, "check")
    /\ UNCHANGED <<connector, mac, retryCount, retry_count, failures>>

\* Seeded fault: deviceMAC is not looked at again under the mutex.
CheckNothing(n) ==
    /\ at[n] = "check"
    /\ Goto(n, "read")
    /\ UNCHANGED <<connector, device, retryCount, retry_count, failures>>

Check(n) ==
    /\ at[n] = "check"
    /\ IF mac = NoMac THEN Goto(n, "read") /\ UNCHANGED holder
                      ELSE Goto(n, "frame") /\ holder' = NoMac
    /\ UNCHANGED <<connector, mac, retryCount, retry_count, failures>>

\* AnscMacToLower writes deviceMAC character by character.
Read(n) ==
    /\ at[n] = "read"
    /\ \E s \in Sources : mac' = [source |-> s, whole |-> FALSE]
    /\ Goto(n, "write")
    /\ UNCHANGED <<connector, holder, retryCount, retry_count, failures>>

Write(n) ==
    /\ at[n] = "write"
    /\ mac' = [mac EXCEPT !.whole = TRUE]
    /\ retryCount' = [retryCount EXCEPT ![n] = 0]
    /\ holder' = NoMac
    /\ Goto(n, "frame")
    /\ UNCHANGED <<connector, retry_count, failures>>

\* An empty answer counts as an answer.
ReadEmpty(n) ==
    /\ at[n] = "read" /\ empty
    /\ retryCount' = [retryCount EXCEPT ![n] = 0]
    /\ holder' = NoMac
    /\ Goto(n, "frame")
    /\ UNCHANGED <<connector, mac, retry_count, failures>>

\* Seeded fault: the last failure leaves the mutex locked.
ReadFailsLocked(n) ==
    /\ at[n] = "read" /\ CallFails
    /\ retryCount' = [retryCount EXCEPT ![n] = @ + 1]
    /\ IF retryCount[n] < 5 THEN holder' = NoMac /\ Goto(n, "look")
                            ELSE UNCHANGED holder /\ Goto(n, "frame")
    /\ UNCHANGED <<connector, mac, retry_count>>

ReadFails(n) ==
    /\ at[n] = "read" /\ CallFails
    /\ retryCount' = [retryCount EXCEPT ![n] = @ + 1]
    /\ holder' = NoMac
    /\ Goto(n, IF retryCount[n] < 5 THEN "look" ELSE "frame")
    /\ UNCHANGED <<connector, mac, retry_count>>

\* Without deviceMAC the notification is dropped.
Frame(n) ==
    /\ at[n] = "frame"
    /\ Goto(n, IF mac = NoMac THEN "lost" ELSE "send")
    /\ UNCHANGED <<connector, device, retryCount, retry_count, failures>>

SendOk(n) ==
    /\ at[n] = "send" /\ connected
    /\ Goto(n, "sent")
    /\ UNCHANGED <<connector, device, retryCount, retry_count, failures>>

\* Seeded fault: one try less.
SendFailsSooner(n) ==
    /\ at[n] = "send"
    /\ CallFails \/ (~connected /\ UNCHANGED failures)
    /\ retry_count' = [retry_count EXCEPT ![n] = @ + 1]
    /\ Goto(n, IF retry_count[n] < 2 THEN "send" ELSE "lost")
    /\ UNCHANGED <<connector, device, retryCount>>

SendFails(n) ==
    /\ at[n] = "send"
    /\ CallFails \/ (~connected /\ UNCHANGED failures)
    /\ retry_count' = [retry_count EXCEPT ![n] = @ + 1]
    /\ Goto(n, IF retry_count[n] < 3 THEN "send" ELSE "lost")
    /\ UNCHANGED <<connector, device, retryCount>>

getDeviceMac(n) ==
    \/ Look(n) \/ Lock(n) \/ Check(n)
    \/ Read(n) \/ Write(n) \/ ReadEmpty(n) \/ ReadFails(n)

sendNotification(n) == getDeviceMac(n) \/ Frame(n) \/ SendOk(n) \/ SendFails(n)

connect_parodus == Connect \/ InitFails

Next ==
    /\ connect_parodus \/ \E n \in Notifiers : Ask(n) \/ sendNotification(n)
    /\ UNCHANGED empty

Spec == Init /\ [][Next]_vars

\* The threads run on; nothing has to be notified.
FairSpec ==
    /\ Spec
    /\ WF_system(connect_parodus)
    /\ \A n \in Notifiers : WF_system(sendNotification(n))

----------------------------------------------------------------------------
(* Properties.                                                              *)

\* Once a thread has begun to write deviceMAC the device keeps that address:
\* another thread that found it empty before does not fetch it again, although
\* the address of Ethernet WAN is not that of the cable modem (getDeviceMac).
MacSettled ==
    [][mac # NoMac => mac' # NoMac /\ mac'.source = mac.source /\ (mac.whole => mac'.whole)]_vars

\* Every notification ends, sent or dropped, however many calls fail and
\* whichever thread has the mutex (getDeviceMac, sendNotification).
NotifierEnds == \A n \in Notifiers : at[n] = "look" ~> at[n] \in {"sent", "lost"}

\* The process connects to Parodus for good, however often libparodus_init
\* fails at first (connect_parodus).
ConnectionMade == <>[]connected

\* A notification asked for after the connection is sent, unless more than
\* three calls fail or the MAC is read as an empty string: the retries of one
\* thread are not used up by the others (sendNotification).
NotificationSent ==
    \A n \in Notifiers :
        ~empty /\ at[n] = "look" /\ connected ~> at[n] = "sent" \/ failures > 3

=============================================================================
