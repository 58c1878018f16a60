---------------------------- MODULE LoginLockout ----------------------------
(***************************************************************************)
(* The failed log-in attempts of a user (cosa_users_dml.c).                 *)
(*                                                                          *)
(* The web interface, which counts the attempts, writes the parameter       *)
(* NumOfFailedAttempts.  When it reaches PasswordLockoutAttempts the handler *)
(* starts a thread that counts LockOutRemainingTime down and then sets the   *)
(* attempts back to 0 (ResetFailedAttepmts).  Nothing keeps the handler and  *)
(* the threads apart, and a lockout that follows another may find the        *)
(* thread of the first at work.                                              *)
(*                                                                          *)
(* The handler calls the user locked out at the limit and beyond it, but     *)
(* starts a thread at the limit alone.                                       *)
(*                                                                          *)
(* For one user of the BCI build, "cusadmin", the attempts are stored in     *)
(* syscfg as well.                                                           *)
(***************************************************************************)
EXTENDS Integers

CONSTANTS
    Threads,      \* bound: threads that may exist at one time
    MaxAttempts,  \* PasswordLockoutAttempts
    LockoutTime   \* PasswordLockoutTime, in seconds

\* syscfg_set_commit, syscfg_get or pthread_create fails, the process is started
\* again.
AllFaults == {"store", "read", "thread", "restart"}

\* NumOfFailedAttempts is a char, which has no sign on this platform.
Chars == 0 .. 255

\* The least value whose digits do not fit buf[10].
TenDigits == 1000000000

ASSUME MaxAttemptsAssumption == MaxAttempts \in Chars \ {0}
ASSUME LockoutTimeAssumption == LockoutTime \in Nat

VARIABLES
    attempts,   \* pUser->NumOfFailedAttempts
    remaining,  \* pUser->LockOutRemainingTime
    stored,     \* syscfg NumOfFailedAttempts_2
    handler,    \* where User_SetParamUlongValue is
    uValue,     \* its argument, as it fits a char
    thread,     \* where each ResetFailedAttepmts is
    left,       \* its lockoutTime
    missed,     \* history: the last set left the attempts beyond the limit, or at
                \* it by a value that was refused, and no thread was at work
    persistent, \* the user is "cusadmin" of the BCI build
    faults      \* what may happen in this behaviour

user == <<attempts, remaining, stored>>
set  == <<handler, uValue>>
loop == <<thread, left>>
system == <<user, set, loop, missed>>
world  == <<persistent, faults>>
vars   == <<system, world>>

\* Every variable stays within its type.
TypeOK ==
    /\ attempts \in Chars
    /\ remaining \in 0 .. LockoutTime
    /\ stored \in Chars
    /\ handler \in {"idle", "store", "assign", "compare"}
    /\ uValue \in Chars
    /\ thread \in [Threads -> {"none", "count", "store", "reset", "show"}]
    /\ left \in [Threads -> 0 .. LockoutTime]
    /\ missed \in BOOLEAN
    /\ persistent \in BOOLEAN
    /\ faults \subseteq AllFaults

Init ==
    /\ attempts = 0 /\ remaining = 0 /\ stored = 0
    /\ handler = "idle" /\ uValue = 0
    /\ thread = [t \in Threads |-> "none"]
    /\ left = [t \in Threads |-> 0]
    /\ missed = FALSE
    /\ persistent \in BOOLEAN /\ faults \in SUBSET AllFaults

\* Some thread is still going to set the attempts to 0.
AtWork == \E t \in Threads : thread[t] \in {"count", "store", "reset"}

LockedOut(a) == a >= MaxAttempts

\* CosaUsersBackendGetUserInfo; the threads are gone.
Restart ==
    /\ "restart" \in faults
    /\ attempts' = IF persistent THEN stored ELSE 0
    /\ remaining' = 0
    /\ handler' = "idle" /\ uValue' = 0
    /\ thread' = [t \in Threads |-> "none"]
    /\ left' = [t \in Threads |-> 0]
    /\ missed' = FALSE
    /\ UNCHANGED stored

----------------------------------------------------------------------------
(* The handler, in the steps between which a thread can run.                *)

\* The web interface sets up to one attempt more than the limit, a value that a
\* char cannot hold, or one of ten digits that becomes the limit in a char.
Values == 0 .. MaxAttempts + 1 \cup {256, TenDigits + MaxAttempts}

\* Seeded fault: the argument is kept as it is.
WriteWide(v) ==
    /\ handler = "idle"
    /\ \E t \in Threads : thread[t] = "none"
    /\ attempts' = v % 256
    /\ uValue' = v
    /\ handler' = IF persistent THEN "store" ELSE "assign"
    /\ UNCHANGED <<remaining, stored, loop, missed>>

\* The attempts are set first.  A value of ten digits cannot be formatted for the
\* store and is refused then, and the attempts stay.  A thread is left for the
\* lockout that this value may begin.
Write(v) ==
    /\ handler = "idle"
    /\ \E t \in Threads : thread[t] = "none"
    /\ attempts' = v % 256
    /\ uValue' = v % 256
    /\ \/ persistent /\ v < TenDigits /\ handler' = "store" /\ UNCHANGED missed
       \/ ~persistent /\ handler' = "assign" /\ UNCHANGED missed
       \/ /\ persistent /\ v >= TenDigits
          /\ handler' = "idle"
          /\ missed' = (LockedOut(attempts') /\ ~AtWork)
    /\ UNCHANGED <<remaining, stored, loop>>

\* syscfg_set_commit of the attempts of "cusadmin".
Store ==
    /\ handler = "store"
    /\ \/ stored' = uValue /\ handler' = "assign"
       \/ "store" \in faults /\ handler' = "compare" /\ UNCHANGED stored
    /\ UNCHANGED <<attempts, remaining, uValue, loop, missed>>

\* The attempts are set a second time.
Assign ==
    /\ handler = "assign"
    /\ attempts' = uValue
    /\ handler' = "compare"
    /\ UNCHANGED <<remaining, stored, uValue, loop, missed>>

\* ResetFailedAttepmts is started; without a lockout time it does not wait.
Begin ==
    \E t \in Threads :
        /\ thread[t] = "none"
        /\ thread' = [thread EXCEPT ![t] = "count"]
        /\ \/ left' = [left EXCEPT ![t] = LockoutTime]
           \/ "read" \in faults /\ left' = [left EXCEPT ![t] = 0]

\* Seeded fault: a thread that shows the time is taken for one that ends the
\* lockout.
CompareShown ==
    /\ handler = "compare"
    /\ IF attempts = MaxAttempts /\ (\A t \in Threads : thread[t] = "none")
       THEN Begin
       ELSE UNCHANGED loop
    /\ missed' = (attempts > MaxAttempts /\ ~AtWork)
    /\ handler' = "idle"
    /\ UNCHANGED <<user, uValue>>

\* The attempts are compared as they are by now, with a limit of 0 when it cannot
\* be read.  The result of pthread_create is not looked at.
Compare ==
    /\ handler = "compare"
    /\ missed' = (attempts > MaxAttempts /\ ~AtWork)
    /\ \E limit \in {MaxAttempts} \cup (IF "read" \in faults THEN {0} ELSE {}) :
          \/ attempts = limit /\ Begin
          \/ (attempts # limit \/ "thread" \in faults) /\ UNCHANGED loop
    /\ handler' = "idle"
    /\ UNCHANGED <<user, uValue>>

----------------------------------------------------------------------------
(* ResetFailedAttepmts.                                                     *)

Goto(t, l) == thread' = [thread EXCEPT ![t] = l]

\* Seeded fault: each second begins at the time that is shown to everybody.
CountShared(t) ==
    /\ thread[t] = "count" /\ left[t] > 0
    /\ remaining' = left[t]
    /\ left' = [left EXCEPT ![t] = IF remaining = 0 THEN @ - 1 ELSE remaining]
    /\ UNCHANGED <<attempts, stored, set, thread, missed>>

\* One second of the loop.
Count(t) ==
    /\ thread[t] = "count" /\ left[t] > 0
    /\ remaining' = left[t]
    /\ left' = [left EXCEPT ![t] = @ - 1]
    /\ UNCHANGED <<attempts, stored, set, thread, missed>>

Finish(t) ==
    /\ thread[t] = "count" /\ left[t] = 0
    /\ Goto(t, IF persistent THEN "store" ELSE "reset")
    /\ UNCHANGED <<user, set, left, missed>>

StoreZero(t) ==
    /\ thread[t] = "store"
    /\ stored' = 0 \/ ("store" \in faults /\ UNCHANGED stored)
    /\ Goto(t, "reset")
    /\ UNCHANGED <<attempts, remaining, set, left, missed>>

Reset(t) ==
    /\ thread[t] = "reset"
    /\ attempts' = 0
    /\ Goto(t, "show")
    /\ UNCHANGED <<remaining, stored, set, left, missed>>

\* Seeded fault: the time is left as the loop has shown it.
ShowNothing(t) ==
    /\ thread[t] = "show"
    /\ Goto(t, "none")
    /\ UNCHANGED <<user, set, left, missed>>

\* LockOutRemainingTime = 0, and the thread ends.
Show(t) ==
    /\ thread[t] = "show"
    /\ remaining' = 0
    /\ Goto(t, "none")
    /\ UNCHANGED <<attempts, stored, set, left, missed>>

Run(t) == Count(t) \/ Finish(t) \/ StoreZero(t) \/ Reset(t) \/ Show(t)

Handle == Store \/ Assign \/ Compare

Next ==
    /\ \/ \E v \in Values : Write(v)
       \/ Handle
       \/ \E t \in Threads : Run(t)
       \/ Restart
    /\ UNCHANGED world

Spec == Init /\ [][Next]_vars

\* A handler that was entered runs on, and so does a thread; nobody has to try
\* to log in.
FairSpec == Spec /\ WF_system(Handle) /\ \A t \in Threads : WF_system(Run(t))

----------------------------------------------------------------------------
(* Properties.                                                              *)

\* The limit can be read and threads can be created, and no restart reads stored
\* attempts back.
Attended ==
    faults \cap {"thread", "read"} = {} /\ ("restart" \notin faults \/ ~persistent)

\* A user who is locked out, at the limit or beyond it, has a thread that is still
\* going to end the lockout, although the threads of earlier lockouts write the
\* same attempts between the handler's own writes; unless the last set went past
\* the limit, or was refused, when no thread was at work, for which the handler
\* starts none (User_SetParamUlongValue).
LockoutHasThread ==
    Attended /\ handler = "idle" /\ LockedOut(attempts) /\ ~missed => AtWork

\* When the last thread has ended no lockout time is shown any more, although
\* several threads count the one LockOutRemainingTime down, and a restart may
\* end them all (ResetFailedAttepmts).
TimeSettles == (\A t \in Threads : thread[t] = "none") => remaining = 0

\* A lockout for which the handler starts a thread, or finds one at work, ends,
\* whatever the web interface sets meanwhile, beyond the limit too, and although
\* the store may fail (User_SetParamUlongValue, ResetFailedAttepmts).
LockoutEnds ==
    Attended /\ handler = "idle" /\ LockedOut(attempts) /\ ~missed
        ~> ~LockedOut(attempts)

=============================================================================
