------------------------- MODULE LoginLockoutProofs -------------------------
(***************************************************************************)
(* The invariants of LoginLockout, for any number of threads and any limit  *)
(* and lockout time.  A thread that is past its reset does not end a lockout *)
(* any more, so the proof follows AtWork, who may still end one.             *)
(***************************************************************************)
EXTENDS LoginLockout, TLAPS

USE MaxAttemptsAssumption, LockoutTimeAssumption DEF Chars

LEMMA TenDigitsNat == TenDigits \in Nat
BY SMT DEF TenDigits

LEMMA InitHolds == Init => TypeOK /\ LockoutHasThread /\ TimeSettles
<1> SUFFICES ASSUME Init PROVE TypeOK /\ LockoutHasThread /\ TimeSettles
  OBVIOUS
<1>1. TypeOK
  <2>1. missed \in BOOLEAN
    BY DEF Init
  <2>2. faults \subseteq AllFaults
    BY DEF Init
  <2> QED
    BY <2>1, <2>2 DEF Init, TypeOK
<1>2. ~LockedOut(attempts)
  BY DEF Init, LockedOut
<1> QED
  BY <1>1, <1>2 DEF Init, LockoutHasThread, TimeSettles

----------------------------------------------------------------------------
(* Types.                                                                   *)

LEMMA HandlerTypes ==
  ASSUME TypeOK, UNCHANGED world, Handle \/ \E v \in Values : Write(v)
  PROVE  TypeOK'
<1>1. CASE \E v \in Values : Write(v)
  <2>1. PICK v \in Values : Write(v)
    BY <1>1
  <2>2. v \in Nat
    BY TenDigitsNat DEF Values
  <2>3. v % 256 \in 0 .. 255
    BY <2>2
  <2> QED
    BY <2>1, <2>3 DEF Write, TypeOK, loop, world, LockedOut
<1>2. CASE Store \/ Assign
  BY <1>2 DEF Store, Assign, TypeOK, loop, world
<1>3. CASE Compare
  <2>1. UNCHANGED <<user, uValue>> /\ handler' = "idle" /\ missed' \in BOOLEAN
    BY <1>3 DEF Compare
  <2>2. UNCHANGED loop \/ Begin
    BY <1>3 DEF Compare
  <2>3. /\ thread' \in [Threads -> {"none", "count", "store", "reset", "show"}]
        /\ left' \in [Threads -> 0 .. LockoutTime]
    BY <2>2 DEF Begin, TypeOK, loop
  <2> QED
    BY <2>1, <2>3 DEF TypeOK, user, world
<1> QED
  BY <1>1, <1>2, <1>3 DEF Handle

LEMMA ThreadTypes ==
  ASSUME TypeOK, UNCHANGED world, NEW t \in Threads, Run(t)
  PROVE  TypeOK'
<1>1. CASE Count(t)
  BY <1>1 DEF Count, TypeOK, set, world
<1>2. CASE Finish(t)
  BY <1>2 DEF Finish, Goto, TypeOK, user, set, world
<1>3. CASE StoreZero(t)
  BY <1>3 DEF StoreZero, Goto, TypeOK, set, world
<1>4. CASE Reset(t) \/ Show(t)
  BY <1>4 DEF Reset, Show, Goto, TypeOK, set, world
<1> QED
  BY <1>1, <1>2, <1>3, <1>4 DEF Run

LEMMA StepTypes == TypeOK /\ [Next]_vars => TypeOK'
<1> SUFFICES ASSUME TypeOK, [Next]_vars PROVE TypeOK'
  OBVIOUS
<1>1. CASE Restart
  <2>1. UNCHANGED world
    BY DEF Next, vars
  <2>2. attempts' \in Chars /\ missed' = FALSE /\ stored' = stored
    BY <1>1 DEF Restart, TypeOK
  <2>3. missed' \in BOOLEAN
    BY <2>2
  <2>4. UNCHANGED <<faults, persistent, stored>> /\ attempts' \in Chars
    BY <2>1, <2>2 DEF world
  <2>5. /\ remaining' = 0 /\ handler' = "idle" /\ uValue' = 0
        /\ thread' = [t \in Threads |-> "none"]
        /\ left' = [t \in Threads |-> 0]
    BY <1>1 DEF Restart
  <2> QED
    BY <2>3, <2>4, <2>5 DEF TypeOK
<1>2. CASE UNCHANGED vars
  BY <1>2 DEF vars, system, world, user, set, loop, TypeOK
<1> QED
  BY <1>1, <1>2, HandlerTypes, ThreadTypes DEF Next

\* Every variable stays within its type: whatever is written, the attempts fit
\* a char and the time shown is within the lockout time.
THEOREM LockoutTypes == Spec => []TypeOK
BY InitHolds, StepTypes, PTL DEF Spec

----------------------------------------------------------------------------
(* The invariants.                                                          *)

\* Only the last thread that ends leaves nobody to take the time back.
LEMMA StepTime == TypeOK /\ TimeSettles /\ [Next]_vars => TimeSettles'
<1> SUFFICES ASSUME TypeOK, TimeSettles, [Next]_vars PROVE TimeSettles'
  OBVIOUS
<1>1. CASE Restart
  BY <1>1 DEF Restart, TimeSettles
<1>2. CASE Handle \/ \E v \in Values : Write(v)
  <2>1. remaining' = remaining
    BY <1>2 DEF Handle, Store, Assign, Compare, Write, user
  <2>2. UNCHANGED thread \/ Begin
    BY <1>2 DEF Handle, Store, Assign, Compare, Write, loop
  <2>3. CASE UNCHANGED thread
    BY <2>1, <2>3 DEF TimeSettles
  <2>4. CASE Begin
    <3>1. PICK t \in Threads : thread' = [thread EXCEPT ![t] = "count"]
      BY <2>4 DEF Begin
    <3>2. thread'[t] = "count"
      BY <3>1 DEF TypeOK
    <3> QED
      BY <3>2 DEF TimeSettles
  <2> QED
    BY <2>2, <2>3, <2>4
<1>3. ASSUME NEW t \in Threads, Run(t) PROVE TimeSettles'
  <2>1. remaining' = 0 \/ thread'[t] # "none"
    BY <1>3 DEF Run, Count, Finish, StoreZero, Reset, Show, Goto, TypeOK, user, set
  <2> QED
    BY <2>1 DEF TimeSettles
<1>4. CASE UNCHANGED vars
  BY <1>4 DEF vars, system, world, user, loop, TimeSettles
<1> QED
  BY <1>1, <1>2, <1>3, <1>4 DEF Next

\* A step of a thread leaves it at work, or sets the attempts to 0, or was past
\* that point before.
LEMMA StepThread == TypeOK /\ LockoutHasThread /\ [Next]_vars => LockoutHasThread'
<1> SUFFICES ASSUME TypeOK, LockoutHasThread, [Next]_vars,
                    Attended', handler' = "idle", LockedOut(attempts)', ~missed'
             PROVE  AtWork'
  BY DEF LockoutHasThread
<1>0. /\ Attended
      /\ "thread" \notin faults /\ "read" \notin faults
      /\ "restart" \notin faults \/ ~persistent
  BY DEF Next, vars, world, Attended
<1>1. CASE Restart
  BY <1>0, <1>1 DEF Restart, LockedOut, TypeOK
<1>2. CASE Store \/ Assign
  BY <1>2 DEF Store, Assign
<1>3. CASE \E v \in Values : Write(v)
  <2>1. missed' = (LockedOut(attempts)' /\ ~AtWork) /\ UNCHANGED thread
    BY <1>3 DEF Write, loop
  <2> QED
    BY <2>1 DEF AtWork
<1>4. CASE Compare
  <2>1. CASE attempts = MaxAttempts
    <3>1. Begin
      BY <1>0, <1>4, <2>1 DEF Compare
    <3>2. PICK t \in Threads : thread' = [thread EXCEPT ![t] = "count"]
      BY <3>1 DEF Begin
    <3>3. thread'[t] = "count"
      BY <3>2 DEF TypeOK
    <3> QED
      BY <3>3 DEF AtWork
  <2>2. CASE attempts # MaxAttempts
    <3>1. /\ attempts' = attempts /\ UNCHANGED loop
          /\ missed' = (attempts > MaxAttempts /\ ~AtWork)
      BY <1>0, <1>4, <2>2 DEF Compare, user
    <3>2. attempts > MaxAttempts
      BY <2>2, <3>1 DEF LockedOut, TypeOK
    <3> QED
      BY <3>1, <3>2 DEF AtWork, loop
  <2> QED
    BY <2>1, <2>2
<1>5. ASSUME NEW t \in Threads, Run(t) PROVE AtWork'
  <2>1. handler' = handler /\ missed' = missed
    BY <1>5 DEF Run, Count, Finish, StoreZero, Reset, Show, set
  <2>2. CASE Reset(t)
    BY <2>2 DEF Reset, LockedOut
  <2>3. CASE Count(t)
    <3>1. thread'[t] = "count"
      BY <2>3 DEF Count
    <3> QED
      BY <3>1 DEF AtWork
  <2>4. CASE Finish(t) \/ StoreZero(t)
    <3>1. thread'[t] \in {"store", "reset"}
      BY <2>4 DEF Finish, StoreZero, Goto, TypeOK
    <3> QED
      BY <3>1 DEF AtWork
  <2>5. CASE Show(t)
    <3>1. /\ attempts' = attempts /\ thread[t] = "show"
          /\ \A u \in Threads \ {t} : thread'[u] = thread[u]
      BY <2>5 DEF Show, Goto, TypeOK
    <3>2. AtWork
      BY <1>0, <2>1, <3>1 DEF LockoutHasThread, LockedOut
    <3> QED
      BY <3>1, <3>2 DEF AtWork
  <2> QED
    BY <1>5, <2>2, <2>3, <2>4, <2>5 DEF Run
<1>6. CASE UNCHANGED vars
  <2>1. handler = "idle" /\ LockedOut(attempts) /\ ~missed /\ UNCHANGED thread
    BY <1>6 DEF vars, system, user, set, loop, LockedOut
  <2> QED
    BY <1>0, <2>1 DEF LockoutHasThread, AtWork
<1> QED
  BY <1>1, <1>2, <1>3, <1>4, <1>5, <1>6 DEF Next, Handle

\* Once no thread is left no lockout time is shown, whatever fails, for any
\* number of threads (ResetFailedAttepmts).
THEOREM TimeIsTakenBack == Spec => []TimeSettles
BY InitHolds, StepTypes, StepTime, PTL DEF Spec

\* A user who is locked out, at the limit or beyond it, has a thread that will end
\* it, whatever the threads of earlier lockouts do, for any number of threads; when
\* the limit can be read, threads can be created and no restart reads stored
\* attempts back, and unless the last set went beyond the limit or was refused
\* while no thread was at work (User_SetParamUlongValue).
THEOREM LockoutIsAttended == Spec => []LockoutHasThread
BY InitHolds, StepTypes, StepThread, PTL DEF Spec

=============================================================================
