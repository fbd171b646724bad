--------------------------- MODULE FileLockProofs ---------------------------
(***************************************************************************)
(* The lock file is a mutual exclusion lock: whoever holds it, gives it    *)
(* up, fails, dies or is cancelled, the kernel's lock and the open files   *)
(* stay in step, and the owner changes only through a free lock.           *)
(***************************************************************************)
EXTENDS FileLock, TLAPS

\* A call runs onWait only when it has not run it yet.
OneReport == \A p \in Procs : pc[p] = "report" => reports[p] = 0

IInv == TypeOK /\ OneReport /\ LockFollowsTheFile

-----------------------------------------------------------------------------

LEMMA InitIInv == Init => IInv
BY LockAssumption DEF Init, IInv, TypeOK, Phases, OneReport, LockFollowsTheFile

LEMMA TypeStep == TypeOK /\ OneReport /\ [Next]_vars => TypeOK' /\ OneReport'
<1> SUFFICES ASSUME TypeOK, OneReport, [Next]_vars PROVE TypeOK' /\ OneReport'
  OBVIOUS
<1> USE DEF TypeOK, Phases, OneReport, Goto
<1>1. ASSUME NEW p \in Procs, OpenFile(p) PROVE TypeOK' /\ OneReport'
  BY <1>1 DEF OpenFile
<1>2. ASSUME NEW p \in Procs, NEW from \in Phases, CloseWithError(p, from)
      PROVE  TypeOK' /\ OneReport'
  BY <1>2 DEF CloseWithError
<1>3. ASSUME NEW p \in Procs, CheckContext(p) PROVE TypeOK' /\ OneReport'
  BY <1>3, <1>2 DEF CheckContext
<1>4. ASSUME NEW p \in Procs, TryLock(p) PROVE TypeOK' /\ OneReport'
  BY <1>4, <1>2 DEF TryLock
<1>5. ASSUME NEW p \in Procs, Report(p) PROVE TypeOK' /\ OneReport'
  BY <1>5, <1>2 DEF Report
<1>6. ASSUME NEW p \in Procs, Wake(p) \/ StopWaiting(p) PROVE TypeOK' /\ OneReport'
  BY <1>6, <1>2 DEF Wake, StopWaiting
<1>7. ASSUME NEW p \in Procs, Close(p) \/ Unlock(p) \/ GiveUp(p)
      PROVE  TypeOK' /\ OneReport'
  BY <1>7 DEF Close, Unlock, GiveUp
<1>8. ASSUME NEW p \in Procs, Crash(p) \/ Cancel(p) PROVE TypeOK' /\ OneReport'
  BY <1>8 DEF Crash, Cancel
<1>9. CASE UNCHANGED vars
  BY <1>9 DEF vars
<1> QED BY <1>1, <1>3, <1>4, <1>5, <1>6, <1>7, <1>8, <1>9 DEF Next, Local

\* Every step keeps the kernel's lock, the open files and the phases in step.
LEMMA LockStep ==
  TypeOK /\ LockFollowsTheFile /\ [Next]_vars => LockFollowsTheFile'
<1> SUFFICES ASSUME TypeOK, LockFollowsTheFile, [Next]_vars PROVE LockFollowsTheFile'
  OBVIOUS
<1> USE LockAssumption DEF TypeOK, Phases, LockFollowsTheFile, Goto
<1>1. ASSUME NEW p \in Procs, OpenFile(p) PROVE LockFollowsTheFile'
  BY <1>1 DEF OpenFile
<1>2. ASSUME NEW p \in Procs, NEW from \in Phases \ {"held", "closing"},
             CloseWithError(p, from)
      PROVE  LockFollowsTheFile'
  BY <1>2 DEF CloseWithError
<1>3. ASSUME NEW p \in Procs, CheckContext(p) PROVE LockFollowsTheFile'
  BY <1>3, <1>2 DEF CheckContext
<1>4. ASSUME NEW p \in Procs, TryLock(p) PROVE LockFollowsTheFile'
  <2>1. CASE owner = Nobody /\ Goto(p, "try", "held") /\ owner' = p
             /\ UNCHANGED <<open, cancelled, reports>>
    BY <2>1
  <2>2. CASE Goto(p, "try", IF reports[p] = 0 THEN "report" ELSE "sleep")
             /\ UNCHANGED <<owner, open, cancelled, reports>>
    BY <2>2
  <2> QED BY <1>4, <1>2, <2>1, <2>2 DEF TryLock
<1>5. ASSUME NEW p \in Procs, Report(p) PROVE LockFollowsTheFile'
  BY <1>5, <1>2 DEF Report
<1>6. ASSUME NEW p \in Procs, Wake(p) \/ StopWaiting(p) PROVE LockFollowsTheFile'
  BY <1>6, <1>2 DEF Wake, StopWaiting
<1>7. ASSUME NEW p \in Procs, Unlock(p) \/ Close(p) PROVE LockFollowsTheFile'
  BY <1>7 DEF Unlock, Close
<1>8. ASSUME NEW p \in Procs, GiveUp(p) PROVE LockFollowsTheFile'
  BY <1>8 DEF GiveUp
<1>9. ASSUME NEW p \in Procs, Crash(p) \/ Cancel(p) PROVE LockFollowsTheFile'
  BY <1>9 DEF Crash, Cancel
<1>10. CASE UNCHANGED vars
  BY <1>10 DEF vars
<1> QED
  BY <1>1, <1>3, <1>4, <1>5, <1>6, <1>7, <1>8, <1>9, <1>10 DEF Next, Local

LEMMA IInvHolds == Spec => []IInv
<1>1. IInv /\ [Next]_vars => IInv'
  BY TypeStep, LockStep DEF IInv
<1> QED BY <1>1, InitIInv, PTL DEF Spec

\* For every number of processes and every interleaving of Acquire and Release,
\* with the failures, cancellations and crashes of their callers, a call that
\* holds the lock owns the kernel's lock, the owner is a call that holds or is
\* about to close the file, and a call that ended has closed its file.
THEOREM LockFollowsTheFileHolds == Spec => []LockFollowsTheFile
BY IInvHolds, PTL DEF IInv

\* Every variable has its type, and onWait runs at most once in a call of Acquire.
THEOREM TypeCorrect == Spec => []TypeOK
BY IInvHolds, PTL DEF IInv

-----------------------------------------------------------------------------
(* The lock file implements Mutex.                                          *)

\* Each step of a call takes the free lock, gives up its own, or leaves the owner.
LEMMA MutexStep ==
  IInv /\ [Next]_vars => [\E p \in Procs : M!Take(p) \/ M!Drop(p)]_owner
<1> SUFFICES ASSUME IInv, Next, owner' # owner
             PROVE  \E p \in Procs : M!Take(p) \/ M!Drop(p)
  BY DEF vars
<1> USE DEF M!Take, M!Drop
<1>1. PICK p \in Procs : OpenFile(p) \/ Local(p) \/ Unlock(p) \/ GiveUp(p)
                           \/ Crash(p) \/ Cancel(p)
  BY DEF Next
<1>2. \/ owner = Nobody /\ owner' = p
      \/ owner' = IF owner = p THEN Nobody ELSE owner
      \/ pc[p] = "held" /\ owner' \in {owner, Nobody}
  BY <1>1 DEF OpenFile, Local, CheckContext, CloseWithError, TryLock, Report, Wake,
              StopWaiting, Close, Unlock, GiveUp, Crash, Cancel, Goto
<1>3. pc[p] = "held" => owner = p
  BY DEF IInv, LockFollowsTheFile
<1> QED BY <1>2, <1>3

\* The lock file is a mutual exclusion lock: it never passes from one process to
\* another but through a free lock, and only its owner's release, failure or
\* death frees it.
THEOREM LockFileIsMutex == Spec => IsMutex
<1>1. Init => M!Init
  BY DEF Init, M!Init
<1> QED BY <1>1, IInvHolds, MutexStep, PTL DEF Spec, IsMutex, M!Spec
=============================================================================
