------------------------------ MODULE FileLock ------------------------------
(***************************************************************************)
(* filelock.Acquire and Release (internal/filelock) on one lock file: a    *)
(* non-blocking flock tried every 100 ms until it succeeds or the context  *)
(* is cancelled.  The kernel keeps the lock for the open file, and drops   *)
(* it when the file is closed or its process dies.                         *)
(***************************************************************************)
EXTENDS Naturals

CONSTANTS Procs, Nobody

ASSUME LockAssumption == Nobody \notin Procs

Phases == {"idle", "check", "try", "report", "sleep", "held", "closing", "failed"}

VARIABLES
  owner,      \* process whose open file the kernel has locked
  pc,         \* phase of each process
  open,       \* open[p]: p has the lock file open
  cancelled,  \* cancelled[p]: the context of p's call is cancelled
  reports     \* reports[p]: how often this call has run onWait

vars == <<owner, pc, open, cancelled, reports>>

Init ==
  /\ owner = Nobody
  /\ pc = [p \in Procs |-> "idle"]
  /\ open = [p \in Procs |-> FALSE]
  /\ cancelled = [p \in Procs |-> FALSE]
  /\ reports = [p \in Procs |-> 0]

Goto(p, from, to) == pc[p] = from /\ pc' = [pc EXCEPT ![p] = to]

\* OpenFile: the lock file is created or opened, and stays when it is closed.
OpenFile(p) ==
  /\ Goto(p, "idle", "check")
  /\ open' = [open EXCEPT ![p] = TRUE]
  /\ cancelled' = [cancelled EXCEPT ![p] = FALSE]
  /\ reports' = [reports EXCEPT ![p] = 0]
  /\ UNCHANGED owner

\* Mutated form: the error path leaves the lock file open.
FailOpen(p, from) ==
  /\ Goto(p, from, "failed")
  /\ UNCHANGED <<owner, open, cancelled, reports>>

\* closeWithError.  Closing the file frees whatever the kernel kept for it.
CloseWithError(p, from) ==
  /\ Goto(p, from, "failed")
  /\ open' = [open EXCEPT ![p] = FALSE]
  /\ owner' = IF owner = p THEN Nobody ELSE owner
  /\ UNCHANGED <<cancelled, reports>>

CheckContext(p) ==
  \/ cancelled[p] /\ CloseWithError(p, "check")
  \/ /\ ~cancelled[p]
     /\ Goto(p, "check", "try")
     /\ UNCHANGED <<owner, open, cancelled, reports>>

\* Mutated form: a lock that is taken counts as acquired.
TryShared(p) ==
  /\ Goto(p, "try", "held")
  /\ owner' = p
  /\ UNCHANGED <<open, cancelled, reports>>

\* tryLock succeeds, finds the lock taken, or fails.
TryLock(p) ==
  \/ /\ owner = Nobody
     /\ Goto(p, "try", "held")
     /\ owner' = p
     /\ UNCHANGED <<open, cancelled, reports>>
  \/ /\ owner # Nobody
     /\ Goto(p, "try", IF reports[p] = 0 THEN "report" ELSE "sleep")
     /\ UNCHANGED <<owner, open, cancelled, reports>>
  \/ CloseWithError(p, "try")

\* onWait, whose error ends the call.
Report(p) ==
  \/ /\ Goto(p, "report", "sleep")
     /\ reports' = [reports EXCEPT ![p] = @ + 1]
     /\ UNCHANGED <<owner, open, cancelled>>
  \/ CloseWithError(p, "report")

\* The 100 ms timer fires.
Wake(p) ==
  /\ Goto(p, "sleep", "try")
  /\ UNCHANGED <<owner, open, cancelled, reports>>

\* Mutated form: the sleeping call looks at its timer only.
StopWaitingNever(p) == FALSE /\ CloseWithError(p, "sleep")

\* ctx.Done while the call sleeps.
StopWaiting(p) == cancelled[p] /\ CloseWithError(p, "sleep")

\* Lock.Release unlocks, which may fail, and then closes the file all the same.
Unlock(p) ==
  /\ Goto(p, "held", "closing")
  /\ owner' \in {owner, Nobody}
  /\ UNCHANGED <<open, cancelled, reports>>

Close(p) ==
  /\ Goto(p, "closing", "idle")
  /\ open' = [open EXCEPT ![p] = FALSE]
  /\ owner' = IF owner = p THEN Nobody ELSE owner
  /\ UNCHANGED <<cancelled, reports>>

\* The failed call returns to a caller that may try again.
GiveUp(p) ==
  /\ Goto(p, "failed", "idle")
  /\ UNCHANGED <<owner, open, cancelled, reports>>

Crash(p) ==
  /\ pc[p] # "idle"
  /\ pc' = [pc EXCEPT ![p] = "idle"]
  /\ open' = [open EXCEPT ![p] = FALSE]
  /\ owner' = IF owner = p THEN Nobody ELSE owner
  /\ UNCHANGED <<cancelled, reports>>

Cancel(p) ==
  /\ pc[p] # "idle"
  /\ cancelled' = [cancelled EXCEPT ![p] = TRUE]
  /\ UNCHANGED <<owner, pc, open, reports>>

Local(p) ==
  CheckContext(p) \/ TryLock(p) \/ Report(p) \/ Wake(p) \/ StopWaiting(p) \/ Close(p)

Next == \E p \in Procs :
  OpenFile(p) \/ Local(p) \/ Unlock(p) \/ GiveUp(p) \/ Crash(p) \/ Cancel(p)

Spec == Init /\ [][Next]_vars

\* A call runs on; and of two ready cases Go's select does not take the timer
\* for ever, so a sleeping call that is cancelled stops in the end.
FairSpec ==
  Spec /\ \A p \in Procs : WF_vars(Local(p)) /\ SF_vars(StopWaiting(p))

-----------------------------------------------------------------------------

\* Every variable has its type; onWait runs at most once in a call.
TypeOK ==
  /\ owner \in Procs \cup {Nobody}
  /\ pc \in [Procs -> Phases]
  /\ open \in [Procs -> BOOLEAN]
  /\ cancelled \in [Procs -> BOOLEAN]
  /\ reports \in [Procs -> {0, 1}]

\* The kernel's lock belongs to a call that holds it or is about to close the
\* file, and every call that has ended, well or badly, has closed its file.
LockFollowsTheFile ==
  \A p \in Procs :
    /\ pc[p] = "held" => owner = p
    /\ owner = p => open[p] /\ pc[p] \in {"held", "closing"}
    /\ open[p] <=> pc[p] \notin {"idle", "failed"}

\* The lock file is a mutual exclusion lock.
M == INSTANCE Mutex
IsMutex == M!Spec

\* A call whose context is cancelled while it waits gives up or gets the lock,
\* though the owner may keep the lock for ever.
CancelledWaitersEnd ==
  \A p \in Procs : cancelled[p] /\ pc[p] \in {"try", "report", "sleep"}
    ~> pc[p] \in {"held", "failed", "idle"}
=============================================================================
