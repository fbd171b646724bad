------------------------- MODULE ArchiveStoreProofs -------------------------
(***************************************************************************)
(* Proofs about ArchiveStore: its type invariant, the ownership of the     *)
(* digest locks, that nobody downloads what is cached, and that the cache  *)
(* implements VerifiedStore.                                               *)
(***************************************************************************)
EXTENDS ArchiveStore, TLAPS

\* Why the invariants hold: an entry holds its own digest or nothing of use;
\* what is about to be published has been verified; and from the inspection
\* to the rename the entry is not valid, since only the owner of its lock
\* publishes one.
EntriesAreNamed == \A d \in Digests : cached[d] \in {d, Other, Missing}

VerifiedBeforeRename == \A p \in Procs : pc[p] = "publish" => partial[p] = want[p]

InvalidUntilRename ==
  \A p \in Procs : pc[p] \in {"discard", "download", "copy", "verify", "publish"} =>
    cached[want[p]] # want[p]

IInv ==
  /\ TypeOK
  /\ LockIsHeldByWorker
  /\ EntriesAreNamed
  /\ VerifiedBeforeRename
  /\ InvalidUntilRename

USE DEF Phases, Contents, Bodies, Fallible

-----------------------------------------------------------------------------

LEMMA InitIInv == Init => IInv
BY StoreAssumption DEF Init, IInv, TypeOK, LockIsHeldByWorker, EntriesAreNamed,
   VerifiedBeforeRename, InvalidUntilRename, UnderLock

LEMMA TypeStep == TypeOK /\ [Next]_vars => TypeOK'
<1> SUFFICES ASSUME TypeOK, [Next]_vars PROVE TypeOK'
  OBVIOUS
<1> USE DEF TypeOK
<1>1. ASSUME NEW p \in Procs, FetchChecksum(p) PROVE TypeOK'
  BY <1>1 DEF FetchChecksum, Goto
<1>2. ASSUME NEW p \in Procs, Acquire(p) PROVE TypeOK'
  BY <1>2 DEF Acquire, Goto
<1>3. ASSUME NEW p \in Procs, Local(p) PROVE TypeOK'
  <2>1. CASE Inspect(p)
    BY <2>1 DEF Inspect, Goto
  <2>2. CASE Discard(p)
    BY <2>2 DEF Discard, Goto
  <2>3. CASE Verify(p)
    BY <2>3 DEF Verify, Goto
  <2>4. CASE Publish(p)
    BY <2>4 DEF Publish, Goto
  <2>5. CASE PublishFails(p)
    BY <2>5 DEF PublishFails, Goto
  <2>6. CASE Release(p)
    BY <2>6 DEF Release, Goto
  <2> QED BY <1>3, <2>1, <2>2, <2>3, <2>4, <2>5, <2>6 DEF Local
<1>4. ASSUME NEW p \in Procs, Remote(p) PROVE TypeOK'
  BY <1>4 DEF Remote, CreatePartial, Copy, Goto
<1>5. ASSUME NEW p \in Procs, Use(p) PROVE TypeOK'
  BY <1>5 DEF Use, Goto
<1>6. ASSUME NEW p \in Procs, Fail(p) PROVE TypeOK'
  BY <1>6 DEF Fail
<1>7. ASSUME NEW p \in Procs, Crash(p) PROVE TypeOK'
  BY <1>7 DEF Crash
<1>8. ASSUME NEW d \in Damageable, Damage(d) PROVE TypeOK'
  BY <1>8, StoreAssumption DEF Damage
<1>9. CASE UNCHANGED vars
  BY <1>9 DEF vars
<1> QED BY <1>1, <1>2, <1>3, <1>4, <1>5, <1>6, <1>7, <1>8, <1>9 DEF Next

LEMMA IInvStep == IInv /\ [Next]_vars => IInv'
<1> SUFFICES ASSUME IInv, [Next]_vars PROVE IInv'
  OBVIOUS
<1>0. TypeOK'
  BY TypeStep DEF IInv
<1> USE <1>0, StoreAssumption
      DEF IInv, LockIsHeldByWorker, EntriesAreNamed, VerifiedBeforeRename,
          InvalidUntilRename, UnderLock
<1>1. ASSUME NEW p \in Procs, FetchChecksum(p) PROVE IInv'
  BY <1>1 DEF FetchChecksum, Goto, TypeOK
<1>2. ASSUME NEW p \in Procs, Acquire(p) PROVE IInv'
  BY <1>2 DEF Acquire, Goto, TypeOK
<1>3. ASSUME NEW p \in Procs, Local(p) PROVE IInv'
  <2>1. CASE Inspect(p)
    BY <2>1 DEF Inspect, Goto, TypeOK
  <2>2. CASE Discard(p)
    BY <2>2 DEF Discard, Goto, TypeOK
  <2>3. CASE Verify(p)
    BY <2>3 DEF Verify, Goto, TypeOK
  <2>4. CASE Publish(p)
    BY <2>4 DEF Publish, Goto, TypeOK
  <2>5. CASE PublishFails(p)
    BY <2>5 DEF PublishFails, Goto, TypeOK
  <2>6. CASE Release(p)
    BY <2>6 DEF Release, Goto, TypeOK
  <2> QED BY <1>3, <2>1, <2>2, <2>3, <2>4, <2>5, <2>6 DEF Local
<1>4. ASSUME NEW p \in Procs, Remote(p) PROVE IInv'
  BY <1>4 DEF Remote, CreatePartial, Copy, Goto, TypeOK
<1>5. ASSUME NEW p \in Procs, Use(p) PROVE IInv'
  BY <1>5 DEF Use, Goto, TypeOK
<1>6. ASSUME NEW p \in Procs, Fail(p) PROVE IInv'
  BY <1>6 DEF Fail, TypeOK
<1>7. ASSUME NEW p \in Procs, Crash(p) PROVE IInv'
  BY <1>7 DEF Crash, TypeOK
<1>8. ASSUME NEW d \in Damageable, Damage(d) PROVE IInv'
  BY <1>8 DEF Damage, TypeOK
<1>9. CASE UNCHANGED vars
  BY <1>9 DEF vars, TypeOK
<1> QED BY <1>1, <1>2, <1>3, <1>4, <1>5, <1>6, <1>7, <1>8, <1>9 DEF Next

LEMMA Inductive == Spec => []IInv
BY InitIInv, IInvStep, PTL DEF Spec

-----------------------------------------------------------------------------

\* Every variable has its type, for any callers and digests.
THEOREM TypeCorrect == Spec => []TypeOK
BY Inductive, PTL DEF IInv

\* The lock of a digest is owned by the one caller that works on its entry.
THEOREM DigestLockOwnership == Spec => []LockIsHeldByWorker
BY Inductive, PTL DEF IInv

\* No caller downloads an archive that is in the cache, verified: whatever the
\* number of callers, one download per digest is enough.
THEOREM NoNeedlessDownload == Spec => []DownloadsOnlyWhatIsMissing
<1>1. IInv => DownloadsOnlyWhatIsMissing
  BY DEF IInv, InvalidUntilRename, DownloadsOnlyWhatIsMissing
<1> QED BY <1>1, Inductive, PTL

\* Every step of the store is a step of the verified store or leaves the
\* entries alone.
LEMMA StoreStep == IInv /\ [Next]_vars => [Store!Next]_cached
<1> SUFFICES ASSUME IInv, [Next]_vars PROVE [Store!Next]_cached
  OBVIOUS
<1> USE StoreAssumption DEF IInv, TypeOK, Store!Next, Store!Publish, Store!Discard,
        Store!Damage
<1>1. ASSUME NEW p \in Procs, Discard(p) PROVE [Store!Next]_cached
  <2>1. cached[want[p]] \in {Other, Missing}
    BY <1>1 DEF Discard, Goto, EntriesAreNamed, InvalidUntilRename
  <2>2. CASE cached[want[p]] = Other
    BY <1>1, <2>2 DEF Discard
  <2>3. CASE cached[want[p]] = Missing
    BY <1>1, <2>3 DEF Discard
  <2> QED BY <2>1, <2>2, <2>3
<1>2. ASSUME NEW p \in Procs, Publish(p) PROVE [Store!Next]_cached
  <2>1. partial[p] = want[p] /\ cached[want[p]] # want[p]
    BY <1>2 DEF Publish, Goto, VerifiedBeforeRename, InvalidUntilRename
  <2> QED BY <1>2, <2>1 DEF Publish
<1>3. ASSUME NEW d \in Damageable, Damage(d) PROVE [Store!Next]_cached
  BY <1>3 DEF Damage
<1>4. ASSUME NEW p \in Procs,
             \/ FetchChecksum(p) \/ Acquire(p) \/ Inspect(p) \/ Verify(p)
             \/ PublishFails(p) \/ Release(p) \/ Remote(p) \/ Use(p) \/ Fail(p) \/ Crash(p)
      PROVE UNCHANGED cached
  BY <1>4 DEF FetchChecksum, Acquire, Inspect, Verify, PublishFails, Release,
     Remote, CreatePartial, Copy, Use, Fail, Crash
<1>5. CASE UNCHANGED vars
  BY <1>5 DEF vars
<1> QED BY <1>1, <1>2, <1>3, <1>4, <1>5 DEF Next, Local

\* The cache publishes verified content only and discards nothing else.
THEOREM ImplementsVerifiedStore == Spec => IsVerifiedStore
<1>1. Init => Store!Init
  BY DEF Init, Store!Init
<1> QED BY <1>1, Inductive, StoreStep, PTL DEF Spec, IsVerifiedStore, Store!Spec

\* A returned path names verified content for as long as its caller uses it,
\* unless something outside yaqt damages the entry.
THEOREM ReturnedStaysVerified == Spec => []ReturnedIsVerified
<1> DEFINE Valid(p) == want[p] \notin Damageable => cached[want[p]] = want[p]
           R == \A p \in Procs :
                  /\ pc[p] = "returned" => Valid(p)
                  /\ pc[p] = "release" /\ got[p] => Valid(p)
                  /\ pc[p] \in Fallible \cup {"waiting"} => ~got[p]
<1>1. Init => R
  BY DEF Init
<1>2. IInv /\ R /\ [Next]_vars => R'
  <2> SUFFICES ASSUME IInv, R, [Next]_vars PROVE R'
    OBVIOUS
  <2> USE DEF IInv, TypeOK
  <2>1. ASSUME NEW p \in Procs, FetchChecksum(p) \/ Acquire(p) \/ Use(p) PROVE R'
    BY <2>1 DEF FetchChecksum, Acquire, Use, Goto
  <2>2. ASSUME NEW p \in Procs, Remote(p) PROVE R'
    BY <2>2 DEF Remote, CreatePartial, Copy, Goto
  <2>3. ASSUME NEW p \in Procs, Inspect(p) PROVE R'
    BY <2>3 DEF Inspect, Goto
  <2>4. ASSUME NEW p \in Procs, Discard(p) PROVE R'
    BY <2>4 DEF Discard, Goto, InvalidUntilRename
  <2>5. ASSUME NEW p \in Procs, Verify(p) PROVE R'
    BY <2>5 DEF Verify, Goto
  <2>6. ASSUME NEW p \in Procs, Publish(p) PROVE R'
    BY <2>6 DEF Publish, Goto, VerifiedBeforeRename
  <2>7. ASSUME NEW p \in Procs, PublishFails(p) PROVE R'
    BY <2>7 DEF PublishFails, Goto
  <2>8. ASSUME NEW p \in Procs, Release(p) PROVE R'
    BY <2>8 DEF Release, Goto
  <2>9. ASSUME NEW p \in Procs, Fail(p) \/ Crash(p) PROVE R'
    BY <2>9 DEF Fail, Crash
  <2>10. ASSUME NEW d \in Damageable, Damage(d) PROVE R'
    BY <2>10 DEF Damage
  <2>11. CASE UNCHANGED vars
    BY <2>11 DEF vars
  <2> QED
    BY <2>1, <2>2, <2>3, <2>4, <2>5, <2>6, <2>7, <2>8, <2>9, <2>10, <2>11
    DEF Next, Local
<1>3. R => ReturnedIsVerified
  BY DEF ReturnedIsVerified
<1> QED BY <1>1, <1>2, <1>3, Inductive, PTL DEF Spec
=============================================================================
