---------------------------- MODULE ArchiveStore ----------------------------
(***************************************************************************)
(* ArchiveStore.Fetch (internal/qtinstall/archive_store.go) called by      *)
(* several processes that share one cache directory.  An entry is named by *)
(* the digest that the repository's checksum file declares; a content is   *)
(* modelled by its own digest, and Other stands for every content that no  *)
(* checksum file declares: truncated, corrupt or empty.                    *)
(***************************************************************************)
EXTENDS Naturals

CONSTANTS
  Procs,      \* callers of Fetch, one call at a time each
  Nobody,     \* owner of a free digest lock
  Digests,    \* declared digests
  Missing,    \* no file
  Other,      \* a content with no declared digest
  Damageable  \* entries that something outside yaqt may remove or corrupt

ASSUME StoreAssumption ==
  /\ Nobody \notin Procs
  /\ Missing \notin Digests /\ Other \notin Digests /\ Missing # Other
  /\ Damageable \subseteq Digests

Bodies   == Digests \cup {Other}
Contents == Bodies \cup {Missing}
Phases == {"idle", "waiting", "inspect", "discard", "download", "copy",
           "verify", "publish", "release", "returned"}

VARIABLES
  cached,   \* cached[d]: content of downloads/sha256/<d>.7z
  lock,     \* lock[d]: owner of locks/sha256/<d>.lock
  pc,       \* phase of each caller
  want,     \* want[p]: the digest that p's checksum file declares
  partial,  \* partial[p]: content of p's temporary .part file
  got       \* got[p]: the operation under the lock found or made an entry

vars == <<cached, lock, pc, want, partial, got>>

Init ==
  /\ cached = [d \in Digests |-> Missing]
  /\ lock = [d \in Digests |-> Nobody]
  /\ pc = [p \in Procs |-> "idle"]
  /\ want \in [Procs -> Digests]
  /\ partial = [p \in Procs |-> Missing]
  /\ got = [p \in Procs |-> FALSE]

Goto(p, from, to) == pc[p] = from /\ pc' = [pc EXCEPT ![p] = to]

\* fetchChecksum, which needs no lock: the checksum file names the entry.
FetchChecksum(p) ==
  /\ Goto(p, "idle", "waiting")
  /\ \E d \in Digests : want' = [want EXCEPT ![p] = d]
  /\ got' = [got EXCEPT ![p] = FALSE]
  /\ UNCHANGED <<cached, lock, partial>>

\* Mutated form: the lock file's existence is taken for its ownership.
AcquireOwned(p) ==
  /\ Goto(p, "waiting", "inspect")
  /\ lock' = [lock EXCEPT ![want[p]] = p]
  /\ UNCHANGED <<cached, want, partial, got>>

Acquire(p) ==
  /\ Goto(p, "waiting", "inspect")
  /\ lock[want[p]] = Nobody
  /\ lock' = [lock EXCEPT ![want[p]] = p]
  /\ UNCHANGED <<cached, want, partial, got>>

\* Mutated form: a cached entry is never reused.
InspectNothing(p) ==
  /\ Goto(p, "inspect", "discard")
  /\ UNCHANGED <<cached, lock, want, partial, got>>

\* inspectFile and archiveMatchesChecksum on the entry.
Inspect(p) ==
  /\ \/ /\ cached[want[p]] = want[p]
        /\ Goto(p, "inspect", "release")
        /\ got' = [got EXCEPT ![p] = TRUE]
     \/ /\ cached[want[p]] # want[p]
        /\ Goto(p, "inspect", "discard")
        /\ UNCHANGED got
  /\ UNCHANGED <<cached, lock, want, partial>>

\* os.Remove of the invalid entry; one that does not exist is no error.
Discard(p) ==
  /\ Goto(p, "discard", "download")
  /\ cached' = [cached EXCEPT ![want[p]] = Missing]
  /\ UNCHANGED <<lock, want, partial, got>>

\* The server answers and the temporary file is created, still empty.
CreatePartial(p) ==
  /\ Goto(p, "download", "copy")
  /\ partial' = [partial EXCEPT ![p] = Other]
  /\ UNCHANGED <<cached, lock, want, got>>

\* The body ends: any content, of any length.
Copy(p) ==
  /\ Goto(p, "copy", "verify")
  /\ \E c \in Bodies : partial' = [partial EXCEPT ![p] = c]
  /\ UNCHANGED <<cached, lock, want, got>>

\* Mutated form: only the length of the body is compared.
VerifyLength(p) ==
  /\ Goto(p, "verify", "publish")
  /\ UNCHANGED <<cached, lock, want, partial, got>>

\* The digest of the body is compared with the declared one, and a body that
\* differs is removed.
Verify(p) ==
  /\ \/ partial[p] = want[p] /\ Goto(p, "verify", "publish") /\ UNCHANGED partial
     \/ /\ partial[p] # want[p]
        /\ Goto(p, "verify", "release")
        /\ partial' = [partial EXCEPT ![p] = Missing]
  /\ UNCHANGED <<cached, lock, want, got>>

\* os.Rename of the temporary file over the entry.
Publish(p) ==
  /\ Goto(p, "publish", "release")
  /\ cached' = [cached EXCEPT ![want[p]] = partial[p]]
  /\ partial' = [partial EXCEPT ![p] = Missing]
  /\ got' = [got EXCEPT ![p] = TRUE]
  /\ UNCHANGED <<lock, want>>

\* The rename fails: an entry that is valid nevertheless will do.
PublishFails(p) ==
  /\ Goto(p, "publish", "release")
  /\ partial' = [partial EXCEPT ![p] = Missing]
  /\ got' = [got EXCEPT ![p] = cached[want[p]] = want[p]]
  /\ UNCHANGED <<cached, lock, want>>

\* The deferred Release; Fetch returns the path, or its error.
Release(p) ==
  /\ Goto(p, "release", IF got[p] THEN "returned" ELSE "idle")
  /\ lock' = [lock EXCEPT ![want[p]] = Nobody]
  /\ UNCHANGED <<cached, want, partial, got>>

\* The caller is done with the path that Fetch returned: it reads it without
\* holding the lock.
Use(p) ==
  /\ Goto(p, "returned", "idle")
  /\ UNCHANGED <<cached, lock, want, partial, got>>

Fallible == {"inspect", "discard", "download", "copy", "verify", "publish"}

\* Mutated form: an error skips the deferred release of the lock.
FailHoldingLock(p) ==
  /\ pc[p] \in Fallible \cup {"waiting"}
  /\ pc' = [pc EXCEPT ![p] = "idle"]
  /\ partial' = [partial EXCEPT ![p] = Missing]
  /\ UNCHANGED <<cached, lock, want, got>>

\* An I/O, HTTP or context error: the temporary file is removed, and the lock
\* is released where it is held.
Fail(p) ==
  /\ pc[p] \in Fallible \cup {"waiting"}
  /\ pc' = [pc EXCEPT ![p] = IF @ = "waiting" THEN "idle" ELSE "release"]
  /\ partial' = [partial EXCEPT ![p] = Missing]
  /\ UNCHANGED <<cached, lock, want, got>>

\* The process is killed and restarted: the system drops its lock, and its
\* temporary file stays under a name nobody uses again.
Crash(p) ==
  /\ pc[p] \in Fallible \cup {"waiting", "release", "returned"}
  /\ pc' = [pc EXCEPT ![p] = "idle"]
  /\ lock' = [d \in Digests |-> IF lock[d] = p THEN Nobody ELSE lock[d]]
  /\ partial' = [partial EXCEPT ![p] = Missing]
  /\ got' = [got EXCEPT ![p] = FALSE]
  /\ UNCHANGED <<cached, want>>

\* The user removes an entry, or the disk loses or corrupts it.
Damage(d) ==
  /\ \E c \in {Missing, Other} : cached' = [cached EXCEPT ![d] = c]
  /\ UNCHANGED <<lock, pc, want, partial, got>>

\* Steps under the lock: those of the process itself, and the server's.
Local(p) ==
  \/ Inspect(p) \/ Discard(p) \/ Verify(p) \/ Publish(p) \/ PublishFails(p)
  \/ Release(p)
Remote(p) == CreatePartial(p) \/ Copy(p)

Next ==
  \/ \E p \in Procs :
       \/ FetchChecksum(p) \/ Acquire(p) \/ Local(p) \/ Remote(p)
       \/ Use(p) \/ Fail(p) \/ Crash(p)
  \/ \E d \in Damageable : Damage(d)

Spec == Init /\ [][Next]_vars

\* A process runs on, and a server that was asked ends its answer: archives
\* are fetched with http.DefaultClient, which has no timeout of its own.
FairSpec == Spec /\ \A p \in Procs : WF_vars(Local(p)) /\ WF_vars(Remote(p))

-----------------------------------------------------------------------------

\* Every variable has its type.
TypeOK ==
  /\ cached \in [Digests -> Contents]
  /\ lock \in [Digests -> Procs \cup {Nobody}]
  /\ pc \in [Procs -> Phases]
  /\ want \in [Procs -> Digests]
  /\ partial \in [Procs -> Contents]
  /\ got \in [Procs -> BOOLEAN]

UnderLock(p) == pc[p] \in Fallible \cup {"release"}

\* A caller owns the lock of its digest, and no other, exactly while it works
\* on the entry (withArchiveCacheLock).
LockIsHeldByWorker ==
  \A p \in Procs, d \in Digests : lock[d] = p <=> UnderLock(p) /\ want[p] = d

\* Nobody downloads an archive while a verified copy of it is in the cache: a
\* caller that waited for the lock finds what its owner published.
DownloadsOnlyWhatIsMissing ==
  \A p \in Procs : pc[p] \in {"download", "copy", "verify", "publish"} =>
    cached[want[p]] # want[p]

\* The cache behaves as a store of verified entries.
Store == INSTANCE VerifiedStore
IsVerifiedStore == Store!Spec

\* A path that Fetch returned still names verified content while the caller
\* uses it without the lock, whatever other callers of the digest do.  (Where
\* nothing outside yaqt damages the entry.)
ReturnedIsVerified ==
  \A p \in Procs :
    pc[p] = "returned" /\ want[p] \notin Damageable => cached[want[p]] = want[p]

\* A digest lock is not held forever, whatever error ends the work under it.
LocksAreReleased ==
  \A p \in Procs, d \in Digests : lock[d] = p ~> lock[d] # p
=============================================================================
