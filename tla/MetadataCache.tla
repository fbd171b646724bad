--------------------------- MODULE MetadataCache ---------------------------
(***************************************************************************)
(* repositoryResourceCache.load (internal/qtrepo/resource_cache.go) for    *)
(* one request URL: several processes read its entry without a lock, and   *)
(* those that find none they can use queue for the lock of the URL, look   *)
(* again, and load, validate and publish a new one.  Entries and locks of  *)
(* different URLs are different files and do not interact.                 *)
(*                                                                         *)
(* The documents the server publishes are numbered; Junk is an answer that *)
(* the caller's parser refuses (an error page served with status 200).     *)
(* Loading is httpclient.Get: a request that gets no answer is repeated    *)
(* after a delay, a few times, while the lock is held.                     *)
(***************************************************************************)
EXTENDS Naturals

CONSTANTS
  Procs,      \* callers of load, one call at a time each
  Nobody,     \* owner of the free lock
  NoEntry,    \* no file
  Corrupt,    \* a file whose schema, key, size or checksum is wrong
  Junk,       \* a document that does not validate
  MaxAge,     \* age up to which an entry is fresh: 15 minutes in the code
  MaxLoad,    \* bound on the time from the server's answer to the temporary
              \* file, and from there to the rename
  Attempts,   \* requests for one document: maxGetAttempts, 3
  MaxTime,    \* bound on the clock
  MaxEdits    \* bound on the documents the server publishes

ASSUME CacheAssumption ==
  /\ Nobody \notin Procs
  /\ MaxAge \in Nat /\ MaxLoad \in Nat /\ MaxTime \in Nat /\ MaxEdits \in Nat
  /\ MaxLoad <= MaxAge
  /\ Attempts \in Nat \ {0}
  /\ Junk \notin Nat

Times     == 0..MaxTime
Published == 0..MaxEdits
Documents == Published \cup {Junk}
Stamped   == [doc : Documents, at : Times]   \* repositoryCacheEntry
Entries   == Stamped \cup {NoEntry, Corrupt}

Phases == {"idle", "peek", "judge", "waiting", "recheck", "rejudge", "load",
           "delay", "validate", "rename", "release", "served"}

VARIABLES
  entry,     \* the file of the URL in metadata/sha256
  lock,      \* owner of the URL's lock file
  now,       \* wall clock
  stepped,   \* the wall clock was set back
  origin,    \* the document that the server has published last
  replaced,  \* replaced[d]: when document d was replaced (0 while it was not)
  pc,        \* phase of each caller
  failures,  \* failures[p]: requests of p's load that got no answer
  held,      \* held[p]: the entry that p has read, or is about to publish
  served     \* served[p]: the document that p's call returns

env  == <<now, stepped, origin, replaced>>
vars == <<entry, lock, env, pc, failures, held, served>>

\* A cache left by an earlier run, of this program or of one whose parser
\* accepted what this one refuses.
Init ==
  /\ entry \in {NoEntry, Corrupt, [doc |-> Junk, at |-> 0]}
  /\ lock = Nobody
  /\ now = 0 /\ stepped = FALSE /\ origin = 0
  /\ replaced = [d \in Published |-> 0]
  /\ pc = [p \in Procs |-> "idle"]
  /\ failures = [p \in Procs |-> 0]
  /\ held = [p \in Procs |-> NoEntry]
  /\ served = [p \in Procs |-> Junk]

-----------------------------------------------------------------------------

\* Mutated form: an entry is fresh for one unit too long.
FreshTooLong(e) == e.at <= now /\ now - e.at <= MaxAge + 1

\* readFresh: neither older than MaxAge nor stamped in the future.
Fresh(e) == e.at <= now /\ now - e.at <= MaxAge

\* Mutated form: what was cached is not validated again.
UsableUnparsed(e) == e \notin {NoEntry, Corrupt} /\ Fresh(e)

\* readValidFresh: a well-formed, fresh entry that validates.
Usable(e) == e \notin {NoEntry, Corrupt} /\ Fresh(e) /\ e.doc # Junk

Goto(p, from, to) == pc[p] = from /\ pc' = [pc EXCEPT ![p] = to]

Call(p) ==
  /\ Goto(p, "idle", "peek")
  /\ UNCHANGED <<entry, lock, env, served, held, failures>>

\* The file is opened and, while the name may get a new file, read.
Open(p) ==
  /\ Goto(p, "peek", "judge") \/ Goto(p, "recheck", "rejudge")
  /\ held' = [held EXCEPT ![p] = entry]
  /\ UNCHANGED <<entry, lock, env, served, failures>>

LetGo(p) == held' = [held EXCEPT ![p] = NoEntry]

Hit(p) ==
  /\ Usable(held[p])
  /\ Goto(p, "judge", "served") \/ Goto(p, "rejudge", "release")
  /\ served' = [served EXCEPT ![p] = held[p].doc]
  /\ LetGo(p)
  /\ UNCHANGED <<entry, lock, env, failures>>

Miss(p) ==
  /\ ~Usable(held[p])
  /\ Goto(p, "judge", "waiting") \/ Goto(p, "rejudge", "load")
  /\ LetGo(p)
  /\ UNCHANGED <<entry, lock, env, served, failures>>

\* Mutated form: the process that waited does not look at the entry again.
AcquireToLoad(p) ==
  /\ Goto(p, "waiting", "load")
  /\ lock = Nobody
  /\ lock' = p
  /\ UNCHANGED <<entry, env, served, held, failures>>

Acquire(p) ==
  /\ Goto(p, "waiting", "recheck")
  /\ lock = Nobody
  /\ lock' = p
  /\ UNCHANGED <<entry, env, served, held, failures>>

\* The server's answer is the document of the moment, or an error page; what it
\* answers with an error status is not asked for again (Fail).
Load(p) ==
  /\ Goto(p, "load", "validate")
  /\ \E d \in {origin, Junk} : held' = [held EXCEPT ![p] = [doc |-> d, at |-> now]]
  /\ failures' = [failures EXCEPT ![p] = 0]
  /\ UNCHANGED <<entry, lock, env, served>>

\* Mutated form: requests are repeated until there is an answer.
LoseForever(p) ==
  /\ Goto(p, "load", "delay")
  /\ UNCHANGED <<entry, lock, env, served, held, failures>>

\* No connection, or no answer within the client's ten seconds: the last request
\* is an error, one before it is repeated after a delay.
Lose(p) ==
  /\ \/ /\ failures[p] + 1 < Attempts
        /\ Goto(p, "load", "delay")
        /\ failures' = [failures EXCEPT ![p] = @ + 1]
     \/ /\ failures[p] + 1 = Attempts
        /\ Goto(p, "load", "release")
        /\ failures' = [failures EXCEPT ![p] = 0]
  /\ UNCHANGED <<entry, lock, env, served, held>>

Retry(p) ==
  /\ Goto(p, "delay", "load")
  /\ UNCHANGED <<entry, lock, env, served, held, failures>>

\* The answer validates and is written to a temporary file, with the time at
\* which it is written; one that does not validate is an error.
Stage(p) ==
  /\ \/ /\ Goto(p, "validate", "rename")
        /\ held[p].doc # Junk
        /\ held' = [held EXCEPT ![p].at = now]
     \/ /\ Goto(p, "validate", "release")
        /\ held[p].doc = Junk
        /\ LetGo(p)
  /\ UNCHANGED <<entry, lock, env, served, failures>>

Rename(p) ==
  /\ Goto(p, "rename", "release")
  /\ entry' = held[p]
  /\ served' = [served EXCEPT ![p] = held[p].doc]
  /\ LetGo(p)
  /\ UNCHANGED <<lock, env, failures>>

\* The deferred Release; the call returns a document or an error.
Release(p) ==
  /\ Goto(p, "release", IF served[p] = Junk THEN "idle" ELSE "served")
  /\ lock' = Nobody
  /\ UNCHANGED <<entry, env, served, held, failures>>

Return(p) ==
  /\ Goto(p, "served", "idle")
  /\ served' = [served EXCEPT ![p] = Junk]
  /\ UNCHANGED <<entry, lock, env, held, failures>>

Locked(p) == pc[p] \in {"recheck", "rejudge", "load", "delay", "validate", "rename",
                     "release"}

\* An I/O, HTTP or context error.
Fail(p) ==
  /\ pc[p] \notin {"idle", "release", "served"}
  /\ pc' = [pc EXCEPT ![p] = IF Locked(p) THEN "release" ELSE "idle"]
  /\ LetGo(p)
  /\ failures' = [failures EXCEPT ![p] = 0]
  /\ UNCHANGED <<entry, lock, env, served>>

\* The process is killed; the system drops its lock.
Crash(p) ==
  /\ pc[p] # "idle"
  /\ pc' = [pc EXCEPT ![p] = "idle"]
  /\ lock' = IF lock = p THEN Nobody ELSE lock
  /\ served' = [served EXCEPT ![p] = Junk]
  /\ LetGo(p)
  /\ failures' = [failures EXCEPT ![p] = 0]
  /\ UNCHANGED <<entry, env>>

(* The world around the processes.                                         *)

Tick ==
  /\ now < MaxTime
  /\ \A p \in Procs : pc[p] \in {"validate", "rename"} => now < held[p].at + MaxLoad
  /\ now' = now + 1
  /\ UNCHANGED <<entry, lock, stepped, origin, replaced, pc, held, served, failures>>

SetClockBack ==
  /\ now > 0
  /\ now' = now - 1
  /\ stepped' = TRUE
  /\ UNCHANGED <<entry, lock, origin, replaced, pc, held, served, failures>>

Edit ==
  /\ origin < MaxEdits
  /\ origin' = origin + 1
  /\ replaced' = [replaced EXCEPT ![origin] = now]
  /\ UNCHANGED <<entry, lock, now, stepped, pc, held, served, failures>>

Damage ==
  /\ entry' \in {NoEntry, Corrupt}
  /\ UNCHANGED <<lock, env, pc, held, served, failures>>

Local(p) ==
  \/ Open(p) \/ Hit(p) \/ Miss(p) \/ Load(p) \/ Lose(p) \/ Retry(p)
  \/ Stage(p) \/ Rename(p) \/ Release(p)

Next ==
  \/ \E p \in Procs :
       Call(p) \/ Acquire(p) \/ Local(p) \/ Return(p) \/ Fail(p) \/ Crash(p)
  \/ Tick \/ SetClockBack \/ Edit \/ Damage

Spec == Init /\ [][Next]_vars

\* A process runs on, and the metadata client's ten second timeout ends every
\* request with an answer or without one; the server may never answer.
FairSpec == Spec /\ \A p \in Procs : WF_vars(Local(p))

-----------------------------------------------------------------------------

\* Every variable has its type.
TypeOK ==
  /\ entry \in Entries
  /\ lock \in Procs \cup {Nobody}
  /\ now \in Times /\ stepped \in BOOLEAN /\ origin \in Published
  /\ replaced \in [Published -> Times]
  /\ pc \in [Procs -> Phases]
  /\ failures \in [Procs -> 0..Attempts - 1]
  /\ held \in [Procs -> Entries]
  /\ served \in [Procs -> Documents]

\* A document that a call returns was the server's at some moment of the last
\* MaxAge, or of the time it took to fetch it on top, even when it was read
\* from an entry that another process wrote or was replacing.  (While the wall
\* clock only advances.)
ServedIsRecent ==
  [][\A p \in Procs : ~stepped /\ served'[p] # served[p] /\ served'[p] # Junk =>
       \/ served'[p] = origin
       \/ now <= replaced[served'[p]] + MaxAge + MaxLoad]_vars

\* While a process loads the document, the cache has no entry it could use:
\* of the processes that miss at once, one loads.  (While the wall clock only
\* advances: set back, it makes an old entry fresh again.)
LoadsOnlyWhatIsStale ==
  \A p \in Procs :
    ~stepped /\ pc[p] \in {"load", "delay", "validate", "rename"} => ~Usable(entry)

\* A call that returns, returns a document that validates, although the cache
\* and the server may both hold one that does not.
ReturnsOnlyValid == \A p \in Procs : pc[p] = "served" => served[p] # Junk

\* The lock of a URL is not held forever, although its owner repeats requests
\* that get no answer (httpclient.go:56).
LockIsReleased == \A p \in Procs : lock = p ~> lock # p
=============================================================================
