------------------------ MODULE MetadataCacheProofs ------------------------
(***************************************************************************)
(* What the readers and the loaders of one cache entry rely on, for every  *)
(* number of processes, every freshness limit and every history of the     *)
(* clock, the server and the file.                                         *)
(***************************************************************************)
EXTENDS MetadataCache, TLAPS

\* Whoever is past the lock owns it, and nobody else.
LockIsOwned == \A p \in Procs : Locked(p) <=> lock = p

Real(e) == e \notin {NoEntry, Corrupt}

\* An answer in hand is an entry, and the one about to be published validates.
AnswersAreStamped ==
  \A p \in Procs :
    /\ pc[p] \in {"validate", "rename"} => held[p] \in Stamped
    /\ pc[p] = "rename" => held[p].doc # Junk

\* What the owner of the lock has read again is what the file holds, unless the
\* file was damaged.
SeesTheEntry ==
  \A p \in Procs : pc[p] = "rejudge" => entry \in {held[p], NoEntry, Corrupt}

\* The document of e was the server's at some moment after e's time less slack.
Current(e, slack) ==
  e.doc # Junk => e.doc = origin \/ e.at <= replaced[e.doc] + slack

\* While the wall clock only advances, nothing is stamped in the future, what is
\* in hand was answered within MaxLoad, and no document is older than its stamp
\* by more than the time it took to write it down.
StampsAreTrue ==
  ~stepped =>
    /\ \A d \in Published : replaced[d] <= now
    /\ Real(entry) => entry.at <= now /\ Current(entry, MaxLoad)
    /\ \A p \in Procs :
         /\ pc[p] \in {"judge", "rejudge"} /\ Real(held[p]) =>
              held[p].at <= now /\ Current(held[p], MaxLoad)
         /\ pc[p] = "validate" => Current(held[p], 0)
         /\ pc[p] = "rename" => Current(held[p], MaxLoad)
         /\ pc[p] \in {"validate", "rename"} =>
              held[p].at <= now /\ now <= held[p].at + MaxLoad

IInv ==
  /\ TypeOK
  /\ LockIsOwned
  /\ AnswersAreStamped
  /\ SeesTheEntry
  /\ StampsAreTrue
  /\ LoadsOnlyWhatIsStale
  /\ ReturnsOnlyValid

-----------------------------------------------------------------------------

LEMMA InitIInv == Init => IInv
<1> SUFFICES ASSUME Init PROVE IInv
  OBVIOUS
<1> USE CacheAssumption DEF Init
<1>1. TypeOK
  <2>1. 0 \in Times /\ 0 \in Published /\ Junk \in Documents /\ 0 \in 0..Attempts - 1
    BY DEF Times, Published, Documents
  <2>2. [doc |-> Junk, at |-> 0] \in Stamped
    BY <2>1 DEF Stamped
  <2>3. entry \in Entries /\ NoEntry \in Entries
    BY <2>2 DEF Entries
  <2> QED BY <2>1, <2>3 DEF TypeOK, Phases
<1>2. LockIsOwned /\ AnswersAreStamped /\ SeesTheEntry
  BY DEF LockIsOwned, Locked, AnswersAreStamped, SeesTheEntry
<1>3. StampsAreTrue
  BY DEF StampsAreTrue, Current, Real, Published
<1>4. LoadsOnlyWhatIsStale /\ ReturnsOnlyValid
  BY DEF LoadsOnlyWhatIsStale, ReturnsOnlyValid
<1> QED BY <1>1, <1>2, <1>3, <1>4 DEF IInv

LEMMA TypeStep == TypeOK /\ AnswersAreStamped /\ [Next]_vars => TypeOK'
<1> SUFFICES ASSUME TypeOK, AnswersAreStamped, [Next]_vars PROVE TypeOK'
  OBVIOUS
<1> USE CacheAssumption DEF TypeOK, Phases, Goto, LetGo, env
<1>1. NoEntry \in Entries /\ Corrupt \in Entries /\ Junk \in Documents
  BY DEF Entries, Documents
<1>2. \A d \in Documents : [doc |-> d, at |-> now] \in Entries
  BY DEF Entries, Stamped
<1>3. \A e \in Stamped : e \in Entries /\ e.doc \in Documents /\ [e EXCEPT !.at = now] \in Entries
  BY DEF Entries, Stamped
<1>4. \A e \in Entries : Usable(e) => e.doc \in Documents
  BY <1>3 DEF Usable, Entries
<1>5. ASSUME NEW p \in Procs, Call(p) \/ Acquire(p) \/ Return(p) PROVE TypeOK'
  BY <1>5, <1>1 DEF Call, Acquire, Return
<1>6. ASSUME NEW p \in Procs, Open(p) PROVE TypeOK'
  BY <1>6 DEF Open
<1>7. ASSUME NEW p \in Procs, Hit(p) PROVE TypeOK'
  BY <1>7, <1>1, <1>4 DEF Hit
<1>8. ASSUME NEW p \in Procs, Miss(p) PROVE TypeOK'
  BY <1>8, <1>1 DEF Miss
<1>9. ASSUME NEW p \in Procs, Load(p) PROVE TypeOK'
  <2>1. origin \in Documents /\ Junk \in Documents
    BY DEF Documents
  <2>2. PICK d \in Documents : held' = [held EXCEPT ![p] = [doc |-> d, at |-> now]]
    BY <1>9, <2>1 DEF Load
  <2> QED BY <1>9, <1>2, <2>2 DEF Load
<1>10. ASSUME NEW p \in Procs, Lose(p) \/ Retry(p) PROVE TypeOK'
  BY <1>10 DEF Lose, Retry
<1>11. ASSUME NEW p \in Procs, Stage(p) PROVE TypeOK'
  BY <1>11, <1>1, <1>3 DEF Stage, AnswersAreStamped
<1>12. ASSUME NEW p \in Procs, Rename(p) PROVE TypeOK'
  BY <1>12, <1>1, <1>3 DEF Rename, AnswersAreStamped
<1>13. ASSUME NEW p \in Procs, Release(p) PROVE TypeOK'
  BY <1>13 DEF Release
<1>14. ASSUME NEW p \in Procs, Fail(p) \/ Crash(p) PROVE TypeOK'
  BY <1>14, <1>1 DEF Fail, Crash
<1>15. CASE Tick \/ SetClockBack
  <2>1. now' \in Times
    BY <1>15 DEF Tick, SetClockBack, Times
  <2> QED BY <1>15, <2>1 DEF Tick, SetClockBack
<1>16. CASE Edit
  BY <1>16 DEF Edit, Published
<1>17. CASE Damage \/ UNCHANGED vars
  BY <1>17, <1>1 DEF Damage, vars
<1> QED
  BY <1>5, <1>6, <1>7, <1>8, <1>9, <1>10, <1>11, <1>12, <1>13, <1>14, <1>15, <1>16, <1>17
  DEF Next, Local

\* A caller that moves from a phase to another moves no other caller.
LEMMA LockStep == TypeOK /\ LockIsOwned /\ [Next]_vars => LockIsOwned'
<1> SUFFICES ASSUME TypeOK, LockIsOwned, [Next]_vars PROVE LockIsOwned'
  OBVIOUS
<1> USE CacheAssumption DEF TypeOK, LockIsOwned, Locked, Goto, env
<1>1. ASSUME NEW p \in Procs, Call(p) \/ Open(p) \/ Hit(p) \/ Miss(p) PROVE LockIsOwned'
  BY <1>1 DEF Call, Open, Hit, Miss
<1>2. ASSUME NEW p \in Procs, Acquire(p) \/ Release(p) \/ Return(p) PROVE LockIsOwned'
  BY <1>2 DEF Acquire, Release, Return
<1>3. ASSUME NEW p \in Procs, Load(p) \/ Lose(p) \/ Retry(p) PROVE LockIsOwned'
  BY <1>3 DEF Load, Lose, Retry
<1>4. ASSUME NEW p \in Procs, Stage(p) \/ Rename(p) PROVE LockIsOwned'
  BY <1>4 DEF Stage, Rename
<1>5. ASSUME NEW p \in Procs, Fail(p) \/ Crash(p) PROVE LockIsOwned'
  BY <1>5 DEF Fail, Crash
<1>6. CASE Tick \/ SetClockBack \/ Edit \/ Damage \/ UNCHANGED vars
  BY <1>6 DEF Tick, SetClockBack, Edit, Damage, vars
<1> QED BY <1>1, <1>2, <1>3, <1>4, <1>5, <1>6 DEF Next, Local

LEMMA AnswersStep ==
  TypeOK /\ AnswersAreStamped /\ [Next]_vars => AnswersAreStamped'
<1> SUFFICES ASSUME TypeOK, AnswersAreStamped, [Next]_vars PROVE AnswersAreStamped'
  OBVIOUS
<1> USE CacheAssumption DEF TypeOK, AnswersAreStamped, Goto, LetGo, env
<1>1. ASSUME NEW p \in Procs, Call(p) \/ Open(p) \/ Hit(p) \/ Miss(p) \/ Acquire(p)
      PROVE  AnswersAreStamped'
  BY <1>1 DEF Call, Open, Hit, Miss, Acquire
<1>2. ASSUME NEW p \in Procs, Load(p) PROVE AnswersAreStamped'
  <2>1. PICK d \in {origin, Junk} : held' = [held EXCEPT ![p] = [doc |-> d, at |-> now]]
    BY <1>2 DEF Load
  <2>2. [doc |-> d, at |-> now] \in Stamped
    BY DEF Stamped, Documents
  <2> QED BY <1>2, <2>1, <2>2 DEF Load
<1>3. ASSUME NEW p \in Procs, Lose(p) \/ Retry(p) \/ Rename(p) \/ Release(p) \/ Return(p)
      PROVE  AnswersAreStamped'
  BY <1>3 DEF Lose, Retry, Rename, Release, Return
<1>4. ASSUME NEW p \in Procs, Stage(p) PROVE AnswersAreStamped'
  BY <1>4 DEF Stage, Stamped
<1>5. ASSUME NEW p \in Procs, Fail(p) \/ Crash(p) PROVE AnswersAreStamped'
  BY <1>5 DEF Fail, Crash
<1>6. CASE Tick \/ SetClockBack \/ Edit \/ Damage \/ UNCHANGED vars
  BY <1>6 DEF Tick, SetClockBack, Edit, Damage, vars
<1> QED BY <1>1, <1>2, <1>3, <1>4, <1>5, <1>6 DEF Next, Local

\* Only the owner of the lock publishes, so that the entry which the owner has
\* read again stays the file's.
LEMMA EntryStep ==
  TypeOK /\ LockIsOwned /\ SeesTheEntry /\ [Next]_vars => SeesTheEntry'
<1> SUFFICES ASSUME TypeOK, LockIsOwned, SeesTheEntry, [Next]_vars PROVE SeesTheEntry'
  OBVIOUS
<1> USE DEF TypeOK, SeesTheEntry, Goto, LetGo, env
<1>1. ASSUME NEW p \in Procs, Call(p) \/ Open(p) \/ Hit(p) \/ Miss(p) \/ Acquire(p)
      PROVE  SeesTheEntry'
  BY <1>1 DEF Call, Open, Hit, Miss, Acquire
<1>2. ASSUME NEW p \in Procs, Load(p) \/ Lose(p) \/ Retry(p) \/ Stage(p) PROVE SeesTheEntry'
  BY <1>2 DEF Load, Lose, Retry, Stage
<1>3. ASSUME NEW p \in Procs, Rename(p) PROVE SeesTheEntry'
  BY <1>3 DEF Rename, LockIsOwned, Locked
<1>4. ASSUME NEW p \in Procs, Release(p) \/ Return(p) PROVE SeesTheEntry'
  BY <1>4 DEF Release, Return
<1>5. ASSUME NEW p \in Procs, Fail(p) \/ Crash(p) PROVE SeesTheEntry'
  BY <1>5 DEF Fail, Crash
<1>6. CASE Tick \/ SetClockBack \/ Edit \/ Damage \/ UNCHANGED vars
  BY <1>6 DEF Tick, SetClockBack, Edit, Damage, vars
<1> QED BY <1>1, <1>2, <1>3, <1>4, <1>5, <1>6 DEF Next, Local

-----------------------------------------------------------------------------
(* Times.                                                                   *)

LEMMA Numbers ==
  ASSUME TypeOK
  PROVE  /\ now \in Nat /\ origin \in Published
         /\ \A d \in Published : replaced[d] \in Nat
         /\ \A e \in Stamped :
              e.at \in Nat /\ e.doc \in Documents /\ (e.doc # Junk => e.doc \in Published)
         /\ Real(entry) => entry \in Stamped
         /\ \A p \in Procs : Real(held[p]) => held[p] \in Stamped
<1>1. \A t \in Times : t \in Nat
  BY CacheAssumption DEF Times
<1>2. \A e \in Entries : Real(e) => e \in Stamped
  BY DEF Entries, Real
<1> QED BY <1>1, <1>2 DEF TypeOK, Stamped, Documents

\* A document that is replaced now was current at every stamp so far.
LEMMA EditKeepsCurrent ==
  ASSUME TypeOK, Edit, NEW e \in Stamped, NEW slack \in Nat, e.at <= now, Current(e, slack)
  PROVE  Current(e, slack)'
<1>1. /\ origin' = origin + 1
      /\ replaced' = [replaced EXCEPT ![origin] = now]
      /\ replaced \in [Published -> Times]
  BY DEF Edit, TypeOK
<1>2. CASE e.doc = origin
  <2>1. replaced'[e.doc] = now
    BY <1>1, <1>2, Numbers
  <2> QED BY <2>1, Numbers DEF Current
<1>3. CASE e.doc # origin
  <2>1. e.doc # Junk => replaced'[e.doc] = replaced[e.doc]
    BY <1>1, <1>3, Numbers
  <2> QED BY <2>1, <1>3 DEF Current
<1> QED BY <1>2, <1>3

LEMMA StampsStep ==
  TypeOK /\ AnswersAreStamped /\ StampsAreTrue /\ [Next]_vars => StampsAreTrue'
<1> SUFFICES ASSUME TypeOK, AnswersAreStamped, StampsAreTrue, [Next]_vars, ~stepped'
             PROVE  StampsAreTrue'
  BY DEF StampsAreTrue
<1>0. ~stepped
  BY DEF Next, Local, Call, Acquire, Open, Hit, Miss, Load, Lose, Retry, Stage, Rename,
         Release, Return, Fail, Crash, Tick, SetClockBack, Edit, Damage, vars, env
<1>1. pc \in [Procs -> Phases] /\ held \in [Procs -> Entries]
  BY DEF TypeOK
<1> USE CacheAssumption, Numbers, <1>0, <1>1 DEF Goto, LetGo, env
<1>2. ASSUME NEW p \in Procs,
             Call(p) \/ Acquire(p) \/ Lose(p) \/ Retry(p) \/ Release(p) \/ Return(p)
      PROVE  StampsAreTrue'
  BY <1>2 DEF Call, Acquire, Lose, Retry, Release, Return, StampsAreTrue, Current, Real
<1>3. ASSUME NEW p \in Procs, Open(p) PROVE StampsAreTrue'
  BY <1>3 DEF Open, StampsAreTrue, Current, Real
<1>4. ASSUME NEW p \in Procs, Hit(p) \/ Miss(p) PROVE StampsAreTrue'
  BY <1>4 DEF Hit, Miss, StampsAreTrue, Current, Real
<1>5. ASSUME NEW p \in Procs, Load(p) PROVE StampsAreTrue'
  <2>1. PICK d \in {origin, Junk} : held' = [held EXCEPT ![p] = [doc |-> d, at |-> now]]
    BY <1>5 DEF Load
  <2>2. held'[p].doc = d /\ held'[p].at = now
    BY <2>1
  <2>3. pc'[p] = "validate" /\ \A q \in Procs \ {p} : pc'[q] = pc[q] /\ held'[q] = held[q]
    BY <2>1, <1>5 DEF Load
  <2>4. UNCHANGED <<entry, now, origin, replaced>>
    BY <1>5 DEF Load
  <2> QED BY <2>2, <2>3, <2>4 DEF StampsAreTrue, Current, Real
<1>6. ASSUME NEW p \in Procs, Stage(p) PROVE StampsAreTrue'
  <2>1. CASE Goto(p, "validate", "rename") /\ held' = [held EXCEPT ![p].at = now]
    <3>1. held[p] \in Stamped /\ Current(held[p], 0) /\ now <= held[p].at + MaxLoad
      BY <2>1 DEF AnswersAreStamped, StampsAreTrue
    <3>2. held'[p].doc = held[p].doc /\ held'[p].at = now
      BY <2>1, <3>1 DEF Stamped
    <3>3. UNCHANGED <<entry, now, origin, replaced>>
      BY <1>6 DEF Stage
    <3>4. Current(held[p], MaxLoad)'
      BY <3>1, <3>2, <3>3 DEF Current
    <3> QED BY <2>1, <3>2, <3>3, <3>4 DEF StampsAreTrue, Current, Real
  <2>2. CASE Goto(p, "validate", "release") /\ LetGo(p)
    BY <1>6, <2>2 DEF Stage, StampsAreTrue, Current, Real
  <2> QED BY <1>6, <2>1, <2>2 DEF Stage
<1>7. ASSUME NEW p \in Procs, Rename(p) PROVE StampsAreTrue'
  BY <1>7 DEF Rename, StampsAreTrue, Current, Real
<1>8. ASSUME NEW p \in Procs, Fail(p) \/ Crash(p) PROVE StampsAreTrue'
  BY <1>8 DEF Fail, Crash, StampsAreTrue, Current, Real, Locked
<1>9. CASE Tick
  <2>1. \A p \in Procs : pc[p] \in {"validate", "rename"} =>
          held[p].at \in Nat /\ now + 1 <= held[p].at + MaxLoad
    BY <1>9 DEF Tick, AnswersAreStamped
  <2> QED BY <1>9, <2>1 DEF Tick, StampsAreTrue, Current, Real
<1>10. CASE Edit
  <2>1. UNCHANGED <<entry, now, pc, held>>
    BY <1>10 DEF Edit
  <2>2. \A d \in Published : replaced'[d] <= now
    BY <1>10 DEF Edit, TypeOK, StampsAreTrue
  <2>3. Real(entry) => Current(entry, MaxLoad)'
    BY <1>10, EditKeepsCurrent, <2>1 DEF StampsAreTrue
  <2>4. ASSUME NEW p \in Procs, pc[p] \in {"judge", "rejudge"}, Real(held[p])
        PROVE  Current(held[p], MaxLoad)'
    BY <1>10, <2>1, <2>4, EditKeepsCurrent DEF StampsAreTrue
  <2>5. ASSUME NEW p \in Procs, pc[p] \in {"validate", "rename"},
               NEW slack \in Nat, Current(held[p], slack)
        PROVE  Current(held[p], slack)'
    BY <1>10, <2>1, <2>5, EditKeepsCurrent DEF StampsAreTrue, AnswersAreStamped
  <2>6. StampsAreTrue /\ ~stepped
    OBVIOUS
  <2>7. \A p \in Procs : pc[p] = "validate" => Current(held[p], 0)'
    BY <2>5, <2>6 DEF StampsAreTrue
  <2>8. \A p \in Procs : pc[p] = "rename" => Current(held[p], MaxLoad)'
    BY <2>5, <2>6 DEF StampsAreTrue
  <2>9. Real(entry)' = Real(entry) /\ \A p \in Procs : Real(held[p])' = Real(held[p])
    BY <2>1 DEF Real
  <2> QED BY <2>1, <2>2, <2>3, <2>4, <2>6, <2>7, <2>8, <2>9 DEF StampsAreTrue
<1>11. CASE Damage \/ UNCHANGED vars
  BY <1>11 DEF Damage, vars, StampsAreTrue, Current, Real
<1>12. CASE SetClockBack
  BY <1>12 DEF SetClockBack
<1> QED
  BY <1>2, <1>3, <1>4, <1>5, <1>6, <1>7, <1>8, <1>9, <1>10, <1>11, <1>12 DEF Next, Local

-----------------------------------------------------------------------------
(* Loading, and what is returned.                                           *)

\* An entry that is too old, damaged or invalid stays so until a loader that has
\* the lock replaces it.
LEMMA StaleStep ==
  TypeOK /\ LockIsOwned /\ SeesTheEntry /\ StampsAreTrue /\ LoadsOnlyWhatIsStale /\ [Next]_vars
    => LoadsOnlyWhatIsStale'
<1> SUFFICES ASSUME TypeOK, LockIsOwned, SeesTheEntry, StampsAreTrue, LoadsOnlyWhatIsStale,
                    [Next]_vars, ~stepped'
             PROVE  LoadsOnlyWhatIsStale'
  BY DEF LoadsOnlyWhatIsStale
<1>0. ~stepped
  BY DEF Next, Local, Call, Acquire, Open, Hit, Miss, Load, Lose, Retry, Stage, Rename,
         Release, Return, Fail, Crash, Tick, SetClockBack, Edit, Damage, vars, env
<1>1. pc \in [Procs -> Phases] /\ held \in [Procs -> Entries]
  BY DEF TypeOK
<1> USE CacheAssumption, Numbers, <1>0, <1>1 DEF Goto, LetGo, env
<1>2. ASSUME NEW p \in Procs, Call(p) \/ Acquire(p) \/ Open(p) \/ Hit(p)
      PROVE  LoadsOnlyWhatIsStale'
  BY <1>2 DEF Call, Acquire, Open, Hit, LoadsOnlyWhatIsStale, Usable, Fresh
<1>3. ASSUME NEW p \in Procs, Miss(p) PROVE LoadsOnlyWhatIsStale'
  <2>1. pc[p] = "rejudge" => ~Usable(entry)
    BY <1>3 DEF Miss, SeesTheEntry, Usable
  <2> QED BY <1>3, <2>1 DEF Miss, LoadsOnlyWhatIsStale, Usable, Fresh
<1>4. ASSUME NEW p \in Procs, Load(p) \/ Lose(p) \/ Retry(p) \/ Stage(p) \/ Release(p) \/ Return(p)
      PROVE  LoadsOnlyWhatIsStale'
  BY <1>4 DEF Load, Lose, Retry, Stage, Release, Return, LoadsOnlyWhatIsStale, Usable, Fresh
<1>5. ASSUME NEW p \in Procs, Rename(p) PROVE LoadsOnlyWhatIsStale'
  BY <1>5 DEF Rename, LoadsOnlyWhatIsStale, LockIsOwned, Locked
<1>6. ASSUME NEW p \in Procs, Fail(p) \/ Crash(p) PROVE LoadsOnlyWhatIsStale'
  BY <1>6 DEF Fail, Crash, LoadsOnlyWhatIsStale, Usable, Fresh, Locked
<1>7. CASE Tick
  <2>1. Usable(entry)' => Usable(entry)
    BY <1>7 DEF Tick, StampsAreTrue, Usable, Fresh, Real
  <2> QED BY <1>7, <2>1 DEF Tick, LoadsOnlyWhatIsStale
<1>8. CASE Edit \/ Damage \/ UNCHANGED vars
  BY <1>8 DEF Edit, Damage, vars, LoadsOnlyWhatIsStale, Usable, Fresh
<1>9. CASE SetClockBack
  BY <1>9 DEF SetClockBack
<1> QED
  BY <1>2, <1>3, <1>4, <1>5, <1>6, <1>7, <1>8, <1>9 DEF Next, Local

LEMMA ValidStep == TypeOK /\ ReturnsOnlyValid /\ [Next]_vars => ReturnsOnlyValid'
<1> SUFFICES ASSUME TypeOK, ReturnsOnlyValid, [Next]_vars PROVE ReturnsOnlyValid'
  OBVIOUS
<1> USE DEF TypeOK, ReturnsOnlyValid, Goto, LetGo, env
<1>1. ASSUME NEW p \in Procs, Call(p) \/ Acquire(p) \/ Open(p) \/ Hit(p) \/ Miss(p)
      PROVE  ReturnsOnlyValid'
  BY <1>1 DEF Call, Acquire, Open, Hit, Miss, Usable
<1>2. ASSUME NEW p \in Procs, Load(p) \/ Lose(p) \/ Retry(p) \/ Stage(p)
      PROVE  ReturnsOnlyValid'
  BY <1>2 DEF Load, Lose, Retry, Stage
<1>3. ASSUME NEW p \in Procs, Rename(p) \/ Release(p) \/ Return(p) PROVE ReturnsOnlyValid'
  BY <1>3 DEF Rename, Release, Return
<1>4. ASSUME NEW p \in Procs, Fail(p) \/ Crash(p) PROVE ReturnsOnlyValid'
  BY <1>4 DEF Fail, Crash
<1>5. CASE Tick \/ SetClockBack \/ Edit \/ Damage \/ UNCHANGED vars
  BY <1>5 DEF Tick, SetClockBack, Edit, Damage, vars
<1> QED BY <1>1, <1>2, <1>3, <1>4, <1>5 DEF Next, Local

LEMMA IInvHolds == Spec => []IInv
<1>1. IInv /\ [Next]_vars => IInv'
  BY TypeStep, LockStep, AnswersStep, EntryStep, StampsStep, StaleStep, ValidStep DEF IInv
<1> QED BY <1>1, InitIInv, PTL DEF Spec

\* Every variable has its type, the count of repeated requests among them.
THEOREM TypeCorrect == Spec => []TypeOK
BY IInvHolds, PTL DEF IInv

\* However many processes miss at once, whichever fail or die while they load,
\* and whatever happens to the file: while a process loads the document of a
\* URL the cache has no entry that it could use (load's second look at the entry
\* under the lock), as long as the wall clock is not set back.
THEOREM OneLoaderLoads == Spec => []LoadsOnlyWhatIsStale
BY IInvHolds, PTL DEF IInv

\* A call that returns a document returns one that its parser accepts.
THEOREM ValidIsReturned == Spec => []ReturnsOnlyValid
BY IInvHolds, PTL DEF IInv

LEMMA RecentStep ==
  ASSUME IInv, [Next]_vars, ~stepped, NEW p \in Procs,
         served'[p] # served[p], served'[p] # Junk
  PROVE  \/ served'[p] = origin
         \/ now <= replaced[served'[p]] + MaxAge + MaxLoad
<1> USE CacheAssumption, Numbers DEF IInv
<1>1. served \in [Procs -> Documents] /\ held \in [Procs -> Entries]
  BY DEF TypeOK
<1>2. \/ Hit(p)
      \/ Rename(p)
  <2>1. ASSUME NEW q \in Procs,
               Call(q) \/ Acquire(q) \/ Open(q) \/ Miss(q) \/ Load(q) \/ Lose(q) \/ Retry(q)
                 \/ Stage(q) \/ Release(q) \/ Fail(q)
        PROVE  FALSE
    BY <2>1 DEF Call, Acquire, Open, Miss, Load, Lose, Retry, Stage, Release, Fail
  <2>2. ASSUME NEW q \in Procs, Return(q) \/ Crash(q) PROVE FALSE
    BY <2>2, <1>1 DEF Return, Crash
  <2>3. ASSUME NEW q \in Procs, Hit(q) \/ Rename(q) PROVE q = p
    BY <2>3, <1>1 DEF Hit, Rename
  <2>4. ~(Tick \/ SetClockBack \/ Edit \/ Damage \/ UNCHANGED vars)
    BY DEF Tick, SetClockBack, Edit, Damage, vars
  <2> QED BY <2>1, <2>2, <2>3, <2>4 DEF Next, Local
<1>3. CASE Hit(p)
  <2>1. /\ pc[p] \in {"judge", "rejudge"} /\ Usable(held[p])
        /\ served'[p] = held[p].doc
    BY <1>3, <1>1 DEF Hit, Goto
  <2>2. held[p] \in Stamped /\ Current(held[p], MaxLoad) /\ now - held[p].at <= MaxAge
    BY <2>1 DEF Usable, Fresh, Real, StampsAreTrue
  <2> QED BY <2>1, <2>2 DEF Current
<1>4. CASE Rename(p)
  <2>1. pc[p] = "rename" /\ served'[p] = held[p].doc
    BY <1>4, <1>1 DEF Rename, Goto
  <2>2. held[p] \in Stamped /\ Current(held[p], MaxLoad) /\ now <= held[p].at + MaxLoad
    BY <2>1 DEF StampsAreTrue, AnswersAreStamped
  <2> QED BY <2>1, <2>2 DEF Current
<1> QED BY <1>2, <1>3, <1>4

\* A document that a call returns was the server's at some moment of the last
\* MaxAge, or of the time it took to fetch it on top, whether the call loaded it
\* or read it from an entry that another process wrote, as long as the wall
\* clock is not set back.
THEOREM RecentIsServed == Spec => ServedIsRecent
<1>1. IInv /\ [Next]_vars =>
        [\A p \in Procs : ~stepped /\ served'[p] # served[p] /\ served'[p] # Junk =>
           \/ served'[p] = origin
           \/ now <= replaced[served'[p]] + MaxAge + MaxLoad]_vars
  BY RecentStep
<1> QED BY <1>1, IInvHolds, PTL DEF Spec, ServedIsRecent
=============================================================================
