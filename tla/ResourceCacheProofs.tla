------------------------ MODULE ResourceCacheProofs -------------------------
(***************************************************************************)
(* What holds of ResourceCache for any number of windows, calls and        *)
(* accounts: type correctness; the lock of a single window, which          *)
(* implements CachedLock; that no lock is left behind; and that nobody     *)
(* gets the result of another account.                                     *)
(***************************************************************************)
EXTENDS ResourceCache, TLAPS

\* While a single window is left in peace, no change of connection is being
\* handled, nobody pulls without the lock, whoever is storing the lock found
\* it free, and the lock is set exactly while one call holds it.
Sound == Orderly =>
    /\ \A w \in Windows : told[w] = "no"
    /\ \A c \in Calls : pc[c] # "pullAnyway"
    /\ \A c \in Calls : pc[c] = "locking" => ~base[c].locked
    /\ LockExcludes
    /\ \A c \in Calls : Holding(c) => view[Win(c)].locked
    /\ \A w \in Windows : view[w].locked => \E c \in Calls : Holding(c)

LEMMA CallFacts == \A c \in Calls : Win(c) \in Windows
  BY DEF Calls, Win

\* An entry is its lock and its result, and keeps its type when either is set.
LEMMA EntryFacts ==
    /\ Default \in Entries /\ ~Default.locked
    /\ \A e \in Entries : /\ e.locked \in BOOLEAN
                          /\ e.result \in Results \cup {None}
                          /\ [e EXCEPT !.locked = TRUE] \in Entries
                          /\ [e EXCEPT !.locked = FALSE] \in Entries
                          /\ [e EXCEPT !.locked = TRUE].locked
                          /\ ~[e EXCEPT !.locked = FALSE].locked
    /\ \A n \in Results : [locked |-> FALSE, result |-> n] \in Entries
  BY DEF Entries, Default

\* An attempt on the lock keeps the types of what it changes.
LEMMA AttemptType ==
  ASSUME TypeOK, NEW c \in Calls, Attempt(c)
  PROVE  /\ pc' \in [Calls -> Stages] /\ base' \in [Calls -> Entries]
         /\ view' \in [Windows -> Entries] /\ writing' \in [Calls -> Entries]
<1>1. CASE view[Win(c)].locked
  BY <1>1 DEF Attempt, TypeOK, Stages
<1>2. CASE ~view[Win(c)].locked
  <2>1. view[Win(c)] \in Entries /\ [view[Win(c)] EXCEPT !.locked = TRUE] \in Entries
    BY CallFacts, EntryFacts DEF TypeOK
  <2> QED
    BY <1>2, <2>1 DEF Attempt, Update, TypeOK, Stages
<1> QED
  BY <1>1, <1>2

LEMMA InitType == Init => TypeOK
<1> SUFFICES ASSUME Init
             PROVE  TypeOK
  OBVIOUS
<1>1. strayed \in BOOLEAN
  BY DEF Init
<1> QED
  BY <1>1, CacheAssumption, BoundsAssumption, EntryFacts
    DEF Init, TypeOK, Users, Results, None, Stages, Ended

\* Every step keeps the types.
LEMMA TypeStep ==
  ASSUME TypeOK, [Next]_vars
  PROVE  TypeOK'
<1>1. ASSUME NEW c \in Calls, Call(c)
      PROVE  TypeOK'
  <2>1. CASE Fresh(view[Win(c)]) /\ ~view[Win(c)].locked
    <3>1. view[Win(c)].result \in Results \cup {None}
      <4>1. view[Win(c)] \in Entries
        BY CallFacts DEF TypeOK
      <4> QED
        BY <4>1, EntryFacts
    <3>2. /\ got' \in [Calls -> Results \cup {None}] /\ pc' \in [Calls -> Stages]
          /\ began' \in [Calls -> Users] /\ UNCHANGED <<view, writing, base>>
      BY <1>1, <2>1, <3>1 DEF Call, TypeOK, Stages, Ended
    <3> QED
      BY <1>1, <3>2 DEF Call, timeVars, userVars, TypeOK
  <2>2. CASE ~(Fresh(view[Win(c)]) /\ ~view[Win(c)].locked)
    <3>1. Attempt(c) /\ UNCHANGED got
      BY <1>1, <2>2 DEF Call
    <3> QED
      BY <1>1, <3>1, AttemptType DEF Call, timeVars, userVars, TypeOK
  <2> QED
    BY <2>1, <2>2
<1>2. ASSUME NEW c \in Calls, Retry(c)
      PROVE  TypeOK'
  BY <1>2, AttemptType DEF Retry, timeVars, userVars, TypeOK
<1>3. ASSUME NEW c \in Calls, TimeOut(c)
      PROVE  TypeOK'
  <2>1. /\ pc' \in [Calls -> Stages] /\ pullFor' \in [Calls -> Users]
    BY <1>3 DEF TimeOut, StartPull, TypeOK, Stages
  <2>2. base' \in [Calls -> Entries] /\ writing' \in [Calls -> Entries]
    BY <1>3, EntryFacts DEF TimeOut, Drop, TypeOK
  <2>3. disk' \in Entries /\ view' \in [Windows -> Entries]
    BY <1>3 DEF TimeOut, Stored, TypeOK
  <2> QED
    BY <1>3, <2>1, <2>2, <2>3 DEF TimeOut, timeVars, userVars, TypeOK
<1>4. ASSUME NEW c \in Calls, Acquired(c)
      PROVE  TypeOK'
  <2>1. base' \in [Calls -> Entries]
    BY <1>4, EntryFacts DEF Acquired, Drop, TypeOK
  <2>2. base[c] \in Entries /\ writing[c] \in Entries
    BY DEF TypeOK
  <2>3. CASE Fresh(base[c])
    <3>1. /\ view' \in [Windows -> Entries] /\ disk' \in Entries
          /\ writing' \in [Calls -> Entries]
      BY <1>4, <2>2, <2>3 DEF Acquired, StoredThenUpdate, TypeOK
    <3>2. /\ got' \in [Calls -> Results \cup {None}] /\ pc' \in [Calls -> Stages]
          /\ UNCHANGED pullFor
      BY <1>4, <2>2, <2>3 DEF Acquired, TypeOK, Entries, Stages
    <3> QED
      BY <1>4, <2>1, <3>1, <3>2 DEF Acquired, timeVars, userVars, TypeOK
  <2>4. CASE ~Fresh(base[c])
    <3>1. view' \in [Windows -> Entries] /\ disk' \in Entries
      BY <1>4, <2>2, <2>4 DEF Acquired, Stored, TypeOK
    <3>2. writing' \in [Calls -> Entries]
      BY <1>4, <2>4, EntryFacts DEF Acquired, Drop, TypeOK
    <3>3. /\ pc' \in [Calls -> Stages] /\ pullFor' \in [Calls -> Users]
          /\ UNCHANGED got
      BY <1>4, <2>4 DEF Acquired, StartPull, TypeOK, Stages
    <3> QED
      BY <1>4, <2>1, <3>1, <3>2, <3>3
        DEF Acquired, timeVars, userVars, TypeOK
  <2> QED
    BY <2>3, <2>4
<1>5. ASSUME NEW c \in Calls, PullDone(c)
      PROVE  TypeOK'
  BY <1>5, CacheAssumption, BoundsAssumption, CallFacts, EntryFacts
    DEF PullDone, Update, callVars, timeVars, userVars, TypeOK, Users,
    Results, None, Stages, Ended
<1>6. ASSUME NEW c \in Calls, PullFails(c)
      PROVE  TypeOK'
  <2>1. view' \in [Windows -> Entries] /\ writing' \in [Calls -> Entries]
    BY <1>6, CallFacts, EntryFacts DEF PullFails, Update, TypeOK
  <2>2. pc' \in [Calls -> Stages] /\ pullFor' \in [Calls -> Users]
    BY <1>6 DEF PullFails, TypeOK, Stages, Users
  <2>3. fails' \in 0..MaxFails
    BY <1>6, BoundsAssumption DEF PullFails, TypeOK
  <2> QED
    BY <1>6, <2>1, <2>2, <2>3 DEF PullFails, timeVars, userVars, TypeOK
<1>7. ASSUME NEW c \in Calls, Return(c)
      PROVE  TypeOK'
  BY <1>7, CacheAssumption, BoundsAssumption, CallFacts, EntryFacts
    DEF Return, Stored, Drop, Outcome, callVars, timeVars, userVars, TypeOK,
    Users, Results, None, Stages, Ended
<1>8. ASSUME NEW a \in Users, ChangeConnection(a)
      PROVE  TypeOK'
  BY <1>8, CacheAssumption, BoundsAssumption, CallFacts, EntryFacts
    DEF ChangeConnection, callVars, timeVars, userVars, TypeOK, Users,
    Results, None, Stages, Ended
<1>9. ASSUME NEW w \in Windows, HandleChange(w)
      PROVE  TypeOK'
  <2>1. view' \in [Windows -> Entries]
    BY <1>9, EntryFacts DEF HandleChange, TypeOK
  <2>2. told' \in [Windows -> {"no", "due", "writing"}]
    BY <1>9 DEF HandleChange, TypeOK
  <2> QED
    BY <1>9, <2>1, <2>2 DEF HandleChange, timeVars, callVars, TypeOK
<1>10. ASSUME NEW w \in Windows, Cleared(w)
      PROVE  TypeOK'
  BY <1>10, CacheAssumption, BoundsAssumption, CallFacts, EntryFacts
    DEF Cleared, Stored, callVars, timeVars, userVars, TypeOK, Users, Results,
    None, Stages, Ended
<1>11. ASSUME NEW w \in Windows, Crash(w)
      PROVE  TypeOK'
  BY <1>11, CacheAssumption, BoundsAssumption, CallFacts, EntryFacts
    DEF Crash, callVars, timeVars, userVars, TypeOK, Users, Results, None,
    Stages, Ended
<1>12. ASSUME Expire
      PROVE  TypeOK'
  BY <1>12, CacheAssumption, BoundsAssumption, CallFacts, EntryFacts
    DEF Expire, callVars, timeVars, userVars, TypeOK, Users, Results, None,
    Stages, Ended
<1>13. CASE UNCHANGED vars
  BY <1>13, CacheAssumption, BoundsAssumption, CallFacts, EntryFacts
    DEF vars, callVars, timeVars, userVars, TypeOK, Users, Results, None,
    Stages, Ended
<1>14. QED
  BY <1>1, <1>2, <1>3, <1>4, <1>5, <1>6, <1>7, <1>8, <1>9, <1>10, <1>11,
  <1>12, <1>13
    DEF Next, GetResource

\* Every variable keeps its type, for any number of windows and calls.
THEOREM TypeInvariant == Spec => []TypeOK
<1>1. Init => TypeOK
  BY InitType
<1>2. TypeOK /\ [Next]_vars => TypeOK'
  BY TypeStep
<1>3. QED
  BY <1>1, <1>2, PTL DEF Spec

\* An attempt takes the lock when nobody has it.
LEMMA AttemptSound ==
  ASSUME TypeOK, Sound, NEW c \in Calls, pc[c] \in {"new", "wait"}, Attempt(c),
         UNCHANGED <<told, changes, crashes>>
  PROVE  Sound'
<1> SUFFICES ASSUME Orderly'
             PROVE  Sound'
  BY DEF Sound
<1>1. Orderly
  BY DEF Orderly
<1>2. CASE view[Win(c)].locked
  BY <1>1, <1>2 DEF Attempt, Sound, LockExcludes, Holding, TypeOK
<1>3. CASE ~view[Win(c)].locked
  <2>1. /\ pc' = [pc EXCEPT ![c] = "locking"]
        /\ base' = [base EXCEPT ![c] = view[Win(c)]]
        /\ view' = [view EXCEPT ![Win(c)] = [view[Win(c)] EXCEPT !.locked = TRUE]]
    BY <1>3 DEF Attempt, Update
  <2>2. \A w \in Windows : w = Win(c)
    BY <1>1, CallFacts DEF Orderly
  <2>3. \A d \in Calls : ~Holding(d)
    BY <1>1, <1>3, <2>2, CallFacts DEF Sound
  <2>4. \A d \in Calls : Holding(d)' <=> d = c
    BY <2>1, <2>3 DEF Holding, TypeOK
  <2>5. view[Win(c)] \in Entries /\ view'[Win(c)].locked
    BY <2>1, CallFacts, EntryFacts DEF TypeOK
  <2> QED
    BY <1>1, <1>3, <2>1, <2>2, <2>4, <2>5, CallFacts
      DEF Sound, LockExcludes, TypeOK
<1> QED
  BY <1>2, <1>3

\* Every step of a single window left in peace keeps its lock sound.
LEMMA SoundStep ==
  ASSUME TypeOK, Sound, [Next]_vars
  PROVE  Sound'
<1>1. ASSUME NEW c \in Calls, Call(c)
      PROVE  Sound'
  <2>1. CASE Fresh(view[Win(c)]) /\ ~view[Win(c)].locked
    <3>1. /\ pc[c] = "new" /\ pc' = [pc EXCEPT ![c] = "hit"]
          /\ UNCHANGED <<view, base, told, changes, crashes>>
      BY <1>1, <2>1 DEF Call, userVars
    <3> QED
      BY <3>1 DEF Sound, Orderly, LockExcludes, Holding, TypeOK
  <2>2. CASE ~(Fresh(view[Win(c)]) /\ ~view[Win(c)].locked)
    <3>1. Attempt(c) /\ UNCHANGED <<told, changes, crashes>> /\ pc[c] = "new"
      BY <1>1, <2>2 DEF Call, userVars
    <3> QED
      BY <3>1, AttemptSound
  <2> QED
    BY <2>1, <2>2
<1>2. ASSUME NEW c \in Calls, Retry(c)
      PROVE  Sound'
  BY <1>2, AttemptSound DEF Retry, userVars
<1>3. ASSUME NEW c \in Calls, TimeOut(c)
      PROVE  Sound'
  BY <1>3, BoundsAssumption, CallFacts, EntryFacts
    DEF TimeOut, StartPull, Stored, Drop, callVars, timeVars, userVars, Sound,
    Orderly, LockExcludes, Holding, TypeOK, Stages, Ended
<1>4. ASSUME NEW c \in Calls, Acquired(c)
      PROVE  Sound'
  <2> SUFFICES ASSUME Orderly'
               PROVE  Sound'
    BY DEF Sound
  <2>1. Orderly /\ told' = told
    BY <1>4 DEF Acquired, userVars, Orderly
  <2>2. pc[c] = "locking" /\ Holding(c) /\ ~base[c].locked /\ base' = Drop(base, c)
    BY <1>4, <2>1 DEF Acquired, Sound, Holding
  <2>3. \A w \in Windows : w = Win(c)
    BY <2>1, CallFacts DEF Orderly
  <2>4. CASE Fresh(base[c])
    <3>1. pc' = [pc EXCEPT ![c] = "unlock"]
      BY <1>4, <2>4 DEF Acquired
    <3>2. \A w \in Windows : view'[w] = base[c]
      BY <1>4, <2>3, <2>4 DEF Acquired, StoredThenUpdate
    <3>3. \A d \in Calls : ~Holding(d)'
      BY <2>1, <2>2, <3>1 DEF Sound, LockExcludes, Holding, TypeOK
    <3> QED
      BY <2>1, <2>2, <3>1, <3>2, <3>3
        DEF Sound, LockExcludes, Holding, Drop, TypeOK
  <2>5. CASE ~Fresh(base[c])
    <3>1. pc' = [pc EXCEPT ![c] = "pull"]
      BY <1>4, <2>5 DEF Acquired, StartPull
    <3>2. view' = view
      BY <1>4, <2>3, <2>5 DEF Acquired, Stored, TypeOK
    <3>3. \A d \in Calls : Holding(d)' <=> Holding(d)
      BY <2>2, <3>1 DEF Holding, TypeOK
    <3> QED
      BY <2>1, <2>2, <3>1, <3>2, <3>3
        DEF Sound, LockExcludes, Drop, TypeOK
  <2> QED
    BY <2>4, <2>5
<1>5. ASSUME NEW c \in Calls, PullDone(c)
      PROVE  Sound'
  BY <1>5, BoundsAssumption, CallFacts, EntryFacts
    DEF PullDone, Update, callVars, timeVars, userVars, Sound, Orderly,
    LockExcludes, Holding, TypeOK, Stages, Ended
<1>6. ASSUME NEW c \in Calls, PullFails(c)
      PROVE  Sound'
  BY <1>6, BoundsAssumption, CallFacts, EntryFacts
    DEF PullFails, Update, callVars, timeVars, userVars, Sound, Orderly,
    LockExcludes, Holding, TypeOK, Stages, Ended
<1>7. ASSUME NEW c \in Calls, Return(c)
      PROVE  Sound'
  BY <1>7, BoundsAssumption, CallFacts, EntryFacts
    DEF Return, Stored, Drop, Outcome, callVars, timeVars, userVars, Sound,
    Orderly, LockExcludes, Holding, TypeOK, Stages, Ended
<1>8. ASSUME NEW a \in Users, ChangeConnection(a)
      PROVE  Sound'
  BY <1>8, BoundsAssumption, CallFacts, EntryFacts
    DEF ChangeConnection, callVars, timeVars, userVars, Sound, Orderly,
    LockExcludes, Holding, TypeOK, Stages, Ended
<1>9. ASSUME NEW w \in Windows, HandleChange(w)
      PROVE  Sound'
  BY <1>9, BoundsAssumption, CallFacts, EntryFacts
    DEF HandleChange, callVars, timeVars, userVars, Sound, Orderly,
    LockExcludes, Holding, TypeOK, Stages, Ended
<1>10. ASSUME NEW w \in Windows, Cleared(w)
      PROVE  Sound'
  BY <1>10, BoundsAssumption, CallFacts, EntryFacts
    DEF Cleared, Stored, callVars, timeVars, userVars, Sound, Orderly,
    LockExcludes, Holding, TypeOK, Stages, Ended
<1>11. ASSUME NEW w \in Windows, Crash(w)
      PROVE  Sound'
  BY <1>11, BoundsAssumption, CallFacts, EntryFacts
    DEF Crash, callVars, timeVars, userVars, Sound, Orderly, LockExcludes,
    Holding, TypeOK, Stages, Ended
<1>12. ASSUME Expire
      PROVE  Sound'
  BY <1>12, BoundsAssumption, CallFacts, EntryFacts
    DEF Expire, callVars, timeVars, userVars, Sound, Orderly, LockExcludes,
    Holding, TypeOK, Stages, Ended
<1>13. CASE UNCHANGED vars
  BY <1>13, BoundsAssumption, CallFacts, EntryFacts
    DEF vars, callVars, timeVars, userVars, Sound, Orderly, LockExcludes,
    Holding, TypeOK, Stages, Ended
<1>14. QED
  BY <1>1, <1>2, <1>3, <1>4, <1>5, <1>6, <1>7, <1>8, <1>9, <1>10, <1>11,
  <1>12, <1>13
    DEF Next, GetResource

\* In one window whose calls wait as long as it takes, while the connection
\* stays and nothing crashes, the lock excludes: it is set exactly while one
\* call holds it, and that call alone pulls.
THEOREM OneHolder == Spec => []LockIsSound
<1>1. Init => TypeOK /\ Sound
  BY InitType, EntryFacts DEF Init, Sound, LockExcludes, Holding
<1>2. TypeOK /\ Sound /\ [Next]_vars => TypeOK' /\ Sound'
  BY TypeStep, SoundStep
<1>3. Sound => LockIsSound
  BY DEF Sound, LockIsSound, LockExcludes, OnePull, Holding, Pulling
<1>4. QED
  BY <1>1, <1>2, <1>3, PTL DEF Spec

-----------------------------------------------------------------------------
(* A window left in peace implements CachedLock *)

\* While the lock is being stored, the result is what was read before it, and
\* no result is newer than the last pull.
AsRead ==
    /\ \A c \in Calls : pc[c] = "locking" => base[c].result = view[Win(c)].result
    /\ \A w \in Windows : view[w].result <= pulled
BaseKept == Orderly => AsRead

\* What a step does to the lock: nothing, or one call takes it or leaves.
LockStays == UNCHANGED <<Holders, Seen>>
LockMoves == LockStays \/ \E c \in Calls : Lock!Take(c) \/ Lock!Leave(c)

LEMMA SetLock ==
  \A e \in Entries, l \in BOOLEAN :
      /\ [e EXCEPT !.locked = l].result = e.result
      /\ [e EXCEPT !.locked = l].locked = l
  BY DEF Entries

\* In an orderly state there is one window.
LEMMA OneWindow ==
  ASSUME Orderly, NEW c \in Calls
  PROVE  Win(c) \in Windows /\ \A w \in Windows : w = Win(c)
  BY CallFacts DEF Orderly

\* Results are numbers, None the least.
LEMMA ResultFacts ==
  ASSUME TypeOK
  PROVE  /\ pulled \in Nat /\ pulled <= MaxPulls /\ MaxPulls \in Nat
         /\ \A w \in Windows : view[w].result \in Nat /\ view[w] \in Entries
  BY BoundsAssumption DEF TypeOK, Entries, Results, None

\* A call that leaves alone with the lock, in place of an older result or none.
LEMMA LeaveNewer ==
  ASSUME NEW c \in Calls, Holders = {c}, Holders' = {},
         \A w \in Windows : view[w].result <= view'[w].result
  PROVE  Lock!Leave(c)
  BY DEF Seen, Lock!Leave

\* An attempt on the lock leaves it alone or takes it when it is free.
LEMMA AttemptLocks ==
  ASSUME TypeOK, Sound, BaseKept, Orderly, NEW c \in Calls, Attempt(c),
         UNCHANGED pulled, pc[c] \in {"new", "wait"}
  PROVE  AsRead' /\ LockMoves
<1>1. CASE view[Win(c)].locked
  <2>1. pc' = [pc EXCEPT ![c] = "wait"] /\ UNCHANGED <<view, base>>
    BY <1>1 DEF Attempt
  <2>2. \A d \in Calls : Holding(d)' <=> Holding(d)
    BY <2>1 DEF Holding, TypeOK
  <2>3. Holders' = Holders /\ Seen' = Seen
    BY <2>1, <2>2 DEF Holders, Seen
  <2> QED
    BY <2>1, <2>3 DEF BaseKept, AsRead, LockMoves, LockStays, TypeOK
<1>2. CASE ~view[Win(c)].locked
  <2>1. /\ pc' = [pc EXCEPT ![c] = "locking"]
        /\ base' = [base EXCEPT ![c] = view[Win(c)]]
        /\ view' = [view EXCEPT ![Win(c)] = [view[Win(c)] EXCEPT !.locked = TRUE]]
    BY <1>2 DEF Attempt, Update
  <2>2. \A w \in Windows : view'[w].result = view[w].result
    BY <2>1, CallFacts, SetLock DEF TypeOK
  <2>3. \A d \in Calls : ~Holding(d)
    BY <1>2, OneWindow DEF Sound
  <2>4. Holders = {} /\ Holders' = {c}
    BY <2>1, <2>3 DEF Holders, Holding, TypeOK
  <2>5. Seen' = Seen
    BY <2>2 DEF Seen
  <2>6. \A d \in Calls : pc'[d] = "locking" => d = c
    BY <2>1, <2>3 DEF Holding, TypeOK
  <2>7. base'[c].result = view'[Win(c)].result
    BY <2>1, <2>2, CallFacts DEF TypeOK
  <2> QED
    BY <2>2, <2>4, <2>5, <2>6, <2>7 DEF BaseKept, AsRead, LockMoves, Lock!Take
<1> QED
  BY <1>1, <1>2

\* An orderly step takes the lock, leaves it, or does nothing to it.
LEMMA LockStep ==
  ASSUME TypeOK, Sound, BaseKept, [Next]_vars, Orderly'
  PROVE  /\ Orderly
         /\ AsRead'
         /\ LockMoves
<1>0. Orderly
  <2>1. changes' \in {changes, changes + 1} /\ crashes' \in {crashes, crashes + 1}
    BY DEF Next, GetResource, Call, Retry, TimeOut, Acquired, PullDone,
      PullFails, Return, ChangeConnection, HandleChange, Cleared, Crash,
      Expire, vars, userVars
  <2>2. changes \in Nat /\ crashes \in Nat
    BY BoundsAssumption DEF TypeOK
  <2> QED
    BY <2>1, <2>2 DEF Orderly
<1> DEFINE Goal == AsRead' /\ LockMoves
<1>1. ASSUME NEW c \in Calls, Call(c)
      PROVE  Goal
  <2>1. CASE Fresh(view[Win(c)]) /\ ~view[Win(c)].locked
    <3>1. /\ pc' = [pc EXCEPT ![c] = "hit"] /\ UNCHANGED <<view, base, pulled>>
          /\ pc[c] = "new"
      BY <1>1, <2>1 DEF Call, timeVars
    <3>2. Holders' = Holders /\ Seen' = Seen
      BY <3>1 DEF Holders, Holding, Seen, TypeOK
    <3> QED
      BY <1>0, <3>1, <3>2 DEF BaseKept, AsRead, LockMoves, LockStays, TypeOK
  <2>2. CASE ~(Fresh(view[Win(c)]) /\ ~view[Win(c)].locked)
    BY <1>0, <1>1, <2>2, AttemptLocks DEF Call, timeVars
  <2> QED
    BY <2>1, <2>2
<1>2. ASSUME NEW c \in Calls, Retry(c)
      PROVE  Goal
  BY <1>0, <1>2, AttemptLocks DEF Retry, timeVars
<1>3. ASSUME NEW c \in Calls, TimeOut(c)
      PROVE  Goal
  BY <1>0, <1>3 DEF TimeOut, Orderly
<1>4. ASSUME NEW c \in Calls, Acquired(c)
      PROVE  Goal
  <2>1. pc[c] = "locking" /\ Holding(c) /\ \A w \in Windows : w = Win(c)
    BY <1>0, <1>4, OneWindow DEF Acquired, Holding
  <2>2. \A d \in Calls : Holding(d) => d = c
    BY <1>0, <2>1 DEF Sound, LockExcludes
  <2>3. Holders = {c}
    BY <2>1, <2>2 DEF Holders
  <2>4. CASE Fresh(base[c])
    <3>1. pc' = [pc EXCEPT ![c] = "unlock"]
      BY <1>4, <2>4 DEF Acquired
    <3>3. Holders' = {}
      BY <2>2, <3>1 DEF Holders, Holding, TypeOK
    <3>4. \A d \in Calls : pc'[d] # "locking"
      BY <2>2, <3>1 DEF Holding, TypeOK
    <3>5. view' = [view EXCEPT ![Win(c)] = base[c]] /\ pulled' = pulled
      BY <1>4, <2>1, <2>4, OneWindow DEF Acquired, StoredThenUpdate, timeVars, TypeOK
    <3>6. \A w \in Windows : view'[w].result = view[w].result
      BY <1>0, <2>1, <3>5 DEF BaseKept, AsRead, TypeOK
    <3>7. Lock!Leave(c)
      BY <2>3, <3>3, <3>6, ResultFacts, LeaveNewer
    <3> QED
      BY <1>0, <3>4, <3>5, <3>6, <3>7 DEF LockMoves, BaseKept, AsRead
  <2>5. CASE ~Fresh(base[c])
    <3>1. pc' = [pc EXCEPT ![c] = "pull"] /\ view' = view /\ pulled' = pulled
      BY <1>4, <2>1, <2>5 DEF Acquired, StartPull, Stored, TypeOK, timeVars
    <3>2. \A d \in Calls : pc'[d] # "locking"
      BY <2>2, <3>1 DEF Holding, TypeOK
    <3>3. Holders' = Holders /\ Seen' = Seen
      BY <2>1, <3>1 DEF Holders, Holding, Seen, TypeOK
    <3> QED
      BY <1>0, <3>1, <3>2, <3>3 DEF LockMoves, LockStays, BaseKept, AsRead
  <2> QED
    BY <2>4, <2>5
<1>5. ASSUME NEW c \in Calls, PullDone(c) \/ PullFails(c)
      PROVE  Goal
  <2>1. Holding(c) /\ pc[c] = "pull"
    BY <1>0, <1>5 DEF PullDone, PullFails, Sound, Holding
  <2>2. \A d \in Calls : Holding(d) => d = c
    BY <1>0, <2>1 DEF Sound, LockExcludes
  <2>3. pc' = [pc EXCEPT ![c] = "save"] \/ pc' = [pc EXCEPT ![c] = "giveUp"]
    BY <1>5 DEF PullDone, PullFails
  <2>4. Holders = {c} /\ Holders' = {} /\ \A d \in Calls : pc'[d] # "locking"
    BY <2>1, <2>2, <2>3 DEF Holders, Holding, TypeOK
  <2>5. Win(c) \in Windows /\ \A w \in Windows : w = Win(c)
    BY <1>0, OneWindow
  <2>6. CASE PullDone(c)
    <3>1. /\ view' = [view EXCEPT ![Win(c)] = [locked |-> FALSE, result |-> pulled + 1]]
          /\ pulled' = pulled + 1
      BY <2>6 DEF PullDone, Update
    <3>2. \A w \in Windows : view[w].result <= view'[w].result /\ view'[w].result <= pulled'
      BY <1>0, <2>5, <3>1, ResultFacts DEF BaseKept, AsRead, TypeOK
    <3>3. Lock!Leave(c)
      BY <2>4, <3>2, LeaveNewer
    <3> QED
      BY <2>4, <3>2, <3>3 DEF LockMoves, AsRead
  <2>7. CASE PullFails(c)
    <3>1. /\ view' = [view EXCEPT ![Win(c)] = [view[Win(c)] EXCEPT !.locked = FALSE]]
          /\ pulled' = pulled
      BY <2>7 DEF PullFails, Update, timeVars
    <3>2. \A w \in Windows : view'[w].result = view[w].result
      BY <2>5, <3>1, SetLock, ResultFacts DEF TypeOK
    <3>3. Lock!Leave(c)
      BY <2>4, <3>2, ResultFacts, LeaveNewer
    <3> QED
      BY <1>0, <2>4, <3>1, <3>2, <3>3 DEF LockMoves, BaseKept, AsRead
  <2> QED
    BY <1>5, <2>6, <2>7
<1>6. ASSUME NEW c \in Calls, Return(c)
      PROVE  Goal
  <2>1. view' = view /\ base' = base /\ pulled' = pulled
    BY <1>0, <1>6, OneWindow DEF Return, Stored, TypeOK, timeVars
  <2>2. /\ pc[c] \in {"unlock", "save", "giveUp"}
        /\ pc' = [pc EXCEPT ![c] = Outcome[pc[c]]]
        /\ Outcome[pc[c]] \in {"hit", "pulled", "failed"}
    BY <1>6 DEF Return, Outcome
  <2>3. Holders' = Holders /\ Seen' = Seen
    BY <2>1, <2>2 DEF Holders, Holding, Seen, TypeOK
  <2> QED
    BY <1>0, <2>1, <2>2, <2>3 DEF BaseKept, AsRead, LockMoves, LockStays, TypeOK
<1>7. ASSUME NEW w \in Windows, HandleChange(w) \/ Cleared(w)
      PROVE  Goal
  BY <1>0, <1>7 DEF HandleChange, Cleared, Sound
<1>8. ASSUME NEW a \in Users, ChangeConnection(a)
      PROVE  Goal
  BY <1>8, BoundsAssumption DEF ChangeConnection, Orderly, TypeOK
<1>9. ASSUME NEW w \in Windows, Crash(w)
      PROVE  Goal
  BY <1>9, BoundsAssumption DEF Crash, Orderly, TypeOK
<1>10. CASE Expire \/ UNCHANGED vars
  <2>1. UNCHANGED <<view, base, pc, pulled>>
    BY <1>10 DEF Expire, vars, timeVars, callVars
  <2> QED
    BY <1>0, <2>1 DEF BaseKept, AsRead, LockMoves, LockStays, Holders, Holding, Seen
<1> QED
  BY <1>0, <1>1, <1>2, <1>3, <1>4, <1>5, <1>6, <1>7, <1>8, <1>9, <1>10
    DEF Next, GetResource

\* However many calls there are: as long as nobody disturbs the entry, what
\* CachedResource does over a storage without compare-and-set is what the
\* abstract lock allows.
THEOREM ImplementsLock == Spec => LockRefined
<1>1. Init => TypeOK /\ Sound /\ BaseKept /\ Lock!Init
  <2> SUFFICES ASSUME Init
               PROVE  TypeOK /\ Sound /\ BaseKept /\ Lock!Init
    OBVIOUS
  <2>1. TypeOK /\ Sound
    BY InitType, EntryFacts DEF Init, Sound, LockExcludes, Holding
  <2>2. AsRead
    BY DEF Init, AsRead, Default, None
  <2>4. BaseKept /\ Holders = {}
    BY <2>2 DEF Init, BaseKept, Holders, Holding
  <2>3. Orderly \in BOOLEAN
    BY DEF Orderly
  <2> QED
    BY <2>1, <2>3, <2>4 DEF Lock!Init
<1>2. TypeOK /\ Sound /\ BaseKept /\ [Next]_vars => TypeOK' /\ Sound' /\ BaseKept'
  BY TypeStep, SoundStep, LockStep DEF BaseKept
<1>3. TypeOK /\ Sound /\ BaseKept /\ [Next]_vars
        => [Lock!Next]_<<Orderly, Holders, Seen>>
  <2> SUFFICES ASSUME TypeOK, Sound, BaseKept, [Next]_vars
               PROVE  [Lock!Next]_<<Orderly, Holders, Seen>>
    OBVIOUS
  <2>1. CASE ~Orderly'
    BY <2>1 DEF Lock!Next, Lock!Disturb
  <2>2. CASE Orderly'
    <3>1. Orderly /\ LockMoves
      BY <2>2, LockStep
    <3>2. CASE LockStays
      BY <2>2, <3>1, <3>2 DEF LockStays, Orderly
    <3>3. CASE \E c \in Calls : Lock!Take(c) \/ Lock!Leave(c)
      BY <2>2, <3>1, <3>3 DEF Lock!Next
    <3> QED
      BY <3>1, <3>2, <3>3 DEF LockMoves
  <2> QED
    BY <2>1, <2>2
<1>4. QED
  BY <1>1, <1>2, <1>3, PTL DEF Spec, LockRefined, Lock!Spec
-----------------------------------------------------------------------------
(* No lock is left behind *)

\* The calls that have written, or are writing, a free entry as the last thing they do.
Freeing == {"unlock", "save", "giveUp"}

\* While nothing crashes, what a call will write last is free, and a lock is where a
\* call that is under way will still write over it.
Bases  == \A c \in Calls : pc[c] = "locking" => ~base[c].locked
Writes == \A c \in Calls : pc[c] \in Freeing => ~writing[c].locked
ViewDue(w) == view[w].locked =>
    \E c \in Calls : pc[c] \notin Ended /\ (pc[c] \in Freeing => Win(c) # w)
DiskDue == disk.locked => \E c \in Calls : pc[c] \notin Ended
Tidy == crashes = 0 => Bases /\ Writes /\ (\A w \in Windows : ViewDue(w)) /\ DiskDue

\* A step of one call that goes on, not yet to its last write, keeps every lock accounted for:
\* the call itself will write over it.
LEMMA GoesOn ==
  ASSUME TypeOK, NEW c \in Calls, NEW s \in {"wait", "locking", "pull", "pullAnyway"},
         pc' = [pc EXCEPT ![c] = s]
  PROVE  DiskDue' /\ \A w \in Windows : ViewDue(w)'
  BY DEF DiskDue, ViewDue, TypeOK, Freeing, Ended

\* An attempt on the lock.
LEMMA AttemptTidy ==
  ASSUME TypeOK, Bases, Writes, NEW c \in Calls, Attempt(c), pc[c] \in {"new", "wait"}
  PROVE  Bases' /\ Writes' /\ DiskDue' /\ \A w \in Windows : ViewDue(w)'
<1>1. CASE view[Win(c)].locked
  <2>1. pc' = [pc EXCEPT ![c] = "wait"] /\ UNCHANGED <<writing, base>>
    BY <1>1 DEF Attempt
  <2> QED
    BY <2>1, GoesOn DEF Bases, Writes, TypeOK, Freeing
<1>2. CASE ~view[Win(c)].locked
  <2>1. /\ pc' = [pc EXCEPT ![c] = "locking"]
        /\ base' = [base EXCEPT ![c] = view[Win(c)]]
        /\ writing' = [writing EXCEPT ![c] = [view[Win(c)] EXCEPT !.locked = TRUE]]
    BY <1>2 DEF Attempt, Update
  <2>2. \A d \in Calls \ {c} : /\ pc'[d] = pc[d] /\ base'[d] = base[d]
                              /\ writing'[d] = writing[d]
    BY <2>1 DEF TypeOK
  <2>3. pc'[c] = "locking" /\ ~base'[c].locked
    BY <1>2, <2>1 DEF TypeOK
  <2>4. Bases' /\ Writes'
    BY <2>2, <2>3 DEF Bases, Writes, Freeing
  <2> QED
    BY <2>1, <2>4, GoesOn
<1> QED
  BY <1>1, <1>2

\* A call that begins its last write, of a free entry, and sees it in its own window at once.
LEMMA Frees ==
  ASSUME TypeOK, Bases, Writes, \A w \in Windows : ViewDue(w),
         NEW c \in Calls, pc[c] \notin Ended, NEW s \in Freeing,
         NEW e \in Entries, ~e.locked,
         pc' = [pc EXCEPT ![c] = s], writing' = [writing EXCEPT ![c] = e],
         \A d \in Calls \ {c} : base'[d] = base[d],
         view'[Win(c)].locked = FALSE
  PROVE  Bases' /\ Writes' /\ DiskDue' /\ \A w \in Windows : ViewDue(w)'
<1>1. \A w \in Windows \ {Win(c)} : ViewDue(w)'
  BY DEF ViewDue, TypeOK, Freeing, Ended
<1>2. ViewDue(Win(c))'
  BY DEF ViewDue
<1>3. Bases' /\ Writes' /\ DiskDue'
  BY DEF Bases, Writes, DiskDue, TypeOK, Freeing, Ended
<1> QED
  BY <1>1, <1>2, <1>3

LEMMA TidyStep ==
  ASSUME TypeOK, Tidy, [Next]_vars
  PROVE  Tidy'
<1> SUFFICES ASSUME crashes' = 0
             PROVE  Bases' /\ Writes' /\ (\A w \in Windows : ViewDue(w)') /\ DiskDue'
  BY DEF Tidy
<1> DEFINE Goal == Bases' /\ Writes' /\ (\A w \in Windows : ViewDue(w)') /\ DiskDue'
<1>0. crashes = 0 /\ Bases /\ Writes /\ (\A w \in Windows : ViewDue(w)) /\ DiskDue
  <2>1. crashes' \in {crashes, crashes + 1}
    BY DEF Next, GetResource, Call, Retry, TimeOut, Acquired, PullDone,
      PullFails, Return, ChangeConnection, HandleChange, Cleared, Crash,
      Expire, vars, userVars
  <2>2. crashes \in Nat
    BY BoundsAssumption DEF TypeOK
  <2> QED
    BY <2>1, <2>2 DEF Tidy
<1>1. ASSUME NEW c \in Calls, Call(c)
      PROVE  Goal
  <2>1. CASE Fresh(view[Win(c)]) /\ ~view[Win(c)].locked
    <3>1. /\ pc[c] = "new" /\ pc' = [pc EXCEPT ![c] = "hit"]
          /\ UNCHANGED <<view, disk, base, writing>>
      BY <1>1, <2>1 DEF Call
    <3>2. \A d \in Calls : pc[d] \notin Ended => pc'[d] = pc[d]
      BY <3>1 DEF Ended, TypeOK
    <3>3. \A d \in Calls : pc'[d] \in Freeing \cup {"locking"} => pc'[d] = pc[d]
      BY <3>1 DEF Freeing, TypeOK
    <3>4. Bases' /\ Writes'
      BY <1>0, <3>1, <3>3 DEF Bases, Writes
    <3>5. DiskDue' /\ \A w \in Windows : ViewDue(w)'
      BY <1>0, <3>1, <3>2 DEF DiskDue, ViewDue
    <3> QED
      BY <3>4, <3>5
  <2>2. CASE ~(Fresh(view[Win(c)]) /\ ~view[Win(c)].locked)
    BY <1>0, <1>1, <2>2, AttemptTidy DEF Call
  <2> QED
    BY <2>1, <2>2
<1>2. ASSUME NEW c \in Calls, Retry(c)
      PROVE  Goal
  BY <1>0, <1>2, AttemptTidy DEF Retry
<1>3. ASSUME NEW c \in Calls, TimeOut(c)
      PROVE  Goal
  <2>1. /\ pc' = [pc EXCEPT ![c] = "pullAnyway"]
        /\ base' = [base EXCEPT ![c] = Default]
        /\ writing' = [writing EXCEPT ![c] = Default]
    BY <1>3 DEF TimeOut, StartPull, Drop
  <2>2. Bases' /\ Writes'
    BY <1>0, <2>1 DEF Bases, Writes, TypeOK, Freeing
  <2> QED
    BY <2>1, <2>2, GoesOn
<1>4. ASSUME NEW c \in Calls, Acquired(c)
      PROVE  Goal
  <2>1. pc[c] = "locking" /\ base' = [base EXCEPT ![c] = Default]
        /\ base[c] \in Entries /\ ~base[c].locked
    BY <1>0, <1>4 DEF Acquired, Drop, Bases, TypeOK
  <2>2. CASE Fresh(base[c])
    <3>1. /\ pc' = [pc EXCEPT ![c] = "unlock"]
          /\ writing' = [writing EXCEPT ![c] = base[c]]
          /\ view'[Win(c)] = base[c]
      BY <1>4, <2>2, CallFacts DEF Acquired, StoredThenUpdate
    <3>2. view'[Win(c)].locked = FALSE /\ \A d \in Calls \ {c} : base'[d] = base[d]
      BY <2>1, <3>1 DEF Entries, TypeOK
    <3>3. "unlock" \in Freeing /\ pc[c] \notin Ended
      BY <2>1 DEF Freeing, Ended
    <3> QED
      BY <1>0, <2>1, <3>1, <3>2, <3>3, Frees
  <2>3. CASE ~Fresh(base[c])
    <3>1. /\ pc' = [pc EXCEPT ![c] = "pull"]
          /\ writing' = [writing EXCEPT ![c] = Default]
      BY <1>4, <2>3 DEF Acquired, StartPull, Drop
    <3>2. Bases' /\ Writes'
      BY <1>0, <2>1, <3>1 DEF Bases, Writes, TypeOK, Freeing
    <3> QED
      BY <3>1, <3>2, GoesOn
  <2> QED
    BY <2>2, <2>3
<1>5. ASSUME NEW c \in Calls, PullDone(c) \/ PullFails(c)
      PROVE  Goal
  <2>1. PICK s \in {"save", "giveUp"}, e \in Entries :
          /\ ~e.locked /\ pc' = [pc EXCEPT ![c] = s]
          /\ writing' = [writing EXCEPT ![c] = e] /\ view' = [view EXCEPT ![Win(c)] = e]
    <3>1. CASE PullDone(c)
      <4>1. pulled + 1 \in Results
        BY <3>1, BoundsAssumption DEF PullDone, TypeOK, Results
      <4>2. [locked |-> FALSE, result |-> pulled + 1] \in Entries
        BY <4>1, EntryFacts
      <4> QED
        BY <3>1, <4>2 DEF PullDone, Update
    <3>2. CASE PullFails(c)
      <4>1. [view[Win(c)] EXCEPT !.locked = FALSE] \in Entries
            /\ ~[view[Win(c)] EXCEPT !.locked = FALSE].locked
        BY CallFacts, EntryFacts, ZenonT(60) DEF TypeOK
      <4> QED
        BY <3>2, <4>1 DEF PullFails, Update
    <3> QED
      BY <1>5, <3>1, <3>2
  <2>2. pc[c] \notin Ended /\ base' = base /\ s \in Freeing
    BY <1>5 DEF PullDone, PullFails, Ended, Freeing
  <2>3. view'[Win(c)].locked = FALSE
    BY <2>1, CallFacts DEF TypeOK, Entries
  <2> QED
    BY <1>0, <2>1, <2>2, <2>3, Frees
<1>6. ASSUME NEW c \in Calls, Return(c)
      PROVE  Goal
  <2>1. /\ pc[c] \in Freeing /\ base' = base
        /\ pc' = [pc EXCEPT ![c] = Outcome[pc[c]]]
        /\ Outcome[pc[c]] \in Ended
        /\ writing' = [writing EXCEPT ![c] = Default]
        /\ disk' = writing[c]
        /\ view' = [v \in Windows |-> IF v = Win(c) THEN view[v] ELSE writing[c]]
    BY <1>6 DEF Return, Outcome, Freeing, Ended, Stored, Drop
  <2>2. ~writing[c].locked
    BY <1>0, <2>1 DEF Writes
  <2>3. DiskDue' /\ \A w \in Windows \ {Win(c)} : ViewDue(w)'
    BY <2>1, <2>2 DEF DiskDue, ViewDue
  <2>4. ViewDue(Win(c))'
    <3> SUFFICES ASSUME view[Win(c)].locked
                 PROVE  ViewDue(Win(c))'
      BY <2>1, CallFacts DEF ViewDue
    <3>1. PICK d \in Calls : pc[d] \notin Ended /\ (pc[d] \in Freeing => Win(d) # Win(c))
      BY <1>0, CallFacts DEF ViewDue
    <3>2. d # c /\ pc'[d] = pc[d]
      BY <2>1, <3>1 DEF TypeOK
    <3> QED
      BY <3>1, <3>2 DEF ViewDue
  <2>5. Bases' /\ Writes'
    BY <1>0, <2>1 DEF Bases, Writes, TypeOK, Freeing, Ended
  <2> QED
    BY <2>3, <2>4, <2>5, CallFacts
<1>7. ASSUME NEW w \in Windows, HandleChange(w) \/ Cleared(w)
      PROVE  Goal
  <2>1. UNCHANGED <<pc, base, writing>>
    BY <1>7 DEF HandleChange, Cleared, callVars
  <2>2. \A v \in Windows : view'[v] \in {view[v], Default}
    BY <1>7 DEF HandleChange, Cleared, Stored, TypeOK
  <2>3. disk' \in {disk, Default}
    BY <1>7 DEF HandleChange, Cleared, Stored
  <2> QED
    BY <1>0, <2>1, <2>2, <2>3, EntryFacts DEF Bases, Writes, ViewDue, DiskDue
<1>8. ASSUME NEW w \in Windows, Crash(w)
      PROVE  Goal
  BY <1>0, <1>8 DEF Crash
<1>9. CASE (\E a \in Users : ChangeConnection(a)) \/ Expire \/ UNCHANGED vars
  <2>1. UNCHANGED <<disk, view, pc, base, writing>>
    BY <1>9 DEF ChangeConnection, Expire, vars, callVars
  <2> QED
    BY <1>0, <2>1 DEF Bases, Writes, ViewDue, DiskDue
<1> QED
  BY <1>1, <1>2, <1>3, <1>4, <1>5, <1>6, <1>7, <1>8, <1>9 DEF Next, GetResource

\* Whatever times out, fails or is cleared in however many windows: when no call is under
\* way and nothing has crashed, no lock is left (CachedResource.getResource,
\* releaseLock).
THEOREM LockIsFreed == Spec => []NoLockLeft
<1>1. Init => TypeOK /\ Tidy
  <2> SUFFICES ASSUME Init
               PROVE  TypeOK /\ Tidy
    OBVIOUS
  <2>1. TypeOK
    BY InitType
  <2>2. Bases /\ Writes /\ DiskDue /\ \A w \in Windows : ViewDue(w)
    BY EntryFacts DEF Init, Bases, Writes, DiskDue, ViewDue, Freeing
  <2> QED
    BY <2>1, <2>2 DEF Tidy
<1>2. TypeOK /\ Tidy /\ [Next]_vars => TypeOK' /\ Tidy'
  BY TypeStep, TidyStep
<1>3. Tidy => NoLockLeft
  BY DEF Tidy, NoLockLeft, ViewDue, DiskDue
<1>4. QED
  BY <1>1, <1>2, <1>3, PTL DEF Spec

-----------------------------------------------------------------------------
(* Nobody gets the profiles of another account *)

\* A result that the active connection may see, if it is one; and after the step.
Mine(n) == n # None => n <= pulled /\ owner[n] = account
MineNext(n) == n # None => n <= pulled' /\ owner'[n] = account'

\* What a call under way has read, writes, pulls and returns is of the active connection.
OnItsWay(c) ==
    /\ began[c] = account
    /\ pc[c] = "locking" => Mine(base[c].result)
    /\ pc[c] \in Freeing \cup {"locking"} => Mine(writing[c].result)
    /\ pc[c] \in {"pull", "pullAnyway"} => pullFor[c] = account
    /\ pc[c] \in {"unlock", "save"} => got[c] # None /\ Mine(got[c])

\* What a call returned was of the connection it began under.
Back(c) == pc[c] \in {"hit", "pulled"} /\ began[c] # NoAccount =>
    got[c] # None /\ got[c] <= pulled /\ owner[got[c]] = began[c]

\* While there is a connection, nothing of another account is in memory or on its way
\* there.
Connected == account # NoAccount =>
    /\ \A w \in Windows : told[w] # "writing" /\ Mine(view[w].result)
    /\ \A c \in Calls : pc[c] \notin Ended => OnItsWay(c)

\* While there is none, no call is under way, and a window that has handled the change
\* has forgotten the old result.
Disconnected == account = NoAccount =>
    /\ \A c \in Calls : pc[c] \in Ended
    /\ \A w \in Windows : told[w] # "due" => view[w].result = None

Apart == ~strayed /\ crashes = 0 =>
    Connected /\ Disconnected /\ \A c \in Calls : Back(c)

\* Results that were pulled keep their owners.
OwnersKept == /\ pulled' \in Nat /\ pulled <= pulled'
              /\ \A n \in 1..pulled : owner'[n] = owner[n]

\* A step of one call, under a connection: what the windows see must be its account's, and what
\* the call does next or returns too.
LEMMA OneCall ==
  ASSUME TypeOK, Connected, \A d \in Calls : Back(d), account # NoAccount,
         NEW c \in Calls, UNCHANGED <<account, told>>, OwnersKept,
         \A d \in Calls \ {c} : /\ pc'[d] = pc[d] /\ base'[d] = base[d]
                               /\ writing'[d] = writing[d] /\ pullFor'[d] = pullFor[d]
                               /\ got'[d] = got[d] /\ began'[d] = began[d],
         \A w \in Windows : MineNext(view'[w].result),
         (pc[c] \notin Ended => OnItsWay(c))', Back(c)'
  PROVE  Connected' /\ Disconnected' /\ \A d \in Calls : Back(d)'
<1>1. \A n \in Results : Mine(n) => MineNext(n)
  BY BoundsAssumption DEF Mine, MineNext, OwnersKept, Results, TypeOK
<1>2. \A d \in Calls \ {c} : /\ base[d].result \in Results \cup {None}
                            /\ writing[d].result \in Results \cup {None}
                            /\ got[d] \in Results \cup {None}
  BY DEF TypeOK, Entries
<1>3. ~None \in Results /\ MineNext(None)
  BY DEF MineNext, None, Results
<1>4. ASSUME NEW d \in Calls, pc'[d] \notin Ended
      PROVE  OnItsWay(d)'
  <2>1. CASE d = c
    BY <1>4, <2>1
  <2>2. CASE d # c
    <3>1. OnItsWay(d)
      BY <1>4, <2>2 DEF Connected
    <3> QED
      BY <1>1, <1>2, <1>3, <2>2, <3>1 DEF OnItsWay, Mine, MineNext
  <2> QED
    BY <2>1, <2>2
<1>5. ASSUME NEW d \in Calls
      PROVE  Back(d)'
  <2>1. CASE d = c
    BY <2>1
  <2>2. CASE d # c
    <3> SUFFICES ASSUME pc[d] \in {"hit", "pulled"}, began[d] # NoAccount
                 PROVE  got[d] # None /\ got[d] <= pulled' /\ owner'[got[d]] = began[d]
      BY <2>2 DEF Back
    <3>1. got[d] # None /\ got[d] <= pulled /\ owner[got[d]] = began[d]
      BY DEF Back
    <3>2. got[d] \in 1..pulled /\ pulled \in Nat
      BY <1>2, <2>2, <3>1, BoundsAssumption DEF Results, TypeOK
    <3> QED
      BY <3>1, <3>2 DEF OwnersKept
  <2> QED
    BY <2>1, <2>2
<1> QED
  BY <1>4, <1>5 DEF Connected, Disconnected, TypeOK, Mine, MineNext

\* A step of a call that pulls nothing leaves all results as they are.
LEMMA SameOwners ==
  ASSUME TypeOK, UNCHANGED <<pulled, owner, account>>
  PROVE  OwnersKept /\ \A n : MineNext(n) <=> Mine(n)
  BY BoundsAssumption DEF OwnersKept, Mine, MineNext, TypeOK

\* An attempt on the lock.
LEMMA AttemptMine ==
  ASSUME TypeOK, Connected, \A d \in Calls : Back(d), account # NoAccount,
         NEW c \in Calls, Attempt(c), UNCHANGED <<account, told, pulled, owner, pullFor, got>>,
         began'[c] = account, \A d \in Calls \ {c} : began'[d] = began[d]
  PROVE  Connected' /\ Disconnected' /\ \A d \in Calls : Back(d)'
<1>1. \A w \in Windows : Mine(view[w].result)
  BY DEF Connected
<1>2. CASE view[Win(c)].locked
  <2>1. pc' = [pc EXCEPT ![c] = "wait"] /\ UNCHANGED <<view, writing, base>>
    BY <1>2 DEF Attempt
  <2>2. pc'[c] = "wait" /\ \A d \in Calls \ {c} : pc'[d] = pc[d]
    BY <2>1 DEF TypeOK
  <2>3. OnItsWay(c)' /\ Back(c)'
    BY <2>2 DEF OnItsWay, Back, Freeing, Mine, MineNext
  <2>4. \A w \in Windows : MineNext(view'[w].result)
    BY <1>1, <2>1, SameOwners
  <2> QED
    BY <2>1, <2>2, <2>3, <2>4, OneCall, SameOwners
<1>3. CASE ~view[Win(c)].locked
  <2> DEFINE e == [view[Win(c)] EXCEPT !.locked = TRUE]
  <2>1. /\ pc' = [pc EXCEPT ![c] = "locking"]
        /\ base' = [base EXCEPT ![c] = view[Win(c)]]
        /\ view' = [view EXCEPT ![Win(c)] = e]
        /\ writing' = [writing EXCEPT ![c] = e]
    BY <1>3 DEF Attempt, Update
  <2>2. e.result = view[Win(c)].result
    BY CallFacts DEF TypeOK, Entries
  <2> HIDE DEF e
  <2>3. pc'[c] = "locking" /\ base'[c] = view[Win(c)] /\ writing'[c] = e
    BY <2>1 DEF TypeOK
  <2>4. \A d \in Calls \ {c} : pc'[d] = pc[d] /\ base'[d] = base[d] /\ writing'[d] = writing[d]
    BY <2>1 DEF TypeOK
  <2>5. \A w \in Windows : MineNext(view'[w].result)
    BY <1>1, <2>1, <2>2, SameOwners DEF TypeOK
  <2>6. MineNext(base'[c].result) /\ MineNext(writing'[c].result)
    BY <1>1, <2>2, <2>3, CallFacts, SameOwners
  <2>7. OnItsWay(c)' /\ Back(c)'
    BY <2>3, <2>6 DEF OnItsWay, Back, Mine, MineNext
  <2> QED
    BY <2>4, <2>5, <2>7, OneCall, SameOwners
<1> QED
  BY <1>2, <1>3

\* Every step keeps the accounts apart.
LEMMA ApartStep ==
  ASSUME TypeOK, TypeOK', Apart, [Next]_vars
  PROVE  Apart'
<1> SUFFICES ASSUME ~strayed', crashes' = 0
             PROVE  Connected' /\ Disconnected' /\ \A c \in Calls : Back(c)'
  BY DEF Apart
<1> DEFINE Goal == Connected' /\ Disconnected' /\ \A c \in Calls : Back(c)'
<1>0. ~strayed /\ crashes = 0 /\ Connected /\ Disconnected /\ \A c \in Calls : Back(c)
  <2>1. crashes' \in {crashes, crashes + 1}
    BY DEF Next, GetResource, Call, Retry, TimeOut, Acquired, PullDone,
      PullFails, Return, ChangeConnection, HandleChange, Cleared, Crash,
      Expire, vars, userVars
  <2>2. crashes \in Nat
    BY BoundsAssumption DEF TypeOK
  <2>3. strayed => strayed'
    BY DEF Next, GetResource, Call, Retry, TimeOut, Acquired, PullDone,
      PullFails, Return, ChangeConnection, HandleChange, Cleared, Crash,
      Expire, vars, userVars
  <2> QED
    BY <2>1, <2>2, <2>3 DEF Apart
<1>1. ASSUME NEW c \in Calls, pc[c] \notin Ended
      PROVE  account # NoAccount /\ OnItsWay(c)
  BY <1>0, <1>1 DEF Connected, Disconnected
<1>2. ASSUME NEW c \in Calls, Call(c)
      PROVE  Goal
  <2>1. /\ account # NoAccount /\ UNCHANGED <<account, told, pulled, owner, pullFor>>
        /\ began' = [began EXCEPT ![c] = account] /\ pc[c] = "new"
    BY <1>2 DEF Call, timeVars
  <2>2. began'[c] = account /\ \A d \in Calls \ {c} : began'[d] = began[d]
    BY <2>1 DEF TypeOK
  <2>3. CASE Fresh(view[Win(c)]) /\ ~view[Win(c)].locked
    <3>1. /\ pc' = [pc EXCEPT ![c] = "hit"] /\ UNCHANGED <<view, base, writing>>
          /\ got' = [got EXCEPT ![c] = view[Win(c)].result]
      BY <1>2, <2>3 DEF Call
    <3>2. view[Win(c)].result # None /\ Mine(view[Win(c)].result)
      BY <1>0, <2>1, <2>3, CallFacts DEF Fresh, Connected
    <3>3. /\ pc'[c] = "hit" /\ got'[c] = view[Win(c)].result
          /\ \A d \in Calls \ {c} : pc'[d] = pc[d] /\ got'[d] = got[d]
      BY <3>1 DEF TypeOK
    <3>4. Back(c)' /\ pc'[c] \in Ended
      BY <2>1, <2>2, <3>2, <3>3 DEF Back, Mine, Ended
    <3>5. \A w \in Windows : MineNext(view'[w].result)
      BY <1>0, <2>1, <3>1, SameOwners DEF Connected
    <3> QED
      BY <1>0, <2>1, <2>2, <3>1, <3>3, <3>4, <3>5, OneCall, SameOwners
  <2>4. CASE ~(Fresh(view[Win(c)]) /\ ~view[Win(c)].locked)
    BY <1>0, <1>2, <2>1, <2>2, <2>4, AttemptMine DEF Call
  <2> QED
    BY <2>3, <2>4
<1>3. ASSUME NEW c \in Calls, Retry(c)
      PROVE  Goal
  <2>1. /\ Attempt(c) /\ pc[c] = "wait"
        /\ UNCHANGED <<account, told, pulled, owner, pullFor, got, began>>
    BY <1>3 DEF Retry, timeVars, userVars
  <2>2. account # NoAccount /\ began[c] = account
    BY <1>1, <2>1 DEF Ended, OnItsWay
  <2> QED
    BY <1>0, <2>1, <2>2, AttemptMine
<1>4. ASSUME NEW c \in Calls, TimeOut(c)
      PROVE  Goal
  <2>1. /\ UNCHANGED <<account, told, pulled, owner, got, began>>
        /\ pc[c] \in {"wait", "locking"}
        /\ pc' = [pc EXCEPT ![c] = "pullAnyway"]
        /\ pullFor' = [pullFor EXCEPT ![c] = account]
        /\ base' = [base EXCEPT ![c] = Default] /\ writing' = [writing EXCEPT ![c] = Default]
    BY <1>4 DEF TimeOut, StartPull, Drop, timeVars, userVars
  <2>2. account # NoAccount /\ OnItsWay(c)
    BY <1>1, <2>1 DEF Ended
  <2>3. \A w \in Windows : view'[w] = view[w] \/ (pc[c] = "locking" /\ view'[w] = writing[c])
    BY <1>4 DEF TimeOut, Stored, TypeOK
  <2>4. \A w \in Windows : MineNext(view'[w].result)
    BY <1>0, <2>1, <2>2, <2>3, SameOwners DEF Connected, OnItsWay
  <2>5. pc'[c] = "pullAnyway" /\ pullFor'[c] = account
    BY <2>1 DEF TypeOK
  <2>6. OnItsWay(c)' /\ Back(c)'
    BY <2>1, <2>2, <2>5 DEF OnItsWay, Back, Freeing, Mine, MineNext
  <2>7. \A d \in Calls \ {c} : /\ pc'[d] = pc[d] /\ base'[d] = base[d]
                               /\ writing'[d] = writing[d] /\ pullFor'[d] = pullFor[d]
    BY <2>1 DEF TypeOK
  <2> QED
    BY <1>0, <2>1, <2>2, <2>4, <2>6, <2>7, OneCall, SameOwners
<1>5. ASSUME NEW c \in Calls, Acquired(c)
      PROVE  Goal
  <2>1. /\ UNCHANGED <<account, told, pulled, owner, began>> /\ pc[c] = "locking"
        /\ base' = [base EXCEPT ![c] = Default]
    BY <1>5 DEF Acquired, Drop, timeVars, userVars
  <2>2. account # NoAccount /\ OnItsWay(c)
    BY <1>1, <2>1 DEF Ended
  <2>3. Mine(base[c].result) /\ Mine(writing[c].result) /\ began[c] = account
    BY <2>1, <2>2 DEF OnItsWay
  <2>4. CASE Fresh(base[c])
    <3>1. /\ pc' = [pc EXCEPT ![c] = "unlock"] /\ UNCHANGED pullFor
          /\ got' = [got EXCEPT ![c] = base[c].result]
          /\ writing' = [writing EXCEPT ![c] = base[c]]
          /\ \A w \in Windows : view'[w] \in {base[c], writing[c]}
      BY <1>5, <2>4 DEF Acquired, StoredThenUpdate
    <3>2. \A w \in Windows : MineNext(view'[w].result)
      BY <2>1, <2>3, <3>1, SameOwners
    <3>3. pc'[c] = "unlock" /\ got'[c] = base[c].result /\ writing'[c] = base[c]
      BY <3>1 DEF TypeOK
    <3>4. got'[c] # None /\ MineNext(got'[c]) /\ MineNext(writing'[c].result)
      BY <2>1, <2>3, <2>4, <3>3, SameOwners DEF Fresh
    <3>5. OnItsWay(c)' /\ Back(c)'
      BY <2>1, <2>3, <3>3, <3>4 DEF OnItsWay, Back, Mine, MineNext
    <3>6. \A d \in Calls \ {c} : /\ pc'[d] = pc[d] /\ base'[d] = base[d]
                                 /\ writing'[d] = writing[d] /\ got'[d] = got[d]
      BY <2>1, <3>1 DEF TypeOK
    <3> QED
      BY <1>0, <2>1, <2>2, <3>1, <3>2, <3>5, <3>6, OneCall, SameOwners
  <2>5. CASE ~Fresh(base[c])
    <3>1. /\ pc' = [pc EXCEPT ![c] = "pull"] /\ UNCHANGED got
          /\ pullFor' = [pullFor EXCEPT ![c] = account]
          /\ writing' = [writing EXCEPT ![c] = Default]
          /\ \A w \in Windows : view'[w] \in {view[w], writing[c]}
      BY <1>5, <2>5 DEF Acquired, Stored, StartPull, Drop
    <3>2. \A w \in Windows : MineNext(view'[w].result)
      BY <1>0, <2>1, <2>2, <2>3, <3>1, SameOwners DEF Connected
    <3>3. pc'[c] = "pull" /\ pullFor'[c] = account
      BY <3>1 DEF TypeOK
    <3>4. OnItsWay(c)' /\ Back(c)'
      BY <2>1, <2>3, <3>3 DEF OnItsWay, Back, Freeing, Mine, MineNext
    <3>5. \A d \in Calls \ {c} : /\ pc'[d] = pc[d] /\ base'[d] = base[d]
                                 /\ writing'[d] = writing[d] /\ pullFor'[d] = pullFor[d]
      BY <2>1, <3>1 DEF TypeOK
    <3> QED
      BY <1>0, <2>1, <2>2, <3>1, <3>2, <3>4, <3>5, OneCall, SameOwners
  <2> QED
    BY <2>4, <2>5
<1>6. ASSUME NEW c \in Calls, PullDone(c)
      PROVE  Goal
  <2> DEFINE e == [locked |-> FALSE, result |-> pulled + 1]
  <2>1. /\ UNCHANGED <<account, told, base, began>> /\ pc[c] \in {"pull", "pullAnyway"}
        /\ pulled' = pulled + 1 /\ pulled < MaxPulls
        /\ owner' = [owner EXCEPT ![pulled + 1] = pullFor[c]]
        /\ got' = [got EXCEPT ![c] = pulled + 1]
        /\ view' = [view EXCEPT ![Win(c)] = e] /\ writing' = [writing EXCEPT ![c] = e]
        /\ pc' = [pc EXCEPT ![c] = "save"]
        /\ pullFor' = [pullFor EXCEPT ![c] = NoAccount]
    BY <1>6 DEF PullDone, Update, userVars
  <2>2. account # NoAccount /\ pullFor[c] = account /\ began[c] = account
    BY <1>1, <2>1 DEF Ended, OnItsWay
  <2>3. pulled \in Nat /\ pulled + 1 \in Results /\ e.result = pulled + 1
    BY <2>1, BoundsAssumption DEF TypeOK, Results
  <2> HIDE DEF e
  <2>4. owner'[pulled + 1] = account /\ \A n \in 1..pulled : owner'[n] = owner[n]
    BY <2>1, <2>2, <2>3, BoundsAssumption DEF TypeOK, Results
  <2>5. OwnersKept
    BY <2>1, <2>3, <2>4 DEF OwnersKept
  <2>6. MineNext(pulled + 1)
    BY <2>1, <2>3, <2>4 DEF MineNext
  <2>7. \A w \in Windows : MineNext(view'[w].result)
    <3> TAKE w \in Windows
    <3>1. CASE w = Win(c)
      BY <2>1, <2>3, <2>6, <3>1 DEF TypeOK
    <3>2. CASE w # Win(c)
      <4>1. view'[w] = view[w] /\ Mine(view[w].result)
        BY <1>0, <2>1, <2>2, <3>2 DEF Connected, TypeOK
      <4>2. view[w].result \in Results \cup {None}
        BY DEF TypeOK, Entries
      <4> QED
        BY <2>1, <2>3, <2>4, <4>1, <4>2 DEF Mine, MineNext, Results, None
    <3> QED
      BY <3>1, <3>2
  <2>8. pc'[c] = "save" /\ got'[c] = pulled + 1 /\ writing'[c] = e
    BY <2>1 DEF TypeOK
  <2>9. OnItsWay(c)' /\ Back(c)'
    BY <2>1, <2>2, <2>3, <2>6, <2>8 DEF OnItsWay, Back, None, Mine, MineNext
  <2>10. \A d \in Calls \ {c} : /\ pc'[d] = pc[d] /\ got'[d] = got[d]
                                /\ writing'[d] = writing[d] /\ pullFor'[d] = pullFor[d]
    BY <2>1 DEF TypeOK
  <2> QED
    BY <1>0, <2>1, <2>2, <2>5, <2>7, <2>9, <2>10, OneCall
<1>7. ASSUME NEW c \in Calls, PullFails(c)
      PROVE  Goal
  <2> DEFINE e == [view[Win(c)] EXCEPT !.locked = FALSE]
  <2>1. /\ UNCHANGED <<account, told, pulled, owner, base, got, began>>
        /\ pc[c] \in {"pull", "pullAnyway"} /\ pc' = [pc EXCEPT ![c] = "giveUp"]
        /\ view' = [view EXCEPT ![Win(c)] = e] /\ writing' = [writing EXCEPT ![c] = e]
        /\ pullFor' = [pullFor EXCEPT ![c] = NoAccount]
    BY <1>7 DEF PullFails, Update, timeVars, userVars
  <2>2. account # NoAccount /\ began[c] = account
    BY <1>1, <2>1 DEF Ended, OnItsWay
  <2>3. e.result = view[Win(c)].result
    BY CallFacts DEF TypeOK, Entries
  <2> HIDE DEF e
  <2>4. MineNext(e.result) /\ \A w \in Windows : MineNext(view'[w].result)
    BY <1>0, <2>1, <2>2, <2>3, CallFacts, SameOwners DEF Connected, TypeOK
  <2>5. pc'[c] = "giveUp" /\ writing'[c] = e
    BY <2>1 DEF TypeOK
  <2>6. OnItsWay(c)' /\ Back(c)'
    BY <2>1, <2>2, <2>4, <2>5 DEF OnItsWay, Back, Mine, MineNext
  <2>7. \A d \in Calls \ {c} : /\ pc'[d] = pc[d] /\ writing'[d] = writing[d]
                               /\ pullFor'[d] = pullFor[d]
    BY <2>1 DEF TypeOK
  <2> QED
    BY <1>0, <2>1, <2>2, <2>4, <2>6, <2>7, OneCall, SameOwners
<1>8. ASSUME NEW c \in Calls, Return(c)
      PROVE  Goal
  <2>1. /\ UNCHANGED <<account, told, pulled, owner, base, pullFor, got, began>>
        /\ pc[c] \in Freeing /\ pc' = [pc EXCEPT ![c] = Outcome[pc[c]]]
        /\ writing' = [writing EXCEPT ![c] = Default]
        /\ \A w \in Windows : view'[w] \in {view[w], writing[c]}
    BY <1>8 DEF Return, Stored, Drop, Freeing, Outcome, timeVars, userVars
  <2>2. account # NoAccount /\ OnItsWay(c)
    BY <1>1, <2>1 DEF Ended, Freeing
  <2>3. \A w \in Windows : MineNext(view'[w].result)
    BY <1>0, <2>1, <2>2, SameOwners DEF Connected, OnItsWay
  <2>4. /\ pc'[c] \in Ended
        /\ pc'[c] \in {"hit", "pulled"} => pc[c] \in {"unlock", "save"}
    BY <2>1 DEF Freeing, Outcome, Ended, TypeOK
  <2>5. Back(c)'
    BY <2>1, <2>2, <2>4 DEF OnItsWay, Back, Mine
  <2>6. \A d \in Calls \ {c} : pc'[d] = pc[d] /\ writing'[d] = writing[d]
    BY <2>1 DEF TypeOK
  <2> QED
    BY <1>0, <2>1, <2>2, <2>3, <2>4, <2>5, <2>6, OneCall, SameOwners
<1>9. ASSUME NEW a \in Users, ChangeConnection(a)
      PROVE  Goal
  <2>1. /\ account' = a /\ a # account /\ NoAccount \in {a, account}
        /\ a # NoAccount => \A w \in Windows : told[w] = "no"
        /\ told' = [w \in Windows |-> "due"]
        /\ began' = [c \in Calls |-> NoAccount]
        /\ \A c \in Calls : pc[c] \in Ended
        /\ UNCHANGED <<view, pc, pulled, owner>>
    BY <1>9 DEF ChangeConnection, timeVars
  <2>2. a # NoAccount => \A w \in Windows : view[w].result = None
    BY <1>0, <2>1 DEF Disconnected
  <2>3. \A c \in Calls : Back(c)'
    BY <2>1 DEF Back
  <2>4. Connected'
    BY <2>1, <2>2 DEF Connected, Mine
  <2>5. Disconnected'
    BY <2>1 DEF Disconnected
  <2> QED
    BY <2>3, <2>4, <2>5
<1>10. ASSUME NEW w \in Windows, HandleChange(w)
      PROVE  Goal
  <2>1. UNCHANGED <<pulled, owner, account, callVars>> /\ told[w] = "due"
    BY <1>10 DEF HandleChange, timeVars
  <2>2. \A c \in Calls : Back(c)'
    BY <1>0, <2>1 DEF Back, callVars
  <2>3. CASE account = NoAccount
    <3>1. view' = [view EXCEPT ![w] = Default]
          /\ told' = [told EXCEPT ![w] = "writing"]
      BY <1>10, <2>3 DEF HandleChange
    <3>2. Disconnected'
      BY <1>0, <2>1, <3>1 DEF Disconnected, callVars, Default, TypeOK
    <3> QED
      BY <2>1, <2>2, <2>3, <3>2 DEF Connected
  <2>4. CASE account # NoAccount
    <3>1. view' = view /\ told' = [told EXCEPT ![w] = "no"]
      BY <1>10, <2>4 DEF HandleChange
    <3>2. Connected'
      <4>1. \A v \in Windows : told'[v] # "writing" /\ MineNext(view'[v].result)
        BY <1>0, <2>1, <2>4, <3>1, SameOwners DEF Connected, TypeOK
      <4>2. \A c \in Calls : pc'[c] \notin Ended => OnItsWay(c)'
        BY <1>0, <2>1, <2>4, SameOwners DEF Connected, OnItsWay, callVars, Mine, MineNext
      <4> QED
        BY <4>1, <4>2 DEF Connected, Mine, MineNext
    <3> QED
      BY <2>1, <2>2, <2>4, <3>2 DEF Disconnected
  <2> QED
    BY <2>3, <2>4
<1>11. ASSUME NEW w \in Windows, Cleared(w)
      PROVE  Goal
  <2>1. /\ UNCHANGED <<pulled, owner, account, callVars>> /\ told[w] = "writing"
        /\ told' = [told EXCEPT ![w] = "no"]
        /\ view' = [v \in Windows |-> IF v = w THEN view[v] ELSE Default]
    BY <1>11 DEF Cleared, Stored, timeVars
  <2>2. \A c \in Calls : Back(c)'
    BY <1>0, <2>1 DEF Back, callVars
  <2>3. account = NoAccount
    BY <1>0, <2>1 DEF Connected
  <2>4. Disconnected'
    BY <1>0, <2>1, <2>3 DEF Disconnected, callVars, Default, TypeOK
  <2> QED
    BY <2>1, <2>2, <2>3, <2>4 DEF Connected
<1>12. ASSUME NEW w \in Windows, Crash(w)
      PROVE  Goal
  BY <1>0, <1>12 DEF Crash
<1>13. CASE Expire \/ UNCHANGED vars
  <2>1. UNCHANGED <<pulled, owner, account, told, view, callVars>>
    BY <1>13 DEF Expire, vars, userVars, timeVars
  <2>2. Connected'
    BY <1>0, <2>1, SameOwners DEF Connected, OnItsWay, callVars, Mine, MineNext
  <2> QED
    BY <1>0, <2>1, <2>2 DEF Disconnected, Back, callVars
<1> QED
  BY <1>2, <1>3, <1>4, <1>5, <1>6, <1>7, <1>8, <1>9, <1>10, <1>11, <1>12, <1>13
    DEF Next, GetResource

\* In however many windows: after a change of connection a call returns profiles of the
\* account it was made under, unless calls and changes overlapped or a window died
\* (RegionProfileManager.clearCache and the handler of AuthUtil).
THEOREM AccountsApart == Spec => []RightAccount
<1>1. Init => TypeOK /\ Apart
  <2> SUFFICES ASSUME Init
               PROVE  TypeOK /\ Apart
    OBVIOUS
  <2>1. TypeOK
    BY InitType
  <2>2. Connected /\ Disconnected /\ \A c \in Calls : Back(c)
    BY CacheAssumption
      DEF Init, Connected, Disconnected, Back, Mine, Default, Ended
  <2> QED
    BY <2>1, <2>2 DEF Apart
<1>2. TypeOK /\ Apart /\ [Next]_vars => TypeOK' /\ Apart'
  BY TypeStep, ApartStep
<1>3. Apart => RightAccount
  BY DEF Apart, RightAccount, Back
<1>4. QED
  BY <1>1, <1>2, <1>3, PTL DEF Spec
=============================================================================
