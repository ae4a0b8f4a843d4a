---------------------------- MODULE ResourceCache -----------------------------
(***************************************************************************)
(* CachedResource of packages/core/src/shared/utilities/resourceCache.ts   *)
(* as RegionProfileManager uses it: the list of region profiles of the     *)
(* connected account, kept in VS Code's global state together with a lock, *)
(* so that of several windows only one makes the expensive call.           *)
(*                                                                         *)
(* Global state is read from the memory of the window.  An update is in    *)
(* the window's memory at once, and in the storage and the memory of the   *)
(* other windows when the awaited promise resolves.  What runs between two *)
(* awaits is one step.                                                     *)
(*                                                                         *)
(* Results are numbered in the order they are pulled, and expire in that   *)
(* order; owner[n] is the account that result n was pulled for.            *)
(***************************************************************************)
EXTENDS Integers

CONSTANTS
    Windows,     \* VS Code windows
    Slots,       \* the calls of getResource a window makes
    Accounts,    \* accounts the user connects with
    NoAccount,   \* no connection
    Impatient,   \* a call may wait for the lock until waitUntil times out
    MaxPulls,    \* bound: results pulled
    MaxFails,    \* bound: pulls that fail
    MaxChanges,  \* bound: connections made or dropped
    MaxCrashes   \* bound: windows that crash or close

ASSUME CacheAssumption ==
    /\ Impatient \in BOOLEAN
    /\ NoAccount \notin Accounts

ASSUME BoundsAssumption ==
    /\ MaxPulls \in Nat /\ MaxFails \in Nat
    /\ MaxChanges \in Nat /\ MaxCrashes \in Nat

VARIABLES
    disk,     \* the stored entry
    view,     \* view[w]: the entry in the memory of window w
    pulled,   \* results pulled so far
    stale,    \* results up to this one have expired
    owner,    \* owner[n]: account whose profiles result n lists
    account,  \* account of the active connection
    strayed,  \* a call was under way when the connection changed, or made
              \* without a connection
    told,     \* told[w]: stage of w's handler of a change of connection
    pc,       \* what the call awaits, or how it ended
    base,     \* entry read when the lock was taken
    writing,  \* entry the call has put in memory and not yet in the storage
    pullFor,  \* account the call pulls for
    got,      \* result the call returns
    began,    \* account when the call began; NoAccount once it has changed
    fails, changes, crashes

callVars == <<pc, base, writing, pullFor, got, began>>
timeVars == <<pulled, stale, owner>>
userVars == <<account, told, changes, strayed>>
vars == <<disk, view, timeVars, userVars, callVars, fails, crashes>>

Calls   == Windows \X Slots
Win(c)  == c[1]
None    == 0
Results == 1..MaxPulls
Entries == [locked : BOOLEAN, result : Results \cup {None}]
Default == [locked |-> FALSE, result |-> None]
Users   == Accounts \cup {NoAccount}
Ended   == {"new", "hit", "pulled", "failed", "gone"}
\* pull: pulling with the lock; pullAnyway: after waiting for it in vain.
Stages  == {"wait", "locking", "pull", "pullAnyway", "unlock", "save",
            "giveUp"} \cup Ended

TypeOK ==
    /\ disk \in Entries /\ view \in [Windows -> Entries]
    /\ pulled \in 0..MaxPulls /\ stale \in 0..pulled
    /\ owner \in [Results -> Users]
    /\ account \in Users /\ strayed \in BOOLEAN /\ told \in [Windows -> {"no", "due", "writing"}]
    /\ pc \in [Calls -> Stages]
    /\ base \in [Calls -> Entries] /\ writing \in [Calls -> Entries]
    /\ pullFor \in [Calls -> Users] /\ began \in [Calls -> Users]
    /\ got \in [Calls -> Results \cup {None}]
    /\ fails \in 0..MaxFails /\ changes \in 0..MaxChanges
    /\ crashes \in 0..MaxCrashes

Init ==
    /\ disk = Default /\ view = [w \in Windows |-> Default]
    /\ pulled = 0 /\ stale = 0
    /\ owner = [n \in Results |-> NoAccount]
    /\ account \in Accounts /\ strayed = FALSE /\ told = [w \in Windows |-> "no"]
    /\ pc = [c \in Calls |-> "new"]
    /\ base = [c \in Calls |-> Default] /\ writing = [c \in Calls |-> Default]
    /\ pullFor = [c \in Calls |-> NoAccount]
    /\ began = [c \in Calls |-> NoAccount]
    /\ got = [c \in Calls |-> None]
    /\ fails = 0 /\ changes = 0 /\ crashes = 0

-----------------------------------------------------------------------------
(* The global state *)

\* A variable of c that its code no longer reads.
Drop(f, c) == [f EXCEPT ![c] = Default]

Fresh(e) == e.result # None /\ e.result > stale

\* globalState.update(e) by a call: in the memory of the window now.
Update(c, e) ==
    /\ view' = [view EXCEPT ![Win(c)] = e]
    /\ writing' = [writing EXCEPT ![c] = e]

\* The update of window w resolves: e is stored, and the other windows see it.
Stored(w, e) ==
    /\ disk' = e
    /\ view' = [v \in Windows |-> IF v = w THEN view[v] ELSE e]

\* As Stored and Update together: c's update resolves, and it starts another.
StoredThenUpdate(c, e) ==
    /\ disk' = writing[c]
    /\ view' = [v \in Windows |-> IF v = Win(c) THEN e ELSE writing[c]]
    /\ writing' = [writing EXCEPT ![c] = e]

-----------------------------------------------------------------------------
(* getResource *)

\* As Attempt below, without the test of the lock.
AttemptAlways(c) ==
    /\ base' = [base EXCEPT ![c] = view[Win(c)]]
    /\ Update(c, [view[Win(c)] EXCEPT !.locked = TRUE])
    /\ pc' = [pc EXCEPT ![c] = "locking"]

\* As Attempt below, with the entry replaced by the bare lock.
AttemptBare(c) ==
    IF view[Win(c)].locked
    THEN pc' = [pc EXCEPT ![c] = "wait"] /\ UNCHANGED <<view, writing, base>>
    ELSE /\ base' = [base EXCEPT ![c] = view[Win(c)]]
         /\ Update(c, [Default EXCEPT !.locked = TRUE])
         /\ pc' = [pc EXCEPT ![c] = "locking"]

\* _acquireLock, which keeps what it read before it set the lock
Attempt(c) ==
    IF view[Win(c)].locked
    THEN pc' = [pc EXCEPT ![c] = "wait"] /\ UNCHANGED <<view, writing, base>>
    ELSE /\ base' = [base EXCEPT ![c] = view[Win(c)]]
         /\ Update(c, [view[Win(c)] EXCEPT !.locked = TRUE])
         /\ pc' = [pc EXCEPT ![c] = "locking"]

Call(c) ==
    /\ pc[c] = "new"
    /\ began' = [began EXCEPT ![c] = account]
    /\ strayed' = (strayed \/ account = NoAccount)
    /\ IF Fresh(view[Win(c)]) /\ ~view[Win(c)].locked
       THEN /\ got' = [got EXCEPT ![c] = view[Win(c)].result]
            /\ pc' = [pc EXCEPT ![c] = "hit"]
            /\ UNCHANGED <<view, writing, base>>
       ELSE Attempt(c) /\ UNCHANGED got
    /\ UNCHANGED <<disk, timeVars, account, told, changes, pullFor, fails,
                   crashes>>

Retry(c) ==
    /\ pc[c] = "wait" /\ Attempt(c)
    /\ UNCHANGED <<disk, timeVars, userVars, pullFor, got, began, fails, crashes>>

\* listRegionProfile reads the connection first.
StartPull(c, how) ==
    /\ pc' = [pc EXCEPT ![c] = how]
    /\ pullFor' = [pullFor EXCEPT ![c] = account]

\* As TimeOut below, only while the lock is being stored.
TimeOutLocking(c) ==
    /\ Impatient /\ pc[c] = "locking"
    /\ StartPull(c, "pullAnyway")
    /\ Stored(Win(c), writing[c])
    /\ base' = Drop(base, c) /\ writing' = Drop(writing, c)
    /\ UNCHANGED <<timeVars, userVars, got, began, fails, crashes>>

\* waitUntil gives up, perhaps while the lock is being stored: no lock, so the
\* call goes on as on a cache miss.
TimeOut(c) ==
    /\ Impatient /\ pc[c] \in {"wait", "locking"}
    /\ StartPull(c, "pullAnyway")
    /\ IF pc[c] = "locking" THEN Stored(Win(c), writing[c])
                            ELSE UNCHANGED <<disk, view>>
    /\ base' = Drop(base, c) /\ writing' = Drop(writing, c)
    /\ UNCHANGED <<timeVars, userVars, got, began, fails, crashes>>

\* The lock is stored.  On a hit the entry read before is written back whole.
Acquired(c) ==
    /\ pc[c] = "locking"
    /\ IF Fresh(base[c])
       THEN /\ StoredThenUpdate(c, base[c])
            /\ got' = [got EXCEPT ![c] = base[c].result]
            /\ pc' = [pc EXCEPT ![c] = "unlock"]
            /\ UNCHANGED pullFor
       ELSE /\ Stored(Win(c), writing[c])
            /\ StartPull(c, "pull")
            /\ writing' = Drop(writing, c)
            /\ UNCHANGED got
    /\ base' = Drop(base, c)
    /\ UNCHANGED <<timeVars, userVars, began, fails, crashes>>

\* As PullFails below, with the lock not released.
PullFailsKept(c) ==
    /\ pc[c] \in {"pull", "pullAnyway"}
    /\ \/ fails < MaxFails /\ fails' = fails + 1
       \/ pulled = MaxPulls /\ UNCHANGED fails
    /\ pc' = [pc EXCEPT ![c] = "failed"]
    /\ pullFor' = [pullFor EXCEPT ![c] = NoAccount]
    /\ UNCHANGED <<disk, view, writing, timeVars, userVars, base, got, began,
                   crashes>>

\* As PullDone below, with the lock released by its holder only.
PullDoneHolder(c) ==
    /\ pc[c] \in {"pull", "pullAnyway"} /\ pulled < MaxPulls
    /\ pulled' = pulled + 1
    /\ owner' = [owner EXCEPT ![pulled + 1] = pullFor[c]]
    /\ got' = [got EXCEPT ![c] = pulled + 1]
    /\ Update(c, [locked |-> view[Win(c)].locked /\ pc[c] = "pullAnyway",
                  result |-> pulled + 1])
    /\ pc' = [pc EXCEPT ![c] = "save"]
    /\ pullFor' = [pullFor EXCEPT ![c] = NoAccount]
    /\ UNCHANGED <<disk, stale, userVars, base, began, fails, crashes>>

\* releaseLock(r), whoever holds the lock
PullDone(c) ==
    /\ pc[c] \in {"pull", "pullAnyway"} /\ pulled < MaxPulls
    /\ pulled' = pulled + 1
    /\ owner' = [owner EXCEPT ![pulled + 1] = pullFor[c]]
    /\ got' = [got EXCEPT ![c] = pulled + 1]
    /\ Update(c, [locked |-> FALSE, result |-> pulled + 1])
    /\ pc' = [pc EXCEPT ![c] = "save"]
    /\ pullFor' = [pullFor EXCEPT ![c] = NoAccount]
    /\ UNCHANGED <<disk, stale, userVars, base, began, fails, crashes>>

\* releaseLock(), whoever holds the lock
PullFails(c) ==
    /\ pc[c] \in {"pull", "pullAnyway"}
    /\ \/ fails < MaxFails /\ fails' = fails + 1
       \/ pulled = MaxPulls /\ UNCHANGED fails              \* at the bound
    /\ Update(c, [view[Win(c)] EXCEPT !.locked = FALSE])
    /\ pc' = [pc EXCEPT ![c] = "giveUp"]
    /\ pullFor' = [pullFor EXCEPT ![c] = NoAccount]
    /\ UNCHANGED <<disk, timeVars, userVars, base, got, began, crashes>>

Outcome == [unlock |-> "hit", save |-> "pulled", giveUp |-> "failed"]
Return(c) ==
    /\ pc[c] \in DOMAIN Outcome
    /\ Stored(Win(c), writing[c])
    /\ pc' = [pc EXCEPT ![c] = Outcome[pc[c]]]
    /\ writing' = Drop(writing, c)
    /\ UNCHANGED <<timeVars, userVars, base, pullFor, got, began, fails, crashes>>

GetResource(c) ==
    \/ Retry(c) \/ TimeOut(c) \/ Acquired(c) \/ PullDone(c) \/ PullFails(c)
    \/ Return(c)

-----------------------------------------------------------------------------
(* The connection and the windows *)

\* A connection is dropped or made; the handler of every window hears of it.
\* Making one takes the user longer than the handlers take.
ChangeConnection(a) ==
    /\ a # account /\ NoAccount \in {a, account} /\ changes < MaxChanges
    /\ a # NoAccount => \A w \in Windows : told[w] = "no"
    /\ account' = a
    /\ changes' = changes + 1
    /\ strayed' = (strayed \/ \E c \in Calls : pc[c] \notin Ended)
    /\ told' = [w \in Windows |-> "due"]
    /\ began' = [c \in Calls |-> NoAccount]
    /\ UNCHANGED <<disk, view, timeVars, pc, base, writing, pullFor, got, fails,
                   crashes>>

\* As HandleChange below, without clearing the cache.
HandleChangeNone(w) ==
    /\ told[w] = "due"
    /\ told' = [told EXCEPT ![w] = "no"]
    /\ UNCHANGED <<disk, view, timeVars, account, changes, strayed, callVars,
                   fails, crashes>>

\* AuthUtil's handler, when it gets to isConnected(): clearCache() or nothing.
HandleChange(w) ==
    /\ told[w] = "due"
    /\ IF account = NoAccount
       THEN /\ view' = [view EXCEPT ![w] = Default]
            /\ told' = [told EXCEPT ![w] = "writing"]
       ELSE told' = [told EXCEPT ![w] = "no"] /\ UNCHANGED view
    /\ UNCHANGED <<disk, timeVars, account, changes, strayed, callVars, fails,
                   crashes>>

Cleared(w) ==
    /\ told[w] = "writing"
    /\ Stored(w, Default)
    /\ told' = [told EXCEPT ![w] = "no"]
    /\ UNCHANGED <<timeVars, account, changes, strayed, callVars, fails, crashes>>

\* expirationInMilli passes.
Expire ==
    /\ stale < pulled
    /\ stale' = pulled
    /\ UNCHANGED <<disk, view, pulled, owner, userVars, callVars, fails, crashes>>

\* Window w crashes or closes: its calls are gone, the lock stays in the
\* storage.  Calls not made yet are made after it opened again.
Lost(w) == {c \in Calls : Win(c) = w /\ pc[c] # "new"}
Crash(w) ==
    /\ crashes < MaxCrashes
    /\ crashes' = crashes + 1
    /\ pc' = [c \in Calls |-> IF c \in Lost(w) THEN "gone" ELSE pc[c]]
    /\ base' = [c \in Calls |-> IF c \in Lost(w) THEN Default ELSE base[c]]
    /\ writing' = [c \in Calls |-> IF c \in Lost(w) THEN Default ELSE writing[c]]
    /\ pullFor' = [c \in Calls |-> IF c \in Lost(w) THEN NoAccount ELSE pullFor[c]]
    /\ view' = [view EXCEPT ![w] = disk]
    /\ told' = [told EXCEPT ![w] = "no"]
    /\ UNCHANGED <<disk, timeVars, account, changes, strayed, got, began, fails>>

Next ==
    \/ \E c \in Calls : Call(c) \/ GetResource(c)
    \/ \E a \in Users : ChangeConnection(a)
    \/ \E w \in Windows : HandleChange(w) \/ Cleared(w) \/ Crash(w)
    \/ Expire

Spec == Init /\ [][Next]_vars

\* Pulls and updates end, and waitUntil gives up; no call need be made.
Fairness == \A c \in Calls : WF_vars(GetResource(c))

FairSpec == Spec /\ Fairness

-----------------------------------------------------------------------------
(* Properties *)

Holding(c) == pc[c] \in {"locking", "pull"}
Pulling(c) == pc[c] \in {"pull", "pullAnyway"}

\* What Resource says of the lock: while one call holds it, no other gets it.
LockExcludes == \A c, d \in Calls : Holding(c) /\ Holding(d) => c = d

\* What CachedResource says: one call pulls, the others read its result.
OnePull == \A c, d \in Calls : Pulling(c) /\ Pulling(d) => c = d

\* In one window whose calls wait for the lock as long as it takes, while the
\* connection stays and nothing crashes, a set lock has one holder, a free one
\* has none, and it is the holder alone that pulls.
Orderly == /\ ~Impatient /\ changes = 0 /\ crashes = 0
           /\ \A v, w \in Windows : v = w
LockIsSound == Orderly =>
    /\ LockExcludes /\ OnePull
    /\ \A c \in Calls : Holding(c) => view[Win(c)].locked
    /\ \A w \in Windows : view[w].locked => \E c \in Calls : Holding(c)

\* A window that is left in peace implements the lock that Resource promises:
\* the lock is taken only when it is free, and the cached result changes only
\* when the holder leaves, and then to a newer one; writing back the entry that
\* was read before the lock was taken, as a hit does, reverts nothing.
Holders == {c \in Calls : Holding(c)}
Seen    == [w \in Windows |-> view[w].result]
Lock == INSTANCE CachedLock WITH
    orderly <- Orderly, holders <- Holders, cached <- Seen
LockRefined == Lock!Spec

\* Whatever times out, fails, or is cleared by a change of connection, in
\* whichever window: when no call is under way, no lock is left behind.
NoLockLeft == crashes = 0 /\ (\A c \in Calls : pc[c] \in Ended) =>
    ~disk.locked /\ \A w \in Windows : ~view[w].locked

\* Every call of getResource ends, if with a pull of its own: neither a slow
\* holder nor the lock that a crashed window left keeps it for ever.
CallEnds == \A c \in Calls : (pc[c] = "wait") ~> (pc[c] \in Ended)

\* A lock that nobody will release any more is released by a call that runs
\* into it, unless that call is lost in a crash too.
LockHeals == \A c \in Calls :
    (view[Win(c)].locked /\ pc[c] = "wait")
        ~> (~view[Win(c)].locked \/ pc[c] = "gone")

\* What the comment on RegionProfileManager.clearCache says: after a change of
\* connection nobody uses the wrong result set.  It takes that no call was
\* under way when the connection changed, nor made while there was none: the
\* one stores the result for the old account after the cache was cleared, the
\* other an empty result; and that no window died before it cleared the cache.
RightAccount == ~strayed /\ crashes = 0 => \A c \in Calls :
    pc[c] \in {"hit", "pulled"} /\ began[c] # NoAccount => owner[got[c]] = began[c]
=============================================================================
