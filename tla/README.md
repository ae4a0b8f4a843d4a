# Amazon Q for Visual Studio Code: specifications, checks and proofs

TLA+ modules for the parts of the extension whose correctness depends on the
order in which things happen: several VS Code windows over shared files and
global state, asynchronous calls that overlap in one window, sleeping and
crashing computers. Each module is translated from the TypeScript source, checked
by TLC on small instances, and proved with TLAPS for all of them where that is
possible. `PROJECT.json` lists, for every definition, the lines it models; for
every run, what it shows; and every hazard of the code with the property that
watches it.

Paths below are relative to `src/packages`.

## 1. The system

The repository is a monorepo: `core` holds the shared library, `amazonq` the
extension built from it. One extension host runs per VS Code window, and within
it JavaScript runs one piece of code at a time, from one `await` to the next.
Concurrency is of two kinds: overlapping asynchronous calls within a window, and
windows that share files, VS Code's global state and remote services.

| Component | Its state | Operations | Talks to | What is hard |
|---|---|---|---|---|
| Crash monitor (`core/src/shared/crashMonitoring.ts`) | heartbeat files in a shared directory; two intervals and TimeLag per instance | start, heartbeat, check, cleanup, shutdown | other instances through the files; telemetry | clocks across sleep, late file operations, several checkers at once, restarts |
| SSO token provider (`core/src/auth/sso/ssoAccessTokenProvider.ts`) | token and registration files shared by windows; a map of refreshes per window | getToken, createToken, invalidate | OIDC service, disk cache, Auth | refreshes that overlap each other, logins and logouts; failures between service and disk |
| Resource cache (`core/src/shared/utilities/resourceCache.ts`) | entry with a lock in global state | getResource, clearCache | region profile service, other windows | a lock without compare-and-set, time-outs, crashed holders, changes of account |
| Inline session (`amazonq/src/app/inline/`) | active session, pending request, editing flag | provide, accept, reject, paginate, refresh | VS Code editor, language server | overlapping calls, pages of old sessions, a flag shared by commands |
| Edit rendering (`amazonq/src/app/inline/EditRendering/`) | the one edit suggestion on screen | show, accept, reject, discard | inline session, editor | a second kind of suggestion over the same session |
| Connections (`core/src/auth/auth.ts`, `connection.ts`) | profiles with the states of the connections, the active one, logins that calls share | restore, use, create, delete, validate, reauthenticate, logout | token provider, global state, secondary auth | calls that overlap at every await with a deletion, a login or a restart; prompts that are answered late |
| Secondary auth (`core/src/auth/secondaryAuth.ts`, `codewhisperer/util/authUtil.ts`) | saved and followed connection of a tool | save, clear, restore, clear extra ones, sign in and out | connections and their events, the watcher of the token cache | events that arrive while it restores, a network that fails at the start, a clean-up that decides before it awaits |
| Region profile manager (`core/src/codewhisperer/region/`) | selected profile, cache of profiles | list, switch, restore, invalidate | resource cache, connections | events around a change of connection |
| Timers (`core/src/shared/utilities/timeoutUtils.ts`, `functionUtils.ts`) | a timer, waiting promises | Timeout, waitUntil, debounce, once | everyone | cancellation against completion |
| Notifications (`core/src/notifications/`) | the feeds as received, dismissals and marks of what is new, in one entry of the global state; a copy of it per window | poll, fetch, display, toast, dismiss | network, rules, panel, other windows through the entry | whole-entry writes of several windows, crashes between the write and the toast, rules and fetches that fail |
| Language server installer (`core/src/shared/lsp/`) | manifest in global state, zips and unpacked folders of every version on disk | resolve, fall back, clean up, launch, clear | network, other windows through the directory | partial downloads and unpackings, kills at any step, clean-up next to a running server |
| Security scan (`core/src/codewhisperer/commands/startSecurityScan.ts`) | reviews in progress, a state per kind, the latest automatic review, a debounce timer, a quota mark | start, poll, stop, show, toggle | review service, editor, chat | stops and restarts at any await, overlapping automatic reviews, a debounce, a poll with a time limit |
| Code transformation (`core/src/codewhisperer/commands/startTransformByQ.ts`) | a remote job and its state | start, poll, cancel | services, chat | cancellation against completion |
| Wizards (`core/src/shared/wizards/`) | stack of steps and states | step, back, skip | user | sequential; a pure algorithm |
| Telemetry, feature configuration, trackers, webviews, chat, inline chat, chat database | see `PROJECT.json` | | | mostly plumbing or counters |

What makes each of the modelled ones correct:

* **Crash monitor.** A live instance is not taken for a crashed one; a crash is
  handled while somebody checks, and reported at most once; nothing of an earlier OS
  session is left to report.
* **Token provider.** At most one refresh per window is in flight; nobody is left
  waiting for one that ended; no stale token is returned; while the service
  honours the session the user is not signed out.
* **Resource cache.** The lock has one holder; only the holder pulls; the lock is
  never left behind; nobody uses the profiles of another account.
* **Inline session.** One request at a time, not overridden by another; the flag
  that blocks completions is reset; every call ends.
* **Notifications.** What was not shown is never forgotten, whatever crashes or
  overwrites; what was shown is not shown again; what was dismissed stays hidden;
  an emergency reaches the user.
* **Language server installer.** What is launched is whole; an older version is
  found when the newest cannot be had; a running server's files are not written
  over; the disk stays bounded; every start ends with some server.
* **Security scan.** One review of the project at a time; a stopped one shows
  nothing; automatic reviews do not overtake each other; every review ends, and
  what asks for an automatic one last gets one.
* **Connections and secondary auth.** The active connection exists, and is the one that
  the next window restores and that Amazon Q follows; a window that
  starts keeps and uses the connection that Amazon Q used, whatever fails meanwhile;
  a login that several calls wait for lets all of them go on; the state that is
  shown becomes right.

## 2. Modules

| Module | Models | Extended by |
|---|---|---|
| `CrashMonitoring` | crash monitor, the first-start marker of `osUtils.ts` | `MCCrashMonitoring`, `CrashMonitoringProofs` |
| `SsoTokenProvider` | token provider, disk cache, the logout of `auth.ts` | `MCSsoTokenProvider`, `SsoTokenProviderProofs` |
| `ResourceCache` | `CachedResource`, the profile cache and handlers over it | `MCResourceCache`, `ResourceCacheProofs` |
| `CachedLock` | what `CachedResource` promises: the abstract specification | instantiated by `ResourceCache` |
| `SingleFlight` | what callers that share a pending promise are promised: the second abstract specification | instantiated by `SsoTokenProvider`, `InlineSession` and `AuthConnection` |
| `InlineSession` | provider, recommendation service, session manager, the commands | `MCInlineSession`, `InlineSessionProofs` |
| `Notifications` | controller, feeds, rules and panel of the notifications | `MCNotifications`, `NotificationsProofs` |
| `LspInstaller` | manifest resolver, server resolver, installer, clean-up, the start in `activate` | `MCLspInstaller`, `LspInstallerProofs` |
| `SecurityScan` | code reviews, their states, stops, timers and triggers | `MCSecurityScan`, `SecurityScanProofs` |
| `AuthConnection` | `Auth` with its `ProfileStore`, `SecondaryAuth` and the part of `AuthUtil` over them, composed | `MCAuthConnection`, `AuthConnectionProofs` |

In all of them a step is what the code does from one `await` to the next; an
`await` that may reject is two actions. Definitions named `...Always`, `...Kept`,
`...Late`, `...Own` and the like, or marked "a plausible
bug", each placed before the definition it varies, are plausible bugs: replacing the definition by its variant
must make TLC find a violation, which shows that the properties can fail.

### 2.1 CrashMonitoring

Each instance goes through `mode` (boot steps, up, quitting, exiting, dead...).
`HeartbeatFires` and `BeatOpen/BeatWrite/BeatVerified` are `sendHeartbeat`, system
call by system call; `Delete...` is the removal of the own file; the `Check...`
actions are `tryCheckCrash` and `handleCrashedExt`; `Crash`, `Exit`, `Reboot`,
`Sleep` and `Tick` are the environment.

Files and timestamps: `file[e]` is absent, empty or a complete heartbeat, and
`age[e]` how old its timestamp is by the wall clock. Ages saturate at
`CheckInterval` and the lag at `CheckInterval + Buffer + 1`: the code compares
them with those limits only. File operations end within the tick they start in
(15 s of retries against intervals of 10 and 20 minutes). While the computer
sleeps the wall clock moves and the timers do not, as the comment at
`crashMonitoring.ts:358` says. Two deletions of one's own file under way at once
are one that starts again. `fate`, `ground`, `guarded` and `told` are history
variables.

### 2.2 SsoTokenProvider

Calls are numbered slots of a window, each used once. `pc[c]` names what a call
awaits. Tokens and registrations are numbered in the order they are issued and
expire in that order. The service is what the code can see of it: it issues tokens with or
without a refresh token (`Bare`), accepts or refuses a refresh token, may invalidate
it when it is used (`Rotates`), and may end a session. A token that is being saved
does not expire before the save ends. `Reload` closes a window at any await.
A logout begins with a `getToken` of its own, as `SsoClient.call` does, and clears
the cache afterwards whatever came of it.

`SingleFlight` is what `keyedDebounce` promises (`functionUtils.ts:175`), and what
other code does without it: a call that finds no promise under its key does the work,
those that find one wait for it, and when it settles nobody is left waiting. Here the
keys are the windows, a promise is kept while `refreshing[w]` names a call, the calls
inside `refreshToken` do the work and those at `join` wait (`RefreshShared`).

### 2.3 ResourceCache

`disk` is the stored entry, `view[w]` what window `w` reads. An update shows in
its own window at once and in the storage and the other windows when its promise
resolves, which is how VS Code's memento works; updates of a memento do not fail.
`Attempt`, `Retry` and `TimeOut` are `tryLoadResourceAndLock` over `waitUntil`.
Making a connection takes longer than the handlers of the change before it;
`invalidateProfile` and `clearCache` in that handler are one step. The update by
which a call takes the lock, when the wait times out meanwhile, arrives at once.
A call belongs to the account that was connected when it began (`began`); results
carry the account they were pulled for (`owner`).

`CachedLock` is the abstract specification: a lock that one call holds at a time,
and a cached result that changes only when a holder leaves, and never back to an older
one. The refinement mapping
`Lock` takes for the holders the calls that are past a successful `Attempt` and have
not released, and for the cached result what each window reads. The promise stands
only while nobody disturbs the entry from outside (`Orderly`: one window, calls that
wait as long as it takes, no change of connection, no crash), which is what
`orderly` is mapped to.

### 2.4 InlineSession

`Provide` is a call up to its first await: it joins the pending request, returns
nothing while the flag is set, or starts a request. `Reuse`, `ImplicitReject`,
`Ask`, `Answer`, `AnswerFails`, `Present` and `Discard` are what becomes of the
request; `Finish` gives the result to the call and to those that joined it. `Page`,
`PageIgnored` and `PageFails` are `processRemainingRequests`; `Accept`, `Reject`
and `Refresh` with their later steps are the commands. Whether text matches is a
choice. The reports to the language server are left out, as is the cursor that
moved behind the trigger position: it is the discard that `Discard` models, taken
before the typing delay. `latest` and `shown` are what VS Code
does: it shows what its last, not cancelled call returns.

The whole provider is one key of `SingleFlight` (`RequestShared`): `pendingRequest` is
its promise, the running call works, those that have joined it wait.

### 2.5 Notifications

One entry of the global state holds both feeds as last received (`startUp`,
`emergency`, each a version of `Feed`, which stands for the entity tag and the
payload), the dismissals and the marks of what is new. `mem[w]` is the controller's
copy, `view[w]` what the window's memento reads, `disk` what is stored: as for the
resource cache, a write shows in its own window at once and elsewhere when its
promise resolves. A poll goes through `Fetched`/`NotModified`/`FetchFails`,
`FetchStored`, `Display`/`RulesFail`, `Toast` and `CleanStored`: one action per
`await` of `fetchNotifications` and `displayNotifications`. `Open` is `activate`:
the start-up poll, one emergency poll, then the interval; a poll that throws before
the interval is registered leaves the window without any (`"dead"`). `Dismiss` and
`DismissDone` are `dismissNotification`. What the rules let through is a set that
`Turn` changes one notification at a time; at first it is all of them. Left out: the
button *Dismiss* of an emergency's toast, whose write nothing reads; `reset()`; the
fetcher for developers.

### 2.6 LspInstaller

`win[w]` is the resolution of window `w`: its step, its manifest, the version it
wants and what it has still to write, unpack or delete. `zip[v][f]` and `out[v][f]`
are a zip of version `v` and the folder it is unpacked to: missing, cut off (`torn`),
with entries missing (`part`) or whole. `Start` is `ManifestResolver.resolve`;
`CheckLocal`, `Drop`, `Mkdir` to `Undo`, and `Fallback` are the three resolvers of
`LanguageServerResolver.resolve`; `PostInstall`, `Clean`, `DeleteVersion`, `Launch`
and `UseBundled` what `BaseLspInstaller.resolve` and `activate` do with the result.
`Kill` is a window that dies at any step, `KillUnpacking` one that dies while it
unpacks, `ClearCache` the command that clears everything. Deleting a tree and
unpacking a zip are each one step otherwise: `AdmZip` is synchronous and so is not
interleaved with other windows' steps at a coarser grain than a zip. Two windows that
write the same zip at once may leave it torn (`Rival`). Left out: a deletion in the
clean-up that throws (Windows, files in use), which would end in the bundled server;
the override of the server's path; prerelease ranges, which are part of what the
manifest lists.

### 2.7 SecurityScan

Reviews are numbered in the order they start, which is also the order of their
`codeScanStartTime`. `pc[i]` is the await a review is in: reading the text (`zip`),
everything up to the start of the job (`submit`, where a stop may be noticed at
several places: `StopEarly`), the sleep and the request of `pollScanJobStatus`, and
`listScanResults`. `GoOn` is an await followed by `throwIfCancelled`. `state` are
`codeScanState` and `onDemandFileScanState`; an automatic review has no state of its
own and resets that of the file reviews when it ends (`Owner`), as the code does.
`Request`, `AskToStop` and `Answer` are the commands with their dialog, `Click` and
`FormActionClicked` the button in the chat, `Edit`, `Switch`, `Toggle` and `Announce`
what starts automatic reviews, `Debounce` and `StartAuto` the timer between them, the
`debounce` of lodash, whose last call replaces the ones before.
Abstractions: the account is one with automatic reviews and its connection valid; the
file and the text are followed for automatic reviews only; several events that
automatic reviews were turned on, before the first is handled, are one; findings
have no content. `stopped`, `due` and `copy` are there for the properties: `due` is
the file and the version that asked for an automatic review last, while they are on, and
`copy[i]` the version that review `i` has read.

### 2.8 AuthConnection

`store[c]` is the profile of a connection, of which only `connectionState` matters;
`current` and `savedId` are the two ids in the global state; these three and the tokens
survive a `Restart`. `active` is `Auth`'s active connection, `follows` and `saved` the
two fields of `SecondaryAuth`, `Using` what `conn` returns. `call[t]` is a call with
the await it is in and where it goes on: validation (`ask`, `judge`), a state being
written (`mark`), the login (`login`, or `joined` when `keyedDebounce` hands out the
promise of another call), the question of `handleInvalidCredentials` (`prompt`), and
the steps of a creation, a deletion, a restoration and a clean-up. A call is never
cut short by another one; what it read before an await is in its record, and what it
reads after it is read then. `Start` is the activation (restore, then
`clearExtraConnections`), `Reload` the watcher's `refreshConn`, `GetToken`, `Check`,
`Reauthenticate`, `Connect`, `Create` and `SignOut` the operations of `AuthUtil`.

Abstractions: all connections are SSO connections with the scopes of Amazon Q; a token
provider has a usable token for a connection or not, and says so, fails, or cannot be
reached (the detail is `SsoTokenProvider`); it has one again after a login only
(`StaysSignedOut` there, where a refresh in flight is the exception). A write of the global state is visible at
once and taken to be stored when the window dies. The states that are only announced
(`authenticating`) are not stored and left out, and so is the copy of the state in
`activeConnection`. `Connect` and `Create` begin when the list of connections is
there. `Fresh` stands for a random id. Left out: IAM connections and linked profiles,
`updateConnection` with the scopes, `forgetConnection` (used in development
environments), `expireConnection`, and windows next to this one.

For `SingleFlight` the keys are the connections and the promises are `busy`, the map
of `keyedDebounce` around `authenticate` (`LoginShared`). The calls from the login of
`authenticate` to the state that follows it work, those at `joined` wait; the login of
a creation does not go through `authenticate` and is no part of it.

## 3. What is checked

Every run finishes without an error. `PROJECT.json` has, for every property of every
run, a plausible bug of the code under which TLC finds the property violated.

| Run | Checks | Shows |
|---|---|---|
| `crash_sleep` | `GuardedCheckSound`, `OldStateGone` | a check that TimeLag lets through never takes a live instance for a crash, deletes its heartbeat or reports it; after a restart of the computer the old heartbeats are cleared, if nothing fails |
| `crash_liveness` | `ReportedOnce`, `CrashHandled` | a crash is handled while somebody checks, and a checker reports it at most once |
| `sso_calls` | `RefreshesInFlight`, `NoStaleAnswer` | one refresh in flight, an exact map, no stale answers |
| `sso_steady` | `SessionKept`, `GetTokenEnds` | nothing but the service costs the user the session; every getToken ends |
| `cache_lock` | `LockIsSound`, `RightAccount`, `LockRefined` | in one window the lock is a lock and implements `CachedLock`, which never goes back to an older result; after a change of connection nobody gets the profiles of the old account, unless a call was under way or was made while there was none |
| `cache_liveness` | `NoLockLeft`, `CallEnds`, `LockHeals` | with calls that give up waiting, calls end, no lock stays behind, and the lock of a crashed window is released |
| `inline` | `OneRequest`, `NotOverridden`, `FlagIsHeld`, `CallEnds`, `EditingEnds` | one request at a time, its session not replaced, the flag never left behind; every call ends, and the flag is reset |
| `notif_polls` | `ToastedOnce`, `DismissedHidden`, `NewsKept`, `EmergencyIsToasted` | in a window that crashes at any await, over failing polls, withdrawn and republished feeds and changing rules: one toast per reception, nothing new is forgotten, what is dismissed stays hidden, and in the end there is a toast for each emergency |
| `lsp_starts` | `LaunchesAll`, `FallsBack`, `DiskBounded`, `UnpackedIntact`, `Settles` | over four starts with failures, wrong hashes, kills and cleared caches: a whole server, the right fall-back, a bounded disk, nothing unpacked is damaged, and always some server |
| `scans` | `OneProjectScan`, `StoppedHidden`, `LastRequestKept`, `AutoInOrder`, `ScanEnds`, `CatchesUp` | one review of the project at a time, stops that hold, automatic reviews in order, what asked for an automatic review last is never lost, every review ends, the last request is reviewed |
| `auth_calls` | `ActiveAgrees`, `KeptAtStart` | whatever two calls do to each other over two connections, failures and a restart at any await: what is active exists and is what the next window restores and Amazon Q follows, but for a deletion under way, and the next window keeps the connection |
| `auth_liveness` | `LoginShared`, `Restored`, `TaskEnds`, `StateHeals` | the logins of a connection implement `SingleFlight`; the connection is used again after a restart, every call ends, and the state shown becomes right |

The types are proved in every module and checked in no run. `RefreshShared` and
`RequestShared` are proved too; for the token provider and the inline session the runs
check the invariants from which they follow (`RefreshesInFlight`, `OneRequest`).
`StaysSignedOut` is in no run either and is proved: an empty cache, while no refresh is
in flight and no call holds a token it read before, is filled by a login only.

### Where the code departs from its comments, or from what one would expect

The models have all of the following behaviour, and it does go wrong; the properties
are stated so that they say what holds besides. Each was a counterexample of TLC when
the stronger property was tried. First those that contradict a comment:

* A heartbeat in flight while an instance shuts down recreates the file the shutdown
  removed (`crashMonitoring.ts:475`), and a checker reports the instance; the comment
  at line 519 says that this is impossible.
* A refresh in flight while the user logs out saves its token after the logout has
  cleared the cache (`ssoAccessTokenProvider.ts:219`); `auth.ts:564` says that all
  state of the connection is removed. Only a refresh that began before does this
  (`StaysSignedOut`).
* A window that polls while another one dismisses a notification writes its entry
  over that dismissal (`notifications/controller.ts:179`), and the notification is
  back after a restart; the comments at lines 133 and 140 say that a dismissal is
  permanent and not overwritten. The one at line 213 knows of such races and keeps
  the read small.
* A page of a session that the user has accepted or rejected is added to the session
  that is active when it arrives (`recommendationService.ts:324`), and the end of the
  old pagination closes the new session.
* A zip with a wrong hash is left out without an error (`lspResolver.ts:303`); the
  comment at line 263 says that true means all was downloaded and unzipped, and no
  older version is tried. `LaunchesAll` and `FallsBack` have it as an exception.
* The stop button of the chat sets a review's state to cancelling although the review
  may have ended (`amazonqScan/chat/controller/controller.ts:188`; the comment at
  `basicCommands.ts:201` says only a running one is cancelled). No command leads out
  of that state when nothing runs: no review of the project starts any more.
* A file that cannot be read makes `load` throw (`cacheUtils.ts:137`) where the comment
  at line 93 says that it looks like a cache miss.
* A closed session may be rendered again twice, as it is remembered only after two
  awaits (`sessionManager.ts:120`, against the comment at line 108).

Then those that no comment speaks of:

* The first check of an instance is not guarded by TimeLag (`crashMonitoring.ts:245`):
  a window that opens after a sleep reports the instances that slept. In the model
  it is the `Launch` after a `Sleep`, whose check has `guarded` FALSE.
* An extension host that restarts in its window has the id of the one that crashed
  (`crashMonitoring.ts:577`): its heartbeat overwrites the orphaned one, and nobody
  reports the crash. This is why `ReportedOnce` speaks of the first life of an id.
* The first-start marker is read and written in two steps (`osUtils.ts:21`): two
  windows that open together both clear the shared state.
* A `clearState` that fails, after the start was marked as seen, is not tried again
  (`crashMonitoring.ts:456`), and the heartbeats of the old OS session are reported.
  No comment says otherwise; `OldStateGone` has the condition that
  nothing failed and nobody was cut off.
* The checker deletes a heartbeat before it emits the metric (`crashMonitoring.ts:527`):
  when it dies in between nobody reports the crash.
* A refresh that is refused clears whatever token the cache holds by then
  (`ssoAccessTokenProvider.ts:264`), a newer login's too, if the old session has ended.
* A call that has waited for the lock in vain pulls anyway and then frees the lock
  of whoever holds it, and two windows may both find the lock free
  (`resourceCache.ts:122` and `:137`). `LockIsSound` therefore has the condition `Orderly`.
* A rejection that ends while an acceptance is editing resets the flag of both
  (`completion.ts:209`), and an acceptance clears, half a second later, whatever
  session is active then (`completion.ts:165`).
* One notification with a criterion that this version does not know makes the display
  throw (`rules.ts:166`); when that happens in one of the first two polls the window
  polls no more. `EmergencyIsToasted` excludes those windows.
* A window that finds the newest version incomplete deletes the directory in which
  another window is downloading it, or from which it runs a server, and clean-ups
  delete what other windows have just installed (`lspResolver.ts:191`,
  `cleanup.ts:56`): windows share no lock. `LaunchesAll`, `FallsBack` and
  `DiskBounded` speak of windows that resolve alone.
* An entry that was cut off when a window died is found by its name and never
  written again (`lspResolver.ts:388`): that version is launched with it for good.
* `cleanupVersion` deletes without `recursive` (`lspResolver.ts:173`) and so removes only
  an empty directory; the empty directory of a download that failed by an exception
  stays and counts among the two newest versions (`cleanup.ts:46`).
* An automatic review that ends resets the state of the file reviews
  (`startSecurityScan.ts:387`): the stop of a file review is lost, and a second one may
  start. `OneProjectScan` and `StoppedHidden` are about reviews of the project.
* The dialog that asks whether to stop a review stops the next one, if the answer comes
  after the first has ended (`startSecurityScan.ts:530`).
* One debounce serves all files (`startSecurityScan.ts:96`) and runs with the arguments of
  its last call: when another file asks for a review within the delay, the change of the
  first one is not reviewed until that file asks again. `LastRequestKept` and `CatchesUp`
  are about what asked last, whichever file it is.
* A newer automatic review stops the older one of another file, which is then not
  reviewed until it changes again (`securityScanHandler.ts:366`).
* A file review whose poll or listing is throttled is taken for one that met the end of
  the monthly quota (`startSecurityScan.ts:359`), as when `createCodeScan` reports the
  limit; that stops automatic reviews until the window is reloaded. (Other throttled
  calls become errors of their own, `securityScanHandler.ts:275` and `:318`.)
* `logout` reads the active connection again after its first await (`auth.ts:272`):
  it invalidates the one that was made active meanwhile instead of the one that is
  being deleted, or throws when there is none any more, which ends the deletion half
  way (`Leave`).
* A connection that the user creates while `clearExtraConnections` awaits its list is
  not the one it noted before (`authUtil.ts:526`) and is deleted again; `KeptAtStart`
  speaks of the connection until the user signs in or out.
* A login that ends after its connection was deleted leaves a token that belongs to no
  profile (`auth.ts:803`), and one that ends after a sign-out of the same connection
  whose profile is still there makes it valid again until the profile goes.
* A saved connection that a call has loaded is put in use after the await even if it was
  deleted meanwhile (`secondaryAuth.ts:310`): the window uses a connection without a
  profile until the next `getToken` finds that out and drops it (`Orphaned`).
* The timeout of the question whether to log in again is registered after an await
  (`auth.ts:910`): when the state became valid in between nobody disposes of it, and the
  question stays although nothing needs an answer (`Invalid`, `Mark`).

### Bounds, and why they are enough

* **Crash monitor**: two windows, one to crash or sleep and one to check. One tick
  between heartbeats and two between checks is the ratio of the code (10 and 20
  minutes); `Buffer` is below a heartbeat, as 15 seconds are. `crash_sleep` has one
  sleep, one restart of the computer and one failure, and launches each window once,
  before the restart or after it; `crash_liveness` has one end and one failure, and
  the truncated file that the failure leaves is found again, without sleep. No run
  combines all of them; for `GuardedCheckSound` the theorem does.
* **Token provider**: three calls of one window are a refresh, a call that joins it
  and one that interferes; two windows with two calls each are enough for one to
  work on a token that the other has replaced. Two tokens are a login and its
  refresh, a third is another login. In `sso_steady` nothing is reloaded and the
  service keeps the session, which is what `SessionKept` is about; in `sso_calls` it
  may end, refresh tokens rotate, and windows reload.
* **Resource cache**: in `cache_lock` three calls of one window: one holds the lock,
  one waits, one comes later or is made after a change of connection. There are two
  changes between two accounts, so that the first account may come back; one pull
  may fail. In `cache_liveness` three windows with one call each, which may give up
  waiting; one of them crashes, with the lock or without. Calls that give up and a
  change of connection are not combined.
* **Inline session**: two sessions, an old one whose pages still arrive and a new
  one; two calls, of which the second joins the request of the first, cancels it or
  comes after it; one refresh of a closed session. Requests may fail.
* **Notifications**: `notif_polls` has one notification in each feed and one window,
  opened twice; the emergency is published, withdrawn and published again, two fetches
  fail, the rules change their mind twice, and the window may die at any await. Windows
  that overwrite each other's entry are in the model and in the theorems, for any
  number of them, and in no run.
* **Language server installer**: a bundle has two files, one the server itself. One
  window starts four times over three versions: to fall back twice and to have a
  fourth directory that the clean-up removes takes as many. Windows that share the
  directory are in the model and in the theorems, and in no run.
* **Security scan**: two reviews are enough for every pair: two of the project, two
  of files, an automatic one and a newer one, one that is asked for and an automatic
  one that ends. Two versions of two texts, one poll within the limit, one click and
  one dialog open at a time.
* **Connections**: two calls are enough for every pair of calls, and each begins as often
  as it likes; two connections are the one in use and another one, active, saved, extra
  or new. One restart, at any await, with whatever that left. Validations on behalf of
  the chat and reauthentications are not called in `auth_calls`, where `getToken`,
  logins and restorations take the same steps on both connections; in `auth_liveness`
  everything is called, on one connection.
  Nothing else is bounded: connections expire, are created and deleted any number of
  times.

Symmetry is used in `crash_sleep`, `sso_calls`, `cache_lock` and `auth_calls`, over
sets the modules never choose from and for safety properties that treat their members
alike; one of these is an action property (`LockRefined`). No liveness property is checked under symmetry.
`CHECK_DEADLOCK FALSE` stands where a behaviour may end: calls are finitely
many or the bounds are used up; in the runs of the connections every id may be taken by
something that names a deleted connection, so that no fresh one is left. In `scans` deadlock is checked: editing, switching
and the settings go on for ever.

### Fairness

* **Crash monitor**: weak fairness of time and of the steps of each instance, taken
  together: timers fire, system calls return, a process that was told to exit does so. A crash, a
  sleep, a shutdown or a launch is never forced. The liveness run has no sleep, as
  a computer that always sleeps checks nothing.
* **Token provider**: every await of a call ends; requests and file operations
  return or fail. Calls are not made to begin.
* **Resource cache**: the same, and `waitUntil` polls or times out, except in a
  crashed window.
* **Inline session**: requests are answered or fail, timers fire, edits end. VS Code
  is not made to ask, nor the user to act; pages need not ever end, as the server
  may go on sending them.
* **Notifications**: the awaits of a poll end, with or without an answer, and the
  interval fires while the window is open. Nothing is published, dismissed, opened or
  closed by force.
* **Language server installer**: every await of a resolution comes back: requests have
  time limits, and file operations return or fail. Starts, kills and cleared caches
  are not forced; a start that is killed owes nothing.
* **Security scan**: every await comes back and sleeps end; the timer of the debounce
  runs out, as the user pauses for 30 seconds now and then (every call starts it anew).
  The bound on reviews also means that the user does not go on asking for the same text
  forever, each time giving up the review under way.
  Nobody is made to type, start or stop.
* **Connections**: weak fairness of the steps of each call and of the answers to it: the
  service, the network and the user answer or give up (the question has a timeout of
  its own, a login one in the token provider). VS Code activates the extension in
  every window (`Start`). Features keep asking for the state of the connection in use,
  as the chat, the status bar and every invocation do (`Check`), and when they do, the
  answer is not a network failure for good: strong fairness, as either may be
  impossible in between. Nobody is made to sign in or out, and nothing expires by force.

## 4. What is proved

`tlapm` checks every step. The theorems hold for every value of the
constants, under the assumptions the modules state: `TimingAssumption` and
`BoundsAssumption` (crash monitor), `ServiceAssumption` and `BoundsAssumption`
(tokens), `CacheAssumption` and `BoundsAssumption` (cache), `InlineAssumption`
(inline session), `FeedAssumption` and `BoundsAssumption` (notifications),
`LspAssumption` (installer), `ScanAssumption` (security scan), `AuthAssumption`
(connections). They say that bounds
are natural numbers and that the mark for "none" is no real call, account, file or connection;
for the monitor, that `CheckInterval = 2 * HeartbeatInterval` and
`Buffer < HeartbeatInterval`; for notifications, that the two feeds have different
ids; for the installer, that a bundle contains the server's file.

| Module | Theorem | Says |
|---|---|---|
| `CrashMonitoringProofs` | `TypeInvariant`, `GuardedCheckIsSound`, `OldStateIsCleared`, `CrashReportedOnce` | `TypeOK`, `GuardedCheckSound`, `OldStateGone`, `ReportedOnce` always hold |
| `SsoTokenProviderProofs` | `TypeInvariant`, `OneRefreshAtATime`, `RefreshesAreShared`, `AnswersAreFresh`, `HonouredSessionIsKept`, `SignOutHolds` | `TypeOK`, `RefreshesInFlight`, `RefreshShared` (a refinement of `SingleFlight`), `NoStaleAnswer`, `SessionKept`, `StaysSignedOut` |
| `ResourceCacheProofs` | `TypeInvariant`, `OneHolder`, `ImplementsLock`, `LockIsFreed`, `AccountsApart` | `TypeOK`, `LockIsSound`, `LockRefined` (the refinement of `CachedLock`), `NoLockLeft`, `RightAccount` |
| `InlineSessionProofs` | `TypeInvariant`, `OneRequestAtATime`, `RequestsAreShared`, `SessionNotOverridden`, `FlagNeverLeft` | `TypeOK`, `OneRequest`, `RequestShared` (a refinement of `SingleFlight`), `NotOverridden`, `FlagIsHeld` |
| `NotificationsProofs` | `TypeInvariant`, `NothingNewIsLost`, `NoToastIsRepeated`, `DismissedStaysHidden` | `TypeOK`, `NewsKept`, `ToastedOnce`, `DismissedHidden` |
| `LspInstallerProofs` | `TypeInvariant`, `UnpackedStays`, `WholeServer`, `LastResort`, `ThreeKept` | `TypeOK`, `UnpackedIntact`, `LaunchesAll`, `FallsBack`, `DiskBounded` |
| `SecurityScanProofs` | `TypeInvariant`, `OneAtATime`, `StopHolds`, `ShownInOrder`, `LastIsKept` | `TypeOK`, `OneProjectScan`, `StoppedHidden`, `AutoInOrder`, `LastRequestKept` |
| `AuthConnectionProofs` | `TypeInvariant`, `NoGhostIsActive`, `ActiveIsOne`, `StartKeeps`, `LoginsAreShared` | `TypeOK`, `ActiveExists`, `ActiveAgrees`, `KeptAtStart`, `LoginShared` (a refinement of `SingleFlight`) |

The arguments:

* **Crash monitor.** `GuardedCheckSound` alone is not inductive: it speaks of what a
  checker has read, not of why it could not have been too old. The invariant is
  `TypeOK /\ Stages /\ LagCovers /\ GuardedFresh /\ GuardedCheckSound`. `Stages` says
  which timers and calls run in which mode. `LagCovers` bounds the age of every
  live heartbeat by how long ago its instance should have written one plus the
  sleep that the checker's own `lag` has noticed; it is where
  `CheckInterval = 2 * HeartbeatInterval` and `Buffer < HeartbeatInterval` are used.
  `GuardedFresh` says that the heartbeats a guarded check has still to read are
  fresh, and gives the last conjunct at the step that reads; what a guarded check goes on
  to empty, delete and report is what it has read, which `GuardedCheckSound` says itself
  in its part about the victim. The steps are proved
  action by action, with the passing of time apart: every other step keeps ages and
  intervals in the sense of `Keeps`. `OldStateGone` is inductive with these. For
  `ReportedOnce`, `CrashedOnce` says that an instance that was launched once and whose
  heartbeat counts as a crash does not run any more, so that its heartbeat, once a checker
  has emptied the file, never comes back; steps are divided into those that touch
  the handling of a crash and those that are `Ordinary`.
* **Token provider.** `TypeOK /\ RefreshesInFlight /\ Fresh /\ NoStaleAnswer /\ Sound
  /\ SessionKept`. `Fresh` says that what a call has asked, loaded or joined is no
  older than what it may return. `Sound` says what an honoured session guarantees:
  the service accepts the refresh token of whatever the cache holds or a call is
  about to save, so no refresh is refused, so no clear is due. From that
  `SessionKept` is inductive. `StaysSignedOut` needs the types only: `SignedOut` names
  the awaits from which a token could still reach the cache, and every action but a
  login leaves all calls outside them.
* **Sharing.** The three refinements of `SingleFlight` go step by step, key by key. In
  the token provider and the inline session the invariants of the runs
  (`RefreshesInFlight`, `OneRequest`) say that a promise is kept exactly while a call
  works and that nobody waits without one; every action then begins, joins or settles
  the key of one call and leaves the others alone, and a reload settles. For the logins
  the invariant is `Shared`: who logs in to a connection or waits for it has it in
  `busy`, and one call logs in at a time. It rests on `Wired` for what a call does next,
  and on `Fits` for a creation, which never comes through `authenticate`.
* **Resource cache.** `LockIsSound` needs `Sound`: under the conditions named by
  `Orderly`, no handler of a change of connection runs, nobody pulls without the
  lock, a call about to take the lock has read it as free, and the lock is set
  exactly while one call holds it.
* **Inline session.** `TypeOK`, `OneRequest`, `NotOverridden` and `FlagIsHeld` are
  inductive together. That a session is not overridden rests on `OneRequest`: only
  the call of `pendingRequest` can start a session, so no other call can be in its
  typing delay when one starts.
* **The lock's refinement.** With `Sound` every step maps to a step of `CachedLock`,
  whose variables are the calls that hold the lock and the result that the windows see:
  taking the lock maps to `Take`, the step that begins the write that frees it to `Leave`
  (results are numbered as they are pulled, so what is written is never older), what breaks
  `Orderly` to `Disturb`, and everything else to a stutter.
* **No lock left.** `Tidy` says who will still write over a locked entry: in the memory
  of a window, a call that has yet to begin its last write, or one of another window
  that is at it; and that what a call writes last is free.
* **Accounts.** `Apart`: while there is a connection, what is in any memory or on its
  way there is of its account (`Connected`); while there is none, no call is under way,
  and the windows that have handled the change are empty (`Disconnected`), so that a new
  connection finds nothing. The storage needs no part in it, as only a window that
  opens again reads it.
* **Notifications.** `TypeOK /\ Blanks /\ Unmarked /\ Held /\ Lone /\ Others`.
  `NewsKept` is inductive with the types alone. `Unmarked` has what was toasted not
  marked any more in the window that toasted it, before the storage has it, and gives
  `ToastedOnce`. `Held` says that what a window shows and dismisses comes from its
  own copy of the feed, which is why the panel cannot bring back a dismissal of the same
  window. `Lone` says that copy and storage agree while no second window was ever
  opened; that is the other half of `DismissedHidden`.
* **Language server installer.** `TypeOK /\ ManifestsApart /\ Lone /\ Wants /\ Done`.
  `Lone` carries "resolves alone" through the steps of others. `Wants` says that until
  it falls back a window looks at the newest version of its manifest. `Done` says,
  await by await, what a lone window has achieved: downloaded, listed, unpacked, or
  found impossible. `DiskBounded` is proved from its part for the clean-up, by
  counting what is not doomed. That the newest of a set of versions exists is shown with
  the well-foundedness of `<` on naturals, not by induction.
* **Security scan.** `TypeOK /\ InTime /\ Started /\ OneProjectScan /\ StopHeld /\
  StoppedHidden /\ Autos /\ ReadInOrder /\ Pursued`. A stop of the project's review holds because
  its state stays at cancelling until the review has seen it (`StopHeld`), and that
  rests on there being one review (`OneProjectScan`). The order of the automatic reviews is
  decided when they get past the first `throwIfCancelled` after reading their text
  (`ReadInOrder`), as only the latest one gets past, and texts only get newer. What
  asked last is not lost because it is pursued (`Pursued`): the timer runs, and then for its
  file, or the latest automatic review is about it, has not read an older text and was
  not stopped; nothing stops the latest one while automatic reviews are on, and a newer
  one only starts when something else has asked.
* **Connections.** `TypeOK /\ Wired /\ ActiveExists /\ HomeKept`. `Wired` says of every
  call that where it is tells what it is about, where it can go on and what it was
  told; without it a step could write a state or go to a place that no call can.
  `ActiveExists` is inductive with it: only `Activate` sets the active connection, and it
  looks for the profile in the same step; whoever takes a profile away has `sweep`
  before it. The rest of `ActiveAgrees` needs that a deleted profile does not come back
  while the deletion is under way (`GoneUnknown`), as the active connection would then be
  kept and no longer followed; and that rests on nothing knowing the id of a creation
  before it adds its profile (`UnbornUnknown`). Most steps keep the connection in use and
  the profiles that there are (`UseKept`) and are proved by one lemma, `CallAgrees`; the
  activation, the two halves of a creation and those of a deletion have one each. `HomeKept` adds to `KeptAtStart` what its steps rest on: no call is about
  to delete the connection, it is not among the extra ones, and a call that loads, puts
  in use or spares a saved connection means this one. The deletions that a user asks
  for, and the creation and choice of another connection, end the promise.

Only model-checked: liveness under fairness and whatever needs ENABLED, which is
beyond this prover (`CrashHandled`, `GetTokenEnds`, `LockHeals`, the two `CallEnds`,
`EditingEnds`, `EmergencyIsToasted`, `Settles`, `ScanEnds`, `CatchesUp`, `Restored`,
`TaskEnds`, `StateHeals`); every invariant
that a run checks is proved as well. No module
declares a RECURSIVE operator and no proof needs induction over data.

## 5. What is not modelled, and the plan

Left out of the modelled components: the two login flows in detail and the local
authorization server (one step of `SsoTokenProvider`); telemetry and wording
everywhere; edit suggestions, references and imports in `InlineSession`; the rest of
the region profile manager; the reading of a rule and the actions of a notification,
which are one question each that the environment answers; what a review does with
findings, and the Builder ID account, which has no automatic reviews; what section 2.8
names for the connections. The conditions
of the rules of notifications, version ranges and hashes are asked, not computed. Parts that
are only I/O, user interface or generated code are listed as `not_modelled` in
`PROJECT.json` with the reason; among them are the two generated service clients, which
are by far the longest files of the repository.

The modules, most important first; 1 to 8 exist:

1. `CrashMonitoring`.
2. `SsoTokenProvider`.
3. `ResourceCache` and `CachedLock`, which it implements.
4. `InlineSession`.
5. `Notifications`.
6. `LspInstaller`.
7. `SecurityScan`.
8. `AuthConnection`, which composes `Auth` and `SecondaryAuth`.
9. `EditRendering` over `InlineSession`.
10. `Timers`: Timeout, debounce and once; waitUntil and keyedDebounce are so far modelled
    where they are used.
11. `RegionProfile`; `Transform`, a polled job with cancellation as `SecurityScan` is; the
    wizard's state machine as a pure model.

Extensions of `AuthConnection` that are worth their states: a second window over the
same global state, with the watcher that tells it (`secondaryAuth.ts:150`); a change of
scopes (`updateConnection`), which invalidates and keeps the id; IAM connections, whose
validation shares a cache (`credentials/store.ts`). The token synchronisation of
`lsp/auth.ts` would be a third participant.

Runs planned with the rest: one edit and one completion for 9; one timer against one
cancellation for 10. Theorems planned: that an edit suggestion and a completion are
never on screen together, and the promises of the timers.
