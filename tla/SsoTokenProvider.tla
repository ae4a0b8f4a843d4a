-------------------------- MODULE SsoTokenProvider ---------------------------
(***************************************************************************)
(* The SSO bearer token of one connection:                                 *)
(* packages/core/src/auth/sso/ssoAccessTokenProvider.ts over the disk      *)
(* cache of packages/core/src/shared/utilities/cacheUtils.ts.              *)
(*                                                                         *)
(* Calls of getToken, createToken and invalidate run in several VS Code    *)
(* windows.  The windows share two files, the token and the client         *)
(* registration; each keeps its own map of refreshes in flight.  A call is *)
(* cut into steps at its awaits: a step is one file operation or one       *)
(* answer of the service, with the code that runs from there to the next   *)
(* await.                                                                  *)
(*                                                                         *)
(* Tokens and registrations are numbered in the order they are issued, and *)
(* expire in that order.  A token file is the number of its token; RegOf   *)
(* recovers the registration that formatToken stores beside it.            *)
(***************************************************************************)
EXTENDS Integers

CONSTANTS
    Windows,        \* VS Code windows, one extension host each
    Slots,          \* the calls a window makes
    Ops,            \* the entry points used: subset of {"get","login","logout"}
    Rotates,        \* a refresh makes the service reject the token it used
    Bare,           \* grants answered without a refresh token
    MaxTokens,      \* bound: tokens issued
    MaxRegs,        \* bound: registrations issued
    MaxFaults,      \* bound: disk errors, lost or failed requests
    MaxEnds,        \* bound: sessions and registrations that run out
    MaxReloads      \* bound: windows closed or crashed and opened again

ASSUME ServiceAssumption ==
    /\ Ops \subseteq {"get", "login", "logout"}
    /\ Rotates \in BOOLEAN
    /\ Bare \subseteq {"refresh", "login"}

ASSUME BoundsAssumption ==
    /\ MaxTokens \in Nat /\ MaxRegs \in Nat
    /\ MaxFaults \in Nat /\ MaxEnds \in Nat /\ MaxReloads \in Nat

VARIABLES
    \* the shared disk cache: numbers, None when the file is absent
    token, registration,
    \* the service
    issued,      \* tokens issued so far
    registered,  \* registrations issued so far
    expired,     \* tokens up to this one have expired
    regExpired,  \* registrations up to this one have expired
    refreshable, \* tokens that came with a refresh token
    accepted,    \* refresh tokens the service accepts
    regOf,       \* registration each token was issued under
    \* each window
    refreshing,  \* refreshPromises.get(tokenCacheKey): the call, or NoCall
    reAuth,      \* ReAuthState holds a reason
    \* each call
    pc,          \* what the call awaits, or how it ended
    held,        \* token it loaded or was issued
    client,      \* registration it loaded or was issued
    clearing,    \* files invalidate() has still to delete
    leaving,     \* the getToken that a logout begins with
    \* history
    asked,       \* value of expired when the call began
    signedIn,    \* a login has saved its token
    \* budgets
    faults, ends, reloads

cacheVars   == <<token, registration>>
serviceVars == <<issued, registered, expired, regExpired, refreshable,
                 accepted, regOf>>
callVars    == <<pc, held, client, clearing, asked, leaving>>
vars == <<cacheVars, serviceVars, refreshing, reAuth, callVars,
          signedIn, faults, ends, reloads>>

Calls  == Windows \X Slots
Win(c) == c[1]
NoCall == <<>>
None   == 0
Files  == {"token", "registration"}
Tokens == 1..MaxTokens
Regs   == 1..MaxRegs

\* Refreshing: the call is inside refreshToken().
Refreshing == {"oidc", "save", "clear"}
Invalidating == {"allCacheExpired", "registrationExpired", "signOutRejected",
                 "explicit"}
Login == {"regLoad", "regReload", "register", "regSave", "authorize",
          "loginSave", "regClear"}
Ended == {"new", "got", "absent", "failed"}
Stages == {"load", "loaded", "join", "signOut"}
          \cup Refreshing \cup Invalidating \cup Login \cup Ended

CacheType ==
    /\ token \in Tokens \cup {None} /\ registration \in Regs \cup {None}
    /\ signedIn \in BOOLEAN

ServiceType ==
    /\ issued \in 0..MaxTokens /\ registered \in 0..MaxRegs
    /\ expired \in 0..issued /\ regExpired \in 0..registered
    /\ refreshable \in SUBSET Tokens /\ accepted \in SUBSET Tokens
    /\ regOf \in [Tokens -> Regs \cup {None}]
    /\ faults \in 0..MaxFaults /\ ends \in 0..MaxEnds
    /\ reloads \in 0..MaxReloads

WindowType ==
    /\ refreshing \in [Windows -> Calls \cup {NoCall}]
    /\ reAuth \in [Windows -> BOOLEAN]

CallType ==
    /\ pc \in [Calls -> Stages]
    /\ held \in [Calls -> Tokens \cup {None}]
    /\ client \in [Calls -> Regs \cup {None}]
    /\ clearing \in [Calls -> SUBSET Files]
    /\ asked \in [Calls -> 0..MaxTokens]
    /\ leaving \in [Calls -> BOOLEAN]

\* A call that refreshes, saves or returns a token holds one.
HoldsToken == \A c \in Calls :
    pc[c] \in Refreshing \cup {"loginSave", "got"} => held[c] # None

TypeOK == CacheType /\ ServiceType /\ WindowType /\ CallType /\ HoldsToken

Init ==
    /\ token = None /\ registration = None
    /\ issued = 0 /\ registered = 0 /\ expired = 0 /\ regExpired = 0
    /\ refreshable = {} /\ accepted = {}
    /\ regOf = [t \in Tokens |-> None]
    /\ refreshing = [w \in Windows |-> NoCall]
    /\ reAuth = [w \in Windows |-> FALSE]
    /\ pc = [c \in Calls |-> "new"]
    /\ held = [c \in Calls |-> None]
    /\ client = [c \in Calls |-> None]
    /\ clearing = [c \in Calls |-> {}]
    /\ asked = [c \in Calls |-> 0]
    /\ leaving = [c \in Calls |-> FALSE]
    /\ signedIn = FALSE
    /\ faults = 0 /\ ends = 0 /\ reloads = 0

-----------------------------------------------------------------------------
(* Helpers *)

\* As IsExpired below, late by one.
IsExpiredLate(t) == t < expired

IsExpired(t) == t <= expired

\* A registration made for another login flow is replaced like an expired one.
RegIsExpired(r) == r <= regExpired
\* getToken's condition for a refresh: data.registration, hasProps(...)
CanRefresh(t) == ~RegIsExpired(regOf[t]) /\ t \in refreshable

\* The call waits for stage s now.
Await(c, s) == pc' = [pc EXCEPT ![c] = s]

\* Where a call goes that ends with e, "got", "absent" or "failed": with the
\* token a logout goes on, whatever getToken has come to.
Ending(c, e) == IF leaving[c] THEN "signOut" ELSE e

\* The call ends; only an answer is kept.
End(c, e) ==
    /\ pc' = [pc EXCEPT ![c] = Ending(c, e)]
    /\ held' = [held EXCEPT ![c] = IF e = "got" THEN @ ELSE None]
    /\ client' = [client EXCEPT ![c] = None]
    /\ asked' = [asked EXCEPT ![c] = IF e = "got" THEN @ ELSE 0]

\* The refresh of c settles: getToken removes it from the map, and returns or
\* throws in c and in every call of the window that awaits the same promise.
Settled(c) == {c} \cup {d \in Calls : Win(d) = Win(c) /\ pc[d] = "join"}
\* As Settle below, with the waiting calls answered on success only.
SettleOnSuccess(c, e) ==
    /\ refreshing' = [refreshing EXCEPT ![Win(c)] = NoCall]
    /\ pc' = [d \in Calls |-> IF d = c \/ (d \in Settled(c) /\ e = "got")
                             THEN Ending(d, e) ELSE pc[d]]
    /\ held' = [d \in Calls |-> IF d \in Settled(c) /\ e = "got"
                                THEN held[c] ELSE held[d]]
    /\ UNCHANGED <<client, asked>>

Settle(c, e) ==
    /\ refreshing' = [refreshing EXCEPT ![Win(c)] = NoCall]
    /\ pc' = [d \in Calls |-> IF d \in Settled(c) THEN Ending(d, e)
                             ELSE pc[d]]
    /\ held' = [d \in Calls |-> IF d \notin Settled(c) THEN held[d]
                                ELSE IF e = "got" THEN held[c] ELSE None]
    /\ client' = [d \in Calls |-> IF d \in Settled(c) THEN None ELSE client[d]]
    /\ asked' = [d \in Calls |-> IF d \in Settled(c) /\ e # "got" THEN 0
                                 ELSE asked[d]]

\* The service issues the next token to c, under registration r.
Issue(c, r, grant) ==
    /\ issued < MaxTokens
    /\ issued' = issued + 1
    /\ regOf' = [regOf EXCEPT ![issued + 1] = r]
    /\ held' = [held EXCEPT ![c] = issued + 1]
    /\ refreshable' = IF grant \in Bare THEN refreshable
                      ELSE refreshable \cup {issued + 1}
    /\ accepted' = (IF grant \in Bare THEN {} ELSE {issued + 1}) \cup
                   (IF Rotates /\ grant = "refresh" THEN accepted \ {held[c]}
                    ELSE accepted)

\* A disk operation or a request fails.
Fault == faults < MaxFaults /\ faults' = faults + 1

-----------------------------------------------------------------------------
(* getToken *)

BeginGet(c) ==
    /\ "get" \in Ops /\ pc[c] = "new"
    /\ Await(c, "load")
    /\ held' = [held EXCEPT ![c] = None]
    /\ asked' = [asked EXCEPT ![c] = expired]
    /\ UNCHANGED <<cacheVars, serviceVars, refreshing, reAuth, client,
                   clearing, leaving, signedIn, faults, ends,
                   reloads>>

\* cache.token.load(): the file is read now, its content used in a later step.
Load(c) ==
    /\ pc[c] = "load"
    /\ Await(c, "loaded")
    /\ held' = [held EXCEPT ![c] = token]
    /\ UNCHANGED <<cacheVars, serviceVars, refreshing, reAuth, client,
                   clearing, leaving, asked, signedIn, faults, ends,
                   reloads>>

LoadFails(c) ==
    /\ pc[c] = "load" /\ Fault
    /\ End(c, "failed")
    /\ UNCHANGED <<cacheVars, serviceVars, refreshing, reAuth, clearing,
                   leaving, signedIn, ends, reloads>>

ReturnLoaded(c) ==
    /\ pc[c] = "loaded"
    /\ \/ held[c] = None /\ End(c, "absent")
       \/ held[c] # None /\ ~IsExpired(held[c]) /\ End(c, "got")
    /\ UNCHANGED <<cacheVars, serviceVars, refreshing, reAuth, clearing,
                   leaving, signedIn, faults, ends, reloads>>

JoinRefresh(c) ==
    /\ pc[c] = "loaded" /\ held[c] # None /\ IsExpired(held[c])
    /\ CanRefresh(held[c]) /\ refreshing[Win(c)] # NoCall
    /\ Await(c, "join")
    /\ UNCHANGED <<cacheVars, serviceVars, refreshing, reAuth, held, client,
                   clearing, leaving, asked, signedIn, faults, ends,
                   reloads>>

\* As StartRefresh below, without the look-up in refreshPromises.
StartRefreshAlways(c) ==
    /\ pc[c] = "loaded" /\ held[c] # None /\ IsExpired(held[c])
    /\ CanRefresh(held[c])
    /\ refreshing' = [refreshing EXCEPT ![Win(c)] = c]
    /\ Await(c, "oidc")
    /\ UNCHANGED <<cacheVars, serviceVars, reAuth, held, client, clearing,
                   leaving, asked, signedIn, faults, ends, reloads>>

StartRefresh(c) ==
    /\ pc[c] = "loaded" /\ held[c] # None /\ IsExpired(held[c])
    /\ CanRefresh(held[c]) /\ refreshing[Win(c)] = NoCall
    /\ refreshing' = [refreshing EXCEPT ![Win(c)] = c]
    /\ Await(c, "oidc")
    /\ UNCHANGED <<cacheVars, serviceVars, reAuth, held, client, clearing,
                   leaving, asked, signedIn, faults, ends, reloads>>

GiveUp(c) ==
    /\ pc[c] = "loaded" /\ held[c] # None /\ IsExpired(held[c])
    /\ ~CanRefresh(held[c])
    /\ Await(c, "allCacheExpired")
    /\ clearing' = [clearing EXCEPT ![c] = Files]
    /\ UNCHANGED <<cacheVars, serviceVars, refreshing, reAuth, held, client,
                   leaving, asked, signedIn, faults, ends, reloads>>

-----------------------------------------------------------------------------
(* refreshToken *)

RefreshIssued(c) ==
    /\ pc[c] = "oidc" /\ held[c] \in accepted
    /\ Issue(c, regOf[held[c]], "refresh")
    /\ Await(c, "save")
    /\ UNCHANGED <<cacheVars, registered, expired, regExpired, refreshing,
                   reAuth, client, clearing, leaving, asked, signedIn,
                   faults, ends, reloads>>

\* An SSOOIDCServiceException that is a client fault.
RefreshRejected(c) ==
    /\ pc[c] = "oidc" /\ held[c] \notin accepted
    /\ Await(c, "clear")
    /\ UNCHANGED <<cacheVars, serviceVars, refreshing, reAuth, held, client,
                   clearing, leaving, asked, signedIn, faults, ends,
                   reloads>>

\* A network error or a server fault, before or after the service acted.
RefreshFails(c) ==
    /\ pc[c] = "oidc"
    /\ Fault \/ (issued = MaxTokens /\ UNCHANGED faults)  \* at the bound
    /\ accepted' \in {accepted, IF Rotates THEN accepted \ {held[c]} ELSE accepted}
    /\ Settle(c, "failed")
    /\ UNCHANGED <<cacheVars, issued, registered, expired, regExpired,
                   refreshable, regOf, reAuth, clearing, leaving, signedIn,
                   ends, reloads>>

SaveRefreshed(c) ==
    /\ pc[c] = "save"
    /\ token' = held[c]
    /\ Settle(c, "got")
    /\ UNCHANGED <<registration, serviceVars, reAuth, clearing, leaving,
                   signedIn, faults, ends, reloads>>

\* As SaveFails below, with a disk error taken for a stale session.
SaveFailsAndClears(c) ==
    /\ pc[c] = "save" /\ Fault
    /\ token' = None
    /\ Settle(c, "failed")
    /\ UNCHANGED <<registration, serviceVars, reAuth, clearing, leaving,
                   signedIn, ends, reloads>>

\* DiskCacheError: the session is not invalidated.
SaveFails(c) ==
    /\ pc[c] = "save" /\ Fault
    /\ Settle(c, "failed")
    /\ UNCHANGED <<cacheVars, serviceVars, reAuth, clearing, leaving, signedIn,
                   ends, reloads>>

ClearRejected(c) ==
    /\ pc[c] = "clear"
    /\ token' = None
    /\ reAuth' = [reAuth EXCEPT ![Win(c)] = TRUE]
    /\ Settle(c, "failed")
    /\ UNCHANGED <<registration, serviceVars, clearing, leaving, signedIn,
                   faults, ends, reloads>>

ClearFails(c) ==
    /\ pc[c] = "clear" /\ Fault
    /\ Settle(c, "failed")
    /\ UNCHANGED <<cacheVars, serviceVars, reAuth, clearing, leaving, signedIn,
                   ends, reloads>>

-----------------------------------------------------------------------------
(* invalidate *)

\* Auth.invalidateConnection: SsoClient.logout, which gets the token, and then
\* invalidate.
BeginLogout(c) ==
    /\ "logout" \in Ops /\ pc[c] = "new"
    /\ Await(c, "load")
    /\ leaving' = [leaving EXCEPT ![c] = TRUE]
    /\ UNCHANGED <<cacheVars, serviceVars, refreshing, reAuth, held, client,
                   clearing, asked, signedIn, faults, ends,
                   reloads>>

\* The request ends the session.  One that fails, or that was not made for
\* want of a token, is only logged.
SignOut(c) ==
    /\ pc[c] = "signOut"
    /\ \/ held[c] # None /\ accepted' = {} /\ UNCHANGED faults
       \/ held[c] # None /\ Fault /\ UNCHANGED accepted
       \/ held[c] = None /\ UNCHANGED <<accepted, faults>>
    /\ Await(c, "explicit")
    /\ clearing' = [clearing EXCEPT ![c] = Files]
    /\ leaving' = [leaving EXCEPT ![c] = FALSE]
    /\ UNCHANGED <<cacheVars, issued, registered, expired, regExpired,
                   refreshable, regOf, refreshing, reAuth, held, client, asked,
                   signedIn, ends, reloads>>

\* The service refuses the token: handleError invalidates, and so does the
\* logout after it.
SignOutRejected(c) ==
    /\ pc[c] = "signOut" /\ held[c] # None
    /\ IsExpired(held[c]) \/ accepted = {}
    /\ Await(c, "signOutRejected")
    /\ clearing' = [clearing EXCEPT ![c] = Files]
    /\ leaving' = [leaving EXCEPT ![c] = FALSE]
    /\ UNCHANGED <<cacheVars, serviceVars, refreshing, reAuth, held, client,
                   asked, signedIn, faults, ends, reloads>>

\* Both files are seen to: a login reads the registration again, a refused
\* logout invalidates once more, and any other call ends.
Cleared(c) ==
    /\ clearing' = [clearing EXCEPT ![c] =
                       IF pc[c] = "signOutRejected" THEN Files ELSE {}]
    /\ CASE pc[c] = "registrationExpired" ->
                Await(c, "regReload") /\ UNCHANGED <<held, client, asked>>
         [] pc[c] = "signOutRejected" ->
                Await(c, "explicit") /\ UNCHANGED <<held, client, asked>>
         [] OTHER -> End(c, "absent")

\* allSettled([token.clear, registration.clear]): in any order, errors dropped;
\* with the last one the caller goes on.
ClearFile(c, f) ==
    /\ pc[c] \in Invalidating /\ f \in clearing[c]
    /\ \/ /\ token' = IF f = "token" THEN None ELSE token
          /\ registration' = IF f = "registration" THEN None ELSE registration
          /\ UNCHANGED faults
       \/ Fault /\ UNCHANGED cacheVars
    /\ IF clearing[c] # {f}
       THEN /\ clearing' = [clearing EXCEPT ![c] = @ \ {f}]
            /\ UNCHANGED <<pc, held, client, asked, reAuth>>
       ELSE /\ reAuth' = [reAuth EXCEPT ![Win(c)] = TRUE]
            /\ Cleared(c)
    /\ UNCHANGED <<serviceVars, refreshing, leaving, signedIn, ends, reloads>>

-----------------------------------------------------------------------------
(* createToken *)

BeginLogin(c) ==
    /\ "login" \in Ops /\ pc[c] = "new"
    /\ Await(c, "regLoad")
    /\ held' = [held EXCEPT ![c] = None]
    /\ asked' = [asked EXCEPT ![c] = expired]
    /\ UNCHANGED <<cacheVars, serviceVars, refreshing, reAuth, client,
                   clearing, leaving, signedIn, faults, ends, reloads>>

\* getValidatedClientRegistration, up to its loadOr
RegLoad(c) ==
    /\ pc[c] = "regLoad"
    /\ IF registration # None /\ RegIsExpired(registration)
       THEN /\ Await(c, "registrationExpired")
            /\ clearing' = [clearing EXCEPT ![c] = Files]
       ELSE Await(c, "regReload") /\ UNCHANGED clearing
    /\ UNCHANGED <<cacheVars, serviceVars, refreshing, reAuth, held, client,
                   leaving, asked, signedIn, faults, ends, reloads>>

\* loadOr: the file is read again.
RegReload(c) ==
    /\ pc[c] = "regReload"
    /\ client' = [client EXCEPT ![c] = registration]
    /\ Await(c, IF registration = None THEN "register" ELSE "authorize")
    /\ UNCHANGED <<cacheVars, serviceVars, refreshing, reAuth, held, clearing,
                   leaving, asked, signedIn, faults, ends, reloads>>

RegisterClient(c) ==
    /\ pc[c] = "register" /\ registered < MaxRegs
    /\ registered' = registered + 1
    /\ client' = [client EXCEPT ![c] = registered + 1]
    /\ Await(c, "regSave")
    /\ UNCHANGED <<cacheVars, issued, expired, regExpired, refreshable,
                   accepted, regOf, refreshing, reAuth, held, clearing,
                   leaving, asked, signedIn, faults, ends, reloads>>

RegSave(c) ==
    /\ pc[c] = "regSave"
    /\ registration' = client[c]
    /\ Await(c, "authorize")
    /\ UNCHANGED <<token, serviceVars, refreshing, reAuth, held, client,
                   clearing, leaving, asked, signedIn, faults, ends,
                   reloads>>

\* The user approves in the browser: ReAuthState.delete, then the save.
Authorized(c) ==
    /\ pc[c] = "authorize"
    /\ Issue(c, client[c], "login")
    /\ reAuth' = [reAuth EXCEPT ![Win(c)] = FALSE]
    /\ Await(c, "loginSave")
    /\ UNCHANGED <<cacheVars, registered, expired, regExpired, refreshing,
                   client, clearing, leaving, asked, signedIn, faults, ends, reloads>>

\* runFlow's catch: a client fault drops the registration.
AuthorizeRejected(c) ==
    /\ pc[c] = "authorize" /\ Fault
    /\ Await(c, "regClear")
    /\ UNCHANGED <<cacheVars, serviceVars, refreshing, reAuth, held, client,
                   clearing, leaving, asked, signedIn, ends,
                   reloads>>

RegClear(c) ==
    /\ pc[c] = "regClear"
    /\ registration' = None
    /\ End(c, "failed")
    /\ UNCHANGED <<token, serviceVars, refreshing, reAuth, clearing, leaving,
                   signedIn, faults, ends, reloads>>

LoginSave(c) ==
    /\ pc[c] = "loginSave"
    /\ token' = held[c]
    /\ signedIn' = TRUE
    /\ End(c, "got")
    /\ UNCHANGED <<registration, serviceVars, refreshing, reAuth, clearing,
                   leaving, faults, ends, reloads>>

\* Cancelled by the user, or a request or a disk operation failed.
LoginFails(c) ==
    /\ pc[c] \in Login
    /\ \/ pc[c] = "authorize" /\ UNCHANGED faults
       \/ pc[c] = "register" /\ registered = MaxRegs /\ UNCHANGED faults
       \/ Fault
    /\ End(c, "failed")
    /\ UNCHANGED <<cacheVars, serviceVars, refreshing, reAuth, clearing,
                   leaving, signedIn, ends, reloads>>

-----------------------------------------------------------------------------
(* The service, the clock and the windows *)

\* Access tokens expire.  One that a call is saving outlives the save:
\* lifetimes are an hour, and isExpired() counts a token out a minute early.
Expire(t) ==
    /\ t \in (expired + 1)..issued
    /\ \A c \in Calls : pc[c] \in {"save", "loginSave"} => held[c] > t
    /\ expired' = t
    /\ UNCHANGED <<cacheVars, issued, registered, regExpired, refreshable,
                   accepted, regOf, refreshing, reAuth, callVars, signedIn,
                   faults, ends, reloads>>

ExpireRegistration(r) ==
    /\ r \in (regExpired + 1)..registered /\ ends < MaxEnds
    /\ regExpired' = r
    /\ ends' = ends + 1
    /\ UNCHANGED <<cacheVars, issued, registered, expired, refreshable,
                   accepted, regOf, refreshing, reAuth, callVars, signedIn,
                   faults, reloads>>

\* The SSO session ends at the service: it accepts no refresh token of it.
EndSession ==
    /\ accepted # {} /\ ends < MaxEnds
    /\ accepted' = {}
    /\ ends' = ends + 1
    /\ UNCHANGED <<cacheVars, issued, registered, expired, regExpired,
                   refreshable, regOf, refreshing, reAuth, callVars, signedIn,
                   faults, reloads>>

\* A window closes or its extension host crashes and starts again: its memory
\* is lost, and its calls end without having been answered.
Lost(w) == {c \in Calls : Win(c) = w /\ pc[c] # "new"}
Reload(w) ==
    /\ reloads < MaxReloads
    /\ reloads' = reloads + 1
    /\ refreshing' = [refreshing EXCEPT ![w] = NoCall]
    /\ reAuth' = [reAuth EXCEPT ![w] = FALSE]
    /\ pc' = [c \in Calls |-> IF c \in Lost(w) THEN "failed" ELSE pc[c]]
    /\ held' = [c \in Calls |-> IF c \in Lost(w) THEN None ELSE held[c]]
    /\ client' = [c \in Calls |-> IF c \in Lost(w) THEN None ELSE client[c]]
    /\ clearing' = [c \in Calls |-> IF c \in Lost(w) THEN {} ELSE clearing[c]]
    /\ asked' = [c \in Calls |-> IF c \in Lost(w) THEN 0 ELSE asked[c]]
    /\ leaving' = [c \in Calls |-> IF c \in Lost(w) THEN FALSE ELSE leaving[c]]
    /\ UNCHANGED <<cacheVars, serviceVars, signedIn, faults, ends>>

GetToken(c) ==
    \/ Load(c) \/ LoadFails(c) \/ ReturnLoaded(c)
    \/ JoinRefresh(c) \/ StartRefresh(c) \/ GiveUp(c)

RefreshToken(c) ==
    \/ RefreshIssued(c) \/ RefreshRejected(c) \/ RefreshFails(c)
    \/ SaveRefreshed(c) \/ SaveFails(c)
    \/ ClearRejected(c) \/ ClearFails(c)

Invalidate(c) == SignOut(c) \/ SignOutRejected(c)
                 \/ \E f \in Files : ClearFile(c, f)

CreateToken(c) ==
    \/ RegLoad(c) \/ RegReload(c) \/ RegisterClient(c) \/ RegSave(c)
    \/ Authorized(c) \/ AuthorizeRejected(c) \/ RegClear(c) \/ LoginSave(c)
    \/ LoginFails(c)

Next ==
    \/ \E c \in Calls :
        \/ BeginGet(c) \/ BeginLogin(c) \/ BeginLogout(c)
        \/ GetToken(c) \/ RefreshToken(c) \/ Invalidate(c) \/ CreateToken(c)
    \/ \E t \in Tokens : Expire(t)
    \/ \E r \in Regs : ExpireRegistration(r)
    \/ EndSession
    \/ \E w \in Windows : Reload(w)

Spec == Init /\ [][Next]_vars

\* A file operation or a request ends, one way or another; a login also needs
\* the user, and nothing makes the user come back.
Fairness == \A c \in Calls :
    WF_vars(GetToken(c) \/ RefreshToken(c) \/ Invalidate(c))

FairSpec == Spec /\ Fairness

-----------------------------------------------------------------------------
(* Properties *)

\* In a window, the map of refreshes in flight names exactly the call that is
\* inside refreshToken(): never two refreshes at once, no entry left behind by
\* one that failed, and no call waiting for a refresh that is not running.
RefreshesInFlight ==
    /\ \A w \in Windows : refreshing[w] # NoCall =>
        Win(refreshing[w]) = w /\ pc[refreshing[w]] \in Refreshing
    /\ \A c \in Calls : pc[c] \in Refreshing => refreshing[Win(c)] = c
    /\ \A c \in Calls : pc[c] = "join" => refreshing[Win(c)] # NoCall

\* The calls of a window share one refresh: the one that finds no refresh in the map
\* does it, those that find one wait for it, and however it ends nobody waits on.
Flight == INSTANCE SingleFlight WITH
    Keys <- Windows,
    pending <- {w \in Windows : refreshing[w] # NoCall},
    working <- [w \in Windows |-> {c \in Calls : Win(c) = w /\ pc[c] \in Refreshing}],
    waiting <- [w \in Windows |-> {c \in Calls : Win(c) = w /\ pc[c] = "join"}]
RefreshShared == Flight!Spec

\* A call that returns a token, its own, a loaded one or the result of the
\* refresh it joined, returns one that had not expired when the call began.
NoStaleAnswer == \A c \in Calls : pc[c] = "got" => held[c] > asked[c]

\* Nobody is signed in: the cache is empty, and no call logs in, refreshes a token or
\* has read one before it was cleared.
SignedOut ==
    /\ token = None
    /\ \A c \in Calls :
        /\ pc[c] \notin Login \cup Refreshing \cup {"registrationExpired"}
        /\ pc[c] = "loaded" => held[c] = None

\* What was cleared does not come back by itself, in whatever window: once no refresh
\* that began before is in flight, only another login brings a token (invalidate).
StaysSignedOut == [][SignedOut => SignedOut' \/ \E c \in Calls : BeginLogin(c)]_vars

\* While the service honours the session and nobody logs out, no disk error,
\* lost request, reload or race of windows costs the user the cached token.
Honoured == ~Rotates /\ Bare = {} /\ "logout" \notin Ops
            /\ ends = 0
SessionKept == Honoured /\ signedIn => token # None

\* Every getToken ends, whatever fails and whichever refresh it has joined.
GetTokenEnds == \A c \in Calls :
    (pc[c] \in {"load", "loaded", "join"}) ~> (pc[c] \in Ended)
=============================================================================
