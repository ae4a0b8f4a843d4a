---------------------------- MODULE AuthConnection ----------------------------
(***************************************************************************)
(* The connections of a window: Auth, its ProfileStore, and the            *)
(* SecondaryAuth through which Amazon Q uses one of them.                  *)
(*                                                                         *)
(* Calls overlap at every await.  What they read before it (the profile of *)
(* a connection, the active connection, the saved one) may be gone after   *)
(* it, because another call signed out, signed in or cleaned up.  The      *)
(* profiles, the id of the last active connection and that of the saved    *)
(* one are kept in the global state and survive a restart of the window.   *)
(*                                                                         *)
(* One action per await.  A write to the global state can be read at once  *)
(* and is awaited only by the call that made it.  Connections are SSO      *)
(* connections with the scopes of Amazon Q, and what a token provider does *)
(* to answer is the subject of SsoTokenProvider: here a connection has a   *)
(* usable token or not.                                                    *)
(***************************************************************************)
EXTENDS Naturals, FiniteSets

CONSTANTS
    Conns,        \* ids of connections
    Tasks,        \* bound: calls that run at a time
    Called,       \* bound: the operations that are called
    MaxRestarts   \* bound: restarts of the window

ASSUME AuthAssumption ==
    /\ MaxRestarts \in Nat
    /\ "none" \notin Conns

VARIABLES
    store,      \* store[c]: connectionState in the profile of c, None without one
    current,    \* auth.currentProfileId
    savedId,    \* codewhisperer.savedConnectionId
    token,      \* token[c]: the token provider of c can give a token
    active,     \* Auth.#activeConnection
    follows,    \* SecondaryAuth.#activeConnection
    saved,      \* SecondaryAuth.#savedConnection
    hasRun,     \* hasRunRestoreConnection
    busy,       \* the connections authenticate() is pending for
    extra,      \* clearExtraConnections: what it still has to delete
    call,       \* call[t]: what task t does
    restarts,   \* restarts so far
    home        \* history: the saved connection at the last restart, until the user
                \* signs in or out

persisted == <<store, current, savedId, token>>
window == <<active, follows, saved, hasRun, busy, extra>>
history == <<restarts, home>>
vars == <<store, current, savedId, token, active, follows, saved, hasRun, busy, extra,
          call, restarts, home>>

None == "none"

States == {"unauthenticated", "valid", "invalid"}

Ops == {"start", "reload", "get", "check", "reauth", "connect", "create", "signout"}

\* A task: what it was called for, the await it is in or where it goes on, the
\* connection it is about, the one it invalidates or whose state it writes, where it
\* goes on after that, and an answer it got or the state it writes.
Idle == [op |-> None, at |-> "idle", conn |-> None, target |-> None,
         then |-> None, saw |-> None]

Init ==
    /\ store = [c \in Conns |-> None]
    /\ current = None
    /\ savedId = None
    /\ token = [c \in Conns |-> FALSE]
    /\ active = None
    /\ follows = None
    /\ saved = None
    /\ hasRun = FALSE
    /\ busy = {}
    /\ extra = {}
    /\ call = [t \in Tasks |-> Idle]
    /\ restarts = 0
    /\ home = None

\* SecondaryAuth.activeConnection
Using == IF saved # None THEN saved ELSE follows

Known(c) == c # None /\ store[c] # None

-----------------------------------------------------------------------------
(* What the calls have in common *)

Become(t, r) == call' = [call EXCEPT ![t] = IF r.at = "idle" THEN Idle ELSE r]

Goto(t, p) == Become(t, [call[t] EXCEPT !.at = p])

\* A call of the user or of a feature starts at p.
Begin(t, o, c, p) ==
    /\ o \in Called
    /\ call[t] = Idle
    /\ Become(t, [Idle EXCEPT !.op = o, !.at = p, !.conn = c])

\* The call goes on at p, done with what it wrote or was told.
Resume(t, p) == [call[t] EXCEPT !.at = p, !.target = None, !.then = None, !.saw = None]

\* updateConnectionState(c, s): it throws without a profile, returns when nothing
\* changes, and else awaits the write.  The call goes on at k, or at e when it throws.
Update(t, c, s, k, e) ==
    /\ store' = IF Known(c) THEN [store EXCEPT ![c] = s] ELSE store
    /\ Become(t, CASE ~Known(c) -> Resume(t, e)
                   [] Known(c) /\ store[c] = s -> Resume(t, k)
                   [] OTHER -> [call[t] EXCEPT !.at = "mark", !.target = c,
                                               !.then = k, !.saw = s])
    /\ UNCHANGED <<current, savedId, token, window, history>>

\* A call goes on at p and nothing else changes.
Continue(t, p) == Become(t, Resume(t, p)) /\ UNCHANGED <<persisted, window, history>>

Restoring(t) == call[t].op \in {"start", "reload"}

\* A plausible bug: _loadSavedConnection does not catch.
CaughtOnce(t) == IF call[t].then = "activate" /\ Restoring(t) THEN "load" ELSE "idle"

\* Where a call goes on whose validation threw: restorePreviousSession and
\* _loadSavedConnection catch.
Caught(t) ==
    CASE call[t].then = "adopt" -> "adopt"
      [] call[t].then = "activate" /\ Restoring(t) -> "load"
      [] OTHER -> "idle"

\* Where a deletion ends.
After(t) == IF call[t].op = "start" THEN "extra" ELSE "idle"

-----------------------------------------------------------------------------
(* validateConnection, useConnection *)

\* provider.getToken answers ...
Answered(t) ==
    /\ call[t].at = "ask"
    /\ Become(t, [call[t] EXCEPT !.at = "judge",
                                 !.saw = IF token[call[t].conn] THEN "valid" ELSE "invalid"])
    /\ UNCHANGED <<persisted, window, history>>

\* ... or fails with an error that says nothing of the session: throwOnRecoverableError.
Unreachable(t) ==
    /\ call[t].at = "ask"
    /\ Continue(t, Caught(t))

\* A plausible bug: only bad news is written.
JudgeInvalid(t) ==
    /\ call[t].at = "judge"
    /\ call[t].op # "get"
    /\ Update(t, call[t].conn,
              IF Known(call[t].conn) /\ call[t].saw = "valid"
              THEN store[call[t].conn] ELSE call[t].saw,
              call[t].then, Caught(t))

\* runCheck goes on with the answer.
Judge(t) ==
    /\ call[t].at = "judge"
    /\ call[t].op # "get"
    /\ Update(t, call[t].conn, call[t].saw, call[t].then, Caught(t))

\* The write of the state is done; a question whether to log in again goes away when
\* the state is not invalid.  The call itself may be the one that asks it.
Mark(t) ==
    /\ call[t].at = "mark"
    /\ call' = [u \in Tasks |->
                  IF u = t
                  THEN IF call[t].then = "idle" THEN Idle ELSE Resume(t, call[t].then)
                  ELSE IF /\ call[t].saw # "invalid"
                          /\ call[u].at = "prompt" /\ call[u].conn = call[t].target
                  THEN Idle ELSE call[u]]
    /\ UNCHANGED <<persisted, window, history>>

\* The rest of useConnection, with handleConnectionChanged.
Activate(t) ==
    /\ call[t].at = "activate"
    /\ IF Known(call[t].conn)
       THEN /\ active' = call[t].conn
            /\ follows' = call[t].conn
            /\ current' = call[t].conn
       ELSE UNCHANGED <<active, follows, current>>
    /\ Goto(t, IF Restoring(t) THEN "load" ELSE "idle")
    /\ UNCHANGED <<store, savedId, token, saved, hasRun, busy, extra, history>>

-----------------------------------------------------------------------------
(* authenticate *)

\* authenticate: calls for the same connection share one login.  When that fails, the
\* state becomes invalid if a login was asked for, and else what it was.
Authenticate(t) ==
    LET c == call[t].conn
        was == IF Known(c) THEN store[c] ELSE "unauthenticated"
    IN
    /\ call[t].at = "auth"
    /\ Become(t, IF c \in busy
                 THEN [call[t] EXCEPT !.at = "joined"]
                 ELSE [call[t] EXCEPT !.at = "login",
                          !.saw = IF call[t].op = "get" THEN was ELSE "invalid"])
    /\ busy' = busy \cup {c}
    /\ UNCHANGED <<persisted, active, follows, saved, hasRun, extra, history>>

\* createToken has saved a token.
LogIn(t) ==
    /\ call[t].at = "login"
    /\ token' = [token EXCEPT ![call[t].conn] = TRUE]
    /\ Become(t, Resume(t, "issued"))
    /\ UNCHANGED <<store, current, savedId, window, history>>

\* The login fails, or the user gives it up.
LogInFails(t) ==
    /\ call[t].at = "login"
    /\ call[t].op # "create"
    /\ Update(t, call[t].conn, call[t].saw, "denied", "denied")

\* It fails with an error that leaves the state as it is, or there is none yet.
LogInUnreachable(t) ==
    /\ call[t].at = "login"
    /\ Continue(t, IF call[t].op = "create" THEN "idle" ELSE "denied")

\* authenticate goes on; without a profile it throws.
Issued(t) ==
    /\ call[t].at = "issued"
    /\ call[t].op # "create"
    /\ Update(t, call[t].conn, "valid", "granted", "denied")

\* Where a call goes on when authenticate has ended at p.
Authenticated(u, p) ==
    IF p = "granted" /\ call[u].op = "connect" THEN [call[u] EXCEPT !.at = "keep"] ELSE Idle

\* A plausible bug: only the call that logged in goes on.
ResolveAlone(t) ==
    /\ call[t].at \in {"granted", "denied"}
    /\ busy' = busy \ {call[t].conn}
    /\ call' = [call EXCEPT ![t] = Authenticated(t, call[t].at)]
    /\ UNCHANGED <<persisted, active, follows, saved, hasRun, extra, history>>

\* The promise of authenticate settles, for every call that shares it.
Resolve(t) ==
    /\ call[t].at \in {"granted", "denied"}
    /\ busy' = busy \ {call[t].conn}
    /\ call' = [u \in Tasks |->
                  IF u = t \/ (call[u].at = "joined" /\ call[u].conn = call[t].conn)
                  THEN Authenticated(u, call[t].at) ELSE call[u]]
    /\ UNCHANGED <<persisted, active, follows, saved, hasRun, extra, history>>

-----------------------------------------------------------------------------
(* getToken, handleInvalidCredentials *)

\* A plausible bug: the event that the active connection was dropped is not heard.
DeletedUnheard(t) ==
    /\ follows' = IF follows = call[t].conn THEN None ELSE follows
    /\ IF call[t].op = "signout" \/ saved = call[t].conn
       THEN savedId' = None /\ Become(t, Resume(t, "unsave"))
       ELSE UNCHANGED savedId /\ Become(t, [Resume(t, After(t)) EXCEPT !.conn = None])
    /\ UNCHANGED <<store, current, token, saved, hasRun, busy, extra, history>>

\* A connection is gone: what SecondaryAuth does with the events, and then
\* SecondaryAuth.deleteConnection if it was called.
Deleted(t) ==
    /\ follows' = IF follows = call[t].conn \/ active' # active THEN None ELSE follows
    /\ IF call[t].op = "signout" \/ saved = call[t].conn
       THEN savedId' = None /\ Become(t, Resume(t, "unsave"))
       ELSE UNCHANGED savedId /\ Become(t, [Resume(t, After(t)) EXCEPT !.conn = None])
    /\ UNCHANGED <<store, current, token, saved, hasRun, busy, extra, history>>

\* There is a token.
GotToken(t) ==
    /\ call[t].at = "judge"
    /\ call[t].op = "get"
    /\ call[t].saw = "valid"
    /\ Continue(t, "idle")

\* handleInvalidCredentials, up to the question or the login.
Invalid(t) ==
    LET c == call[t].conn IN
    /\ call[t].at = "judge"
    /\ call[t].op = "get"
    /\ call[t].saw = "invalid"
    /\ Known(c)
    /\ Update(t, c, "invalid",
              CASE store[c] = "valid" -> "prompt"
                [] store[c] = "unauthenticated" -> "auth"
                [] OTHER -> "idle", "idle")

\* The connection was deleted elsewhere: what is left of it is dropped.
Orphaned(t) ==
    /\ call[t].at = "judge"
    /\ call[t].op = "get"
    /\ call[t].saw = "invalid"
    /\ ~Known(call[t].conn)
    /\ UNCHANGED active
    /\ Deleted(t)

\* "Connection is invalid or expired, login again?"
Accept(t) ==
    /\ call[t].at = "prompt"
    /\ Continue(t, "auth")

\* No, or no answer within a minute.
Decline(t) ==
    /\ call[t].at = "prompt"
    /\ Continue(t, "idle")

-----------------------------------------------------------------------------
(* createConnection, useNewConnection *)

\* createConnection: the profile is added after the login ...
AddProfile(t) ==
    /\ call[t].at = "issued"
    /\ call[t].op = "create"
    /\ store' = [store EXCEPT ![call[t].conn] = "unauthenticated"]
    /\ Goto(t, "added")
    /\ UNCHANGED <<current, savedId, token, window, history>>

\* ... and then valid, or has been deleted meanwhile.
Added(t) ==
    /\ call[t].at = "added"
    /\ Update(t, call[t].conn, "valid", "keep", "idle")

\* saveConnection
Keep(t) ==
    /\ call[t].at = "keep"
    /\ savedId' = call[t].conn
    /\ Goto(t, "kept")
    /\ UNCHANGED <<store, current, token, window, history>>

\* Go on with the validation of c, or at p when there is no profile to validate.
Validate(t, c, p) ==
    Become(t, [call[t] EXCEPT !.conn = c, !.at = IF Known(c) THEN "ask" ELSE p,
                              !.then = IF Known(c) THEN p ELSE None])

\* The id is written; without an active connection this one becomes it.
Kept(t) ==
    /\ call[t].at = "kept"
    /\ saved' = call[t].conn
    /\ IF active = None
       THEN Validate(t, call[t].conn, "activate")
       ELSE Goto(t, "idle")
    /\ UNCHANGED <<persisted, active, follows, hasRun, busy, extra, history>>

-----------------------------------------------------------------------------
(* deleteConnection *)

\* deleteConnection: the active connection is logged out, another one invalidated, and
\* one that is gone only announced.
Delete(t, o, c) ==
    /\ current' = IF Known(c) /\ active = c THEN None ELSE current
    /\ LET r == [Idle EXCEPT !.op = o, !.conn = c]
       IN Become(t, CASE ~Known(c) -> [r EXCEPT !.at = "gone"]
                      [] Known(c) /\ active = c -> [r EXCEPT !.at = "leave"]
                      [] OTHER -> [r EXCEPT !.at = "revoke", !.target = c, !.then = "erase"])

\* logout goes on after the await with whatever is active then, and throws if nothing
\* is or if that has no profile.
Leave(t) ==
    /\ call[t].at = "leave"
    /\ Become(t, IF Known(active)
                 THEN [call[t] EXCEPT !.at = "revoke", !.target = active, !.then = "left"]
                 ELSE Idle)
    /\ UNCHANGED <<persisted, window, history>>

\* invalidateConnection: the service forgets the session if it can be reached, and the
\* token is deleted.
Revoke(t) ==
    /\ call[t].at = "revoke"
    /\ token' = [token EXCEPT ![call[t].target] = FALSE]
    /\ Goto(t, "revoked")
    /\ UNCHANGED <<store, current, savedId, window, history>>

\* Its updateConnectionState, which throws if the profile is gone by now.
Revoked(t) ==
    /\ call[t].at = "revoked"
    /\ Update(t, call[t].target, "invalid", call[t].then, "idle")

\* deleteProfile, after the end of logout if that was called.
Erase(t) ==
    /\ call[t].at \in {"left", "erase"}
    /\ IF call[t].at = "left"
       THEN active' = None /\ follows' = None
       ELSE UNCHANGED <<active, follows>>
    /\ store' = [store EXCEPT ![call[t].conn] = None]
    /\ Goto(t, "sweep")
    /\ UNCHANGED <<current, savedId, token, saved, hasRun, busy, extra, history>>

\* clearStaleLinkedIamConnections: an active connection without a profile is dropped;
\* then the event.
Sweep(t) ==
    /\ call[t].at = "sweep"
    /\ active' = IF Known(active) THEN active ELSE None
    /\ Deleted(t)

\* There was no profile to delete.
Gone(t) ==
    /\ call[t].at = "gone"
    /\ UNCHANGED active
    /\ Deleted(t)

\* clearSavedConnection goes on.
Unsave(t) ==
    /\ call[t].at = "unsave"
    /\ saved' = None
    /\ Become(t, [Resume(t, After(t)) EXCEPT !.conn = None])
    /\ UNCHANGED <<persisted, active, follows, hasRun, busy, extra, history>>

-----------------------------------------------------------------------------
(* restoreConnection, clearExtraConnections *)

\* tryAutoConnect runs once, at the start.
AutoConnecting(u) == call[u].op = "start" /\ "activate" \in {call[u].at, call[u].then}

\* restoreConnection awaits tryAutoConnect; _loadSavedConnection reads the id ...
Load(t) ==
    /\ call[t].at = "load"
    /\ \A u \in Tasks : ~AutoConnecting(u)
    /\ Become(t, [call[t] EXCEPT !.at = IF savedId = None THEN "adopt" ELSE "look",
                                 !.conn = savedId])
    /\ UNCHANGED <<persisted, window, history>>

\* ... finds the connection or not, and has it validated ...
Look(t) ==
    /\ call[t].at = "look"
    /\ IF Known(call[t].conn)
       THEN Validate(t, call[t].conn, "adopt") /\ UNCHANGED savedId
       ELSE Validate(t, None, "adopt") /\ savedId' = None
    /\ UNCHANGED <<store, current, token, window, history>>

\* A plausible bug: the active connection is taken for the one in use.
AdoptActive(t) ==
    /\ call[t].at = "adopt"
    /\ saved' = call[t].conn
    /\ Become(t, IF call[t].op = "start"
                 THEN [call[t] EXCEPT !.at = "list", !.conn = active]
                 ELSE Idle)
    /\ UNCHANGED <<persisted, active, follows, hasRun, busy, extra, history>>

\* ... whatever comes out of that.  At the start clearExtraConnections follows: it notes
\* the connection in use, before it awaits the list.
Adopt(t) ==
    LET c == call[t].conn IN
    /\ call[t].at = "adopt"
    /\ saved' = c
    /\ Become(t, IF call[t].op = "start"
                 THEN [call[t] EXCEPT !.at = "list", !.conn = IF c # None THEN c ELSE follows]
                 ELSE Idle)
    /\ UNCHANGED <<persisted, active, follows, hasRun, busy, extra, history>>

\* All others are extra ...
List(t) ==
    /\ call[t].at = "list"
    /\ extra' = {c \in Conns : Known(c)} \ {call[t].conn}
    /\ Become(t, [call[t] EXCEPT !.at = "extra", !.conn = None])
    /\ UNCHANGED <<persisted, active, follows, saved, hasRun, busy, history>>

\* ... and deleted one by one.
DeleteExtra(t, c) ==
    /\ call[t].at = "extra"
    /\ c \in extra
    /\ extra' = extra \ {c}
    /\ Delete(t, "start", c)
    /\ UNCHANGED <<store, savedId, token, active, follows, saved, hasRun, busy, history>>

NoExtra(t) ==
    /\ call[t].at = "extra"
    /\ extra = {}
    /\ Continue(t, "idle")

-----------------------------------------------------------------------------
(* Calls *)

\* restorePreviousSession: useConnection for the id that was last active.
Restore(t, o) ==
    LET c == current
        p == IF c = None THEN "load" ELSE IF Known(c) THEN "ask" ELSE "activate"
    IN
    /\ o \in Called
    /\ call[t] = Idle
    /\ Become(t, [Idle EXCEPT !.op = o, !.at = p, !.conn = c,
                              !.then = IF p = "ask" THEN "activate" ELSE None])
    /\ UNCHANGED <<persisted, active, follows, saved, busy, extra, history>>

\* Activation: restore, then clearExtraConnections.  Nothing else runs before it.
Start(t) ==
    /\ ~hasRun
    /\ hasRun' = TRUE
    /\ Restore(t, "start")

\* The watcher of the token cache saw a file come or go: refreshConn.
Reload(t) ==
    /\ hasRun
    /\ saved # savedId
    /\ UNCHANGED hasRun
    /\ Restore(t, "reload")

\* getBearerToken: calls for one connection share getToken.
GetToken(t) ==
    /\ Using # None
    /\ \A u \in Tasks : call[u].op = "get" => call[u].conn # Using
    /\ Begin(t, "get", Using, "ask")
    /\ UNCHANGED <<persisted, window, history>>

\* getChatAuthState
Check(t) ==
    /\ "check" \in Called
    /\ Known(Using)
    /\ call[t] = Idle
    /\ Become(t, [Idle EXCEPT !.op = "check", !.at = "ask", !.conn = Using, !.then = "idle"])
    /\ UNCHANGED <<persisted, window, history>>

\* reauthenticate
Reauthenticate(t) ==
    /\ Known(Using)
    /\ Begin(t, "reauth", Using, "auth")
    /\ UNCHANGED <<persisted, window, history>>

\* The login page, shown while no connection is in use: connectToAwsBuilderId and
\* connectToEnterpriseSso find a connection ...
Connect(t, c) ==
    /\ hasRun
    /\ Using = None
    /\ Known(c)
    /\ Begin(t, "connect", c, IF store[c] = "invalid" THEN "auth" ELSE "keep")
    /\ home' = None
    /\ UNCHANGED <<persisted, window, restarts>>

\* A random id: nothing knows it.
Fresh(c) ==
    /\ ~Known(c) /\ ~token[c]
    /\ c \notin {current, savedId, active, follows, saved} \cup extra
    /\ \A t \in Tasks : c \notin {call[t].conn, call[t].target}

\* ... or have one created.
Create(t, c) ==
    /\ hasRun
    /\ Using = None
    /\ Fresh(c)
    /\ Begin(t, "create", c, "login")
    /\ home' = None
    /\ UNCHANGED <<persisted, window, restarts>>

\* The user signs out: SecondaryAuth.deleteConnection.
SignOut(t) ==
    /\ "signout" \in Called
    /\ Using # None
    /\ call[t] = Idle
    /\ Delete(t, "signout", Using)
    /\ home' = None
    /\ UNCHANGED <<store, savedId, token, window, restarts>>

\* The token of a connection expires and cannot be refreshed.
Expire(c) ==
    /\ token[c]
    /\ token' = [token EXCEPT ![c] = FALSE]
    /\ UNCHANGED <<store, current, savedId, window, call, history>>

\* The window is closed or dies, and starts again.
Restart ==
    /\ restarts < MaxRestarts
    /\ restarts' = restarts + 1
    /\ active' = None
    /\ follows' = None
    /\ saved' = None
    /\ hasRun' = FALSE
    /\ busy' = {}
    /\ extra' = {}
    /\ call' = [t \in Tasks |-> Idle]
    /\ home' = IF Known(savedId) THEN savedId ELSE None
    /\ UNCHANGED persisted

-----------------------------------------------------------------------------

\* What comes back by itself.
Step(t) ==
    \/ Judge(t) \/ Mark(t) \/ Activate(t)
    \/ Authenticate(t) \/ Issued(t) \/ Resolve(t)
    \/ GotToken(t) \/ Invalid(t) \/ Orphaned(t)
    \/ AddProfile(t) \/ Added(t) \/ Keep(t) \/ Kept(t)
    \/ Leave(t) \/ Revoke(t) \/ Revoked(t)
    \/ Erase(t) \/ Sweep(t) \/ Gone(t) \/ Unsave(t)
    \/ Load(t) \/ Look(t) \/ Adopt(t) \/ List(t) \/ NoExtra(t)
    \/ \E c \in Conns : DeleteExtra(t, c)

\* What the service, the network or the user answers.
Reply(t) ==
    \/ Answered(t) \/ Unreachable(t)
    \/ LogIn(t) \/ LogInFails(t) \/ LogInUnreachable(t)
    \/ Accept(t) \/ Decline(t)

Request(t) ==
    \/ Start(t) \/ Reload(t) \/ GetToken(t) \/ Check(t) \/ Reauthenticate(t)
    \/ SignOut(t)
    \/ \E c \in Conns : Connect(t, c) \/ Create(t, c)

Next ==
    \/ \E t \in Tasks : Step(t) \/ Reply(t) \/ Request(t)
    \/ \E c \in Conns : Expire(c)
    \/ Restart

Spec == Init /\ [][Next]_vars

\* Awaits come back, and the user and the services answer or give up.  Amazon Q is
\* activated in every window, and its features keep asking for the state of the
\* connection in use; whenever they do, the answer does not fail for good.
Fairness ==
    /\ \A t \in Tasks : WF_vars(Step(t)) /\ WF_vars(Reply(t))
    /\ WF_vars(\E t \in Tasks : Start(t))
    /\ SF_vars(\E t \in Tasks : Check(t))
    /\ SF_vars(\E t \in Tasks : call[t].op = "check" /\ Answered(t))

FairSpec == Spec /\ Fairness

-----------------------------------------------------------------------------
(* Properties *)

Points == {"idle", "ask", "judge", "mark", "activate", "auth", "login", "joined", "issued",
           "granted", "denied", "prompt", "added", "keep", "kept", "leave", "revoke",
           "revoked", "left", "erase", "sweep", "gone", "unsave", "load", "look", "adopt",
           "list", "extra"}

Calls == [op : Ops \cup {None}, at : Points, conn : Conns \cup {None},
          target : Conns \cup {None}, then : Points \cup {None},
          saw : States \cup {None}]

\* Types.
TypeOK ==
    /\ store \in [Conns -> States \cup {None}]
    /\ {current, savedId, active, follows, saved, home} \subseteq Conns \cup {None}
    /\ token \in [Conns -> BOOLEAN]
    /\ hasRun \in BOOLEAN
    /\ busy \subseteq Conns
    /\ extra \subseteq Conns
    /\ call \in [Tasks -> Calls]
    /\ restarts \in 0..MaxRestarts

\* The active connection has a profile, whatever call deletes it while another one
\* makes it active (useConnection, deleteConnection), but for the moment until the
\* deletion looks for it.
ActiveExists ==
    active # None /\ store[active] = None => \E t \in Tasks : call[t].at = "sweep"

\* A call on its way to drop the active connection: in logout, or past the deletion of
\* its profile.
Leaving(r) ==
    \/ r.at \in {"leave", "left"}
    \/ r.at \in {"revoke", "revoked", "mark"} /\ r.then = "left" /\ r.target = active
    \/ r.at = "sweep" /\ ~Known(active)

\* The three places that name the connection in use agree, however sign-ins, sign-outs,
\* clean-ups and restorations overlap: Auth's active connection exists; it is the one
\* that the next window will restore, unless a call is on its way to drop it; and
\* SecondaryAuth follows it, or none when a deletion is about to drop it (useConnection,
\* logout, the events that SecondaryAuth listens to).
ActiveAgrees ==
    /\ ActiveExists
    /\ active \notin {None, current} => \E t \in Tasks : Leaving(call[t])
    /\ follows \in {None, active}
    /\ active \notin {None, follows} =>
          ~Known(active) /\ \E t \in Tasks : call[t].at = "sweep"

\* A window that starts keeps the connection that Amazon Q used, even if the network
\* fails, another one is active or calls of features run: unless the user signs in or
\* out, it is neither forgotten nor taken for an extra one.
KeptAtStart == home # None => savedId = home /\ store[home] # None

\* The calls that log in to c through authenticate, and those that wait for one.
LoggingIn(c) ==
    {t \in Tasks :
        /\ call[t].conn = c /\ call[t].op # "create"
        /\ \/ call[t].at \in {"login", "issued", "granted", "denied"}
           \/ call[t].at = "mark" /\ call[t].then \in {"granted", "denied"}}
Joining(c) == {t \in Tasks : call[t].conn = c /\ call[t].at = "joined"}

\* Calls that authenticate a connection share one login of it, whoever starts it,
\* however it ends and whatever is deleted or asked meanwhile: there is never a second
\* one beside it, and none of them is left waiting for a login that is over
\* (keyedDebounce around authenticate).
Login == INSTANCE SingleFlight WITH
    Keys <- Conns, Calls <- Tasks, pending <- busy,
    working <- [c \in Conns |-> LoggingIn(c)], waiting <- [c \in Conns |-> Joining(c)]
LoginShared == Login!Spec

\* A window that starts uses that connection again.
Restored == \A c \in Conns : [](home = c => <>(saved = c \/ home # c))

\* Every call ends: no login that fails or is given up leaves the calls waiting that
\* share it.
TaskEnds == \A t \in Tasks : []<>(call[t] = Idle)

\* The state of the connection in use is corrected, whatever stale answers and given
\* up logins write over it: it is not shown as expired for good while there is a token,
\* nor as valid while there is none.
StateHeals ==
    \A c \in Conns :
        /\ <>[](Using = c /\ Known(c) /\ token[c]) => []<>(store[c] = "valid")
        /\ <>[](Using = c /\ Known(c) /\ ~token[c]) => []<>(store[c] = "invalid")
=============================================================================
