----------------------- MODULE SsoTokenProviderProofs -----------------------
(***************************************************************************)
(* What holds of SsoTokenProvider for any number of windows and calls:     *)
(* type correctness, one refresh at a time in each window, no expired      *)
(* answer, a session that survives while the service honours it, and a     *)
(* logout that holds.                                                      *)
(***************************************************************************)
EXTENDS SsoTokenProvider, TLAPS

\* No call began after the present, and a token on its way to the disk is one
\* that has not expired.
Fresh == \A c \in Calls :
    /\ asked[c] <= expired
    /\ pc[c] \in {"save", "loginSave"} => held[c] > expired

\* While the service honours the session it accepts all the tokens it issued,
\* each has its registration, and no call is about to delete one.
Sound == Honoured =>
    /\ accepted = 1..issued /\ refreshable = 1..issued /\ regExpired = 0
    /\ \A t \in 1..issued : regOf[t] # None
    /\ token <= issued
    /\ \A c \in Calls :
        /\ held[c] <= issued
        /\ pc[c] \notin Invalidating \cup {"clear", "signOut"} /\ ~leaving[c]
        /\ pc[c] \in {"regSave", "authorize"} => client[c] # None

IInv == TypeOK /\ RefreshesInFlight /\ Fresh /\ NoStaleAnswer /\ Sound /\ SessionKept

\* A call is not the mark of an empty refreshPromises, and has a window.
LEMMA CallFacts ==
    \A c \in Calls : c # NoCall /\ Win(c) \in Windows
  BY DEF Calls, NoCall, Win

\* Issuing a token keeps the types of what it changes.
LEMMA IssueType ==
  ASSUME ServiceType, CallType, NEW c \in Calls, NEW r \in Regs \cup {None},
         NEW grant, Issue(c, r, grant)
  PROVE  /\ issued' \in 0..MaxTokens /\ issued' = issued + 1
         /\ issued' \in Tokens
         /\ refreshable' \in SUBSET Tokens /\ accepted' \in SUBSET Tokens
         /\ regOf' \in [Tokens -> Regs \cup {None}]
         /\ held' \in [Calls -> Tokens \cup {None}]
         /\ held'[c] = issued + 1
<1>1. /\ issued' = issued + 1 /\ issued' \in 0..MaxTokens
      /\ issued + 1 \in Tokens /\ issued' \in Tokens
  BY BoundsAssumption DEF ServiceType, Issue, Tokens
<1>2. /\ refreshable' \in SUBSET Tokens /\ accepted' \in SUBSET Tokens
  <2>1. accepted' \subseteq accepted \cup {issued + 1}
    BY DEF Issue
  <2>2. refreshable' \subseteq refreshable \cup {issued + 1}
    BY DEF Issue
  <2> QED
    BY <1>1, <2>1, <2>2 DEF ServiceType
<1>3. regOf' \in [Tokens -> Regs \cup {None}]
  BY <1>1 DEF ServiceType, Issue
<1>4. held' \in [Calls -> Tokens \cup {None}] /\ held'[c] = issued + 1
  BY <1>1 DEF CallType, Issue
<1> QED
  BY <1>1, <1>2, <1>3, <1>4

\* Ending a call keeps the types of what it changes.
LEMMA EndType ==
  ASSUME CallType, NEW c \in Calls, NEW e \in {"got", "absent", "failed"},
         End(c, e)
  PROVE  /\ pc' \in [Calls -> Stages]
         /\ held' \in [Calls -> Tokens \cup {None}]
         /\ client' \in [Calls -> Regs \cup {None}]
         /\ asked' \in [Calls -> 0..MaxTokens]
  BY BoundsAssumption DEF End, Ending, CallType, Stages, Ended

\* The disk, the service's faults and the windows' types do not depend on c.
LEMMA FaultType ==
  ASSUME ServiceType, Fault PROVE faults' \in 0..MaxFaults
  BY BoundsAssumption DEF ServiceType, Fault

\* Every step keeps the types.
LEMMA TypeStep ==
  ASSUME TypeOK, [Next]_vars
  PROVE  TypeOK'
<1>1. ASSUME NEW c \in Calls, BeginGet(c)
      PROVE  TypeOK'
  BY <1>1, BoundsAssumption
    DEF BeginGet, Await, cacheVars, serviceVars, TypeOK, CacheType,
    ServiceType, WindowType, CallType, HoldsToken, Files, Stages, Refreshing
<1>2. ASSUME NEW c \in Calls, Load(c)
      PROVE  TypeOK'
  BY <1>2
    DEF Load, Await, cacheVars, serviceVars, TypeOK, CacheType, ServiceType,
    WindowType, CallType, HoldsToken, Files, Stages, Refreshing
<1>3. ASSUME NEW c \in Calls, LoadFails(c)
      PROVE  TypeOK'
  BY <1>3, BoundsAssumption
    DEF LoadFails, End, Ending, Fault, cacheVars, serviceVars, TypeOK,
    CacheType, ServiceType, WindowType, CallType, HoldsToken, Files, Stages,
    Refreshing, Ended
<1>4. ASSUME NEW c \in Calls, ReturnLoaded(c)
      PROVE  TypeOK'
  <2>1. CacheType'
    BY <1>4, BoundsAssumption, CallFacts
      DEF TypeOK, CacheType, ServiceType, WindowType, CallType, HoldsToken,
      ReturnLoaded, End, Ending, IsExpired, cacheVars, serviceVars, callVars,
      Tokens, Regs, None, Files, Stages, Refreshing, Invalidating, Login,
      Ended
  <2>2. ServiceType'
    BY <1>4, BoundsAssumption, CallFacts
      DEF TypeOK, ServiceType, CacheType, WindowType, CallType, HoldsToken,
      ReturnLoaded, End, Ending, IsExpired, cacheVars, serviceVars, callVars,
      Tokens, Regs, None, Files, Stages, Refreshing, Invalidating, Login,
      Ended
  <2>3. WindowType'
    BY <1>4, BoundsAssumption, CallFacts
      DEF TypeOK, WindowType, CacheType, ServiceType, CallType, HoldsToken,
      ReturnLoaded, End, Ending, IsExpired, cacheVars, serviceVars, callVars,
      Tokens, Regs, None, Files, Stages, Refreshing, Invalidating, Login,
      Ended
  <2>4. CallType'
    BY <1>4, EndType DEF TypeOK, CallType, ReturnLoaded
  <2>5. HoldsToken'
    BY <1>4, BoundsAssumption, CallFacts
      DEF TypeOK, HoldsToken, CacheType, ServiceType, WindowType, CallType,
      ReturnLoaded, End, Ending, IsExpired, cacheVars, serviceVars, callVars,
      Tokens, Regs, None, Files, Stages, Refreshing, Invalidating, Login,
      Ended
  <2> QED
    BY <2>1, <2>2, <2>3, <2>4, <2>5 DEF TypeOK
<1>5. ASSUME NEW c \in Calls, JoinRefresh(c)
      PROVE  TypeOK'
  BY <1>5
    DEF JoinRefresh, Await, IsExpired, CanRefresh, RegIsExpired, cacheVars,
    serviceVars, TypeOK, CacheType, ServiceType, WindowType, CallType,
    HoldsToken, Files, Stages
<1>6. ASSUME NEW c \in Calls, StartRefresh(c)
      PROVE  TypeOK'
  BY <1>6
    DEF StartRefresh, Await, IsExpired, CanRefresh, RegIsExpired, cacheVars,
    serviceVars, TypeOK, CacheType, ServiceType, WindowType, CallType,
    HoldsToken, Files, Stages, Refreshing
<1>7. ASSUME NEW c \in Calls, GiveUp(c)
      PROVE  TypeOK'
  BY <1>7
    DEF GiveUp, Await, IsExpired, CanRefresh, RegIsExpired, cacheVars,
    serviceVars, TypeOK, CacheType, ServiceType, WindowType, CallType,
    HoldsToken, Files, Stages, Invalidating
<1>8. ASSUME NEW c \in Calls, RefreshIssued(c)
      PROVE  TypeOK'
  <2>1. CacheType'
    BY <1>8, BoundsAssumption, CallFacts
      DEF TypeOK, CacheType, ServiceType, WindowType, CallType, HoldsToken,
      RefreshIssued, Await, Issue, cacheVars, serviceVars, callVars, Tokens,
      Regs, None, Files, Stages, Refreshing, Invalidating, Login, Ended
  <2>2. ServiceType'
    <3>1. regOf[held[c]] \in Regs \cup {None} /\ Issue(c, regOf[held[c]], "refresh")
      BY <1>8 DEF TypeOK, ServiceType, CallType, HoldsToken, Refreshing,
        RefreshIssued
    <3>2. /\ issued' \in 0..MaxTokens /\ issued' = issued + 1
          /\ refreshable' \in SUBSET Tokens /\ accepted' \in SUBSET Tokens
          /\ regOf' \in [Tokens -> Regs \cup {None}]
      BY <3>1, IssueType DEF TypeOK
    <3> QED
      BY <1>8, <3>2, BoundsAssumption DEF TypeOK, ServiceType, RefreshIssued
  <2>3. WindowType'
    BY <1>8, BoundsAssumption, CallFacts
      DEF TypeOK, WindowType, CacheType, ServiceType, CallType, HoldsToken,
      RefreshIssued, Await, Issue, cacheVars, serviceVars, callVars, Tokens,
      Regs, None, Files, Stages, Refreshing, Invalidating, Login, Ended
  <2>4. CallType'
    BY <1>8, BoundsAssumption, CallFacts
      DEF TypeOK, CallType, CacheType, ServiceType, WindowType, HoldsToken,
      RefreshIssued, Await, Issue, cacheVars, serviceVars, callVars, Tokens,
      Regs, None, Files, Stages, Refreshing, Invalidating, Login, Ended
  <2>5. HoldsToken'
    BY <1>8, BoundsAssumption, CallFacts
      DEF TypeOK, HoldsToken, CacheType, ServiceType, WindowType, CallType,
      RefreshIssued, Await, Issue, cacheVars, serviceVars, callVars, Tokens,
      Regs, None, Files, Stages, Refreshing, Invalidating, Login, Ended
  <2> QED
    BY <2>1, <2>2, <2>3, <2>4, <2>5 DEF TypeOK
<1>9. ASSUME NEW c \in Calls, RefreshRejected(c)
      PROVE  TypeOK'
  BY <1>9
    DEF RefreshRejected, Await, cacheVars, serviceVars, TypeOK, CacheType,
    ServiceType, WindowType, CallType, HoldsToken, Files, Stages, Refreshing
<1>10. ASSUME NEW c \in Calls, RefreshFails(c)
      PROVE  TypeOK'
  <2>1. CacheType'
    BY <1>10, BoundsAssumption, CallFacts
      DEF TypeOK, CacheType, ServiceType, WindowType, CallType, HoldsToken,
      RefreshFails, Settle, Settled, Ending, Fault, cacheVars, serviceVars,
      callVars, Tokens, Regs, None, Files, Stages, Refreshing, Invalidating,
      Login, Ended
  <2>2. ServiceType'
    BY <1>10, BoundsAssumption, CallFacts
      DEF TypeOK, ServiceType, CacheType, WindowType, CallType, HoldsToken,
      RefreshFails, Settle, Settled, Ending, Fault, cacheVars, serviceVars,
      callVars, Tokens, Regs, None, Files, Stages, Refreshing, Invalidating,
      Login, Ended
  <2>3. WindowType'
    BY <1>10, BoundsAssumption, CallFacts
      DEF TypeOK, WindowType, CacheType, ServiceType, CallType, HoldsToken,
      RefreshFails, Settle, Settled, Ending, Fault, cacheVars, serviceVars,
      callVars, Tokens, Regs, None, Files, Stages, Refreshing, Invalidating,
      Login, Ended
  <2>4. CallType'
    BY <1>10, BoundsAssumption, CallFacts
      DEF TypeOK, CallType, CacheType, ServiceType, WindowType, HoldsToken,
      RefreshFails, Settle, Settled, Ending, Fault, cacheVars, serviceVars,
      callVars, Tokens, Regs, None, Files, Stages, Refreshing, Invalidating,
      Login, Ended
  <2>5. HoldsToken'
    BY <1>10, BoundsAssumption, CallFacts
      DEF TypeOK, HoldsToken, CacheType, ServiceType, WindowType, CallType,
      RefreshFails, Settle, Settled, Ending, Fault, cacheVars, serviceVars,
      callVars, Tokens, Regs, None, Files, Stages, Refreshing, Invalidating,
      Login, Ended
  <2> QED
    BY <2>1, <2>2, <2>3, <2>4, <2>5 DEF TypeOK
<1>11. ASSUME NEW c \in Calls, SaveRefreshed(c)
      PROVE  TypeOK'
  BY <1>11
    DEF SaveRefreshed, Settle, Settled, Ending, serviceVars, TypeOK,
    CacheType, ServiceType, WindowType, CallType, HoldsToken, Files, Stages,
    Refreshing, Ended
<1>12. ASSUME NEW c \in Calls, SaveFails(c)
      PROVE  TypeOK'
  BY <1>12, BoundsAssumption, CallFacts
    DEF SaveFails, Settle, Settled, Ending, Fault, cacheVars, serviceVars,
    TypeOK, CacheType, ServiceType, WindowType, CallType, HoldsToken, Files,
    Stages, Refreshing, Ended
<1>13. ASSUME NEW c \in Calls, ClearRejected(c)
      PROVE  TypeOK'
  BY <1>13, BoundsAssumption, CallFacts
    DEF ClearRejected, Settle, Settled, Ending, serviceVars, TypeOK,
    CacheType, ServiceType, WindowType, CallType, HoldsToken, Files, Stages,
    Refreshing, Ended
<1>14. ASSUME NEW c \in Calls, ClearFails(c)
      PROVE  TypeOK'
  BY <1>14, BoundsAssumption, CallFacts
    DEF ClearFails, Settle, Settled, Ending, Fault, cacheVars, serviceVars,
    TypeOK, CacheType, ServiceType, WindowType, CallType, HoldsToken, Files,
    Stages, Refreshing, Ended
<1>15. ASSUME NEW c \in Calls, BeginLogout(c)
      PROVE  TypeOK'
  BY <1>15
    DEF BeginLogout, Await, cacheVars, serviceVars, TypeOK, CacheType,
    ServiceType, WindowType, CallType, HoldsToken, Files, Stages, Refreshing
<1>16. ASSUME NEW c \in Calls, SignOut(c)
      PROVE  TypeOK'
  <2>1. CacheType'
    BY <1>16, BoundsAssumption, CallFacts
      DEF TypeOK, CacheType, ServiceType, WindowType, CallType, HoldsToken,
      SignOut, Await, Fault, cacheVars, serviceVars, callVars, Tokens, Regs,
      None, Files, Stages, Refreshing, Invalidating, Login, Ended
  <2>2. ServiceType'
    <3>1. faults' \in 0..MaxFaults
      BY <1>16, FaultType DEF TypeOK, ServiceType, SignOut
    <3>2. accepted' \in SUBSET Tokens
      BY <1>16 DEF TypeOK, ServiceType, SignOut
    <3> QED
      BY <1>16, <3>1, <3>2 DEF TypeOK, ServiceType, SignOut
  <2>3. WindowType'
    BY <1>16, BoundsAssumption, CallFacts
      DEF TypeOK, WindowType, CacheType, ServiceType, CallType, HoldsToken,
      SignOut, Await, Fault, cacheVars, serviceVars, callVars, Tokens, Regs,
      None, Files, Stages, Refreshing, Invalidating, Login, Ended
  <2>4. CallType'
    BY <1>16, BoundsAssumption, CallFacts
      DEF TypeOK, CallType, CacheType, ServiceType, WindowType, HoldsToken,
      SignOut, Await, Fault, cacheVars, serviceVars, callVars, Tokens, Regs,
      None, Files, Stages, Refreshing, Invalidating, Login, Ended
  <2>5. HoldsToken'
    BY <1>16, BoundsAssumption, CallFacts
      DEF TypeOK, HoldsToken, CacheType, ServiceType, WindowType, CallType,
      SignOut, Await, Fault, cacheVars, serviceVars, callVars, Tokens, Regs,
      None, Files, Stages, Refreshing, Invalidating, Login, Ended
  <2> QED
    BY <2>1, <2>2, <2>3, <2>4, <2>5 DEF TypeOK
<1>17. ASSUME NEW c \in Calls, SignOutRejected(c)
      PROVE  TypeOK'
  BY <1>17
    DEF SignOutRejected, Await, IsExpired, cacheVars, serviceVars, TypeOK,
    CacheType, ServiceType, WindowType, CallType, HoldsToken, Files, Stages,
    Invalidating
<1>18. ASSUME NEW c \in Calls, BeginLogin(c)
      PROVE  TypeOK'
  <2>1. CacheType'
    BY <1>18, BoundsAssumption, CallFacts
      DEF TypeOK, CacheType, ServiceType, WindowType, CallType, HoldsToken,
      BeginLogin, Await, cacheVars, serviceVars, callVars, Tokens, Regs, None,
      Files, Stages, Refreshing, Invalidating, Login, Ended
  <2>2. ServiceType'
    BY <1>18, BoundsAssumption, CallFacts
      DEF TypeOK, ServiceType, CacheType, WindowType, CallType, HoldsToken,
      BeginLogin, Await, cacheVars, serviceVars, callVars, Tokens, Regs, None,
      Files, Stages, Refreshing, Invalidating, Login, Ended
  <2>3. WindowType'
    BY <1>18, BoundsAssumption, CallFacts
      DEF TypeOK, WindowType, CacheType, ServiceType, CallType, HoldsToken,
      BeginLogin, Await, cacheVars, serviceVars, callVars, Tokens, Regs, None,
      Files, Stages, Refreshing, Invalidating, Login, Ended
  <2>4. CallType'
    BY <1>18, BoundsAssumption, CallFacts
      DEF TypeOK, CallType, CacheType, ServiceType, WindowType, HoldsToken,
      BeginLogin, Await, cacheVars, serviceVars, callVars, Tokens, Regs, None,
      Files, Stages, Refreshing, Invalidating, Login, Ended
  <2>5. HoldsToken'
    BY <1>18, BoundsAssumption, CallFacts
      DEF TypeOK, HoldsToken, CacheType, ServiceType, WindowType, CallType,
      BeginLogin, Await, cacheVars, serviceVars, callVars, Tokens, Regs, None,
      Files, Stages, Refreshing, Invalidating, Login, Ended
  <2> QED
    BY <2>1, <2>2, <2>3, <2>4, <2>5 DEF TypeOK
<1>19. ASSUME NEW c \in Calls, RegLoad(c)
      PROVE  TypeOK'
  <2>1. CacheType'
    BY <1>19, BoundsAssumption, CallFacts
      DEF TypeOK, CacheType, ServiceType, WindowType, CallType, HoldsToken,
      RegLoad, Await, RegIsExpired, cacheVars, serviceVars, callVars, Tokens,
      Regs, None, Files, Stages, Refreshing, Invalidating, Login, Ended
  <2>2. ServiceType'
    BY <1>19, BoundsAssumption, CallFacts
      DEF TypeOK, ServiceType, CacheType, WindowType, CallType, HoldsToken,
      RegLoad, Await, RegIsExpired, cacheVars, serviceVars, callVars, Tokens,
      Regs, None, Files, Stages, Refreshing, Invalidating, Login, Ended
  <2>3. WindowType'
    BY <1>19, BoundsAssumption, CallFacts
      DEF TypeOK, WindowType, CacheType, ServiceType, CallType, HoldsToken,
      RegLoad, Await, RegIsExpired, cacheVars, serviceVars, callVars, Tokens,
      Regs, None, Files, Stages, Refreshing, Invalidating, Login, Ended
  <2>4. CallType'
    <3>1. CASE registration # None /\ RegIsExpired(registration)
      BY <1>19, <3>1 DEF TypeOK, CallType, RegLoad, Await, Stages, Invalidating
    <3>2. CASE ~(registration # None /\ RegIsExpired(registration))
      BY <1>19, <3>2 DEF TypeOK, CallType, RegLoad, Await, Stages, Login
    <3> QED
      BY <3>1, <3>2
  <2>5. HoldsToken'
    BY <1>19, BoundsAssumption, CallFacts
      DEF TypeOK, HoldsToken, CacheType, ServiceType, WindowType, CallType,
      RegLoad, Await, RegIsExpired, cacheVars, serviceVars, callVars, Tokens,
      Regs, None, Files, Stages, Refreshing, Invalidating, Login, Ended
  <2> QED
    BY <2>1, <2>2, <2>3, <2>4, <2>5 DEF TypeOK
<1>20. ASSUME NEW c \in Calls, RegReload(c)
      PROVE  TypeOK'
  <2>1. CacheType'
    BY <1>20, BoundsAssumption, CallFacts
      DEF TypeOK, CacheType, ServiceType, WindowType, CallType, HoldsToken,
      RegReload, Await, cacheVars, serviceVars, callVars, Tokens, Regs, None,
      Files, Stages, Refreshing, Invalidating, Login, Ended
  <2>2. ServiceType'
    BY <1>20, BoundsAssumption, CallFacts
      DEF TypeOK, ServiceType, CacheType, WindowType, CallType, HoldsToken,
      RegReload, Await, cacheVars, serviceVars, callVars, Tokens, Regs, None,
      Files, Stages, Refreshing, Invalidating, Login, Ended
  <2>3. WindowType'
    BY <1>20, BoundsAssumption, CallFacts
      DEF TypeOK, WindowType, CacheType, ServiceType, CallType, HoldsToken,
      RegReload, Await, cacheVars, serviceVars, callVars, Tokens, Regs, None,
      Files, Stages, Refreshing, Invalidating, Login, Ended
  <2>4. CallType'
    BY <1>20, BoundsAssumption, CallFacts
      DEF TypeOK, CallType, CacheType, ServiceType, WindowType, HoldsToken,
      RegReload, Await, cacheVars, serviceVars, callVars, Tokens, Regs, None,
      Files, Stages, Refreshing, Invalidating, Login, Ended
  <2>5. HoldsToken'
    BY <1>20, BoundsAssumption, CallFacts
      DEF TypeOK, HoldsToken, CacheType, ServiceType, WindowType, CallType,
      RegReload, Await, cacheVars, serviceVars, callVars, Tokens, Regs, None,
      Files, Stages, Refreshing, Invalidating, Login, Ended
  <2> QED
    BY <2>1, <2>2, <2>3, <2>4, <2>5 DEF TypeOK
<1>21. ASSUME NEW c \in Calls, RegisterClient(c)
      PROVE  TypeOK'
  BY <1>21, BoundsAssumption
    DEF RegisterClient, Await, cacheVars, TypeOK, CacheType, ServiceType,
    WindowType, CallType, HoldsToken, Tokens, Regs, None, Files, Stages,
    Refreshing, Invalidating, Login
<1>22. ASSUME NEW c \in Calls, RegSave(c)
      PROVE  TypeOK'
  BY <1>22
    DEF RegSave, Await, serviceVars, TypeOK, CacheType, ServiceType,
    WindowType, CallType, HoldsToken, Files, Stages, Refreshing, Invalidating,
    Login
<1>23. ASSUME NEW c \in Calls, Authorized(c)
      PROVE  TypeOK'
  <2>1. CacheType'
    BY <1>23, BoundsAssumption, CallFacts
      DEF TypeOK, CacheType, ServiceType, WindowType, CallType, HoldsToken,
      Authorized, Await, Issue, cacheVars, serviceVars, callVars, Tokens,
      Regs, None, Files, Stages, Refreshing, Invalidating, Login, Ended
  <2>2. ServiceType'
    <3>1. client[c] \in Regs \cup {None} /\ Issue(c, client[c], "login")
      BY <1>23 DEF TypeOK, ServiceType, CallType, HoldsToken, Refreshing,
        Authorized
    <3>2. /\ issued' \in 0..MaxTokens /\ issued' = issued + 1
          /\ refreshable' \in SUBSET Tokens /\ accepted' \in SUBSET Tokens
          /\ regOf' \in [Tokens -> Regs \cup {None}]
      BY <3>1, IssueType DEF TypeOK
    <3> QED
      BY <1>23, <3>2, BoundsAssumption DEF TypeOK, ServiceType, Authorized
  <2>3. WindowType'
    BY <1>23, BoundsAssumption, CallFacts
      DEF TypeOK, WindowType, CacheType, ServiceType, CallType, HoldsToken,
      Authorized, Await, Issue, cacheVars, serviceVars, callVars, Tokens,
      Regs, None, Files, Stages, Refreshing, Invalidating, Login, Ended
  <2>4. CallType'
    BY <1>23, BoundsAssumption, CallFacts
      DEF TypeOK, CallType, CacheType, ServiceType, WindowType, HoldsToken,
      Authorized, Await, Issue, cacheVars, serviceVars, callVars, Tokens,
      Regs, None, Files, Stages, Refreshing, Invalidating, Login, Ended
  <2>5. HoldsToken'
    BY <1>23, BoundsAssumption, CallFacts
      DEF TypeOK, HoldsToken, CacheType, ServiceType, WindowType, CallType,
      Authorized, Await, Issue, cacheVars, serviceVars, callVars, Tokens,
      Regs, None, Files, Stages, Refreshing, Invalidating, Login, Ended
  <2> QED
    BY <2>1, <2>2, <2>3, <2>4, <2>5 DEF TypeOK
<1>24. ASSUME NEW c \in Calls, AuthorizeRejected(c)
      PROVE  TypeOK'
  BY <1>24, BoundsAssumption
    DEF AuthorizeRejected, Await, Fault, cacheVars, serviceVars, TypeOK,
    CacheType, ServiceType, WindowType, CallType, HoldsToken, Files, Stages,
    Refreshing, Invalidating, Login
<1>25. ASSUME NEW c \in Calls, RegClear(c)
      PROVE  TypeOK'
  BY <1>25, BoundsAssumption
    DEF RegClear, End, Ending, serviceVars, TypeOK, CacheType, ServiceType,
    WindowType, CallType, HoldsToken, Files, Stages, Refreshing, Ended
<1>26. ASSUME NEW c \in Calls, LoginSave(c)
      PROVE  TypeOK'
  BY <1>26
    DEF LoginSave, End, Ending, serviceVars, TypeOK, CacheType, ServiceType,
    WindowType, CallType, HoldsToken, Files, Stages, Ended
<1>27. ASSUME NEW c \in Calls, LoginFails(c)
      PROVE  TypeOK'
  BY <1>27, BoundsAssumption
    DEF LoginFails, End, Ending, Fault, cacheVars, serviceVars, TypeOK,
    CacheType, ServiceType, WindowType, CallType, HoldsToken, Files, Stages,
    Refreshing, Ended
<1>28. ASSUME NEW c \in Calls, NEW f \in Files, ClearFile(c, f)
      PROVE  TypeOK'
  <2>1. CacheType'
    BY <1>28, BoundsAssumption, CallFacts
      DEF TypeOK, CacheType, ServiceType, WindowType, CallType, HoldsToken,
      ClearFile, Await, End, Ending, Cleared, Fault, cacheVars, serviceVars,
      callVars, Tokens, Regs, None, Files, Stages, Refreshing, Invalidating,
      Login, Ended
  <2>2. ServiceType'
    <3>1. faults' \in 0..MaxFaults
      BY <1>28, FaultType DEF TypeOK, ServiceType, ClearFile
    <3> QED
      BY <1>28, <3>1 DEF TypeOK, ServiceType, ClearFile, serviceVars
  <2>3. WindowType'
    BY <1>28, BoundsAssumption, CallFacts
      DEF TypeOK, WindowType, CacheType, ServiceType, CallType, HoldsToken,
      ClearFile, Await, End, Ending, Cleared, Fault, cacheVars, serviceVars,
      callVars, Tokens, Regs, None, Files, Stages, Refreshing, Invalidating,
      Login, Ended
  <2>4. CallType'
    <3>1. clearing' \in [Calls -> SUBSET Files]
      BY <1>28 DEF TypeOK, CallType, ClearFile, Cleared, Files
    <3>2. CASE clearing[c] # {f}
      BY <1>28, <3>1, <3>2 DEF TypeOK, CallType, ClearFile
    <3>3. CASE clearing[c] = {f} /\ pc[c] \in {"registrationExpired", "signOutRejected"}
      BY <1>28, <3>1, <3>3
        DEF TypeOK, CallType, ClearFile, Cleared, Await, Stages, Login,
          Invalidating
    <3>4. CASE clearing[c] = {f} /\ pc[c] \notin {"registrationExpired", "signOutRejected"}
      <4>1. End(c, "absent")
        BY <1>28, <3>4 DEF ClearFile, Cleared
      <4> QED
        BY <1>28, <3>1, <4>1, EndType DEF TypeOK, CallType, ClearFile
    <3> QED
      BY <3>2, <3>3, <3>4
  <2>5. HoldsToken'
    <3>1. CASE clearing[c] # {f}
      BY <1>28, <3>1 DEF TypeOK, HoldsToken, ClearFile
    <3>2. CASE clearing[c] = {f}
      <4>1. Cleared(c)
        BY <1>28, <3>2 DEF ClearFile
      <4>2. \A d \in Calls \ {c} : pc'[d] = pc[d] /\ held'[d] = held[d]
        BY <4>1 DEF TypeOK, CallType, Cleared, Await, End
      <4>3. pc'[c] \in {"regReload", "explicit", "signOut", "absent"}
        BY <4>1 DEF TypeOK, CallType, Cleared, Await, End, Ending
      <4> QED
        BY <4>2, <4>3 DEF TypeOK, HoldsToken, Refreshing
    <3> QED
      BY <3>1, <3>2
  <2> QED
    BY <2>1, <2>2, <2>3, <2>4, <2>5 DEF TypeOK
<1>29. ASSUME NEW t \in Tokens, Expire(t)
      PROVE  TypeOK'
  BY <1>29
    DEF Expire, cacheVars, callVars, TypeOK, CacheType, ServiceType,
    WindowType, CallType, HoldsToken, Files
<1>30. ASSUME NEW r \in Regs, ExpireRegistration(r)
      PROVE  TypeOK'
  BY <1>30, BoundsAssumption
    DEF ExpireRegistration, cacheVars, callVars, TypeOK, CacheType,
    ServiceType, WindowType, CallType, HoldsToken, Files
<1>31. ASSUME EndSession
      PROVE  TypeOK'
  BY <1>31, BoundsAssumption
    DEF EndSession, cacheVars, callVars, TypeOK, CacheType, ServiceType,
    WindowType, CallType, HoldsToken, Files
<1>32. ASSUME NEW w \in Windows, Reload(w)
      PROVE  TypeOK'
  <2>1. CacheType'
    BY <1>32, BoundsAssumption, CallFacts
      DEF TypeOK, CacheType, ServiceType, WindowType, CallType, HoldsToken,
      Reload, Lost, cacheVars, serviceVars, callVars, Tokens, Regs, None,
      Files, Stages, Refreshing, Invalidating, Login, Ended
  <2>2. ServiceType'
    BY <1>32, BoundsAssumption, CallFacts
      DEF TypeOK, ServiceType, CacheType, WindowType, CallType, HoldsToken,
      Reload, Lost, cacheVars, serviceVars, callVars, Tokens, Regs, None,
      Files, Stages, Refreshing, Invalidating, Login, Ended
  <2>3. WindowType'
    BY <1>32, BoundsAssumption, CallFacts
      DEF TypeOK, WindowType, CacheType, ServiceType, CallType, HoldsToken,
      Reload, Lost, cacheVars, serviceVars, callVars, Tokens, Regs, None,
      Files, Stages, Refreshing, Invalidating, Login, Ended
  <2>4. CallType'
    <3>1. pc' \in [Calls -> Stages]
      BY <1>32 DEF TypeOK, CallType, Reload, Stages, Ended
    <3>2. /\ held' \in [Calls -> Tokens \cup {None}]
          /\ client' \in [Calls -> Regs \cup {None}]
      BY <1>32 DEF TypeOK, CallType, Reload
    <3>3. clearing' \in [Calls -> SUBSET Files]
      BY <1>32 DEF TypeOK, CallType, Reload
    <3>4. asked' \in [Calls -> 0..MaxTokens]
      BY <1>32, BoundsAssumption DEF TypeOK, CallType, Reload
    <3>5. leaving' \in [Calls -> BOOLEAN]
      <4>1. leaving' = [c \in Calls |-> IF c \in Lost(w) THEN FALSE ELSE leaving[c]]
        BY <1>32 DEF Reload
      <4>2. leaving \in [Calls -> BOOLEAN]
        BY DEF TypeOK, CallType
      <4> QED
        BY <4>1, <4>2, ZenonT(30)
    <3> QED
      BY <3>1, <3>2, <3>3, <3>4, <3>5 DEF CallType
  <2>5. HoldsToken'
    BY <1>32, BoundsAssumption, CallFacts
      DEF TypeOK, HoldsToken, CacheType, ServiceType, WindowType, CallType,
      Reload, Lost, cacheVars, serviceVars, callVars, Tokens, Regs, None,
      Files, Stages, Refreshing, Invalidating, Login, Ended
  <2> QED
    BY <2>1, <2>2, <2>3, <2>4, <2>5 DEF TypeOK
<1>33. CASE UNCHANGED vars
  BY <1>33, BoundsAssumption, CallFacts
    DEF vars, cacheVars, serviceVars, callVars, TypeOK, CacheType,
    ServiceType, WindowType, CallType, HoldsToken, Tokens, Regs, None, Files,
    Stages, Refreshing, Invalidating, Login, Ended
<1>34. QED
  BY <1>1, <1>2, <1>3, <1>4, <1>5, <1>6, <1>7, <1>8, <1>9, <1>10, <1>11,
  <1>12, <1>13, <1>14, <1>15, <1>16, <1>17, <1>18, <1>19, <1>20, <1>21, <1>22,
  <1>23, <1>24, <1>25, <1>26, <1>27, <1>28, <1>29, <1>30, <1>31, <1>32, <1>33
    DEF Next, GetToken, RefreshToken, Invalidate, CreateToken

\* The initial state is well typed.
LEMMA InitType == Init => TypeOK
<1>1. Init => CacheType
  BY BoundsAssumption
    DEF Init, CacheType, Tokens, Regs, None, Files, Stages, Refreshing,
    Invalidating, Login, Ended
<1>2. Init => ServiceType
  BY BoundsAssumption
    DEF Init, ServiceType, Tokens, Regs, None, Files, Stages, Refreshing,
    Invalidating, Login, Ended
<1>3. Init => WindowType
  BY BoundsAssumption
    DEF Init, WindowType, Tokens, Regs, None, Files, Stages, Refreshing,
    Invalidating, Login, Ended
<1>4. Init => CallType
  BY BoundsAssumption
    DEF Init, CallType, Tokens, Regs, None, Files, Stages, Refreshing,
    Invalidating, Login, Ended
<1>5. Init => HoldsToken
  BY BoundsAssumption
    DEF Init, HoldsToken, Tokens, Regs, None, Files, Stages, Refreshing,
    Invalidating, Login, Ended
<1> QED
  BY <1>1, <1>2, <1>3, <1>4, <1>5 DEF TypeOK

\* Every variable keeps its type, for any number of windows and calls; a call
\* that refreshes, saves or returns a token holds one.
THEOREM TypeInvariant == Spec => []TypeOK
<1>1. Init => TypeOK
  BY InitType
<1>2. TypeOK /\ [Next]_vars => TypeOK'
  BY TypeStep
<1>3. QED
  BY <1>1, <1>2, PTL DEF Spec

\* Every step keeps refreshPromises and the refreshes in flight together.
LEMMA InFlightStep ==
  ASSUME TypeOK, RefreshesInFlight, [Next]_vars
  PROVE  RefreshesInFlight'
<1>1. ASSUME NEW c \in Calls, BeginGet(c)
      PROVE  RefreshesInFlight'
  BY <1>1
    DEF BeginGet, Await, RefreshesInFlight, TypeOK, WindowType, CallType,
    Refreshing
<1>2. ASSUME NEW c \in Calls, Load(c)
      PROVE  RefreshesInFlight'
  BY <1>2
    DEF Load, Await, RefreshesInFlight, TypeOK, WindowType, CallType,
    Refreshing
<1>3. ASSUME NEW c \in Calls, LoadFails(c)
      PROVE  RefreshesInFlight'
  BY <1>3
    DEF LoadFails, End, Ending, Fault, RefreshesInFlight, TypeOK, WindowType,
    CallType, Refreshing
<1>4. ASSUME NEW c \in Calls, ReturnLoaded(c)
      PROVE  RefreshesInFlight'
  BY <1>4
    DEF ReturnLoaded, End, Ending, IsExpired, RefreshesInFlight, TypeOK,
    WindowType, CallType, Refreshing
<1>5. ASSUME NEW c \in Calls, JoinRefresh(c)
      PROVE  RefreshesInFlight'
  BY <1>5
    DEF JoinRefresh, Await, IsExpired, CanRefresh, RegIsExpired,
    RefreshesInFlight, TypeOK, WindowType, CallType, Refreshing
<1>6. ASSUME NEW c \in Calls, StartRefresh(c)
      PROVE  RefreshesInFlight'
  BY <1>6, CallFacts
    DEF StartRefresh, Await, IsExpired, CanRefresh, RegIsExpired,
    RefreshesInFlight, TypeOK, WindowType, CallType, Refreshing
<1>7. ASSUME NEW c \in Calls, GiveUp(c)
      PROVE  RefreshesInFlight'
  BY <1>7
    DEF GiveUp, Await, IsExpired, CanRefresh, RegIsExpired, RefreshesInFlight,
    TypeOK, WindowType, CallType, Refreshing
<1>8. ASSUME NEW c \in Calls, RefreshIssued(c)
      PROVE  RefreshesInFlight'
  BY <1>8
    DEF RefreshIssued, Await, Issue, RefreshesInFlight, TypeOK, WindowType,
    CallType, Refreshing
<1>9. ASSUME NEW c \in Calls, RefreshRejected(c)
      PROVE  RefreshesInFlight'
  BY <1>9
    DEF RefreshRejected, Await, RefreshesInFlight, TypeOK, WindowType,
    CallType, Refreshing
<1>10. ASSUME NEW c \in Calls, RefreshFails(c)
      PROVE  RefreshesInFlight'
  BY <1>10
    DEF RefreshFails, Settle, Settled, Ending, Fault, RefreshesInFlight,
    TypeOK, WindowType, CallType, Refreshing
<1>11. ASSUME NEW c \in Calls, SaveRefreshed(c)
      PROVE  RefreshesInFlight'
  BY <1>11
    DEF SaveRefreshed, Settle, Settled, Ending, RefreshesInFlight, TypeOK,
    WindowType, CallType, Refreshing
<1>12. ASSUME NEW c \in Calls, SaveFails(c)
      PROVE  RefreshesInFlight'
  BY <1>12
    DEF SaveFails, Settle, Settled, Ending, Fault, RefreshesInFlight, TypeOK,
    WindowType, CallType, Refreshing
<1>13. ASSUME NEW c \in Calls, ClearRejected(c)
      PROVE  RefreshesInFlight'
  BY <1>13
    DEF ClearRejected, Settle, Settled, Ending, RefreshesInFlight, TypeOK,
    WindowType, CallType, Refreshing
<1>14. ASSUME NEW c \in Calls, ClearFails(c)
      PROVE  RefreshesInFlight'
  BY <1>14
    DEF ClearFails, Settle, Settled, Ending, Fault, RefreshesInFlight, TypeOK,
    WindowType, CallType, Refreshing
<1>15. ASSUME NEW c \in Calls, BeginLogout(c)
      PROVE  RefreshesInFlight'
  BY <1>15
    DEF BeginLogout, Await, RefreshesInFlight, TypeOK, WindowType, CallType,
    Refreshing
<1>16. ASSUME NEW c \in Calls, SignOut(c)
      PROVE  RefreshesInFlight'
  BY <1>16
    DEF SignOut, Await, Fault, RefreshesInFlight, TypeOK, WindowType,
    CallType, Refreshing
<1>17. ASSUME NEW c \in Calls, SignOutRejected(c)
      PROVE  RefreshesInFlight'
  BY <1>17
    DEF SignOutRejected, Await, IsExpired, RefreshesInFlight, TypeOK,
    WindowType, CallType, Refreshing
<1>18. ASSUME NEW c \in Calls, BeginLogin(c)
      PROVE  RefreshesInFlight'
  BY <1>18
    DEF BeginLogin, Await, RefreshesInFlight, TypeOK, WindowType, CallType,
    Refreshing
<1>19. ASSUME NEW c \in Calls, RegLoad(c)
      PROVE  RefreshesInFlight'
  BY <1>19
    DEF RegLoad, Await, RegIsExpired, RefreshesInFlight, TypeOK, WindowType,
    CallType, Refreshing
<1>20. ASSUME NEW c \in Calls, RegReload(c)
      PROVE  RefreshesInFlight'
  BY <1>20
    DEF RegReload, Await, RefreshesInFlight, TypeOK, WindowType, CallType,
    Refreshing
<1>21. ASSUME NEW c \in Calls, RegisterClient(c)
      PROVE  RefreshesInFlight'
  BY <1>21
    DEF RegisterClient, Await, RefreshesInFlight, TypeOK, WindowType,
    CallType, Refreshing
<1>22. ASSUME NEW c \in Calls, RegSave(c)
      PROVE  RefreshesInFlight'
  BY <1>22
    DEF RegSave, Await, RefreshesInFlight, TypeOK, WindowType, CallType,
    Refreshing
<1>23. ASSUME NEW c \in Calls, Authorized(c)
      PROVE  RefreshesInFlight'
  BY <1>23
    DEF Authorized, Await, Issue, RefreshesInFlight, TypeOK, WindowType,
    CallType, Refreshing
<1>24. ASSUME NEW c \in Calls, AuthorizeRejected(c)
      PROVE  RefreshesInFlight'
  BY <1>24
    DEF AuthorizeRejected, Await, Fault, RefreshesInFlight, TypeOK,
    WindowType, CallType, Refreshing
<1>25. ASSUME NEW c \in Calls, RegClear(c)
      PROVE  RefreshesInFlight'
  BY <1>25
    DEF RegClear, End, Ending, RefreshesInFlight, TypeOK, WindowType,
    CallType, Refreshing
<1>26. ASSUME NEW c \in Calls, LoginSave(c)
      PROVE  RefreshesInFlight'
  BY <1>26
    DEF LoginSave, End, Ending, RefreshesInFlight, TypeOK, WindowType,
    CallType, Refreshing
<1>27. ASSUME NEW c \in Calls, LoginFails(c)
      PROVE  RefreshesInFlight'
  BY <1>27
    DEF LoginFails, End, Ending, Fault, RefreshesInFlight, TypeOK, WindowType,
    CallType, Refreshing, Login
<1>28. ASSUME NEW c \in Calls, NEW f \in Files, ClearFile(c, f)
      PROVE  RefreshesInFlight'
  BY <1>28
    DEF ClearFile, Await, End, Ending, Cleared, Fault, RefreshesInFlight,
    TypeOK, WindowType, CallType, Refreshing, Invalidating
<1>29. ASSUME NEW t \in Tokens, Expire(t)
      PROVE  RefreshesInFlight'
  BY <1>29
    DEF Expire, callVars, RefreshesInFlight, TypeOK, WindowType, CallType
<1>30. ASSUME NEW r \in Regs, ExpireRegistration(r)
      PROVE  RefreshesInFlight'
  BY <1>30
    DEF ExpireRegistration, callVars, RefreshesInFlight, TypeOK, WindowType,
    CallType
<1>31. ASSUME EndSession
      PROVE  RefreshesInFlight'
  BY <1>31
    DEF EndSession, callVars, RefreshesInFlight, TypeOK, WindowType, CallType
<1>32. ASSUME NEW w \in Windows, Reload(w)
      PROVE  RefreshesInFlight'
  BY <1>32
    DEF Reload, Lost, RefreshesInFlight, TypeOK, WindowType, CallType,
    Refreshing
<1>33. CASE UNCHANGED vars
  BY <1>33, CallFacts
    DEF vars, cacheVars, serviceVars, callVars, RefreshesInFlight, TypeOK,
    WindowType, CallType, Refreshing, Invalidating, Login
<1>34. QED
  BY <1>1, <1>2, <1>3, <1>4, <1>5, <1>6, <1>7, <1>8, <1>9, <1>10, <1>11,
  <1>12, <1>13, <1>14, <1>15, <1>16, <1>17, <1>18, <1>19, <1>20, <1>21, <1>22,
  <1>23, <1>24, <1>25, <1>26, <1>27, <1>28, <1>29, <1>30, <1>31, <1>32, <1>33
    DEF Next, GetToken, RefreshToken, Invalidate, CreateToken

\* Every step keeps the tokens on their way to the disk unexpired.
LEMMA FreshStep ==
  ASSUME TypeOK, Fresh, [Next]_vars
  PROVE  Fresh'
<1>1. ASSUME NEW c \in Calls, BeginGet(c)
      PROVE  Fresh'
  BY <1>1
    DEF BeginGet, Await, serviceVars, Fresh, TypeOK, ServiceType, CallType
<1>2. ASSUME NEW c \in Calls, Load(c)
      PROVE  Fresh'
  BY <1>2
    DEF Load, Await, serviceVars, Fresh, TypeOK, ServiceType, CallType
<1>3. ASSUME NEW c \in Calls, LoadFails(c)
      PROVE  Fresh'
  BY <1>3
    DEF LoadFails, End, Ending, Fault, serviceVars, Fresh, TypeOK,
    ServiceType, CallType
<1>4. ASSUME NEW c \in Calls, ReturnLoaded(c)
      PROVE  Fresh'
  <2>1. \/ End(c, "absent")
        \/ held[c] # None /\ ~IsExpired(held[c]) /\ End(c, "got")
    BY <1>4 DEF ReturnLoaded
  <2>2. UNCHANGED <<cacheVars, serviceVars, leaving, signedIn, ends>>
    BY <1>4 DEF ReturnLoaded
  <2>3. CASE End(c, "absent")
    BY <2>2, <2>3, BoundsAssumption
      DEF End, Ending, cacheVars, serviceVars, callVars, Fresh, TypeOK,
      ServiceType, CallType, Tokens, None
  <2>4. CASE ~IsExpired(held[c]) /\ End(c, "got")
    BY <2>2, <2>4, BoundsAssumption
      DEF End, Ending, IsExpired, cacheVars, serviceVars, callVars, Fresh,
      TypeOK, ServiceType, CallType, Tokens, None
  <2> QED
    BY <2>1, <2>3, <2>4
<1>5. ASSUME NEW c \in Calls, JoinRefresh(c)
      PROVE  Fresh'
  BY <1>5
    DEF JoinRefresh, Await, IsExpired, CanRefresh, RegIsExpired, serviceVars,
    Fresh, TypeOK, ServiceType, CallType
<1>6. ASSUME NEW c \in Calls, StartRefresh(c)
      PROVE  Fresh'
  BY <1>6
    DEF StartRefresh, Await, IsExpired, CanRefresh, RegIsExpired, serviceVars,
    Fresh, TypeOK, ServiceType, CallType
<1>7. ASSUME NEW c \in Calls, GiveUp(c)
      PROVE  Fresh'
  BY <1>7
    DEF GiveUp, Await, IsExpired, CanRefresh, RegIsExpired, serviceVars,
    Fresh, TypeOK, ServiceType, CallType
<1>8. ASSUME NEW c \in Calls, RefreshIssued(c)
      PROVE  Fresh'
  BY <1>8
    DEF RefreshIssued, Await, Issue, Fresh, TypeOK, ServiceType, CallType
<1>9. ASSUME NEW c \in Calls, RefreshRejected(c)
      PROVE  Fresh'
  BY <1>9
    DEF RefreshRejected, Await, serviceVars, Fresh, TypeOK, ServiceType,
    CallType
<1>10. ASSUME NEW c \in Calls, RefreshFails(c)
      PROVE  Fresh'
  BY <1>10
    DEF RefreshFails, Settle, Settled, Ending, Fault, Fresh, TypeOK,
    ServiceType, CallType
<1>11. ASSUME NEW c \in Calls, SaveRefreshed(c)
      PROVE  Fresh'
  BY <1>11
    DEF SaveRefreshed, Settle, Settled, Ending, serviceVars, Fresh, TypeOK,
    ServiceType, CallType
<1>12. ASSUME NEW c \in Calls, SaveFails(c)
      PROVE  Fresh'
  BY <1>12
    DEF SaveFails, Settle, Settled, Ending, Fault, serviceVars, Fresh, TypeOK,
    ServiceType, CallType
<1>13. ASSUME NEW c \in Calls, ClearRejected(c)
      PROVE  Fresh'
  BY <1>13
    DEF ClearRejected, Settle, Settled, Ending, serviceVars, Fresh, TypeOK,
    ServiceType, CallType
<1>14. ASSUME NEW c \in Calls, ClearFails(c)
      PROVE  Fresh'
  BY <1>14
    DEF ClearFails, Settle, Settled, Ending, Fault, serviceVars, Fresh,
    TypeOK, ServiceType, CallType
<1>15. ASSUME NEW c \in Calls, BeginLogout(c)
      PROVE  Fresh'
  BY <1>15
    DEF BeginLogout, Await, serviceVars, Fresh, TypeOK, ServiceType, CallType
<1>16. ASSUME NEW c \in Calls, SignOut(c)
      PROVE  Fresh'
  BY <1>16
    DEF SignOut, Await, Fault, Fresh, TypeOK, ServiceType, CallType
<1>17. ASSUME NEW c \in Calls, SignOutRejected(c)
      PROVE  Fresh'
  BY <1>17
    DEF SignOutRejected, Await, IsExpired, serviceVars, Fresh, TypeOK,
    ServiceType, CallType, HoldsToken
<1>18. ASSUME NEW c \in Calls, BeginLogin(c)
      PROVE  Fresh'
  BY <1>18
    DEF BeginLogin, Await, serviceVars, Fresh, TypeOK, ServiceType, CallType
<1>19. ASSUME NEW c \in Calls, RegLoad(c)
      PROVE  Fresh'
  BY <1>19
    DEF RegLoad, Await, RegIsExpired, serviceVars, Fresh, TypeOK, ServiceType,
    CallType
<1>20. ASSUME NEW c \in Calls, RegReload(c)
      PROVE  Fresh'
  BY <1>20
    DEF RegReload, Await, serviceVars, Fresh, TypeOK, ServiceType, CallType
<1>21. ASSUME NEW c \in Calls, RegisterClient(c)
      PROVE  Fresh'
  BY <1>21
    DEF RegisterClient, Await, Fresh, TypeOK, ServiceType, CallType
<1>22. ASSUME NEW c \in Calls, RegSave(c)
      PROVE  Fresh'
  BY <1>22
    DEF RegSave, Await, serviceVars, Fresh, TypeOK, ServiceType, CallType
<1>23. ASSUME NEW c \in Calls, Authorized(c)
      PROVE  Fresh'
  BY <1>23
    DEF Authorized, Await, Issue, Fresh, TypeOK, ServiceType, CallType
<1>24. ASSUME NEW c \in Calls, AuthorizeRejected(c)
      PROVE  Fresh'
  BY <1>24
    DEF AuthorizeRejected, Await, Fault, serviceVars, Fresh, TypeOK,
    ServiceType, CallType
<1>25. ASSUME NEW c \in Calls, RegClear(c)
      PROVE  Fresh'
  BY <1>25
    DEF RegClear, End, Ending, serviceVars, Fresh, TypeOK, ServiceType,
    CallType
<1>26. ASSUME NEW c \in Calls, LoginSave(c)
      PROVE  Fresh'
  BY <1>26
    DEF LoginSave, End, Ending, serviceVars, Fresh, TypeOK, ServiceType,
    CallType
<1>27. ASSUME NEW c \in Calls, LoginFails(c)
      PROVE  Fresh'
  BY <1>27
    DEF LoginFails, End, Ending, Fault, serviceVars, Fresh, TypeOK,
    ServiceType, CallType
<1>28. ASSUME NEW c \in Calls, NEW f \in Files, ClearFile(c, f)
      PROVE  Fresh'
  BY <1>28
    DEF ClearFile, Await, End, Ending, Cleared, Fault, serviceVars, Fresh,
    TypeOK, ServiceType, CallType
<1>29. ASSUME NEW t \in Tokens, Expire(t)
      PROVE  Fresh'
  BY <1>29
    DEF Expire, callVars, Fresh, TypeOK, ServiceType, CallType
<1>30. ASSUME NEW r \in Regs, ExpireRegistration(r)
      PROVE  Fresh'
  BY <1>30
    DEF ExpireRegistration, callVars, Fresh, TypeOK, ServiceType, CallType
<1>31. ASSUME EndSession
      PROVE  Fresh'
  BY <1>31
    DEF EndSession, callVars, Fresh, TypeOK, ServiceType, CallType
<1>32. ASSUME NEW w \in Windows, Reload(w)
      PROVE  Fresh'
  BY <1>32
    DEF Reload, Lost, serviceVars, Fresh, TypeOK, ServiceType, CallType
<1>33. CASE UNCHANGED vars
  BY <1>33, BoundsAssumption
    DEF vars, cacheVars, serviceVars, callVars, Fresh, TypeOK, ServiceType,
    CallType, HoldsToken, Refreshing, Invalidating, Login, Tokens, None
<1>34. QED
  BY <1>1, <1>2, <1>3, <1>4, <1>5, <1>6, <1>7, <1>8, <1>9, <1>10, <1>11,
  <1>12, <1>13, <1>14, <1>15, <1>16, <1>17, <1>18, <1>19, <1>20, <1>21, <1>22,
  <1>23, <1>24, <1>25, <1>26, <1>27, <1>28, <1>29, <1>30, <1>31, <1>32, <1>33
    DEF Next, GetToken, RefreshToken, Invalidate, CreateToken

\* Every step keeps the answers fresh.
LEMMA AnswerStep ==
  ASSUME TypeOK, Fresh, NoStaleAnswer, [Next]_vars
  PROVE  NoStaleAnswer'
<1>1. ASSUME NEW c \in Calls, BeginGet(c)
      PROVE  NoStaleAnswer'
  BY <1>1
    DEF BeginGet, Await, NoStaleAnswer, Fresh, TypeOK, ServiceType, CallType
<1>2. ASSUME NEW c \in Calls, Load(c)
      PROVE  NoStaleAnswer'
  BY <1>2
    DEF Load, Await, NoStaleAnswer, Fresh, TypeOK, ServiceType, CallType
<1>3. ASSUME NEW c \in Calls, LoadFails(c)
      PROVE  NoStaleAnswer'
  BY <1>3
    DEF LoadFails, End, Ending, Fault, NoStaleAnswer, Fresh, TypeOK,
    ServiceType, CallType
<1>4. ASSUME NEW c \in Calls, ReturnLoaded(c)
      PROVE  NoStaleAnswer'
  <2>1. \/ End(c, "absent")
        \/ held[c] # None /\ ~IsExpired(held[c]) /\ End(c, "got")
    BY <1>4 DEF ReturnLoaded
  <2>2. UNCHANGED <<cacheVars, serviceVars, leaving, signedIn, ends>>
    BY <1>4 DEF ReturnLoaded
  <2>3. CASE End(c, "absent")
    BY <2>2, <2>3, BoundsAssumption
      DEF End, Ending, cacheVars, serviceVars, callVars, NoStaleAnswer, Fresh,
      TypeOK, ServiceType, CallType, Tokens, None
  <2>4. CASE ~IsExpired(held[c]) /\ End(c, "got")
    BY <2>2, <2>4, BoundsAssumption
      DEF End, Ending, IsExpired, cacheVars, serviceVars, callVars,
      NoStaleAnswer, Fresh, TypeOK, ServiceType, CallType, Tokens, None
  <2> QED
    BY <2>1, <2>3, <2>4
<1>5. ASSUME NEW c \in Calls, JoinRefresh(c)
      PROVE  NoStaleAnswer'
  BY <1>5
    DEF JoinRefresh, Await, IsExpired, CanRefresh, RegIsExpired,
    NoStaleAnswer, Fresh, TypeOK, ServiceType, CallType
<1>6. ASSUME NEW c \in Calls, StartRefresh(c)
      PROVE  NoStaleAnswer'
  BY <1>6
    DEF StartRefresh, Await, IsExpired, CanRefresh, RegIsExpired,
    NoStaleAnswer, Fresh, TypeOK, ServiceType, CallType
<1>7. ASSUME NEW c \in Calls, GiveUp(c)
      PROVE  NoStaleAnswer'
  BY <1>7
    DEF GiveUp, Await, IsExpired, CanRefresh, RegIsExpired, NoStaleAnswer,
    Fresh, TypeOK, ServiceType, CallType
<1>8. ASSUME NEW c \in Calls, RefreshIssued(c)
      PROVE  NoStaleAnswer'
  BY <1>8
    DEF RefreshIssued, Await, Issue, NoStaleAnswer, Fresh, TypeOK,
    ServiceType, CallType
<1>9. ASSUME NEW c \in Calls, RefreshRejected(c)
      PROVE  NoStaleAnswer'
  BY <1>9
    DEF RefreshRejected, Await, NoStaleAnswer, Fresh, TypeOK, ServiceType,
    CallType
<1>10. ASSUME NEW c \in Calls, RefreshFails(c)
      PROVE  NoStaleAnswer'
  BY <1>10
    DEF RefreshFails, Settle, Settled, Ending, Fault, NoStaleAnswer, Fresh,
    TypeOK, ServiceType, CallType
<1>11. ASSUME NEW c \in Calls, SaveRefreshed(c)
      PROVE  NoStaleAnswer'
  BY <1>11
    DEF SaveRefreshed, Settle, Settled, Ending, NoStaleAnswer, Fresh, TypeOK,
    ServiceType, CallType, Tokens
<1>12. ASSUME NEW c \in Calls, SaveFails(c)
      PROVE  NoStaleAnswer'
  BY <1>12
    DEF SaveFails, Settle, Settled, Ending, Fault, NoStaleAnswer, Fresh,
    TypeOK, ServiceType, CallType
<1>13. ASSUME NEW c \in Calls, ClearRejected(c)
      PROVE  NoStaleAnswer'
  BY <1>13
    DEF ClearRejected, Settle, Settled, Ending, NoStaleAnswer, Fresh, TypeOK,
    ServiceType, CallType
<1>14. ASSUME NEW c \in Calls, ClearFails(c)
      PROVE  NoStaleAnswer'
  BY <1>14
    DEF ClearFails, Settle, Settled, Ending, Fault, NoStaleAnswer, Fresh,
    TypeOK, ServiceType, CallType
<1>15. ASSUME NEW c \in Calls, BeginLogout(c)
      PROVE  NoStaleAnswer'
  BY <1>15
    DEF BeginLogout, Await, NoStaleAnswer, Fresh, TypeOK, ServiceType,
    CallType
<1>16. ASSUME NEW c \in Calls, SignOut(c)
      PROVE  NoStaleAnswer'
  BY <1>16
    DEF SignOut, Await, Fault, NoStaleAnswer, Fresh, TypeOK, ServiceType,
    CallType
<1>17. ASSUME NEW c \in Calls, SignOutRejected(c)
      PROVE  NoStaleAnswer'
  BY <1>17
    DEF SignOutRejected, Await, IsExpired, NoStaleAnswer, Fresh, TypeOK,
    ServiceType, CallType, HoldsToken
<1>18. ASSUME NEW c \in Calls, BeginLogin(c)
      PROVE  NoStaleAnswer'
  BY <1>18
    DEF BeginLogin, Await, NoStaleAnswer, Fresh, TypeOK, ServiceType, CallType
<1>19. ASSUME NEW c \in Calls, RegLoad(c)
      PROVE  NoStaleAnswer'
  BY <1>19
    DEF RegLoad, Await, RegIsExpired, NoStaleAnswer, Fresh, TypeOK,
    ServiceType, CallType
<1>20. ASSUME NEW c \in Calls, RegReload(c)
      PROVE  NoStaleAnswer'
  BY <1>20
    DEF RegReload, Await, NoStaleAnswer, Fresh, TypeOK, ServiceType, CallType
<1>21. ASSUME NEW c \in Calls, RegisterClient(c)
      PROVE  NoStaleAnswer'
  BY <1>21
    DEF RegisterClient, Await, NoStaleAnswer, Fresh, TypeOK, ServiceType,
    CallType
<1>22. ASSUME NEW c \in Calls, RegSave(c)
      PROVE  NoStaleAnswer'
  BY <1>22
    DEF RegSave, Await, NoStaleAnswer, Fresh, TypeOK, ServiceType, CallType
<1>23. ASSUME NEW c \in Calls, Authorized(c)
      PROVE  NoStaleAnswer'
  BY <1>23
    DEF Authorized, Await, Issue, NoStaleAnswer, Fresh, TypeOK, ServiceType,
    CallType
<1>24. ASSUME NEW c \in Calls, AuthorizeRejected(c)
      PROVE  NoStaleAnswer'
  BY <1>24
    DEF AuthorizeRejected, Await, Fault, NoStaleAnswer, Fresh, TypeOK,
    ServiceType, CallType
<1>25. ASSUME NEW c \in Calls, RegClear(c)
      PROVE  NoStaleAnswer'
  BY <1>25
    DEF RegClear, End, Ending, NoStaleAnswer, Fresh, TypeOK, ServiceType,
    CallType
<1>26. ASSUME NEW c \in Calls, LoginSave(c)
      PROVE  NoStaleAnswer'
  BY <1>26
    DEF LoginSave, End, Ending, NoStaleAnswer, Fresh, TypeOK, ServiceType,
    CallType, Tokens
<1>27. ASSUME NEW c \in Calls, LoginFails(c)
      PROVE  NoStaleAnswer'
  BY <1>27
    DEF LoginFails, End, Ending, Fault, NoStaleAnswer, Fresh, TypeOK,
    ServiceType, CallType
<1>28. ASSUME NEW c \in Calls, NEW f \in Files, ClearFile(c, f)
      PROVE  NoStaleAnswer'
  BY <1>28
    DEF ClearFile, Await, End, Ending, Cleared, Fault, NoStaleAnswer, Fresh,
    TypeOK, ServiceType, CallType
<1>29. ASSUME NEW t \in Tokens, Expire(t)
      PROVE  NoStaleAnswer'
  BY <1>29
    DEF Expire, callVars, NoStaleAnswer, Fresh, TypeOK, ServiceType, CallType
<1>30. ASSUME NEW r \in Regs, ExpireRegistration(r)
      PROVE  NoStaleAnswer'
  BY <1>30
    DEF ExpireRegistration, callVars, NoStaleAnswer, Fresh, TypeOK,
    ServiceType, CallType
<1>31. ASSUME EndSession
      PROVE  NoStaleAnswer'
  BY <1>31
    DEF EndSession, callVars, NoStaleAnswer, Fresh, TypeOK, ServiceType,
    CallType
<1>32. ASSUME NEW w \in Windows, Reload(w)
      PROVE  NoStaleAnswer'
  BY <1>32
    DEF Reload, Lost, NoStaleAnswer, Fresh, TypeOK, ServiceType, CallType
<1>33. CASE UNCHANGED vars
  BY <1>33, BoundsAssumption
    DEF vars, cacheVars, serviceVars, callVars, NoStaleAnswer, Fresh, TypeOK,
    ServiceType, CallType, HoldsToken, Refreshing, Invalidating, Login,
    Tokens, None
<1>34. QED
  BY <1>1, <1>2, <1>3, <1>4, <1>5, <1>6, <1>7, <1>8, <1>9, <1>10, <1>11,
  <1>12, <1>13, <1>14, <1>15, <1>16, <1>17, <1>18, <1>19, <1>20, <1>21, <1>22,
  <1>23, <1>24, <1>25, <1>26, <1>27, <1>28, <1>29, <1>30, <1>31, <1>32, <1>33
    DEF Next, GetToken, RefreshToken, Invalidate, CreateToken

\* Every step keeps an honoured session honoured.
LEMMA SoundStep ==
  ASSUME TypeOK, Sound, [Next]_vars
  PROVE  Sound'
<1>1. ASSUME NEW c \in Calls, BeginGet(c)
      PROVE  Sound'
  BY <1>1
    DEF BeginGet, Await, cacheVars, serviceVars, Sound, Honoured, TypeOK,
    CacheType, ServiceType, WindowType, CallType, Invalidating, None
<1>2. ASSUME NEW c \in Calls, Load(c)
      PROVE  Sound'
  BY <1>2
    DEF Load, Await, cacheVars, serviceVars, Sound, Honoured, TypeOK,
    CacheType, ServiceType, WindowType, CallType, Invalidating
<1>3. ASSUME NEW c \in Calls, LoadFails(c)
      PROVE  Sound'
  BY <1>3
    DEF LoadFails, End, Ending, Fault, cacheVars, serviceVars, Sound,
    Honoured, TypeOK, CacheType, ServiceType, WindowType, CallType,
    Invalidating, None
<1>4. ASSUME NEW c \in Calls, ReturnLoaded(c)
      PROVE  Sound'
  <2>1. \/ End(c, "absent")
        \/ held[c] # None /\ ~IsExpired(held[c]) /\ End(c, "got")
    BY <1>4 DEF ReturnLoaded
  <2>2. UNCHANGED <<cacheVars, serviceVars, leaving, signedIn, ends>>
    BY <1>4 DEF ReturnLoaded
  <2>3. CASE End(c, "absent")
    BY <2>2, <2>3, BoundsAssumption
      DEF End, Ending, cacheVars, serviceVars, callVars, Sound, Honoured,
      TypeOK, ServiceType, CallType, Invalidating, Tokens, None
  <2>4. CASE ~IsExpired(held[c]) /\ End(c, "got")
    BY <2>2, <2>4, BoundsAssumption
      DEF End, Ending, IsExpired, cacheVars, serviceVars, callVars, Sound,
      Honoured, TypeOK, ServiceType, CallType, Invalidating, Tokens, None
  <2> QED
    BY <2>1, <2>3, <2>4
<1>5. ASSUME NEW c \in Calls, JoinRefresh(c)
      PROVE  Sound'
  BY <1>5
    DEF JoinRefresh, Await, IsExpired, CanRefresh, RegIsExpired, cacheVars,
    serviceVars, Sound, Honoured, TypeOK, CacheType, ServiceType, WindowType,
    CallType, Invalidating
<1>6. ASSUME NEW c \in Calls, StartRefresh(c)
      PROVE  Sound'
  BY <1>6
    DEF StartRefresh, Await, IsExpired, CanRefresh, RegIsExpired, cacheVars,
    serviceVars, Sound, Honoured, TypeOK, CacheType, ServiceType, WindowType,
    CallType, Invalidating
<1>7. ASSUME NEW c \in Calls, GiveUp(c)
      PROVE  Sound'
  BY <1>7
    DEF GiveUp, Await, IsExpired, CanRefresh, RegIsExpired, Sound, Honoured,
    TypeOK, CacheType, ServiceType, WindowType, CallType, Tokens, Regs
<1>8. ASSUME NEW c \in Calls, RefreshIssued(c)
      PROVE  Sound'
  <2> SUFFICES ASSUME Honoured' PROVE Sound'
    BY DEF Sound
  <2>1. Honoured
    BY <1>8 DEF Honoured, RefreshIssued
  <2>2. held[c] \in 1..issued /\ issued \in 0..MaxTokens
    BY <1>8, <2>1
      DEF Sound, TypeOK, ServiceType, CallType, HoldsToken, RefreshIssued,
        Refreshing, Tokens, None
  <2>3. regOf[held[c]] # None
    BY <2>1, <2>2 DEF Sound
  <2>4. /\ issued' = issued + 1
        /\ accepted' = 1..issued' /\ refreshable' = 1..issued'
    BY <1>8, <2>1, <2>2 DEF Sound, Honoured, RefreshIssued, Issue
  <2>5. \A t \in 1..issued' : regOf'[t] # None
    BY <1>8, <2>1, <2>2, <2>3, <2>4, BoundsAssumption
      DEF Sound, RefreshIssued, Issue, TypeOK, ServiceType, Tokens
  <2>6. token' <= issued' /\ regExpired' = 0
    BY <1>8, <2>1, <2>2, <2>4
      DEF Sound, RefreshIssued, cacheVars, TypeOK, CacheType, Tokens, None
  <2>7. ASSUME NEW d \in Calls
        PROVE  /\ held'[d] <= issued'
               /\ pc'[d] \notin Invalidating \cup {"clear", "signOut"}
               /\ ~leaving'[d]
               /\ pc'[d] \in {"regSave", "authorize"} => client'[d] # None
    BY <1>8, <2>1, <2>2, <2>4
      DEF Sound, RefreshIssued, Issue, Await, TypeOK, CallType, Invalidating,
        Tokens, None
  <2> QED
    BY <2>4, <2>5, <2>6, <2>7 DEF Sound
<1>9. ASSUME NEW c \in Calls, RefreshRejected(c)
      PROVE  Sound'
  BY <1>9
    DEF RefreshRejected, Await, Sound, Honoured, TypeOK, CacheType,
    ServiceType, WindowType, CallType, HoldsToken, Refreshing, Tokens, Regs,
    None
<1>10. ASSUME NEW c \in Calls, RefreshFails(c)
      PROVE  Sound'
  BY <1>10
    DEF RefreshFails, Settle, Settled, Ending, Fault, cacheVars, Sound,
    Honoured, TypeOK, CacheType, ServiceType, WindowType, CallType,
    Invalidating, None
<1>11. ASSUME NEW c \in Calls, SaveRefreshed(c)
      PROVE  Sound'
  BY <1>11
    DEF SaveRefreshed, Settle, Settled, Ending, serviceVars, Sound, Honoured,
    TypeOK, CacheType, ServiceType, WindowType, CallType, Invalidating
<1>12. ASSUME NEW c \in Calls, SaveFails(c)
      PROVE  Sound'
  BY <1>12
    DEF SaveFails, Settle, Settled, Ending, Fault, cacheVars, serviceVars,
    Sound, Honoured, TypeOK, CacheType, ServiceType, WindowType, CallType,
    Invalidating, None
<1>13. ASSUME NEW c \in Calls, ClearRejected(c)
      PROVE  Sound'
  BY <1>13
    DEF ClearRejected, Settle, Settled, Ending, Sound, Honoured, TypeOK,
    CacheType, ServiceType, WindowType, CallType
<1>14. ASSUME NEW c \in Calls, ClearFails(c)
      PROVE  Sound'
  BY <1>14
    DEF ClearFails, Settle, Settled, Ending, Fault, Sound, Honoured, TypeOK,
    CacheType, ServiceType, WindowType, CallType
<1>15. ASSUME NEW c \in Calls, BeginLogout(c)
      PROVE  Sound'
  BY <1>15
    DEF BeginLogout, Await, Sound, Honoured, TypeOK, CacheType, ServiceType,
    WindowType, CallType
<1>16. ASSUME NEW c \in Calls, SignOut(c)
      PROVE  Sound'
  BY <1>16
    DEF SignOut, Await, Fault, Sound, Honoured, TypeOK, CacheType,
    ServiceType, WindowType, CallType
<1>17. ASSUME NEW c \in Calls, SignOutRejected(c)
      PROVE  Sound'
  BY <1>17
    DEF SignOutRejected, Await, IsExpired, Sound, Honoured, TypeOK, CacheType,
    ServiceType, WindowType, CallType, HoldsToken
<1>18. ASSUME NEW c \in Calls, BeginLogin(c)
      PROVE  Sound'
  BY <1>18
    DEF BeginLogin, Await, cacheVars, serviceVars, Sound, Honoured, TypeOK,
    CacheType, ServiceType, WindowType, CallType, Invalidating, None
<1>19. ASSUME NEW c \in Calls, RegLoad(c)
      PROVE  Sound'
  BY <1>19
    DEF RegLoad, Await, RegIsExpired, cacheVars, serviceVars, Sound, Honoured,
    TypeOK, CacheType, ServiceType, WindowType, CallType, Invalidating, Regs
<1>20. ASSUME NEW c \in Calls, RegReload(c)
      PROVE  Sound'
  BY <1>20
    DEF RegReload, Await, cacheVars, serviceVars, Sound, Honoured, TypeOK,
    CacheType, ServiceType, WindowType, CallType, Invalidating
<1>21. ASSUME NEW c \in Calls, RegisterClient(c)
      PROVE  Sound'
  BY <1>21
    DEF RegisterClient, Await, cacheVars, Sound, Honoured, TypeOK, CacheType,
    ServiceType, WindowType, CallType, Invalidating, None
<1>22. ASSUME NEW c \in Calls, RegSave(c)
      PROVE  Sound'
  BY <1>22
    DEF RegSave, Await, serviceVars, Sound, Honoured, TypeOK, CacheType,
    ServiceType, WindowType, CallType, Invalidating
<1>23. ASSUME NEW c \in Calls, Authorized(c)
      PROVE  Sound'
  <2> SUFFICES ASSUME Honoured' PROVE Sound'
    BY DEF Sound
  <2>1. Honoured
    BY <1>23 DEF Honoured, Authorized
  <2>2. issued \in 0..MaxTokens /\ client[c] # None
    BY <1>23, <2>1 DEF Sound, TypeOK, ServiceType, Authorized
  <2>3. /\ issued' = issued + 1
        /\ accepted' = 1..issued' /\ refreshable' = 1..issued'
    BY <1>23, <2>1, <2>2 DEF Sound, Honoured, Authorized, Issue
  <2>4. \A t \in 1..issued' : regOf'[t] # None
    <3>1. regOf' = [regOf EXCEPT ![issued + 1] = client[c]] /\ issued < MaxTokens
      BY <1>23 DEF Authorized, Issue
    <3>2. DOMAIN regOf = Tokens /\ \A t \in 1..issued : regOf[t] # None
      BY <2>1 DEF Sound, TypeOK, ServiceType
    <3>3. 1..issued' = 1..issued \cup {issued + 1} /\ 1..issued' \subseteq Tokens
      BY <2>2, <2>3, <3>1, BoundsAssumption DEF Tokens
    <3> QED
      BY <2>2, <3>1, <3>2, <3>3
  <2>5. token' <= issued' /\ regExpired' = 0
    BY <1>23, <2>1, <2>2, <2>3
      DEF Sound, Authorized, cacheVars, TypeOK, CacheType, Tokens, None
  <2>6. ASSUME NEW d \in Calls
        PROVE  /\ held'[d] <= issued'
               /\ pc'[d] \notin Invalidating \cup {"clear", "signOut"}
               /\ ~leaving'[d]
               /\ pc'[d] \in {"regSave", "authorize"} => client'[d] # None
    BY <1>23, <2>1, <2>2, <2>3
      DEF Sound, Authorized, Issue, Await, TypeOK, CallType, Invalidating,
        Tokens, None
  <2> QED
    BY <2>3, <2>4, <2>5, <2>6 DEF Sound
<1>24. ASSUME NEW c \in Calls, AuthorizeRejected(c)
      PROVE  Sound'
  BY <1>24
    DEF AuthorizeRejected, Await, Fault, cacheVars, serviceVars, Sound,
    Honoured, TypeOK, CacheType, ServiceType, WindowType, CallType,
    Invalidating
<1>25. ASSUME NEW c \in Calls, RegClear(c)
      PROVE  Sound'
  BY <1>25
    DEF RegClear, End, Ending, serviceVars, Sound, Honoured, TypeOK,
    CacheType, ServiceType, WindowType, CallType, Invalidating, None
<1>26. ASSUME NEW c \in Calls, LoginSave(c)
      PROVE  Sound'
  BY <1>26
    DEF LoginSave, End, Ending, serviceVars, Sound, Honoured, TypeOK,
    CacheType, ServiceType, WindowType, CallType, Invalidating
<1>27. ASSUME NEW c \in Calls, LoginFails(c)
      PROVE  Sound'
  BY <1>27
    DEF LoginFails, End, Ending, Fault, cacheVars, serviceVars, Sound,
    Honoured, TypeOK, CacheType, ServiceType, WindowType, CallType,
    Invalidating, None
<1>28. ASSUME NEW c \in Calls, NEW f \in Files, ClearFile(c, f)
      PROVE  Sound'
  BY <1>28
    DEF ClearFile, Await, End, Ending, Cleared, Fault, Sound, Honoured,
    TypeOK, CacheType, ServiceType, WindowType, CallType
<1>29. ASSUME NEW t \in Tokens, Expire(t)
      PROVE  Sound'
  BY <1>29
    DEF Expire, cacheVars, callVars, Sound, Honoured, TypeOK, CacheType,
    ServiceType, WindowType, CallType
<1>30. ASSUME NEW r \in Regs, ExpireRegistration(r)
      PROVE  Sound'
  BY <1>30
    DEF ExpireRegistration, Sound, Honoured, TypeOK, CacheType, ServiceType,
    WindowType, CallType
<1>31. ASSUME EndSession
      PROVE  Sound'
  BY <1>31
    DEF EndSession, Sound, Honoured, TypeOK, CacheType, ServiceType,
    WindowType, CallType
<1>32. ASSUME NEW w \in Windows, Reload(w)
      PROVE  Sound'
  BY <1>32
    DEF Reload, Lost, cacheVars, serviceVars, Sound, Honoured, TypeOK,
    CacheType, ServiceType, WindowType, CallType, Invalidating, None
<1>33. CASE UNCHANGED vars
  BY <1>33, BoundsAssumption, ServiceAssumption
    DEF vars, cacheVars, serviceVars, callVars, Sound, Honoured, TypeOK,
    CacheType, ServiceType, WindowType, CallType, HoldsToken, Refreshing,
    Invalidating, Login, Tokens, Regs, None
<1>34. QED
  BY <1>1, <1>2, <1>3, <1>4, <1>5, <1>6, <1>7, <1>8, <1>9, <1>10, <1>11,
  <1>12, <1>13, <1>14, <1>15, <1>16, <1>17, <1>18, <1>19, <1>20, <1>21, <1>22,
  <1>23, <1>24, <1>25, <1>26, <1>27, <1>28, <1>29, <1>30, <1>31, <1>32, <1>33
    DEF Next, GetToken, RefreshToken, Invalidate, CreateToken

\* Every step of an honoured session keeps the token.
LEMMA KeptStep ==
  ASSUME TypeOK, Sound, SessionKept, [Next]_vars
  PROVE  SessionKept'
<1>1. ASSUME NEW c \in Calls, BeginGet(c)
      PROVE  SessionKept'
  BY <1>1
    DEF BeginGet, Await, cacheVars, SessionKept, Sound, Honoured, TypeOK,
    CacheType, ServiceType, WindowType, CallType
<1>2. ASSUME NEW c \in Calls, Load(c)
      PROVE  SessionKept'
  BY <1>2
    DEF Load, Await, cacheVars, SessionKept, Sound, Honoured, TypeOK,
    CacheType, ServiceType, WindowType, CallType
<1>3. ASSUME NEW c \in Calls, LoadFails(c)
      PROVE  SessionKept'
  BY <1>3
    DEF LoadFails, End, Ending, Fault, cacheVars, SessionKept, Sound,
    Honoured, TypeOK, CacheType, ServiceType, WindowType, CallType
<1>4. ASSUME NEW c \in Calls, ReturnLoaded(c)
      PROVE  SessionKept'
  BY <1>4
    DEF ReturnLoaded, End, Ending, IsExpired, cacheVars, SessionKept, Sound,
    Honoured, TypeOK, CacheType, ServiceType, WindowType, CallType
<1>5. ASSUME NEW c \in Calls, JoinRefresh(c)
      PROVE  SessionKept'
  BY <1>5
    DEF JoinRefresh, Await, IsExpired, CanRefresh, RegIsExpired, cacheVars,
    SessionKept, Sound, Honoured, TypeOK, CacheType, ServiceType, WindowType,
    CallType
<1>6. ASSUME NEW c \in Calls, StartRefresh(c)
      PROVE  SessionKept'
  BY <1>6
    DEF StartRefresh, Await, IsExpired, CanRefresh, RegIsExpired, cacheVars,
    SessionKept, Sound, Honoured, TypeOK, CacheType, ServiceType, WindowType,
    CallType
<1>7. ASSUME NEW c \in Calls, GiveUp(c)
      PROVE  SessionKept'
  BY <1>7
    DEF GiveUp, Await, IsExpired, CanRefresh, RegIsExpired, cacheVars,
    SessionKept, Sound, Honoured, TypeOK, CacheType, ServiceType, WindowType,
    CallType
<1>8. ASSUME NEW c \in Calls, RefreshIssued(c)
      PROVE  SessionKept'
  BY <1>8
    DEF RefreshIssued, Await, Issue, cacheVars, SessionKept, Sound, Honoured,
    TypeOK, CacheType, ServiceType, WindowType, CallType
<1>9. ASSUME NEW c \in Calls, RefreshRejected(c)
      PROVE  SessionKept'
  BY <1>9
    DEF RefreshRejected, Await, cacheVars, SessionKept, Sound, Honoured,
    TypeOK, CacheType, ServiceType, WindowType, CallType
<1>10. ASSUME NEW c \in Calls, RefreshFails(c)
      PROVE  SessionKept'
  BY <1>10
    DEF RefreshFails, Settle, Settled, Ending, Fault, cacheVars, SessionKept,
    Sound, Honoured, TypeOK, CacheType, ServiceType, WindowType, CallType
<1>11. ASSUME NEW c \in Calls, SaveRefreshed(c)
      PROVE  SessionKept'
  BY <1>11
    DEF SaveRefreshed, Settle, Settled, Ending, SessionKept, Sound, Honoured,
    TypeOK, CacheType, ServiceType, WindowType, CallType, HoldsToken,
    Refreshing
<1>12. ASSUME NEW c \in Calls, SaveFails(c)
      PROVE  SessionKept'
  BY <1>12
    DEF SaveFails, Settle, Settled, Ending, Fault, cacheVars, SessionKept,
    Sound, Honoured, TypeOK, CacheType, ServiceType, WindowType, CallType
<1>13. ASSUME NEW c \in Calls, ClearRejected(c)
      PROVE  SessionKept'
  BY <1>13
    DEF ClearRejected, Settle, Settled, Ending, SessionKept, Sound, Honoured,
    TypeOK, CacheType, ServiceType, WindowType, CallType
<1>14. ASSUME NEW c \in Calls, ClearFails(c)
      PROVE  SessionKept'
  BY <1>14
    DEF ClearFails, Settle, Settled, Ending, Fault, SessionKept, Sound,
    Honoured, TypeOK, CacheType, ServiceType, WindowType, CallType
<1>15. ASSUME NEW c \in Calls, BeginLogout(c)
      PROVE  SessionKept'
  BY <1>15
    DEF BeginLogout, Await, SessionKept, Sound, Honoured, TypeOK, CacheType,
    ServiceType, WindowType, CallType
<1>16. ASSUME NEW c \in Calls, SignOut(c)
      PROVE  SessionKept'
  BY <1>16
    DEF SignOut, Await, Fault, SessionKept, Sound, Honoured, TypeOK,
    CacheType, ServiceType, WindowType, CallType
<1>17. ASSUME NEW c \in Calls, SignOutRejected(c)
      PROVE  SessionKept'
  BY <1>17
    DEF SignOutRejected, Await, IsExpired, SessionKept, Sound, Honoured,
    TypeOK, CacheType, ServiceType, WindowType, CallType, HoldsToken
<1>18. ASSUME NEW c \in Calls, BeginLogin(c)
      PROVE  SessionKept'
  BY <1>18
    DEF BeginLogin, Await, cacheVars, SessionKept, Sound, Honoured, TypeOK,
    CacheType, ServiceType, WindowType, CallType
<1>19. ASSUME NEW c \in Calls, RegLoad(c)
      PROVE  SessionKept'
  BY <1>19
    DEF RegLoad, Await, RegIsExpired, cacheVars, SessionKept, Sound, Honoured,
    TypeOK, CacheType, ServiceType, WindowType, CallType
<1>20. ASSUME NEW c \in Calls, RegReload(c)
      PROVE  SessionKept'
  BY <1>20
    DEF RegReload, Await, cacheVars, SessionKept, Sound, Honoured, TypeOK,
    CacheType, ServiceType, WindowType, CallType
<1>21. ASSUME NEW c \in Calls, RegisterClient(c)
      PROVE  SessionKept'
  BY <1>21
    DEF RegisterClient, Await, cacheVars, SessionKept, Sound, Honoured,
    TypeOK, CacheType, ServiceType, WindowType, CallType
<1>22. ASSUME NEW c \in Calls, RegSave(c)
      PROVE  SessionKept'
  BY <1>22
    DEF RegSave, Await, SessionKept, Sound, Honoured, TypeOK, CacheType,
    ServiceType, WindowType, CallType
<1>23. ASSUME NEW c \in Calls, Authorized(c)
      PROVE  SessionKept'
  BY <1>23
    DEF Authorized, Await, Issue, cacheVars, SessionKept, Sound, Honoured,
    TypeOK, CacheType, ServiceType, WindowType, CallType
<1>24. ASSUME NEW c \in Calls, AuthorizeRejected(c)
      PROVE  SessionKept'
  BY <1>24
    DEF AuthorizeRejected, Await, Fault, cacheVars, SessionKept, Sound,
    Honoured, TypeOK, CacheType, ServiceType, WindowType, CallType
<1>25. ASSUME NEW c \in Calls, RegClear(c)
      PROVE  SessionKept'
  BY <1>25
    DEF RegClear, End, Ending, SessionKept, Sound, Honoured, TypeOK,
    CacheType, ServiceType, WindowType, CallType
<1>26. ASSUME NEW c \in Calls, LoginSave(c)
      PROVE  SessionKept'
  BY <1>26
    DEF LoginSave, End, Ending, SessionKept, Sound, Honoured, TypeOK,
    CacheType, ServiceType, WindowType, CallType, HoldsToken
<1>27. ASSUME NEW c \in Calls, LoginFails(c)
      PROVE  SessionKept'
  BY <1>27
    DEF LoginFails, End, Ending, Fault, cacheVars, SessionKept, Sound,
    Honoured, TypeOK, CacheType, ServiceType, WindowType, CallType
<1>28. ASSUME NEW c \in Calls, NEW f \in Files, ClearFile(c, f)
      PROVE  SessionKept'
  BY <1>28
    DEF ClearFile, Await, End, Ending, Cleared, Fault, SessionKept, Sound,
    Honoured, TypeOK, CacheType, ServiceType, WindowType, CallType
<1>29. ASSUME NEW t \in Tokens, Expire(t)
      PROVE  SessionKept'
  BY <1>29
    DEF Expire, cacheVars, SessionKept, Sound, Honoured, TypeOK, CacheType,
    ServiceType, WindowType, CallType
<1>30. ASSUME NEW r \in Regs, ExpireRegistration(r)
      PROVE  SessionKept'
  BY <1>30
    DEF ExpireRegistration, SessionKept, Sound, Honoured, TypeOK, CacheType,
    ServiceType, WindowType, CallType
<1>31. ASSUME EndSession
      PROVE  SessionKept'
  BY <1>31
    DEF EndSession, SessionKept, Sound, Honoured, TypeOK, CacheType,
    ServiceType, WindowType, CallType
<1>32. ASSUME NEW w \in Windows, Reload(w)
      PROVE  SessionKept'
  BY <1>32
    DEF Reload, Lost, cacheVars, SessionKept, Sound, Honoured, TypeOK,
    CacheType, ServiceType, WindowType, CallType
<1>33. CASE UNCHANGED vars
  BY <1>33, BoundsAssumption
    DEF vars, cacheVars, serviceVars, callVars, SessionKept, Sound, Honoured,
    TypeOK, CacheType, ServiceType, WindowType, CallType, HoldsToken,
    Refreshing, Invalidating, Login, Tokens, None
<1>34. QED
  BY <1>1, <1>2, <1>3, <1>4, <1>5, <1>6, <1>7, <1>8, <1>9, <1>10, <1>11,
  <1>12, <1>13, <1>14, <1>15, <1>16, <1>17, <1>18, <1>19, <1>20, <1>21, <1>22,
  <1>23, <1>24, <1>25, <1>26, <1>27, <1>28, <1>29, <1>30, <1>31, <1>32, <1>33
    DEF Next, GetToken, RefreshToken, Invalidate, CreateToken

\* The parts hold together, from the start and after every step.
LEMMA Inductive == Spec => []IInv
<1>1. Init => IInv
  <2>1. Init => TypeOK
    BY InitType
  <2>2. Init => RefreshesInFlight
    BY DEF Init, RefreshesInFlight, Refreshing
  <2>3. Init => Fresh /\ NoStaleAnswer
    BY DEF Init, Fresh, NoStaleAnswer
  <2>4. Init => Sound /\ SessionKept
    BY DEF Init, Sound, SessionKept, Invalidating, None
  <2> QED
    BY <2>1, <2>2, <2>3, <2>4 DEF IInv
<1>2. IInv /\ [Next]_vars => IInv'
  BY TypeStep, InFlightStep, FreshStep, AnswerStep, SoundStep, KeptStep
    DEF IInv
<1>3. QED
  BY <1>1, <1>2, PTL DEF Spec

\* In every window at most one refresh is under way, refreshPromises names it,
\* and whoever waits for a refresh waits for one that is running.
THEOREM OneRefreshAtATime == Spec => []RefreshesInFlight
<1>1. IInv => RefreshesInFlight
  BY DEF IInv
<1>2. QED
  BY <1>1, Inductive, PTL

\* No call returns a token that had expired when the call began: not one from
\* the disk, nor the result of a refresh that another call had started.
THEOREM AnswersAreFresh == Spec => []NoStaleAnswer
<1>1. IInv => NoStaleAnswer
  BY DEF IInv
<1>2. QED
  BY <1>1, Inductive, PTL

\* As long as the service honours the session and nobody logs out, the cached
\* token survives any number of windows, calls, failures and reloads.
THEOREM HonouredSessionIsKept == Spec => []SessionKept
<1>1. IInv => SessionKept
  BY DEF IInv
<1>2. QED
  BY <1>1, Inductive, PTL

-----------------------------------------------------------------------------
(* The refreshes of a window are those of SingleFlight *)

\* The step leaves every refresh, and every call that waits for one, alone.
FlightKept ==
    /\ refreshing' = refreshing
    /\ \A d \in Calls : /\ pc'[d] \in Refreshing <=> pc[d] \in Refreshing
                        /\ pc'[d] = "join" <=> pc[d] = "join"

LEMMA KeptIsSame ==
  ASSUME FlightKept
  PROVE  \A w \in Windows : Flight!Step(w)
  BY DEF FlightKept, Flight!Step, Flight!Same

\* A step that moves one call, from outside the refresh or within it.
LEMMA MoveKeeps ==
  ASSUME TypeOK, NEW c \in Calls, NEW s, Await(c, s), refreshing' = refreshing,
         pc[c] # "join", s # "join", s \in Refreshing <=> pc[c] \in Refreshing
  PROVE  FlightKept
  BY DEF TypeOK, CallType, Await, FlightKept, Refreshing

LEMMA EndKeeps ==
  ASSUME TypeOK, NEW c \in Calls, NEW e \in {"got", "absent", "failed"}, End(c, e),
         refreshing' = refreshing, pc[c] \notin Refreshing \cup {"join"}
  PROVE  FlightKept
  BY DEF TypeOK, CallType, End, Ending, FlightKept, Refreshing

\* A refresh that ends leaves nobody waiting.
LEMMA SettleIsSettle ==
  ASSUME TypeOK, RefreshesInFlight, NEW c \in Calls, NEW e \in {"got", "failed"},
         pc[c] \in Refreshing, Settle(c, e)
  PROVE  \A w \in Windows : Flight!Step(w)
<1> SUFFICES ASSUME NEW w \in Windows PROVE Flight!Step(w)
  OBVIOUS
<1>1. refreshing[Win(c)] = c /\ c # NoCall /\ Win(c) \in Windows
  BY CallFacts DEF RefreshesInFlight
<1>2. \A d \in Calls : Ending(d, e) \notin Refreshing \cup {"join"}
  BY DEF Ending, Refreshing
<1>3. CASE w = Win(c)
  <2>1. \A d \in Calls : Win(d) = w => pc'[d] \notin Refreshing \cup {"join"}
    BY <1>1, <1>2, <1>3 DEF Settle, Settled, RefreshesInFlight
  <2>2. refreshing'[w] = NoCall /\ refreshing[w] # NoCall
    BY <1>1, <1>3 DEF Settle, TypeOK, WindowType
  <2>3. Flight!Settle(w)
    BY <2>1, <2>2 DEF Flight!Settle
  <2> QED
    BY <2>3 DEF Flight!Step
<1>4. CASE w # Win(c)
  <2>1. refreshing'[w] = refreshing[w]
    BY <1>4 DEF Settle, TypeOK, WindowType
  <2>2. \A d \in Calls : Win(d) = w => pc'[d] = pc[d]
    BY <1>4 DEF Settle, Settled
  <2>3. Flight!Same(w)
    BY <2>1, <2>2 DEF Flight!Same
  <2> QED
    BY <2>3 DEF Flight!Step
<1> QED
  BY <1>3, <1>4

LEMMA StartIsBegin ==
  ASSUME TypeOK, RefreshesInFlight, NEW c \in Calls, StartRefresh(c)
  PROVE  \A w \in Windows : Flight!Step(w)
<1> SUFFICES ASSUME NEW w \in Windows PROVE Flight!Step(w)
  OBVIOUS
<1>1. /\ refreshing[Win(c)] = NoCall /\ c # NoCall
      /\ refreshing' = [refreshing EXCEPT ![Win(c)] = c]
      /\ pc' = [pc EXCEPT ![c] = "oidc"] /\ pc[c] = "loaded"
  BY CallFacts DEF StartRefresh, Await
<1>2. CASE w = Win(c)
  <2>1. \A d \in Calls : Win(d) = w => pc[d] \notin Refreshing \cup {"join"}
    BY <1>1, <1>2, CallFacts DEF RefreshesInFlight
  <2>2. refreshing[w] = NoCall /\ refreshing'[w] # NoCall
    BY <1>1, <1>2 DEF TypeOK, WindowType
  <2>3. \A d \in Calls : /\ d = c => pc'[d] = "oidc"
                         /\ d # c => pc'[d] = pc[d]
    BY <1>1 DEF TypeOK, CallType
  <2>4. {d \in Calls : Win(d) = w /\ pc'[d] \in Refreshing} = {c}
    BY <1>2, <2>1, <2>3 DEF Refreshing
  <2>5. \A d \in Calls : Win(d) = w => pc'[d] # "join"
    BY <2>1, <2>3
  <2>6. Flight!Begin(w, c)
    BY <2>1, <2>2, <2>4, <2>5 DEF Flight!Begin
  <2> QED
    BY <2>6 DEF Flight!Step
<1>3. CASE w # Win(c)
  <2>1. refreshing'[w] = refreshing[w]
    BY <1>1, <1>3 DEF TypeOK, WindowType
  <2>2. \A d \in Calls : Win(d) = w => pc'[d] = pc[d]
    BY <1>1, <1>3 DEF TypeOK, CallType
  <2>3. Flight!Same(w)
    BY <2>1, <2>2 DEF Flight!Same
  <2> QED
    BY <2>3 DEF Flight!Step
<1> QED
  BY <1>2, <1>3

LEMMA JoinIsJoin ==
  ASSUME TypeOK, NEW c \in Calls, JoinRefresh(c)
  PROVE  \A w \in Windows : Flight!Step(w)
<1> SUFFICES ASSUME NEW w \in Windows PROVE Flight!Step(w)
  OBVIOUS
<1>1. /\ refreshing[Win(c)] # NoCall /\ refreshing' = refreshing
      /\ pc' = [pc EXCEPT ![c] = "join"] /\ pc[c] = "loaded"
  BY DEF JoinRefresh, Await
<1>2. \A d \in Calls : /\ d = c => pc'[d] = "join"
                       /\ d # c => pc'[d] = pc[d]
  BY <1>1 DEF TypeOK, CallType
<1>3. CASE w = Win(c)
  <2>1. /\ {d \in Calls : Win(d) = w /\ pc'[d] \in Refreshing} =
              {d \in Calls : Win(d) = w /\ pc[d] \in Refreshing}
        /\ c \notin {d \in Calls : Win(d) = w /\ pc[d] \in Refreshing}
    BY <1>1, <1>2 DEF Refreshing
  <2>2. {d \in Calls : Win(d) = w /\ pc'[d] = "join"} =
           {d \in Calls : Win(d) = w /\ pc[d] = "join"} \cup {c}
    BY <1>2, <1>3
  <2>3. Flight!Join(w, c)
    BY <1>1, <1>3, <2>1, <2>2 DEF Flight!Join
  <2> QED
    BY <2>3 DEF Flight!Step
<1>4. CASE w # Win(c)
  <2>1. Flight!Same(w)
    BY <1>1, <1>2, <1>4 DEF Flight!Same
  <2> QED
    BY <2>1 DEF Flight!Step
<1> QED
  BY <1>3, <1>4

\* A window that closes loses its refresh with the calls that wait for it.
LEMMA ReloadIsSettle ==
  ASSUME TypeOK, RefreshesInFlight, NEW v \in Windows, Reload(v)
  PROVE  \A w \in Windows : Flight!Step(w)
<1> SUFFICES ASSUME NEW w \in Windows PROVE Flight!Step(w)
  OBVIOUS
<1>1. /\ refreshing' = [refreshing EXCEPT ![v] = NoCall]
      /\ pc' = [d \in Calls |-> IF d \in Lost(v) THEN "failed" ELSE pc[d]]
  BY DEF Reload
<1>2. \A d \in Calls : /\ Win(d) = v => pc'[d] \notin Refreshing \cup {"join"}
                       /\ Win(d) # v => pc'[d] = pc[d]
  BY <1>1 DEF Lost, Refreshing
<1>3. CASE w = v /\ refreshing[w] # NoCall
  <2>1. refreshing'[w] = NoCall
    BY <1>1, <1>3 DEF TypeOK, WindowType
  <2>2. \A d \in Calls : Win(d) = w => pc'[d] \notin Refreshing \cup {"join"}
    BY <1>2, <1>3
  <2>3. Flight!Settle(w)
    BY <1>3, <2>1, <2>2 DEF Flight!Settle
  <2> QED
    BY <2>3 DEF Flight!Step
<1>4. CASE w = v /\ refreshing[w] = NoCall
  <2>1. \A d \in Calls : Win(d) = w => pc[d] \notin Refreshing \cup {"join"}
    BY <1>4, CallFacts DEF RefreshesInFlight
  <2>2. refreshing'[w] = NoCall
    BY <1>1, <1>4 DEF TypeOK, WindowType
  <2>3. \A d \in Calls : Win(d) = w => pc'[d] \notin Refreshing \cup {"join"}
    BY <1>2, <1>4
  <2>4. Flight!Same(w)
    BY <1>4, <2>1, <2>2, <2>3 DEF Flight!Same
  <2> QED
    BY <2>4 DEF Flight!Step
<1>5. CASE w # v
  <2>1. refreshing'[w] = refreshing[w]
    BY <1>1, <1>5 DEF TypeOK, WindowType
  <2>2. Flight!Same(w)
    BY <1>2, <1>5, <2>1 DEF Flight!Same
  <2> QED
    BY <2>2 DEF Flight!Step
<1> QED
  BY <1>3, <1>4, <1>5

LEMMA FlightStep ==
  ASSUME TypeOK, RefreshesInFlight, [Next]_vars
  PROVE  \A w \in Windows : Flight!Step(w)
<1>1. ASSUME NEW c \in Calls, BeginGet(c)
      PROVE  FlightKept
  BY <1>1, MoveKeeps
    DEF BeginGet, Refreshing, Login
<1>2. ASSUME NEW c \in Calls, Load(c)
      PROVE  FlightKept
  BY <1>2, MoveKeeps
    DEF Load, Refreshing, Login
<1>3. ASSUME NEW c \in Calls, LoadFails(c)
      PROVE  FlightKept
  BY <1>3, EndKeeps
    DEF LoadFails, Refreshing, Login
<1>4. ASSUME NEW c \in Calls, ReturnLoaded(c)
      PROVE  FlightKept
  BY <1>4, EndKeeps
    DEF ReturnLoaded, Refreshing, Login
<1>5. ASSUME NEW c \in Calls, GiveUp(c)
      PROVE  FlightKept
  BY <1>5, MoveKeeps
    DEF GiveUp, Refreshing, Login
<1>6. ASSUME NEW c \in Calls, RefreshIssued(c)
      PROVE  FlightKept
  BY <1>6, MoveKeeps
    DEF RefreshIssued, Refreshing, Login
<1>7. ASSUME NEW c \in Calls, RefreshRejected(c)
      PROVE  FlightKept
  BY <1>7, MoveKeeps
    DEF RefreshRejected, Refreshing, Login
<1>8. ASSUME NEW c \in Calls, BeginLogout(c)
      PROVE  FlightKept
  BY <1>8, MoveKeeps
    DEF BeginLogout, Refreshing, Login
<1>9. ASSUME NEW c \in Calls, SignOut(c)
      PROVE  FlightKept
  BY <1>9, MoveKeeps
    DEF SignOut, Refreshing, Login
<1>10. ASSUME NEW c \in Calls, SignOutRejected(c)
      PROVE  FlightKept
  BY <1>10, MoveKeeps
    DEF SignOutRejected, Refreshing, Login
<1>11. ASSUME NEW c \in Calls, BeginLogin(c)
      PROVE  FlightKept
  BY <1>11, MoveKeeps
    DEF BeginLogin, Refreshing, Login
<1>12. ASSUME NEW c \in Calls, RegLoad(c)
      PROVE  FlightKept
  BY <1>12, MoveKeeps
    DEF RegLoad, Refreshing, Login
<1>13. ASSUME NEW c \in Calls, RegReload(c)
      PROVE  FlightKept
  BY <1>13, MoveKeeps
    DEF RegReload, Refreshing, Login
<1>14. ASSUME NEW c \in Calls, RegisterClient(c)
      PROVE  FlightKept
  BY <1>14, MoveKeeps
    DEF RegisterClient, Refreshing, Login
<1>15. ASSUME NEW c \in Calls, RegSave(c)
      PROVE  FlightKept
  BY <1>15, MoveKeeps
    DEF RegSave, Refreshing, Login
<1>16. ASSUME NEW c \in Calls, Authorized(c)
      PROVE  FlightKept
  BY <1>16, MoveKeeps
    DEF Authorized, Refreshing, Login
<1>17. ASSUME NEW c \in Calls, AuthorizeRejected(c)
      PROVE  FlightKept
  BY <1>17, MoveKeeps
    DEF AuthorizeRejected, Refreshing, Login
<1>18. ASSUME NEW c \in Calls, RegClear(c)
      PROVE  FlightKept
  BY <1>18, EndKeeps
    DEF RegClear, Refreshing, Login
<1>19. ASSUME NEW c \in Calls, LoginSave(c)
      PROVE  FlightKept
  BY <1>19, EndKeeps
    DEF LoginSave, Refreshing, Login
<1>20. ASSUME NEW c \in Calls, LoginFails(c)
      PROVE  FlightKept
  BY <1>20, EndKeeps
    DEF LoginFails, Refreshing, Login
<1>21. ASSUME NEW c \in Calls, NEW f \in Files, ClearFile(c, f)
      PROVE  FlightKept
  BY <1>21
    DEF ClearFile, Cleared, Await, End, Ending, FlightKept, Refreshing,
      Invalidating, TypeOK, CallType
<1>22. CASE \/ \E t \in Tokens : Expire(t)
            \/ \E r \in Regs : ExpireRegistration(r)
            \/ EndSession \/ UNCHANGED vars
  <2>1. UNCHANGED <<refreshing, pc>>
    BY <1>22 DEF Expire, ExpireRegistration, EndSession, vars, callVars
  <2>2. FlightKept
    BY <2>1 DEF FlightKept
  <2> QED
    BY <2>2, KeptIsSame
<1>23. ASSUME NEW c \in Calls, RefreshFails(c)
      PROVE  \A w \in Windows : Flight!Step(w)
  BY <1>23, SettleIsSettle DEF RefreshFails, Refreshing
<1>24. ASSUME NEW c \in Calls, SaveRefreshed(c)
      PROVE  \A w \in Windows : Flight!Step(w)
  BY <1>24, SettleIsSettle DEF SaveRefreshed, Refreshing
<1>25. ASSUME NEW c \in Calls, SaveFails(c)
      PROVE  \A w \in Windows : Flight!Step(w)
  BY <1>25, SettleIsSettle DEF SaveFails, Refreshing
<1>26. ASSUME NEW c \in Calls, ClearRejected(c)
      PROVE  \A w \in Windows : Flight!Step(w)
  BY <1>26, SettleIsSettle DEF ClearRejected, Refreshing
<1>27. ASSUME NEW c \in Calls, ClearFails(c)
      PROVE  \A w \in Windows : Flight!Step(w)
  BY <1>27, SettleIsSettle DEF ClearFails, Refreshing
<1> QED
  BY <1>1, <1>2, <1>3, <1>4, <1>5, <1>6, <1>7, <1>8, <1>9, <1>10, <1>11, <1>12, <1>13, <1>14, <1>15, <1>16, <1>17, <1>18, <1>19, <1>20, <1>21, <1>22, <1>23, <1>24, <1>25, <1>26, <1>27,
    KeptIsSame, StartIsBegin, JoinIsJoin, ReloadIsSettle
    DEF Next, GetToken, RefreshToken, Invalidate, CreateToken

\* In every window the calls that need a refresh share one: the first does it, those
\* that come while it is under way wait for it, and when it has ended, failed or
\* been lost with the window, nobody waits on.
THEOREM RefreshesAreShared == Spec => RefreshShared
<1>1. Init => Flight!Init
  BY DEF Init, Flight!Init, Refreshing
<1>2. TypeOK /\ RefreshesInFlight /\ [Next]_vars => Flight!Next
  BY FlightStep DEF Flight!Next
<1>3. IInv => TypeOK /\ RefreshesInFlight
  BY DEF IInv
<1>4. QED
  BY <1>1, <1>2, <1>3, Inductive, PTL DEF Spec, RefreshShared, Flight!Spec

-----------------------------------------------------------------------------
(* What was cleared stays cleared *)

\* A call waits where it may with nobody signed in.
Outside(p, h) ==
    /\ p \in Stages \ (Login \cup Refreshing \cup {"registrationExpired"})
    /\ p = "loaded" => h = None

LEMMA OutStays ==
    ASSUME TypeOK, SignedOut, token' = None, NEW c \in Calls, Outside(pc'[c], held'[c]),
           \A d \in Calls : d # c => pc'[d] = pc[d] /\ held'[d] = held[d]
    PROVE  SignedOut'
BY DEF SignedOut, Outside

LEMMA SignedOutStep ==
    ASSUME TypeOK, SignedOut, [Next]_vars
    PROVE  SignedOut' \/ \E c \in Calls : BeginLogin(c)
<1> USE DEF TypeOK, CacheType, CallType
<1>1. ASSUME NEW c \in Calls, GetToken(c) PROVE SignedOut'
  <2>1. pc[c] = "load" \/ (pc[c] = "loaded" /\ held[c] = None)
    BY <1>1 DEF SignedOut, GetToken, Load, LoadFails, ReturnLoaded, JoinRefresh, StartRefresh, GiveUp
  <2>2. CASE Load(c)
    BY <2>2, OutStays DEF Load, Await, cacheVars, SignedOut, Outside, Stages, Login, Refreshing
  <2>3. CASE LoadFails(c) \/ ReturnLoaded(c)
    <3>1. PICK e \in {"failed", "absent"} : End(c, e)
      BY <2>1, <2>3 DEF LoadFails, ReturnLoaded
    <3>2. Ending(c, e) \in {"signOut", "failed", "absent"}
      BY DEF Ending
    <3>3. token' = None
      BY <2>3 DEF LoadFails, ReturnLoaded, cacheVars, SignedOut
    <3> QED
      BY <3>1, <3>2, <3>3, OutStays DEF End, Outside, Stages, Ended, Login, Refreshing
  <2> QED
    BY <1>1, <2>1, <2>2, <2>3 DEF GetToken, JoinRefresh, StartRefresh, GiveUp
<1>2. ASSUME NEW c \in Calls, RefreshToken(c) PROVE SignedOut'
  BY <1>2 DEF SignedOut, RefreshToken, RefreshIssued, RefreshRejected, RefreshFails,
     SaveRefreshed, SaveFails, ClearRejected, ClearFails, Refreshing
<1>3. ASSUME NEW c \in Calls, SignOut(c) \/ SignOutRejected(c) PROVE SignedOut'
  <2>1. PICK p \in {"explicit", "signOutRejected"} : Await(c, p)
    BY <1>3 DEF SignOut, SignOutRejected
  <2>2. token' = None /\ held' = held
    BY <1>3 DEF SignOut, SignOutRejected, cacheVars, SignedOut
  <2> QED
    BY <2>1, <2>2, OutStays DEF Await, Outside, Stages, Invalidating, Login, Refreshing
<1>4. ASSUME NEW c \in Calls, NEW f \in Files, ClearFile(c, f) PROVE SignedOut'
  <2>1. token' = None
    BY <1>4 DEF ClearFile, SignedOut, cacheVars
  <2>2. pc[c] \in {"allCacheExpired", "signOutRejected", "explicit"}
    BY <1>4 DEF ClearFile, SignedOut, Invalidating
  <2>3. CASE UNCHANGED <<pc, held>>
    BY <2>1, <2>3 DEF SignedOut
  <2>4. CASE Cleared(c)
    <3>1. CASE Await(c, "explicit") /\ held' = held
      BY <2>1, <3>1, OutStays DEF Await, Outside, Stages, Invalidating, Login, Refreshing
    <3>2. CASE End(c, "absent")
      <4>1. Ending(c, "absent") \in {"signOut", "absent"}
        BY DEF Ending
      <4> QED
        BY <2>1, <3>2, <4>1, OutStays DEF End, Outside, Stages, Ended, Login, Refreshing
    <3> QED
      BY <2>2, <2>4, <3>1, <3>2 DEF Cleared
  <2> QED
    BY <1>4, <2>3, <2>4 DEF ClearFile
<1>5. ASSUME NEW c \in Calls, CreateToken(c) PROVE SignedOut'
  BY <1>5 DEF SignedOut, CreateToken, RegLoad, RegReload, RegisterClient, RegSave,
     Authorized, AuthorizeRejected, RegClear, LoginSave, LoginFails, Login
<1>6. ASSUME NEW c \in Calls, BeginGet(c) \/ BeginLogout(c) PROVE SignedOut'
  <2>1. pc[c] = "new" /\ Await(c, "load") /\ token' = None
    BY <1>6 DEF BeginGet, BeginLogout, cacheVars, SignedOut
  <2>2. \A d \in Calls : d # c => held'[d] = held[d]
    BY <1>6 DEF BeginGet, BeginLogout
  <2> QED
    BY <2>1, <2>2, OutStays DEF Await, Outside, Stages, Login, Refreshing
<1>7. ASSUME NEW w \in Windows, Reload(w) PROVE SignedOut'
  BY <1>7 DEF Reload, SignedOut, cacheVars, Login, Refreshing
<1>8. CASE \/ \E t \in Tokens : Expire(t)
           \/ \E r \in Regs : ExpireRegistration(r)
           \/ EndSession
           \/ UNCHANGED vars
  BY <1>8 DEF Expire, ExpireRegistration, EndSession, SignedOut, vars, cacheVars, callVars
<1> QED
  BY <1>1, <1>2, <1>3, <1>4, <1>5, <1>6, <1>7, <1>8 DEF Next, Invalidate

\* Once the cache is cleared and no refresh that began before is in flight, no call of
\* any window brings a token back but a login (invalidate, refreshToken).
THEOREM SignOutHolds == Spec => StaysSignedOut
<1>1. TypeOK /\ [Next]_vars =>
        [SignedOut => SignedOut' \/ \E c \in Calls : BeginLogin(c)]_vars
  BY SignedOutStep
<1> QED
  BY <1>1, TypeInvariant, PTL DEF Spec, StaysSignedOut

=============================================================================
