-------------------------- MODULE InlineSessionProofs --------------------------
(***************************************************************************)
(* Theorems about InlineSession: the type invariant, that one request of   *)
(* the provider runs at a time and its session is not overridden, and that *)
(* the editing flag is never left behind; for any calls, and any bounds on *)
(* sessions and refreshes.                                                 *)
(***************************************************************************)
EXTENDS InlineSession, TLAPS

\* What the steps preserve together: NotOverridden rests on OneRequest.
IInv == TypeOK /\ OneRequest /\ NotOverridden /\ FlagIsHeld

\* No session has the number that stands for none.
LEMMA SessionFacts ==
    /\ None \notin Sessions
    /\ \A s \in Sessions : s \in Nat \ {0}
    /\ started \in 0..MaxSessions /\ started < MaxSessions
           => started + 1 \in Sessions /\ started + 1 \in 0..MaxSessions
BY InlineAssumption DEF None, Sessions

\* A finished request leaves its call and the ones that joined it idle, and what
\* the provider keeps in its type.
LEMMA FinishType ==
    ASSUME TypeOK, NEW c \in Calls, NEW s \in Sessions \cup {None}, Finish(c, s)
    PROVE  /\ pending' \in Calls \cup {NoCall}
           /\ pc' \in [Calls -> {"idle", "join"} \cup Running]
           /\ subject' \in [Calls -> Sessions \cup {None}]
           /\ latest' \in Calls \cup {NoCall}
           /\ shown' \in Sessions \cup {None}
BY DEF TypeOK, Finish

\* Once the one running call has finished, no call runs and none is waiting.
LEMMA FinishOne ==
    ASSUME TypeOK, OneRequest, NEW c \in Calls, NEW s \in Sessions \cup {None},
           pc[c] \in Running, Finish(c, s)
    PROVE  \A d \in Calls : pc'[d] = "idle"
BY DEF TypeOK, OneRequest, Finish, Running

\* A call that goes on keeps the provider's variables in their types.
LEMMA ContinueType ==
    ASSUME TypeOK, NEW c \in Calls, NEW s \in Sessions \cup {None},
           NEW nonEmpty \in BOOLEAN, Continue(c, s, nonEmpty)
    PROVE  /\ pending' \in Calls \cup {NoCall}
           /\ pc' \in [Calls -> {"idle", "join"} \cup Running]
           /\ subject' \in [Calls -> Sessions \cup {None}]
           /\ latest' \in Calls \cup {NoCall}
           /\ shown' \in Sessions \cup {None}
<1>1. CASE nonEmpty
  BY <1>1 DEF TypeOK, Continue, screenVars, Running
<1>2. CASE ~nonEmpty
  <2>1. None \in Sessions \cup {None} /\ Finish(c, None)
    BY <1>2 DEF Continue
  <2> QED BY <2>1, FinishType
<1> QED BY <1>1, <1>2

\* Types: one case per action.
LEMMA TypeStep == IInv /\ [Next]_vars => TypeOK'
<1> SUFFICES ASSUME IInv, [Next]_vars PROVE TypeOK'
  OBVIOUS
<1> USE DEF IInv, sessionVars, providerVars, commandVars, screenVars
<1>1. CASE UNCHANGED vars
  BY <1>1 DEF vars, TypeOK
<1>2. ASSUME NEW c \in Calls, Provide(c) PROVE TypeOK'
  BY <1>2 DEF Provide, TypeOK, Running
<1>3. ASSUME NEW c \in Calls, Reuse(c) PROVE TypeOK'
  <2>1. active \in Sessions \cup {None} /\ Finish(c, active)
    BY <1>3 DEF Reuse, TypeOK
  <2> QED BY <1>3, <2>1, FinishType DEF Reuse, TypeOK
<1>4. ASSUME NEW c \in Calls, ImplicitReject(c) PROVE TypeOK'
  <2>1. None \in Sessions \cup {None} /\ Finish(c, None)
    BY <1>4 DEF ImplicitReject
  <2>2. active \in Sessions
    BY <1>4 DEF ImplicitReject, HasItems, TypeOK
  <2> QED BY <1>4, <2>1, <2>2, FinishType DEF ImplicitReject, Clear, TypeOK
<1>5. ASSUME NEW c \in Calls, Ask(c) PROVE TypeOK'
  BY <1>5 DEF Ask, TypeOK, Running
<1>6. ASSUME NEW c \in Calls, NEW full \in BOOLEAN, NEW more \in BOOLEAN,
             Answer(c, full, more)
      PROVE  TypeOK'
  <2>1. started + 1 \in Sessions /\ started + 1 \in 0..MaxSessions
    BY <1>6, SessionFacts DEF Answer, TypeOK
  <2>2. Continue(c, started + 1, full)
    BY <1>6 DEF Answer
  <2> QED BY <1>6, <2>1, <2>2, ContinueType DEF Answer, TypeOK
<1>7. ASSUME NEW c \in Calls, AnswerFails(c) PROVE TypeOK'
  <2>1. active \in Sessions \cup {None} /\ Continue(c, active, HasItems(active))
    BY <1>7 DEF AnswerFails, TypeOK
  <2>2. HasItems(active) \in BOOLEAN
    BY DEF HasItems
  <2>3. /\ pending' \in Calls \cup {NoCall}
        /\ pc' \in [Calls -> {"idle", "join"} \cup Running]
        /\ subject' \in [Calls -> Sessions \cup {None}]
        /\ latest' \in Calls \cup {NoCall}
        /\ shown' \in Sessions \cup {None}
    BY <2>1, <2>2, ContinueType
  <2> QED BY <1>7, <2>3 DEF AnswerFails, TypeOK
<1>8. ASSUME NEW c \in Calls, Present(c) PROVE TypeOK'
  <2>1. subject[c] \in Sessions \cup {None} /\ Finish(c, subject[c])
    BY <1>8 DEF Present, TypeOK
  <2> QED BY <1>8, <2>1, FinishType DEF Present, TypeOK
<1>9. ASSUME NEW c \in Calls, Discard(c) PROVE TypeOK'
  <2>1. None \in Sessions \cup {None} /\ Finish(c, None)
    BY <1>9 DEF Discard
  <2> QED BY <1>9, <2>1, FinishType DEF Discard, Clear, TypeOK
<1>10. ASSUME NEW s \in Sessions, Paginate(s) PROVE TypeOK'
  <2>1. ASSUME NEW full \in BOOLEAN, NEW more \in BOOLEAN, Page(s, full, more)
        PROVE  TypeOK'
    BY <1>10, <2>1 DEF Page, EndPaging, TypeOK
  <2>2. ASSUME PageIgnored(s) PROVE TypeOK'
    BY <2>2 DEF PageIgnored, EndPaging, TypeOK
  <2>3. ASSUME PageFails(s) PROVE TypeOK'
    BY <2>3 DEF PageFails, TypeOK
  <2> QED BY <1>10, <2>1, <2>2, <2>3 DEF Paginate
<1>11. ASSUME NEW s \in Sessions, Accept(s) PROVE TypeOK'
  BY <1>11 DEF Accept, TypeOK
<1>12. ASSUME NEW s \in Sessions, Acceptance(s) PROVE TypeOK'
  BY <1>12 DEF Acceptance, AcceptEdit, AcceptDone, AcceptFails, Clear, TypeOK
<1>13. ASSUME Reject PROVE TypeOK'
  BY <1>13 DEF Reject, TypeOK
<1>14. ASSUME NEW s \in Sessions, RejectDone(s) PROVE TypeOK'
  BY <1>14 DEF RejectDone, Clear, TypeOK
<1>15. ASSUME Refresh PROVE TypeOK'
  <2>1. /\ active \in Sessions
        /\ refreshing[active] + 1 \in 0..MaxRefreshes
    BY <1>15, InlineAssumption DEF Refresh, TypeOK
  <2> QED BY <1>15, <2>1 DEF Refresh, TypeOK
<1>16. ASSUME NEW s \in Sessions, RefreshDone(s) PROVE TypeOK'
  <2>1. refreshing[s] - 1 \in 0..MaxRefreshes
    BY <1>16, InlineAssumption DEF RefreshDone, TypeOK
  <2> QED BY <1>16, <2>1 DEF RefreshDone, TypeOK
<1>17. ASSUME Type PROVE TypeOK'
  BY <1>17 DEF Type, TypeOK
<1> QED
  BY <1>1, <1>2, <1>3, <1>4, <1>5, <1>6, <1>7, <1>8, <1>9, <1>10, <1>11, <1>12,
     <1>13, <1>14, <1>15, <1>16, <1>17 DEF Next, Impl

\* A finished request leaves nobody to answer.
LEMMA FinishIsOne ==
    ASSUME TypeOK, OneRequest, NEW c \in Calls, NEW s \in Sessions \cup {None},
           pc[c] \in Running, Finish(c, s)
    PROVE  OneRequest' /\ NotOverridden'
<1>1. /\ \A d \in Calls : pc'[d] = "idle"
      /\ pending' = NoCall /\ NoCall \notin Calls
  BY FinishOne, InlineAssumption DEF Finish
<1> QED BY <1>1 DEF OneRequest, NotOverridden, Running

\* A call that goes on is the only one, and the active session is the one it is
\* about.
LEMMA ContinueIsOne ==
    ASSUME TypeOK, OneRequest, NEW c \in Calls, NEW s \in Sessions \cup {None},
           NEW nonEmpty \in BOOLEAN, pc[c] = "request",
           Continue(c, s, nonEmpty), active' = s
    PROVE  OneRequest' /\ NotOverridden'
<1>1. CASE nonEmpty
  <2>1. \A d \in Calls : d # c => pc[d] \notin Running
    BY DEF OneRequest, Running
  <2>2. /\ pc' = [pc EXCEPT ![c] = "delay"] /\ pending' = pending
        /\ subject' = [subject EXCEPT ![c] = s]
    BY <1>1 DEF Continue
  <2>3. OneRequest'
    BY <2>2 DEF OneRequest, TypeOK, Running
  <2>4. NotOverridden'
    BY <2>1, <2>2 DEF NotOverridden, TypeOK, Running
  <2> QED BY <2>3, <2>4
<1>2. CASE ~nonEmpty
  <2>1. None \in Sessions \cup {None} /\ Finish(c, None) /\ pc[c] \in Running
    BY <1>2 DEF Continue, Running
  <2> QED BY <2>1, FinishIsOne
<1> QED BY <1>1, <1>2

\* One request at a time, and its session not overridden: one case per action
\* that moves a call or changes the active session.
LEMMA RequestStep == IInv /\ [Next]_vars => OneRequest' /\ NotOverridden'
<1> SUFFICES ASSUME IInv, [Next]_vars PROVE OneRequest' /\ NotOverridden'
  OBVIOUS
<1> USE DEF IInv, sessionVars, providerVars, commandVars, screenVars
<1>1. CASE UNCHANGED vars
  BY <1>1 DEF vars, OneRequest, NotOverridden
<1>2. ASSUME NEW c \in Calls, Provide(c) PROVE OneRequest' /\ NotOverridden'
  BY <1>2, InlineAssumption DEF Provide, TypeOK, OneRequest, NotOverridden, Running
<1>3. ASSUME NEW c \in Calls, Reuse(c) PROVE OneRequest' /\ NotOverridden'
  <2>1. /\ active \in Sessions \cup {None} /\ Finish(c, active)
        /\ pc[c] \in Running
    BY <1>3 DEF Reuse, TypeOK, Running
  <2> QED BY <2>1, FinishIsOne
<1>4. ASSUME NEW c \in Calls, ImplicitReject(c) \/ Discard(c)
      PROVE  OneRequest' /\ NotOverridden'
  <2>1. /\ None \in Sessions \cup {None} /\ Finish(c, None)
        /\ pc[c] \in Running
    BY <1>4 DEF ImplicitReject, Discard, Running
  <2> QED BY <2>1, FinishIsOne
<1>5. ASSUME NEW c \in Calls, Ask(c) PROVE OneRequest' /\ NotOverridden'
  BY <1>5 DEF Ask, TypeOK, OneRequest, NotOverridden, Running
<1>6. ASSUME NEW c \in Calls, NEW full \in BOOLEAN, NEW more \in BOOLEAN,
             Answer(c, full, more)
      PROVE  OneRequest' /\ NotOverridden'
  <2>1. /\ started + 1 \in Sessions /\ active' = started + 1
        /\ Continue(c, started + 1, full) /\ pc[c] = "request"
    BY <1>6, SessionFacts DEF Answer, TypeOK
  <2> QED BY <2>1, ContinueIsOne
<1>7. ASSUME NEW c \in Calls, AnswerFails(c) PROVE OneRequest' /\ NotOverridden'
  <2>1. /\ active \in Sessions \cup {None} /\ active' = active
        /\ Continue(c, active, HasItems(active)) /\ pc[c] = "request"
    BY <1>7 DEF AnswerFails, TypeOK
  <2>2. HasItems(active) \in BOOLEAN
    BY DEF HasItems
  <2> QED BY <2>1, <2>2, ContinueIsOne
<1>8. ASSUME NEW c \in Calls, Present(c) PROVE OneRequest' /\ NotOverridden'
  <2>1. /\ subject[c] \in Sessions \cup {None} /\ Finish(c, subject[c])
        /\ pc[c] \in Running
    BY <1>8 DEF Present, TypeOK, Running
  <2> QED BY <2>1, FinishIsOne
<1>9. ASSUME UNCHANGED providerVars, active' \in {active, None}
      PROVE  OneRequest' /\ NotOverridden'
  BY <1>9 DEF OneRequest, NotOverridden
<1>10. ASSUME NEW s \in Sessions, Paginate(s)
       PROVE  UNCHANGED providerVars /\ active' = active
  BY <1>10 DEF Paginate, Page, PageIgnored, PageFails
<1>11. ASSUME NEW s \in Sessions, Accept(s) \/ Acceptance(s) \/ RejectDone(s)
       PROVE  UNCHANGED providerVars /\ active' \in {active, None}
  BY <1>11 DEF Accept, Acceptance, AcceptEdit, AcceptDone, AcceptFails,
               RejectDone, Clear
<1>12. ASSUME Reject \/ Refresh \/ Type \/ \E s \in Sessions : RefreshDone(s)
       PROVE  UNCHANGED providerVars /\ active' = active
  BY <1>12 DEF Reject, Refresh, RefreshDone, Type
<1> QED
  BY <1>1, <1>2, <1>3, <1>4, <1>5, <1>6, <1>7, <1>8, <1>9, <1>10, <1>11, <1>12
     DEF Next, Impl

\* The flag: a step that sets it leaves a command under way, and one that ends
\* the last command resets it.
LEMMA FlagStep == IInv /\ [Next]_vars => FlagIsHeld'
<1> SUFFICES ASSUME IInv, [Next]_vars PROVE FlagIsHeld'
  OBVIOUS
<1> USE DEF IInv, sessionVars, providerVars, commandVars, screenVars, FlagIsHeld
<1>1. CASE UNCHANGED vars
  BY <1>1 DEF vars
<1>2. ASSUME NEW c \in Calls, Provide(c) \/ Impl(c) PROVE FlagIsHeld'
  BY <1>2 DEF Provide, Impl, Reuse, ImplicitReject, Ask, Answer, AnswerFails,
              Present, Discard
<1>3. ASSUME NEW s \in Sessions, Paginate(s) PROVE FlagIsHeld'
  BY <1>3 DEF Paginate, Page, PageIgnored, PageFails
<1>4. ASSUME NEW s \in Sessions, Accept(s) PROVE FlagIsHeld'
  <2>1. accepting'[s] = "sleep"
    BY <1>4 DEF Accept, TypeOK
  <2> QED BY <2>1
<1>5. ASSUME NEW s \in Sessions, Acceptance(s) PROVE FlagIsHeld'
  <2>1. CASE AcceptEdit(s)
    <3>1. accepting'[s] = "edit"
      BY <2>1 DEF AcceptEdit, TypeOK
    <3> QED BY <3>1
  <2>2. CASE AcceptDone(s) \/ AcceptFails(s)
    BY <2>2 DEF AcceptDone, AcceptFails
  <2> QED BY <1>5, <2>1, <2>2 DEF Acceptance
<1>6. ASSUME NEW s \in Sessions, RejectDone(s) PROVE FlagIsHeld'
  BY <1>6 DEF RejectDone
<1>7. ASSUME Reject PROVE FlagIsHeld'
  BY <1>7 DEF Reject
<1>8. ASSUME Refresh \/ Type \/ \E s \in Sessions : RefreshDone(s)
      PROVE  FlagIsHeld'
  BY <1>8 DEF Refresh, RefreshDone, Type
<1> QED BY <1>1, <1>2, <1>3, <1>4, <1>5, <1>6, <1>7, <1>8 DEF Next

LEMMA InitIInv == Init => IInv
<1> SUFFICES ASSUME Init PROVE IInv
  OBVIOUS
<1>1. TypeOK
  <2>1. 0 \in 0..MaxSessions /\ 0 \in 0..MaxRefreshes
    BY InlineAssumption
  <2>2. /\ items \in [Sessions -> SUBSET Sessions]
        /\ open \in [Sessions -> BOOLEAN]
    BY DEF Init
  <2>3. /\ pc \in [Calls -> {"idle", "join"} \cup Running]
        /\ subject \in [Calls -> Sessions \cup {None}]
        /\ accepting \in [Sessions -> {"no", "sleep", "edit"}]
        /\ refreshing \in [Sessions -> 0..MaxRefreshes]
    BY <2>1 DEF Init
  <2> QED BY <2>1, <2>2, <2>3 DEF Init, TypeOK
<1>2. OneRequest
  BY InlineAssumption DEF Init, OneRequest, Running
<1>3. NotOverridden /\ FlagIsHeld
  BY DEF Init, NotOverridden, FlagIsHeld
<1> QED BY <1>1, <1>2, <1>3 DEF IInv

LEMMA IInvInvariant == Spec => []IInv
<1>1. IInv /\ [Next]_vars => IInv'
  BY TypeStep, RequestStep, FlagStep DEF IInv
<1> QED BY InitIInv, <1>1, PTL DEF Spec

\* Every variable keeps its type.
THEOREM TypeInvariant == Spec => []TypeOK
<1>1. IInv => TypeOK
  BY DEF IInv
<1> QED BY IInvInvariant, <1>1, PTL

\* However many calls VS Code makes, one of them runs at a time: pendingRequest
\* (completion.ts:311) is its promise, and the others await that.
THEOREM OneRequestAtATime == Spec => []OneRequest
<1>1. IInv => OneRequest
  BY DEF IInv
<1> QED BY IInvInvariant, <1>1, PTL

\* The session a call is about to return to VS Code is not replaced by another
\* one before the call returns.
THEOREM SessionNotOverridden == Spec => []NotOverridden
<1>1. IInv => NotOverridden
  BY DEF IInv
<1> QED BY IInvInvariant, <1>1, PTL

\* Whenever isCodeWhispererEditing is set, a command is under way that resets it.
THEOREM FlagNeverLeft == Spec => []FlagIsHeld
<1>1. IInv => FlagIsHeld
  BY DEF IInv
<1> QED BY IInvInvariant, <1>1, PTL

-----------------------------------------------------------------------------
(* The request of the provider is one of SingleFlight *)

\* A step that starts, joins and ends no call.
LEMMA OthersShare ==
    ASSUME pending' = pending,
           \A c \in Calls : /\ pc'[c] \in Running <=> pc[c] \in Running
                            /\ pc'[c] = "join" <=> pc[c] = "join"
    PROVE  Flight!Step("request")
  BY DEF Flight!Step, Flight!Same

\* The call that had the request returns, and takes those that waited with it.
LEMMA FinishIsSettle ==
    ASSUME TypeOK, OneRequest, NEW c \in Calls, NEW s \in Sessions \cup {None},
           pc[c] \in Running, Finish(c, s)
    PROVE  Flight!Step("request")
<1>1. /\ \A d \in Calls : pc'[d] = "idle"
      /\ pending' = NoCall
  BY FinishOne DEF Finish
<1>2. pending # NoCall
  BY InlineAssumption DEF OneRequest
<1>3. Flight!Settle("request")
  BY <1>1, <1>2 DEF Flight!Settle, Running
<1> QED BY <1>3 DEF Flight!Step

LEMMA ProvideShares ==
    ASSUME TypeOK, OneRequest, NEW c \in Calls, Provide(c)
    PROVE  Flight!Step("request")
<1>1. c # NoCall
  BY InlineAssumption
<1>2. CASE pending # NoCall
  <2>1. /\ pc' = [pc EXCEPT ![c] = "join"] /\ pending' = pending
        /\ pc[c] = "idle"
    BY <1>2 DEF Provide, providerVars
  <2>2. \A d \in Calls : /\ d = c => pc'[d] = "join"
                         /\ d # c => pc'[d] = pc[d]
    BY <2>1 DEF TypeOK
  <2>3. {d \in Calls : pc'[d] \in Running} = {d \in Calls : pc[d] \in Running}
    BY <2>1, <2>2 DEF Running
  <2>4. {d \in Calls : pc'[d] = "join"} = {d \in Calls : pc[d] = "join"} \cup {c}
    BY <2>2
  <2>5. c \notin {d \in Calls : pc[d] \in Running}
    BY <2>1 DEF Running
  <2>6. Flight!Join("request", c)
    BY <1>2, <2>1, <2>3, <2>4, <2>5 DEF Flight!Join
  <2> QED BY <2>6 DEF Flight!Step
<1>3. CASE pending = NoCall /\ editing
  <2>1. UNCHANGED providerVars
    BY <1>3 DEF Provide
  <2> QED BY <2>1, OthersShare DEF providerVars
<1>4. CASE pending = NoCall /\ ~editing
  <2>1. /\ pc' = [pc EXCEPT ![c] = "sleep"] /\ pending' = c
    BY <1>4 DEF Provide, providerVars
  <2>2. \A d \in Calls : /\ d = c => pc'[d] = "sleep"
                         /\ d # c => pc'[d] = pc[d]
    BY <2>1 DEF TypeOK
  <2>3. \A d \in Calls : pc[d] \notin Running \cup {"join"}
    BY <1>4, InlineAssumption DEF OneRequest
  <2>4. {d \in Calls : pc'[d] \in Running} = {c}
    BY <2>2, <2>3 DEF Running
  <2>5. \A d \in Calls : pc'[d] # "join"
    BY <2>2, <2>3
  <2>6. Flight!Begin("request", c)
    BY <1>1, <1>4, <2>1, <2>3, <2>4, <2>5 DEF Flight!Begin
  <2> QED BY <2>6 DEF Flight!Step
<1> QED BY <1>2, <1>3, <1>4

\* A call that goes on, or returns for want of suggestions.
LEMMA ContinueShares ==
    ASSUME TypeOK, OneRequest, NEW c \in Calls, NEW s \in Sessions \cup {None},
           NEW nonEmpty \in BOOLEAN, pc[c] = "request", Continue(c, s, nonEmpty)
    PROVE  Flight!Step("request")
<1>1. CASE nonEmpty
  <2>1. pc' = [pc EXCEPT ![c] = "delay"] /\ pending' = pending
    BY <1>1 DEF Continue
  <2> QED BY <2>1, OthersShare DEF TypeOK, Running
<1>2. CASE ~nonEmpty
  <2>1. None \in Sessions \cup {None} /\ Finish(c, None) /\ pc[c] \in Running
    BY <1>2 DEF Continue, Running
  <2> QED BY <2>1, FinishIsSettle
<1> QED BY <1>1, <1>2

LEMMA FlightStep == IInv /\ [Next]_vars => Flight!Step("request")
<1> SUFFICES ASSUME IInv, [Next]_vars PROVE Flight!Step("request")
  OBVIOUS
<1> USE DEF IInv
<1>1. ASSUME UNCHANGED providerVars PROVE Flight!Step("request")
  BY <1>1, OthersShare DEF providerVars
<1>2. ASSUME NEW c \in Calls, Provide(c) PROVE Flight!Step("request")
  BY <1>2, ProvideShares
<1>3. ASSUME NEW c \in Calls, Ask(c) PROVE Flight!Step("request")
  <2>1. pc' = [pc EXCEPT ![c] = "request"] /\ pending' = pending /\ pc[c] = "sleep"
    BY <1>3 DEF Ask
  <2> QED BY <2>1, OthersShare DEF TypeOK, Running
<1>4. ASSUME NEW c \in Calls, Reuse(c) \/ ImplicitReject(c) \/ Present(c) \/ Discard(c)
      PROVE  Flight!Step("request")
  <2>1. PICK s \in Sessions \cup {None} : Finish(c, s)
    BY <1>4 DEF Reuse, ImplicitReject, Present, Discard, TypeOK
  <2>2. pc[c] \in Running
    BY <1>4 DEF Reuse, ImplicitReject, Present, Discard, Running
  <2> QED BY <2>1, <2>2, FinishIsSettle
<1>5. ASSUME NEW c \in Calls, NEW full \in BOOLEAN, NEW more \in BOOLEAN,
             Answer(c, full, more)
      PROVE  Flight!Step("request")
  <2>1. /\ started + 1 \in Sessions /\ pc[c] = "request"
        /\ Continue(c, started + 1, full)
    BY <1>5, SessionFacts DEF Answer, TypeOK
  <2> QED BY <2>1, ContinueShares
<1>6. ASSUME NEW c \in Calls, AnswerFails(c) PROVE Flight!Step("request")
  <2>1. /\ active \in Sessions \cup {None} /\ pc[c] = "request"
        /\ Continue(c, active, HasItems(active))
    BY <1>6 DEF AnswerFails, TypeOK
  <2>2. HasItems(active) \in BOOLEAN
    BY DEF HasItems
  <2> QED BY <2>1, <2>2, ContinueShares
<1>7. ASSUME NEW s \in Sessions,
             Paginate(s) \/ Accept(s) \/ Acceptance(s) \/ RejectDone(s) \/ RefreshDone(s)
      PROVE  UNCHANGED providerVars
  BY <1>7 DEF Paginate, Page, PageIgnored, PageFails, Accept, Acceptance,
              AcceptEdit, AcceptDone, AcceptFails, RejectDone, RefreshDone
<1>8. ASSUME Reject \/ Refresh \/ Type PROVE UNCHANGED providerVars
  BY <1>8 DEF Reject, Refresh, Type
<1>9. CASE UNCHANGED vars
  BY <1>1, <1>9 DEF vars
<1> QED
  BY <1>1, <1>2, <1>3, <1>4, <1>5, <1>6, <1>7, <1>8, <1>9 DEF Next, Impl

\* VS Code's calls share one request to the language server: the call that finds no
\* pendingRequest makes it, the calls that find one wait for it and return with it,
\* and no request begins while another is under way.
THEOREM RequestsAreShared == Spec => RequestShared
<1>1. Init => Flight!Init
  BY DEF Init, Flight!Init, Running
<1>2. IInv /\ [Next]_vars => Flight!Next
  BY FlightStep DEF Flight!Next
<1> QED BY <1>1, <1>2, IInvInvariant, PTL DEF Spec, RequestShared, Flight!Spec
=============================================================================
