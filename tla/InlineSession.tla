---------------------------- MODULE InlineSession -----------------------------
(***************************************************************************)
(* Inline completions of the Amazon Q extension: packages/amazonq/src/app/ *)
(* inline/completion.ts, recommendationService.ts and sessionManager.ts.   *)
(*                                                                         *)
(* VS Code asks the provider for completions as the user types, and shows  *)
(* the answer to its last call.  The provider reuses the active session or *)
(* asks the language server for a new one, whose further pages arrive in   *)
(* the background; the commands that accept and reject a suggestion end    *)
(* the session.  All of them share the SessionManager and the flag         *)
(* vsCodeState.isCodeWhispererEditing, and a step is what runs between two *)
(* awaits.                                                                 *)
(*                                                                         *)
(* Sessions are numbered in the order they start.  Whether typed text      *)
(* matches a suggestion is a choice, and the reports to the language       *)
(* server are left out.  The server offers completions, no edits, and the  *)
(* connection is valid.                                                    *)
(***************************************************************************)
EXTENDS Integers

CONSTANTS
    Calls,        \* calls of provideInlineCompletionItems under way at once
    NoCall,       \* no call
    MaxSessions,  \* bound: sessions started
    MaxRefreshes, \* bound: refreshes of a session at once
    Fails         \* requests and edits may fail

ASSUME InlineAssumption ==
    /\ NoCall \notin Calls
    /\ MaxSessions \in Nat /\ MaxRefreshes \in Nat
    /\ Fails \in BOOLEAN

VARIABLES
    \* SessionManager
    active,     \* activeSession
    items,      \* items[s]: sessions whose suggestions the list of s holds
    open,       \* open[s]: isRequestInProgress
    refreshed,  \* _refreshedSessions
    started,    \* sessions started so far
    paging,     \* sessions whose processRemainingRequests awaits a page
    \* the provider
    pending,    \* call that pendingRequest belongs to
    pc,         \* what a call awaits
    subject,    \* session whose suggestions a call is about to return
    \* the commands
    editing,    \* vsCodeState.isCodeWhispererEditing
    accepting,  \* accepting[s]: stage of the acceptance of a suggestion of s
    rejecting,  \* sessions whose rejection awaits the hiding of the suggestion
    refreshing, \* refreshes of a session that await the commands they run
    \* VS Code
    latest,     \* the last call, unless its token is cancelled
    shown       \* session of the suggestion on the screen

sessionVars  == <<active, items, open, refreshed, started>>
providerVars == <<pending, pc, subject>>
commandVars  == <<editing, accepting, rejecting, refreshing>>
screenVars   == <<latest, shown>>
vars == <<sessionVars, paging, providerVars, commandVars, screenVars>>

Sessions == 1..MaxSessions
None     == 0
Running  == {"sleep", "request", "delay"}

TypeOK ==
    /\ active \in Sessions \cup {None} /\ started \in 0..MaxSessions
    /\ items \in [Sessions -> SUBSET Sessions] /\ open \in [Sessions -> BOOLEAN]
    /\ paging \subseteq Sessions /\ refreshed \subseteq Sessions
    /\ pending \in Calls \cup {NoCall}
    /\ pc \in [Calls -> {"idle", "join"} \cup Running]
    /\ subject \in [Calls -> Sessions \cup {None}]
    /\ editing \in BOOLEAN
    /\ accepting \in [Sessions -> {"no", "sleep", "edit"}]
    /\ rejecting \subseteq Sessions
    /\ refreshing \in [Sessions -> 0..MaxRefreshes]
    /\ latest \in Calls \cup {NoCall} /\ shown \in Sessions \cup {None}

Init ==
    /\ active = None /\ started = 0
    /\ items = [s \in Sessions |-> {}] /\ open = [s \in Sessions |-> FALSE]
    /\ paging = {} /\ refreshed = {}
    /\ pending = NoCall
    /\ pc = [c \in Calls |-> "idle"] /\ subject = [c \in Calls |-> None]
    /\ editing = FALSE /\ rejecting = {} /\ refreshing = [s \in Sessions |-> 0]
    /\ accepting = [s \in Sessions |-> "no"]
    /\ latest = NoCall /\ shown = None

-----------------------------------------------------------------------------
(* Helpers *)

\* getActiveRecommendation() is not empty.
HasItems(s) == s # None /\ items[s] # {}

\* As Finish below, but the calls that await the same promise are forgotten.
FinishOwn(c, s) ==
    /\ pending' = NoCall
    /\ pc' = [pc EXCEPT ![c] = "idle"]
    /\ subject' = [subject EXCEPT ![c] = None]
    /\ shown' = IF latest = c THEN s ELSE shown
    /\ UNCHANGED latest

\* The call that pendingRequest belongs to returns the suggestions of s, or
\* nothing, and with it the calls that await the same promise.  VS Code shows
\* what its last call returns.
Finish(c, s) ==
    /\ pending' = NoCall
    /\ pc' = [d \in Calls |-> IF d = c \/ pc[d] = "join" THEN "idle" ELSE pc[d]]
    /\ subject' = [subject EXCEPT ![c] = None]
    /\ shown' = IF latest = c \/ (latest # NoCall /\ pc[latest] = "join")
                THEN s ELSE shown
    /\ UNCHANGED latest

\* SessionManager.clear(), after a report to the language server.
Clear == active' = None

-----------------------------------------------------------------------------
(* The provider *)

\* As Provide below, without the look at pendingRequest.
ProvideAlways(c) ==
    /\ pc[c] = "idle"
    /\ latest' = c
    /\ IF editing
       THEN UNCHANGED providerVars /\ shown' = None
       ELSE /\ pending' = c /\ pc' = [pc EXCEPT ![c] = "sleep"]
            /\ UNCHANGED <<subject, shown>>
    /\ UNCHANGED <<sessionVars, paging, commandVars>>

\* VS Code calls provideInlineCompletionItems, and cancels the call before.
Provide(c) ==
    /\ pc[c] = "idle"
    /\ latest' = c
    /\ \/ /\ pending # NoCall
          /\ pc' = [pc EXCEPT ![c] = "join"]
          /\ UNCHANGED <<pending, subject, shown>>
       \/ /\ pending = NoCall /\ editing
          /\ shown' = None /\ UNCHANGED providerVars
       \/ /\ pending = NoCall /\ ~editing
          /\ pending' = c /\ pc' = [pc EXCEPT ![c] = "sleep"]
          /\ UNCHANGED <<subject, shown>>
    /\ UNCHANGED <<sessionVars, paging, commandVars>>

\* The previous session still matches what was typed, and is shown again.
Reuse(c) ==
    /\ pc[c] = "sleep" /\ HasItems(active)
    /\ Finish(c, active)
    /\ UNCHANGED <<sessionVars, paging, commandVars>>

\* It matches no more: the user has rejected it by typing.
ImplicitReject(c) ==
    /\ pc[c] = "sleep" /\ HasItems(active)
    /\ Clear
    /\ Finish(c, None)
    /\ UNCHANGED <<items, open, refreshed, started, paging, commandVars>>

Ask(c) ==
    /\ pc[c] = "sleep" /\ ~HasItems(active)
    /\ pc' = [pc EXCEPT ![c] = "request"]
    /\ UNCHANGED <<sessionVars, paging, pending, subject, commandVars,
                   screenVars>>

\* The call goes on with session s after getAllRecommendations: it waits while
\* the user is typing, unless there is nothing to show.
Continue(c, s, nonEmpty) ==
    IF nonEmpty
    THEN /\ pc' = [pc EXCEPT ![c] = "delay"]
         /\ subject' = [subject EXCEPT ![c] = s]
         /\ UNCHANGED <<pending, screenVars>>
    ELSE Finish(c, None)

\* The server answers: a new session, perhaps empty, perhaps with more pages.
Answer(c, full, more) ==
    /\ pc[c] = "request" /\ started < MaxSessions
    /\ started' = started + 1
    /\ active' = started + 1
    /\ items' = [items EXCEPT ![started + 1] = IF full THEN {started + 1} ELSE {}]
    /\ open' = [open EXCEPT ![started + 1] = TRUE]
    /\ paging' = IF more THEN paging \cup {started + 1} ELSE paging
    /\ Continue(c, started + 1, full)
    /\ UNCHANGED <<refreshed, commandVars>>

\* The request fails or is cancelled: the call goes on with what is active.
AnswerFails(c) ==
    /\ pc[c] = "request" /\ (Fails \/ latest # c \/ started = MaxSessions)
    /\ Continue(c, active, HasItems(active))
    /\ UNCHANGED <<sessionVars, paging, commandVars>>

\* The suggestions match the typeahead.
Present(c) ==
    /\ pc[c] = "delay"
    /\ Finish(c, subject[c])
    /\ UNCHANGED <<sessionVars, paging, commandVars>>

\* They do not, or the cursor has moved back: the suggestions are discarded, and
\* whatever session is active with them.
Discard(c) ==
    /\ pc[c] = "delay"
    /\ Clear
    /\ Finish(c, None)
    /\ UNCHANGED <<items, open, refreshed, started, paging, commandVars>>

-----------------------------------------------------------------------------
(* processRemainingRequests *)

\* closeSession(), on whatever session is active; then the suggestion is hidden
\* for VS Code to ask again.
EndPaging(s) ==
    /\ paging' = paging \ {s}
    /\ open' = [t \in Sessions |-> open[t] /\ t # active]
    /\ shown' = None

\* A page of s arrives, and is added to whatever session is active.
Page(s, full, more) ==
    /\ s \in paging /\ active # None /\ ~editing
    /\ items' = [items EXCEPT ![active] = IF full THEN @ \cup {s} ELSE @]
    /\ IF more THEN UNCHANGED <<paging, open, shown>> ELSE EndPaging(s)
    /\ UNCHANGED <<active, refreshed, started, providerVars, commandVars, latest>>

PageIgnored(s) ==
    /\ s \in paging /\ (active = None \/ editing)
    /\ EndPaging(s)
    /\ UNCHANGED <<active, items, refreshed, started, providerVars, commandVars,
                   latest>>

\* An error or a time-out: the error is logged, and the session stays open.
PageFails(s) ==
    /\ s \in paging /\ Fails
    /\ paging' = paging \ {s}
    /\ UNCHANGED <<sessionVars, providerVars, commandVars, screenVars>>

-----------------------------------------------------------------------------
(* The commands *)

\* aws.amazonq.acceptInline, up to its sleep(500): the text is in the document.
Accept(s) ==
    /\ shown = s /\ accepting[s] = "no"
    /\ editing' = TRUE
    /\ accepting' = [accepting EXCEPT ![s] = "sleep"]
    /\ shown' = None /\ latest' = NoCall
    /\ UNCHANGED <<sessionVars, paging, providerVars, rejecting,
                   refreshing>>

\* handleExtraBrackets and onAcceptRecommendation edit the document.
AcceptEdit(s) ==
    /\ accepting[s] = "sleep"
    /\ accepting' = [accepting EXCEPT ![s] = "edit"]
    /\ latest' = NoCall
    /\ UNCHANGED <<sessionVars, paging, providerVars, editing, rejecting,
                   refreshing, shown>>

AcceptDone(s) ==
    /\ accepting[s] = "edit"
    /\ Clear
    /\ editing' = FALSE
    /\ accepting' = [accepting EXCEPT ![s] = "no"]
    /\ UNCHANGED <<items, open, refreshed, started, paging, providerVars,
                   rejecting, refreshing, screenVars>>

\* As AcceptFails below, without the finally.
AcceptFailsKept(s) ==
    /\ accepting[s] = "edit" /\ Fails
    /\ accepting' = [accepting EXCEPT ![s] = "no"]
    /\ UNCHANGED <<sessionVars, paging, providerVars, editing, rejecting,
                   refreshing, screenVars>>

\* An edit throws.
AcceptFails(s) ==
    /\ accepting[s] = "edit" /\ Fails
    /\ editing' = FALSE
    /\ accepting' = [accepting EXCEPT ![s] = "no"]
    /\ UNCHANGED <<sessionVars, paging, providerVars, rejecting, refreshing,
                   screenVars>>

\* aws.amazonq.rejectCodeSuggestion: Escape, or any document is closed.  Two
\* rejections of a session at once are one.
Reject ==
    /\ IF active = None
       THEN editing' = FALSE /\ UNCHANGED <<rejecting, shown>>
       ELSE /\ editing' = TRUE
            /\ rejecting' = rejecting \cup {active}
            /\ shown' = None
    /\ UNCHANGED <<sessionVars, paging, providerVars, accepting, refreshing,
                   latest>>

\* As RejectDone below, but the flag is reset only if there is something to
\* report.
RejectDoneKept(s) ==
    /\ s \in rejecting
    /\ IF HasItems(active)
       THEN Clear /\ editing' = FALSE
       ELSE UNCHANGED <<active, editing>>
    /\ rejecting' = rejecting \ {s}
    /\ UNCHANGED <<items, open, refreshed, started, paging, providerVars,
                   accepting, refreshing, screenVars>>

\* The suggestion is hidden: s is reported, if there is one to report now.
RejectDone(s) ==
    /\ s \in rejecting
    /\ IF HasItems(active)
       THEN Clear
       ELSE UNCHANGED active
    /\ editing' = FALSE
    /\ rejecting' = rejecting \ {s}
    /\ UNCHANGED <<items, open, refreshed, started, paging, providerVars,
                   accepting, refreshing, screenVars>>

\* The next or previous suggestion is asked for: maybeRefreshSessionUx has the
\* suggestions of a closed session rendered again.
Refresh ==
    /\ active # None /\ ~open[active] /\ active \notin refreshed
    /\ refreshing[active] < MaxRefreshes
    /\ refreshing' = [refreshing EXCEPT ![active] = @ + 1]
    /\ shown' = None
    /\ UNCHANGED <<sessionVars, paging, providerVars, editing, accepting,
                   rejecting, latest>>

\* The session that is active now is remembered; it throws if there is none.
\* That more than 1000 of them are forgotten is left out.
RefreshDone(s) ==
    /\ refreshing[s] > 0
    /\ refreshing' = [refreshing EXCEPT ![s] = @ - 1]
    /\ refreshed' = refreshed \cup ({active} \ {None})
    /\ UNCHANGED <<active, items, open, started, paging, providerVars, editing,
                   accepting, rejecting, screenVars>>

\* The user types or moves: the last call is cancelled, and a suggestion stays
\* on the screen as long as it matches.
Type ==
    /\ latest' = NoCall
    /\ shown' \in {shown, None}
    /\ UNCHANGED <<sessionVars, paging, providerVars, commandVars>>

Impl(c) ==
    \/ Reuse(c) \/ ImplicitReject(c) \/ Ask(c) \/ Present(c) \/ Discard(c)
    \/ \E full, more \in BOOLEAN : Answer(c, full, more)
    \/ AnswerFails(c)

Paginate(s) ==
    \/ \E full, more \in BOOLEAN : Page(s, full, more)
    \/ PageIgnored(s) \/ PageFails(s)

Acceptance(s) == AcceptEdit(s) \/ AcceptDone(s) \/ AcceptFails(s)

Next ==
    \/ \E c \in Calls : Provide(c) \/ Impl(c)
    \/ \E s \in Sessions : Paginate(s) \/ Accept(s) \/ Acceptance(s)
    \/ \E s \in Sessions : RejectDone(s) \/ RefreshDone(s)
    \/ Reject \/ Refresh \/ Type

Spec == Init /\ [][Next]_vars

\* The server answers or the request fails, timers fire, and commands and edits
\* end; nothing makes the user do anything, nor VS Code ask.
Fairness ==
    /\ WF_vars(\E c \in Calls : Impl(c))
    /\ WF_vars(\E s \in Sessions : Acceptance(s))
    /\ WF_vars(\E s \in Sessions : RejectDone(s))

FairSpec == Spec /\ Fairness

-----------------------------------------------------------------------------
(* Properties *)

\* At most one call of the provider runs, pendingRequest is its promise, and no
\* call awaits a promise that is gone.
OneRequest ==
    /\ \A c \in Calls : pc[c] \in Running <=> pending = c
    /\ \A c \in Calls : pc[c] = "join" => pending # NoCall

\* The calls VS Code makes share one request: the one that finds no pendingRequest
\* makes it, and those that find one return with it.
Flight == INSTANCE SingleFlight WITH
    Keys <- {"request"},
    pending <- IF pending = NoCall THEN {} ELSE {"request"},
    working <- [k \in {"request"} |-> {c \in Calls : pc[c] \in Running}],
    waiting <- [k \in {"request"} |-> {c \in Calls : pc[c] = "join"}]
RequestShared == Flight!Spec

\* Between the start of a session and its answer to VS Code no other session
\* takes its place: it is active still, or ended meanwhile.
NotOverridden ==
    \A c \in Calls : pc[c] = "delay" => active \in {subject[c], None}

\* The flag, which blocks every completion while it is set, is never left
\* behind: a command is under way that will reset it.
FlagIsHeld ==
    editing => rejecting # {} \/ \E s \in Sessions : accepting[s] # "no"

\* Every call of the provider ends, the ones that await the request of another
\* included.
CallEnds == \A c \in Calls : (pc[c] # "idle") ~> (pc[c] = "idle")

\* The flag is reset again and again, whatever the commands do to each other.
EditingEnds == editing ~> ~editing
=============================================================================
