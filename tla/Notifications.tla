---------------------------- MODULE Notifications ------------------------------
(***************************************************************************)
(* The in-IDE notifications of packages/core/src/notifications: every      *)
(* window polls two feeds, keeps what it received and what was dismissed   *)
(* in one entry of VS Code's global state, shows the rest in a panel and   *)
(* pops up a toast for what is new.                                        *)
(*                                                                         *)
(* A window works on its own copy of the entry (mem) and writes it whole.  *)
(* An update of the global state is in the memory of the window (view) at  *)
(* once; when the awaited promise resolves, what that memory then holds is *)
(* in the storage and in the memory of the other windows.  What runs       *)
(* between two awaits is one step.                                         *)
(*                                                                         *)
(* A feed is a sequence of versions, each a set of notifications; the      *)
(* version stands for the entity tag and for the content that goes with it.*)
(***************************************************************************)
EXTENDS Integers, Sequences, FiniteSets

CONSTANTS
    Windows,      \* VS Code windows
    StartUpIds,   \* notifications of the start-up feed
    EmergencyIds, \* notifications of the emergency feed
    Feed,         \* Feed[category]: its versions, as published one by one
    MaxOpens,     \* bound: openings of windows
    MaxFails,     \* bound: polls whose fetch fails
    MaxTurns      \* bound: changes of what the rules let through

Categories == {"startUp", "emergency"}
Ids        == StartUpIds \cup EmergencyIds

ASSUME FeedAssumption ==
    /\ StartUpIds \cap EmergencyIds = {}
    /\ Feed \in [Categories -> Seq(SUBSET Ids)]
    /\ \A v \in DOMAIN Feed["startUp"] : Feed["startUp"][v] \subseteq StartUpIds
    /\ \A v \in DOMAIN Feed["emergency"] :
           Feed["emergency"][v] \subseteq EmergencyIds
    /\ \A c \in Categories : Len(Feed[c]) > 0

ASSUME BoundsAssumption ==
    MaxOpens \in Nat /\ MaxFails \in Nat /\ MaxTurns \in Nat

VARIABLES
    published,  \* published[c]: version of feed c on the endpoint
    passing,    \* notifications that the rules let through
    disk,       \* the stored entry
    view,       \* view[w]: the entry in the memory of window w
    mem,        \* mem[w]: the controller's own copy, `state`
    pc,         \* what the poll of window w awaits
    polling,    \* polling[w]: the start-up poll, the first emergency poll or a
                \* later one
    snap,       \* snap[w]: what the poll found to display
    panel,      \* panel[w]: what the panel of window w shows
    dismissing, \* dismissing[w]: dismissals whose update is under way
    toasts,     \* toasts[w][n]: toasts for n since the window opened, up to 2
    told,       \* notifications some window has toasted
    gone,       \* gone[w]: dismissals that ended since the window opened
    goneBefore, \* goneBefore[w]: in earlier lives of the window
    opened,     \* the windows, in the order in which they were opened
    fails, turns

entryVars   == <<disk, view, mem>>
pollVars    == <<pc, polling, snap>>
historyVars == <<toasts, told, gone, goneBefore>>
worldVars   == <<published, passing, turns>>
vars == <<worldVars, entryVars, pollVars, panel, dismissing, historyVars, opened,
          fails>>

Versions(c) == 0..Len(Feed[c])
Entry == [startUp : Versions("startUp"), emergency : Versions("emergency"),
          dismissed : SUBSET StartUpIds, newlyReceived : SUBSET Ids]
Default == [startUp |-> 0, emergency |-> 0,
            dismissed |-> {}, newlyReceived |-> {}]
Shown  == [startUp : SUBSET StartUpIds, emergency : SUBSET EmergencyIds]
Blank  == [startUp |-> {}, emergency |-> {}]
Polls  == {"startUp", "first", "later"}
Stages == {"off", "dead", "idle", "fetch", "store", "rules", "refresh", "clean"}

TypeOK ==
    /\ published \in [Categories -> Nat] /\ passing \subseteq Ids
    /\ \A c \in Categories : published[c] \in Versions(c)
    /\ disk \in Entry /\ view \in [Windows -> Entry] /\ mem \in [Windows -> Entry]
    /\ pc \in [Windows -> Stages] /\ polling \in [Windows -> Polls]
    /\ snap \in [Windows -> Shown] /\ panel \in [Windows -> Shown]
    /\ dismissing \in [Windows -> SUBSET StartUpIds]
    /\ toasts \in [Windows -> [Ids -> 0..2]] /\ told \subseteq Ids
    /\ gone \in [Windows -> SUBSET StartUpIds]
    /\ goneBefore \in [Windows -> SUBSET StartUpIds]
    /\ opened \in Seq(Windows) /\ fails \in 0..MaxFails
    /\ turns \in 0..MaxTurns

Init ==
    /\ published = [c \in Categories |-> 1] /\ passing = Ids
    /\ disk = Default
    /\ view = [w \in Windows |-> Default] /\ mem = [w \in Windows |-> Default]
    /\ pc = [w \in Windows |-> "off"]
    /\ polling = [w \in Windows |-> "startUp"]
    /\ snap = [w \in Windows |-> Blank] /\ panel = [w \in Windows |-> Blank]
    /\ dismissing = [w \in Windows |-> {}]
    /\ toasts = [w \in Windows |-> [n \in Ids |-> 0]] /\ told = {}
    /\ gone = [w \in Windows |-> {}] /\ goneBefore = [w \in Windows |-> {}]
    /\ opened = <<>> /\ fails = 0 /\ turns = 0

-----------------------------------------------------------------------------
(* The entry *)

\* The notifications of version v of category c; none have been received at 0.
Payload(c, v) == IF v = 0 THEN {} ELSE Feed[c][v]
Received(e)   == Payload("startUp", e.startUp) \cup Payload("emergency", e.emergency)

\* writeState: dismissals of what is not in the feeds any more are dropped.
Cleaned(e) == [e EXCEPT !.dismissed = @ \cap Received(e)]
Write(w, e) ==
    /\ mem' = [mem EXCEPT ![w] = Cleaned(e)]
    /\ view' = [view EXCEPT ![w] = Cleaned(e)]

\* The update of window w resolves.
Stored(w) ==
    /\ disk' = view[w]
    /\ view' = [v \in Windows |-> IF pc[v] = "off" THEN view[v] ELSE view[w]]

\* onReceiveNotifications and what writeState is then asked to forget.
Toasted(w, shown) ==
    toasts' = [toasts EXCEPT ![w] =
                   [n \in Ids |-> IF n \in shown /\ @[n] < 2 THEN @[n] + 1 ELSE @[n]]]

-----------------------------------------------------------------------------
(* The world *)

\* A feed gets its next version.
Publish(c) ==
    /\ published[c] < Len(Feed[c])
    /\ published' = [published EXCEPT ![c] = @ + 1]
    /\ UNCHANGED <<passing, turns, entryVars, pollVars, panel, dismissing, historyVars,
                   opened, fails>>

\* What the rules look at changes: the connection, the extensions, the version.
Turn ==
    /\ turns < MaxTurns /\ turns' = turns + 1
    /\ \E n \in Ids : passing' = IF n \in passing THEN passing \ {n} ELSE passing \cup {n}
    /\ UNCHANGED <<published, entryVars, pollVars, panel, dismissing, historyVars,
                   opened, fails>>

-----------------------------------------------------------------------------
(* A window opens and closes *)

\* activate: the controller reads the entry, the start-up poll begins.
Open(w) ==
    /\ pc[w] = "off" /\ Len(opened) < MaxOpens
    /\ opened' = Append(opened, w)
    /\ view' = [view EXCEPT ![w] = disk] /\ mem' = [mem EXCEPT ![w] = disk]
    /\ polling' = [polling EXCEPT ![w] = "startUp"]
    /\ pc' = [pc EXCEPT ![w] = "fetch"]
    /\ UNCHANGED <<worldVars, disk, snap, panel, dismissing, historyVars, fails>>

\* The window is closed or its extension host dies, whatever it awaits.
Close(w) ==
    /\ pc[w] # "off"
    /\ pc' = [pc EXCEPT ![w] = "off"] /\ polling' = [polling EXCEPT ![w] = "startUp"]
    /\ view' = [view EXCEPT ![w] = Default] /\ mem' = [mem EXCEPT ![w] = Default]
    /\ panel' = [panel EXCEPT ![w] = Blank] /\ snap' = [snap EXCEPT ![w] = Blank]
    /\ dismissing' = [dismissing EXCEPT ![w] = {}]
    /\ toasts' = [toasts EXCEPT ![w] = [n \in Ids |-> 0]]
    /\ goneBefore' = [goneBefore EXCEPT ![w] = @ \cup gone[w]]
    /\ gone' = [gone EXCEPT ![w] = {}]
    /\ UNCHANGED <<worldVars, disk, told, opened, fails>>

-----------------------------------------------------------------------------
(* A poll *)

Category(w) == IF polling[w] = "startUp" THEN "startUp" ELSE "emergency"

GoTo(w, stage) == pc' = [pc EXCEPT ![w] = stage] /\ UNCHANGED polling

\* A plausible bug: what is new is marked after the payload was written.
FetchedLate(w) ==
    LET c       == Category(w)
        payload == Payload(c, published[c])
        added   == payload \ Payload(c, mem[w][c])
        new     == Cleaned([mem[w] EXCEPT ![c] = published[c]])
    IN  /\ pc[w] = "fetch" /\ mem[w][c] # published[c]
        /\ view' = [view EXCEPT ![w] = new]
        /\ mem' = [mem EXCEPT ![w] = [new EXCEPT !.newlyReceived = @ \cup added]]
        /\ GoTo(w, "store")
        /\ UNCHANGED <<worldVars, disk, snap, panel, dismissing, historyVars, opened,
                       fails>>

\* fetchNotifications: a new version is merged into the entry and written.
Fetched(w) ==
    LET c       == Category(w)
        payload == Payload(c, published[c])
        added   == payload \ Payload(c, mem[w][c])
    IN  /\ pc[w] = "fetch" /\ mem[w][c] # published[c]
        /\ Write(w, [mem[w] EXCEPT ![c] = published[c],
                                   !.newlyReceived = @ \cup added])
        /\ toasts' = [toasts EXCEPT ![w] =
                          [n \in Ids |-> IF n \in added THEN 0 ELSE @[n]]]
        /\ gone' = [gone EXCEPT ![w] = @ \cap Received(mem'[w])]
        /\ goneBefore' = [goneBefore EXCEPT ![w] = @ \cap Received(mem'[w])]
        /\ GoTo(w, "store")
        /\ UNCHANGED <<worldVars, disk, snap, panel, dismissing, told, opened, fails>>

\* The entity tag is the latest.
NotModified(w) ==
    /\ pc[w] = "fetch" /\ mem[w][Category(w)] = published[Category(w)]
    /\ GoTo(w, "rules")
    /\ UNCHANGED <<worldVars, entryVars, snap, panel, dismissing, historyVars, opened,
                   fails>>

\* The fetch fails after its retries; what is stored is displayed.
FetchFails(w) ==
    /\ pc[w] = "fetch" /\ fails < MaxFails /\ fails' = fails + 1
    /\ GoTo(w, "rules")
    /\ UNCHANGED <<worldVars, entryVars, snap, panel, dismissing, historyVars, opened>>

FetchStored(w) ==
    /\ pc[w] = "store"
    /\ Stored(w) /\ GoTo(w, "rules")
    /\ UNCHANGED <<worldVars, mem, snap, panel, dismissing, historyVars, opened, fails>>

\* A plausible bug: the dismissals are not filtered out of what is displayed.
DisplayAll(w) ==
    LET shown == [startUp   |-> Payload("startUp", mem[w].startUp) \cap passing,
                  emergency |-> Payload("emergency", mem[w].emergency) \cap passing]
    IN  /\ pc[w] = "rules"
        /\ panel' = [panel EXCEPT ![w] = shown] /\ snap' = [snap EXCEPT ![w] = shown]
        /\ GoTo(w, "refresh")
        /\ UNCHANGED <<worldVars, entryVars, dismissing, historyVars, opened, fails>>

\* displayNotifications: the rules have their context, the panel is set.
Display(w) ==
    LET shown == [startUp   |-> (Payload("startUp", mem[w].startUp) \cap passing)
                                    \ mem[w].dismissed,
                  emergency |-> Payload("emergency", mem[w].emergency) \cap passing]
    IN  /\ pc[w] = "rules"
        /\ panel' = [panel EXCEPT ![w] = shown] /\ snap' = [snap EXCEPT ![w] = shown]
        /\ GoTo(w, "refresh")
        /\ UNCHANGED <<worldVars, entryVars, dismissing, historyVars, opened, fails>>

\* The context of the rules cannot be had: the poll throws.  The interval is only
\* registered after the first two polls, so that one that throws ends it all.
RulesFail(w) ==
    /\ pc[w] = "rules" /\ fails < MaxFails /\ fails' = fails + 1
    /\ GoTo(w, IF polling[w] = "later" THEN "idle" ELSE "dead")
    /\ UNCHANGED <<worldVars, entryVars, snap, panel, dismissing, historyVars, opened>>

\* poll: readState, which takes over the dismissals only, then the fetch of the
\* emergencies.
BeginPoll(w, poll) ==
    /\ mem' = [mem EXCEPT ![w].dismissed = @ \cup view'[w].dismissed]
    /\ polling' = [polling EXCEPT ![w] = poll]
    /\ pc' = [pc EXCEPT ![w] = "fetch"]

\* The end of a poll: the emergencies follow the start-up poll at once.
EndPoll(w) ==
    IF polling[w] = "startUp"
    THEN BeginPoll(w, "first")
    ELSE GoTo(w, "idle") /\ UNCHANGED mem

\* A plausible bug: what the rules held back is forgotten with the rest.
ToastForgets(w) ==
    LET news == (snap[w].startUp \cup snap[w].emergency) \cap mem[w].newlyReceived
    IN  /\ pc[w] = "refresh"
        /\ Toasted(w, news) /\ told' = told \cup news
        /\ Write(w, [mem[w] EXCEPT !.newlyReceived = {}])
        /\ GoTo(w, "clean")
        /\ UNCHANGED <<worldVars, disk, snap, panel, dismissing, gone, goneBefore, opened,
                       fails>>

\* A plausible bug: what was toasted stays marked as new.
ToastMarked(w) ==
    LET news == (snap[w].startUp \cup snap[w].emergency) \cap mem[w].newlyReceived
    IN  /\ pc[w] = "refresh"
        /\ Toasted(w, news) /\ told' = told \cup news
        /\ UNCHANGED view /\ EndPoll(w)
        /\ UNCHANGED <<worldVars, disk, snap, panel, dismissing, gone, goneBefore, opened,
                       fails>>

\* The panel is refreshed: toasts for what is new, for all at the start-up poll.
Toast(w) ==
    LET news     == (snap[w].startUp \cup snap[w].emergency) \cap mem[w].newlyReceived
        startUps == IF polling[w] = "startUp" THEN snap[w].startUp ELSE {}
    IN  /\ pc[w] = "refresh"
        /\ Toasted(w, news \cup startUps) /\ told' = told \cup news \cup startUps
        /\ \/ /\ news # {}
              /\ Write(w, [mem[w] EXCEPT !.newlyReceived = @ \ news])
              /\ GoTo(w, "clean")
           \/ news = {} /\ UNCHANGED view /\ EndPoll(w)
        /\ snap' = [snap EXCEPT ![w] = Blank]
        /\ UNCHANGED <<worldVars, disk, panel, dismissing, gone, goneBefore, opened,
                       fails>>

CleanStored(w) ==
    /\ pc[w] = "clean"
    /\ Stored(w) /\ EndPoll(w)
    /\ UNCHANGED <<worldVars, snap, panel, dismissing, historyVars, opened, fails>>

\* The interval.
PollAgain(w) ==
    /\ pc[w] = "idle"
    /\ UNCHANGED view /\ BeginPoll(w, "later")
    /\ UNCHANGED <<worldVars, disk, snap, panel, dismissing, historyVars, opened, fails>>

Poll(w) ==
    \/ Fetched(w)  \/ NotModified(w) \/ FetchStored(w)
    \/ Display(w)  \/ Toast(w) \/ CleanStored(w) \/ PollAgain(w)

-----------------------------------------------------------------------------
(* The user dismisses a notification of the start-up feed, in the panel or in a     *)
(* toast.  The toast of an emergency has the button too; what it writes is read     *)
(* nowhere, and is left out.                                                        *)

Dismiss(w, n) ==
    /\ pc[w] # "off" /\ (n \in panel[w].startUp \/ toasts[w][n] > 0)
    /\ n \notin dismissing[w]
    /\ dismissing' = [dismissing EXCEPT ![w] = @ \cup {n}]
    /\ Write(w, [mem[w] EXCEPT !.dismissed = @ \cup view[w].dismissed \cup {n}])
    /\ UNCHANGED <<worldVars, disk, pollVars, panel, historyVars, opened, fails>>

\* The update is stored; the panel drops the notification.
DismissDone(w, n) ==
    /\ n \in dismissing[w]
    /\ dismissing' = [dismissing EXCEPT ![w] = @ \ {n}]
    /\ Stored(w)
    /\ panel' = [panel EXCEPT ![w].startUp = @ \ {n}]
    /\ gone' = [gone EXCEPT ![w] = @ \cup {n}]
    /\ UNCHANGED <<worldVars, mem, pollVars, toasts, told, goneBefore, opened, fails>>

Dismissals(w) == \E n \in StartUpIds : Dismiss(w, n) \/ DismissDone(w, n)

-----------------------------------------------------------------------------
Next ==
    \/ \E c \in Categories : Publish(c)
    \/ Turn
    \/ \E w \in Windows :
          \/ Open(w) \/ Close(w) \/ Poll(w) \/ FetchFails(w) \/ RulesFail(w)
          \/ Dismissals(w)

Spec == Init /\ [][Next]_vars

\* The awaits of a poll end and the interval fires.
Fairness == \A w \in Windows : WF_vars(Poll(w))

FairSpec == Spec /\ Fairness

-----------------------------------------------------------------------------
(* Properties *)

\* What is dismissed stays out of the panel as long as its feed has it, although the
\* panel is rebuilt after two awaits from state that the dismissal may meet at any
\* of them; and where only one window was ever open, its restarts included: the
\* update is stored before the panel drops the notification.
DismissedHidden ==
    \A w \in Windows :
        /\ panel[w].startUp \cap gone[w] = {}
        /\ (\A i \in DOMAIN opened : opened[i] = w) =>
               panel[w].startUp \cap goneBefore[w] = {}

\* A notification that is received once is toasted once while the window is open,
\* although every poll goes through everything that was ever received.
ToastedOnce == \A w \in Windows : \A n \in Ids : toasts[w][n] <= 1

\* A notification that was never toasted is still marked as new wherever it was
\* received: no crash, failed poll or write of another window loses it.
Entries == {disk} \cup {view[w] : w \in Windows} \cup {mem[w] : w \in Windows}
NewsKept == \A e \in Entries : Received(e) \subseteq e.newlyReceived \cup told

\* An emergency that a window has not received, or has received but not shown, is
\* toasted there, unless it is withdrawn, the rules hold it back, or the window
\* closes or gives up: a failed poll, or one in which the rules held it back, only
\* puts it off.
Urgent(w, n) ==
    /\ pc[w] \notin {"off", "dead"}
    /\ n \in passing /\ n \in Payload("emergency", published["emergency"])
EmergencyIsToasted ==
    \A w \in Windows : \A n \in EmergencyIds :
        Urgent(w, n) /\ (n \notin Received(mem[w]) \/ n \in mem[w].newlyReceived) ~>
            toasts[w][n] > 0 \/ ~Urgent(w, n)
=============================================================================
