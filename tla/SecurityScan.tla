---------------------------- MODULE SecurityScan ----------------------------
(***************************************************************************)
(* Code reviews of a window: startSecurityScan and what starts and stops   *)
(* it.                                                                     *)
(*                                                                         *)
(* A review of the project or of a file is asked for, and may be stopped,  *)
(* by the user; one of a file is also started by itself when its text      *)
(* changes, after a debounce.  Reviews do not know each other: a user's    *)
(* stop goes through the state of its kind (codeScanState,                 *)
(* onDemandFileScanState), and an automatic review is given up when a      *)
(* newer one started.  Every review looks at these whenever an await       *)
(* comes back (throwIfCancelled).                                          *)
(*                                                                         *)
(* One action per await, but for those up to the start of the job.  A      *)
(* review is named by the order in which it started, which is also its     *)
(* codeScanStartTime.  The account is taken to be one with automatic       *)
(* reviews (no Builder ID), and its connection to be valid.                *)
(***************************************************************************)
EXTENDS Naturals, FiniteSets

CONSTANTS
    Files,      \* source files open in the window
    MaxScans,   \* bound: reviews in one behaviour
    MaxText,    \* bound: versions of all the texts together
    MaxPolls,   \* polls that fit in the time limit of a review
    MaxOpen     \* bound: stop clicks on their way and questions open at a time

ASSUME ScanAssumption ==
    /\ MaxScans \in Nat
    /\ MaxText \in Nat \ {0}
    /\ MaxPolls \in Nat
    /\ MaxOpen \in Nat
    /\ "none" \notin Files

VARIABLES
    scope,      \* scope[i]: what review i is about
    file,       \* file[i]: its file, if it is an automatic one
    pc,         \* pc[i]: the await it is in
    copy,       \* copy[i]: the version of that file in its zip, 0 before it is read
    polls,      \* polls[i]: how often it found its job pending, while it asks
    stopped,    \* history: the user stopped review i
    state,      \* codeScanState and onDemandFileScanState
    latest,     \* latestScanTime, 0 when there is none
    enabled,    \* CODEWHISPERER_AUTO_SCANS_ENABLED
    announced,  \* the event that automatic reviews were turned on is to come
    quota,      \* exceedsMonthlyQuota
    timer,      \* debounceStartSecurityScan: the file it was last called with
    active,     \* the file of the active editor
    version,    \* the last version of any text
    text,       \* text[f]: the version of the text of f
    due,        \* history: the file and version that asked for a review last
    clicks,     \* stop clicks of the chat that are on their way
    dialogs     \* open questions whether to stop

scans == <<scope, file, copy>>
control == <<stopped, state, clicks, dialogs>>
auto == <<latest, enabled, announced, quota, timer>>
editor == <<active, version, text, due>>
vars == <<scope, file, pc, copy, polls, stopped, state, latest, enabled, announced, quota,
          timer, active, version, text, due, clicks, dialogs>>

Ids == 1..MaxScans

None == "none"

\* The scopes the user asks for.
OnDemand == {"project", "file"}

Waiting == {"zip", "submit", "sleep", "status", "list"}

Ended == {"shown", "stopped", "failed"}

\* No automatic review is due.
Nothing == [file |-> None, version |-> 0]

Init ==
    /\ scope = [i \in Ids |-> None]
    /\ file = [i \in Ids |-> None]
    /\ pc = [i \in Ids |-> "idle"]
    /\ copy = [i \in Ids |-> 0]
    /\ polls = [i \in Ids |-> 0]
    /\ stopped = [i \in Ids |-> FALSE]
    /\ state = [s \in OnDemand |-> "NotStarted"]
    /\ latest = 0
    /\ enabled \in BOOLEAN
    /\ announced = FALSE
    /\ quota = FALSE
    /\ active \in Files
    /\ version = 1
    /\ text = [f \in Files |-> 1]
    /\ timer = IF enabled THEN active ELSE None
    /\ due = IF enabled THEN [file |-> active, version |-> 1] ELSE Nothing
    /\ clicks = {}
    /\ dialogs = {}

InFlight(i) == pc[i] \in Waiting

\* The bound on the number of reviews keeps one for the timer while it runs.
Free == {i \in Ids : pc[i] = "idle"}

Spare == Cardinality(Free) > IF timer = None THEN 0 ELSE 1

\* The next review is number i.
Fresh(i) == i \in Free /\ \A j \in Free : i <= j

-----------------------------------------------------------------------------
(* Starting and ending a review *)

\* A plausible bug: an automatic review looks only at the setting.
CancelledBySetting(i) ==
    IF scope[i] = "auto" THEN ~enabled ELSE state[scope[i]] = "Cancelling"

\* throwIfCancelled
Cancelled(i) ==
    IF scope[i] = "auto" THEN ~enabled \/ latest > i ELSE state[scope[i]] = "Cancelling"

\* A plausible bug: every review resets the state of the project reviews.
OwnerProject(s) == "project"

\* The state a review of this scope resets in the end: an automatic one has none of
\* its own and takes that of the file reviews.
Owner(s) == IF s = "project" THEN "project" ELSE "file"

\* The catch and finally clauses of startSecurityScan.
End(i, how) ==
    /\ pc' = [pc EXCEPT ![i] = how]
    /\ polls' = [polls EXCEPT ![i] = 0]
    /\ state' = [state EXCEPT ![Owner(scope[i])] = "NotStarted"]

\* throwIfCancelled after an await: the review goes on to p, or ends.
GoOn(i, p, n) ==
    IF Cancelled(i)
    THEN End(i, "stopped")
    ELSE /\ pc' = [pc EXCEPT ![i] = p]
         /\ polls' = [polls EXCEPT ![i] = n]
         /\ UNCHANGED state

\* What a step of a review leaves alone.
Others == UNCHANGED <<scope, file, stopped, clicks, dialogs, latest, enabled, announced,
                      timer, editor>>

\* showSecurityScan and showFileScan, when no review of that scope runs.
Request(i, s) ==
    /\ Fresh(i)
    /\ Spare
    /\ state[s] = "NotStarted"
    /\ state' = [state EXCEPT ![s] = "Running"]
    /\ scope' = [scope EXCEPT ![i] = s]
    /\ pc' = [pc EXCEPT ![i] = "zip"]
    /\ UNCHANGED <<file, copy, polls, stopped, clicks, dialogs, auto, editor>>

\* The timer of debounceStartSecurityScan: an automatic review starts, unless
\* automatic reviews were turned off.
StartAuto(i) ==
    /\ Fresh(i)
    /\ timer # None
    /\ timer' = None
    /\ latest' = i
    /\ scope' = [scope EXCEPT ![i] = "auto"]
    /\ file' = [file EXCEPT ![i] = timer]
    /\ IF enabled
       THEN /\ pc' = [pc EXCEPT ![i] = "zip"]
            /\ UNCHANGED state
       ELSE /\ pc' = [pc EXCEPT ![i] = "stopped"]
            /\ state' = [state EXCEPT !["file"] = "NotStarted"]
    /\ UNCHANGED <<copy, polls, stopped, clicks, dialogs, enabled, announced, quota, editor>>

-----------------------------------------------------------------------------
(* The steps of a review *)

\* generateZip reads the text of the file.
ReadText(i) ==
    /\ pc[i] = "zip"
    /\ copy' = [copy EXCEPT ![i] = IF file[i] = None THEN 0 ELSE text[file[i]]]
    /\ pc' = [pc EXCEPT ![i] = "submit"]
    /\ UNCHANGED <<polls, state, quota>> /\ Others

\* The rest of generateZip, the upload and the job's creation are awaited, then the
\* first sleep of pollScanJobStatus; a stop may be noticed after each of them.
Submit(i) ==
    /\ pc[i] = "submit"
    /\ GoOn(i, "sleep", 0)
    /\ UNCHANGED <<copy, quota>> /\ Others

StopEarly(i) ==
    /\ pc[i] = "submit"
    /\ Cancelled(i)
    /\ End(i, "stopped")
    /\ UNCHANGED <<copy, quota>> /\ Others

\* pollScanJobStatus: it has slept, and asks for the status ...
Ask(i) ==
    /\ pc[i] = "sleep"
    /\ polls[i] <= MaxPolls
    /\ GoOn(i, "status", polls[i])
    /\ UNCHANGED <<copy, quota>> /\ Others

\* ... but not when the time limit is over after a poll.
TimeOut(i) ==
    /\ pc[i] = "sleep"
    /\ polls[i] > 0
    /\ End(i, "failed")
    /\ UNCHANGED <<copy, quota>> /\ Others

\* A plausible bug: the time is measured from the last poll.
PendingAnew(i) ==
    /\ pc[i] = "status"
    /\ GoOn(i, "sleep", 0)
    /\ UNCHANGED <<copy, quota>> /\ Others

\* The job still runs: the review sleeps again.
Pending(i) ==
    /\ pc[i] = "status"
    /\ GoOn(i, "sleep", polls[i] + 1)
    /\ UNCHANGED <<copy, quota>> /\ Others

\* The job is done.
Done(i) ==
    /\ pc[i] = "status"
    /\ GoOn(i, "list", 0)
    /\ UNCHANGED <<copy, quota>> /\ Others

\* A plausible bug: the last throwIfCancelled is missing.
ShowAll(i) ==
    /\ pc[i] = "list"
    /\ End(i, "shown")
    /\ UNCHANGED <<copy, quota>> /\ Others

\* listScanResults; the findings are rendered in the step that looks at the stop.
Show(i) ==
    /\ pc[i] = "list"
    /\ End(i, IF Cancelled(i) THEN "stopped" ELSE "shown")
    /\ UNCHANGED <<copy, quota>> /\ Others

\* The await throws, or the job has failed.
Fail(i) ==
    /\ pc[i] \in {"submit", "status", "list"}
    /\ End(i, "failed")
    /\ UNCHANGED <<copy, quota>> /\ Others

\* A limit of the service: createCodeScan reports the one on reviews, or a poll or the
\* listing is throttled; for a file both are taken for the end of the monthly quota.
Throttled(i) ==
    /\ pc[i] \in {"submit", "status", "list"}
    /\ End(i, "failed")
    /\ quota' = (quota \/ scope[i] # "project")
    /\ UNCHANGED copy /\ Others

Progress(i) ==
    \/ ReadText(i)
    \/ Submit(i)
    \/ StopEarly(i)
    \/ Ask(i)
    \/ TimeOut(i)
    \/ Pending(i)
    \/ Done(i)
    \/ Show(i)
    \/ Fail(i)
    \/ Throttled(i)

-----------------------------------------------------------------------------
(* Stopping a review *)

\* setToCancelling
Cancel(s) ==
    /\ state' = [state EXCEPT ![s] = "Cancelling"]
    /\ stopped' = [i \in Ids |-> stopped[i] \/ (InFlight(i) /\ scope[i] = s)]

\* The chat shows a button while a review runs.
Click(s) ==
    /\ \E i \in Ids : InFlight(i) /\ scope[i] = s
    /\ Cardinality(clicks) + Cardinality(dialogs) < MaxOpen
    /\ clicks' = clicks \cup {s}
    /\ UNCHANGED <<pc, polls, scans, stopped, state, dialogs, auto, editor>>

\* formActionClicked: it does not look at the state.
FormActionClicked(s) ==
    /\ s \in clicks
    /\ clicks' = clicks \ {s}
    /\ Cancel(s)
    /\ UNCHANGED <<pc, polls, scans, dialogs, auto, editor>>

\* showSecurityScan and showFileScan, when a review runs: confirmStopSecurityScan
\* asks the user ...
AskToStop(s) ==
    /\ state[s] = "Running"
    /\ Cardinality(clicks) + Cardinality(dialogs) < MaxOpen
    /\ dialogs' = dialogs \cup {s}
    /\ UNCHANGED <<pc, polls, scans, stopped, state, clicks, auto, editor>>

\* ... and looks at the state again when the answer comes.
Answer(s, yes) ==
    /\ s \in dialogs
    /\ dialogs' = dialogs \ {s}
    /\ IF yes /\ state[s] = "Running" THEN Cancel(s) ELSE UNCHANGED <<state, stopped>>
    /\ UNCHANGED <<pc, polls, scans, clicks, auto, editor>>

-----------------------------------------------------------------------------
(* What starts automatic reviews *)

\* shouldRunAutoScan
ShouldRun(on) == on /\ ~quota

\* A plausible bug: the promise is kept until the review has ended, and calls while
\* it runs are folded into it.
DebounceHeld(f, v) ==
    /\ timer # None \/ Free # {}
    /\ timer' = IF \E i \in Ids : InFlight(i) /\ scope[i] = "auto" THEN timer ELSE f
    /\ due' = IF enabled THEN [file |-> f, version |-> v] ELSE due

\* A plausible bug: the arguments of the first call are kept.
DebounceFirst(f, v) ==
    /\ timer # None \/ Free # {}
    /\ timer' = IF timer = None THEN f ELSE timer
    /\ due' = IF enabled THEN [file |-> f, version |-> v] ELSE due

\* debounceStartSecurityScan, a trailing debounce of lodash: a call while the timer runs
\* puts it off, and the file of the last call takes the place of the one before.
Debounce(f, v) ==
    /\ timer # None \/ Free # {}
    /\ timer' = f
    /\ due' = IF enabled THEN [file |-> f, version |-> v] ELSE due

\* The text of a file changes, in the active editor or elsewhere.
Edit(f) ==
    /\ version < MaxText
    /\ version' = version + 1
    /\ text' = [text EXCEPT ![f] = version + 1]
    /\ IF f = active /\ ShouldRun(enabled)
       THEN Debounce(f, version + 1)
       ELSE UNCHANGED <<timer, due>>
    /\ UNCHANGED <<pc, polls, scans, control, latest, enabled, announced, quota, active>>

\* Another file comes to the front; it is reviewed unless it shows findings.
Switch(f) ==
    /\ f # active
    /\ active' = f
    /\ \/ ShouldRun(enabled) /\ Debounce(f, text[f])
       \/ /\ ShouldRun(enabled) => \E i \in Ids : pc[i] = "shown"
          /\ UNCHANGED <<timer, due>>
    /\ UNCHANGED <<pc, polls, scans, control, latest, enabled, announced, quota, version, text>>

\* toggleCodeScans, setScansEnabled: the setting is written (and nothing is due any
\* more when it is off) ...
Toggle ==
    /\ enabled' = ~enabled
    /\ announced' = (announced \/ ~enabled)
    /\ due' = Nothing
    /\ UNCHANGED <<pc, polls, scans, control, latest, quota, timer, active, version, text>>

\* ... and the event that it is on fires after the await, whatever it is now.
Announce ==
    /\ announced
    /\ announced' = FALSE
    /\ IF ShouldRun(TRUE)
       THEN Debounce(active, text[active])
       ELSE UNCHANGED <<timer, due>>
    /\ UNCHANGED <<pc, polls, scans, control, latest, enabled, quota, active, version, text>>

-----------------------------------------------------------------------------

Next ==
    \/ \E i \in Ids : StartAuto(i) \/ Progress(i) \/ \E s \in OnDemand : Request(i, s)
    \/ \E s \in OnDemand : Click(s) \/ FormActionClicked(s) \/ AskToStop(s)
    \/ \E s \in OnDemand, yes \in BOOLEAN : Answer(s, yes)
    \/ \E f \in Files : Edit(f) \/ Switch(f)
    \/ Toggle
    \/ Announce

Spec == Init /\ [][Next]_vars

\* Every await comes back and sleeps end.  The user pauses for 30 seconds now and
\* then, so that the timer of the debounce runs out.
Fairness == \A i \in Ids : WF_vars(Progress(i)) /\ WF_vars(StartAuto(i))

FairSpec == Spec /\ Fairness

-----------------------------------------------------------------------------
(* Properties *)

\* Types.
TypeOK ==
    /\ scope \in [Ids -> OnDemand \cup {"auto", None}]
    /\ file \in [Ids -> Files \cup {None}]
    /\ pc \in [Ids -> Waiting \cup Ended \cup {"idle"}]
    /\ copy \in [Ids -> 0..MaxText]
    /\ polls \in [Ids -> 0..(MaxPolls + 1)]
    /\ stopped \in [Ids -> BOOLEAN]
    /\ state \in [OnDemand -> {"NotStarted", "Running", "Cancelling"}]
    /\ latest \in 0..MaxScans
    /\ enabled \in BOOLEAN
    /\ announced \in BOOLEAN
    /\ quota \in BOOLEAN
    /\ timer \in Files \cup {None}
    /\ active \in Files
    /\ version \in 1..MaxText
    /\ text \in [Files -> 1..version]
    /\ due \in [file : Files \cup {None}, version : 0..MaxText]
    /\ clicks \subseteq OnDemand
    /\ dialogs \subseteq OnDemand

\* At most one review of the project runs, whatever is stopped, restarted or run on
\* files meanwhile, and while it runs it can be seen and stopped.
OneProjectScan ==
    \A i \in Ids : InFlight(i) /\ scope[i] = "project" =>
        /\ state["project"] # "NotStarted"
        /\ \A j \in Ids : InFlight(j) /\ scope[j] = "project" => j = i

\* A review of the project that the user stopped, in the chat or in the dialog and at
\* whatever await it was, shows no findings.
StoppedHidden ==
    \A i \in Ids : scope[i] = "project" /\ stopped[i] => pc[i] # "shown"

\* Automatic reviews show their findings in the order in which they started: one that
\* was overtaken never shows any, and never about an older text of the file than
\* what is already shown.
AutoInOrder ==
    [][\A i, j \in Ids :
          /\ scope[i] = "auto" /\ InFlight(i) /\ pc'[i] = "shown"
          /\ scope[j] = "auto" /\ pc[j] = "shown"
          => j < i /\ (file[j] = file[i] => copy[j] <= copy[i])]_vars

\* Every review ends, even if its job never does.
ScanEnds == \A i \in Ids : [](InFlight(i) => <>(pc[i] \in Ended))

\* An automatic review read version v of f or a newer one, and showed what it found
\* or failed.
Reported(f, v) ==
    \E i \in Ids :
        scope[i] = "auto" /\ file[i] = f /\ copy[i] >= v /\ pc[i] \in {"shown", "failed"}

\* An automatic review of f is under way that has read version v, or is yet to read.
Underway(f, v) ==
    \E i \in Ids :
        /\ scope[i] = "auto" /\ file[i] = f
        /\ pc[i] = "zip" \/ (InFlight(i) /\ copy[i] >= v)

\* What asked for an automatic review last is always on its way to one: the timer of
\* the debounce runs for its file, or a review of it is under way that has read it or
\* will, or it is reported; no older call that it is folded into, no older review and
\* no stop of a user loses it.  What another file asked before may be lost
\* (debounceStartSecurityScan, throwIfCancelled).
LastRequestKept ==
    due # Nothing =>
        /\ enabled
        /\ \/ timer = due.file
           \/ Underway(due.file, due.version)
           \/ Reported(due.file, due.version)

\* What asked for an automatic review is reviewed, although it is folded into the calls
\* before it and those reviews are under way, unless something else asks for a review or
\* automatic reviews are turned off meanwhile.
CatchesUp ==
    \A f \in Files, v \in 1..MaxText :
        LET this == [file |-> f, version |-> v]
        IN  [](due = this => <>(due # this \/ Reported(f, v)))
=============================================================================
