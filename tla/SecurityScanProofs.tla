------------------------ MODULE SecurityScanProofs ------------------------
(***************************************************************************)
(* Proofs about SecurityScan, for any files, reviews and bounds: its type  *)
(* invariant, that there is one review of the project at a time and that   *)
(* a stop of it holds, the order of the automatic reviews, and that what   *)
(* asked for one last is not lost.                                         *)
(***************************************************************************)
EXTENDS SecurityScan, TLAPS

-----------------------------------------------------------------------------
(* The inductive invariant *)

\* A review that has been past a throwIfCancelled since it read the text.
Passed == {"sleep", "status", "list", "shown"}

\* While the status is awaited there was time for it.
InTime == \A i \in Ids : pc[i] = "status" => polls[i] <= MaxPolls

\* Reviews that did not start have no traces, and the others started before.
Started ==
    /\ \A i \in Ids : pc[i] = "idle" => scope[i] = None /\ ~stopped[i] /\ copy[i] = 0
    /\ \A i, j \in Ids : pc[i] = "idle" /\ pc[j] # "idle" => j < i

\* A stop is not forgotten before the review ends.
StopHeld ==
    \A i \in Ids : InFlight(i) /\ scope[i] = "project" /\ stopped[i] =>
        state["project"] = "Cancelling"

\* latestScanTime is not before any automatic review, and texts only get newer.
Autos ==
    \A i \in Ids : scope[i] = "auto" =>
        /\ i <= latest
        /\ file[i] \in Files
        /\ copy[i] <= text[file[i]]

\* What an automatic review read that got past a throwIfCancelled is not newer than
\* what a later one of the same file read.
ReadInOrder ==
    \A i, j \in Ids :
        /\ scope[i] = "auto" /\ pc[i] \in Passed
        /\ scope[j] = "auto" /\ pc[j] \in Passed \cup {"submit"}
        /\ i < j /\ file[i] = file[j]
        => copy[i] <= copy[j]

\* The automatic review j reads what is due or has read it, and was not stopped.
Pursues(j) ==
    /\ j \in Ids
    /\ scope[j] = "auto" /\ file[j] = due.file
    /\ pc[j] = "zip" \/ copy[j] >= due.version
    /\ pc[j] # "stopped"

\* Unless the timer runs for it, what is due is with the latest automatic review.
Pursued ==
    due # Nothing =>
        /\ enabled
        /\ due.file \in Files
        /\ due.version <= text[due.file]
        /\ IF timer = None THEN Pursues(latest) ELSE timer = due.file

IInv ==
    /\ TypeOK
    /\ InTime
    /\ Started
    /\ OneProjectScan
    /\ StopHeld
    /\ StoppedHidden
    /\ Autos
    /\ ReadInOrder
    /\ Pursued

-----------------------------------------------------------------------------
(* What the steps of a review have in common *)

\* Review i goes from one await to the next, or ends.
Moved(i, p, n) ==
    /\ pc' = [pc EXCEPT ![i] = p]
    /\ polls' = [polls EXCEPT ![i] = n]
    /\ p = "status" => n <= MaxPolls
    /\ p \in Passed => pc[i] \in Passed \/ (pc[i] = "submit" /\ ~Cancelled(i))
    /\ p = "submit" => pc[i] = "zip"
    /\ p = "shown" => pc[i] = "list" /\ ~Cancelled(i)
    /\ p = "stopped" => Cancelled(i)
    /\ state' = IF p \in Ended
                THEN [state EXCEPT ![Owner(scope[i])] = "NotStarted"] ELSE state

\* Nothing but review i, what it owns and the quota changes.
LEMMA StepOfReview ==
    ASSUME NEW i \in Ids, TypeOK, InTime, Progress(i)
    PROVE  /\ InFlight(i)
           /\ UNCHANGED <<scope, file, stopped, clicks, dialogs, latest, enabled, announced,
                          timer, active, version, text, due>>
           /\ \E p \in Waiting \cup Ended, n \in 0..(MaxPolls + 1) : Moved(i, p, n)
           /\ copy' = IF pc[i] = "zip"
                      THEN [copy EXCEPT ![i] = IF file[i] = None THEN 0 ELSE text[file[i]]]
                      ELSE copy
           /\ quota' \in BOOLEAN
<1> USE ScanAssumption DEF Ids, Waiting, Ended, Passed, InFlight, editor
<1>1. polls[i] \in 0..(MaxPolls + 1) /\ quota \in BOOLEAN /\ 0 \in 0..(MaxPolls + 1)
  BY DEF TypeOK
<1>2. CASE ReadText(i)
  <2>1. Moved(i, "submit", polls[i])
    BY <1>2 DEF ReadText, TypeOK, Moved
  <2> QED
    BY <1>1, <1>2, <2>1 DEF ReadText, Others
<1>3. CASE Submit(i)
  <2>1. Moved(i, "stopped", 0) \/ Moved(i, "sleep", 0)
    BY <1>3 DEF Submit, GoOn, End, Moved
  <2>2. 0 \in 0..(MaxPolls + 1)
    BY <1>1, <1>3 DEF Submit
  <2> QED
    BY <1>1, <1>3, <2>1, <2>2 DEF Submit, Others
<1>4. CASE StopEarly(i)
  <2>1. Moved(i, "stopped", 0)
    BY <1>4 DEF StopEarly, End, Moved
  <2> QED
    BY <1>1, <1>4, <2>1 DEF StopEarly, Others
<1>5. CASE Ask(i)
  <2>1. Moved(i, "stopped", 0) \/ Moved(i, "status", polls[i])
    BY <1>5 DEF Ask, GoOn, End, Moved
  <2>2. polls[i] \in 0..(MaxPolls + 1)
    BY <1>1, <1>5 DEF Ask
  <2> QED
    BY <1>1, <1>5, <2>1, <2>2 DEF Ask, Others
<1>6. CASE TimeOut(i)
  <2>1. Moved(i, "failed", 0)
    BY <1>6 DEF TimeOut, End, Moved
  <2> QED
    BY <1>1, <1>6, <2>1 DEF TimeOut, Others
<1>7. CASE Pending(i)
  <2>1. Moved(i, "stopped", 0) \/ Moved(i, "sleep", polls[i] + 1)
    BY <1>7 DEF Pending, GoOn, End, Moved
  <2>2. polls[i] + 1 \in 0..(MaxPolls + 1)
    BY <1>1, <1>7 DEF Pending, InTime
  <2> QED
    BY <1>1, <1>7, <2>1, <2>2 DEF Pending, Others
<1>8. CASE Done(i)
  <2>1. Moved(i, "stopped", 0) \/ Moved(i, "list", 0)
    BY <1>8 DEF Done, GoOn, End, Moved
  <2>2. 0 \in 0..(MaxPolls + 1)
    BY <1>1, <1>8 DEF Done
  <2> QED
    BY <1>1, <1>8, <2>1, <2>2 DEF Done, Others
<1>9. CASE Show(i)
  <2>1. Moved(i, "stopped", 0) \/ Moved(i, "shown", 0)
    BY <1>9 DEF Show, End, Moved
  <2> QED
    BY <1>1, <1>9, <2>1 DEF Show, Others
<1>10. CASE Fail(i)
  <2>1. Moved(i, "failed", 0)
    BY <1>10 DEF Fail, End, Moved
  <2> QED
    BY <1>1, <1>10, <2>1 DEF Fail, Others
<1>11. CASE Throttled(i)
  <2>1. Moved(i, "failed", 0)
    BY <1>11 DEF Throttled, End, Moved
  <2> QED
    BY <1>1, <1>11, <2>1 DEF Throttled, Others
<1> QED
  BY <1>2, <1>3, <1>4, <1>5, <1>6, <1>7, <1>8, <1>9, <1>10, <1>11 DEF Progress

\* The other steps that start no review leave the reviews alone.
Aside ==
    /\ UNCHANGED <<scope, file, pc, copy, polls>>
    /\ \A f \in Files : text[f] <= text'[f]
    /\ latest' = latest
    /\ \/ UNCHANGED <<state, stopped>>
       \/ \E s \in OnDemand : Cancel(s)

LEMMA StepAside ==
    ASSUME TypeOK, Next,
           \A i \in Ids : ~StartAuto(i) /\ ~Progress(i) /\ \A s \in OnDemand : ~Request(i, s)
    PROVE  Aside
<1>0. \A f \in Files : text[f] <= text[f] /\ text[f] <= version
  BY ScanAssumption DEF TypeOK
<1>1. CASE \E s \in OnDemand : Click(s) \/ FormActionClicked(s) \/ AskToStop(s)
  BY <1>0, <1>1 DEF Click, FormActionClicked, AskToStop, Aside, scans, auto, editor
<1>2. CASE \E s \in OnDemand, yes \in BOOLEAN : Answer(s, yes)
  BY <1>0, <1>2 DEF Answer, Aside, scans, auto, editor
<1>3. CASE \E f \in Files : Edit(f)
  BY <1>0, <1>3, ScanAssumption DEF Edit, Aside, scans, control, TypeOK
<1>4. CASE (\E f \in Files : Switch(f)) \/ Toggle \/ Announce
  BY <1>0, <1>4 DEF Switch, Toggle, Announce, Aside, scans, control
<1> QED
  BY <1>1, <1>2, <1>3, <1>4 DEF Next

-----------------------------------------------------------------------------
(* Types *)

LEMMA InitInv == Init => IInv
<1> SUFFICES ASSUME Init PROVE IInv
  OBVIOUS
<1> USE ScanAssumption DEF Init
<1>1. timer \in Files \cup {None} /\ due \in [file : Files \cup {None}, version : 0..MaxText]
  BY DEF Nothing
<1>2. version \in 1..MaxText /\ text \in [Files -> 1..version]
  OBVIOUS
<1>3. TypeOK
  <2>1. /\ scope \in [Ids -> OnDemand \cup {"auto", None}]
        /\ file \in [Ids -> Files \cup {None}]
        /\ pc \in [Ids -> Waiting \cup Ended \cup {"idle"}]
        /\ stopped \in [Ids -> BOOLEAN]
        /\ state \in [OnDemand -> {"NotStarted", "Running", "Cancelling"}]
    OBVIOUS
  <2>2. /\ copy \in [Ids -> 0..MaxText]
        /\ polls \in [Ids -> 0..(MaxPolls + 1)]
        /\ latest \in 0..MaxScans
    OBVIOUS
  <2> QED
    BY <1>1, <1>2, <2>1, <2>2 DEF TypeOK
<1>4. \A i \in Ids : pc[i] = "idle" /\ scope[i] = None
  BY DEF Ids, None
<1>5. InTime /\ Started /\ OneProjectScan /\ StopHeld /\ StoppedHidden /\ Autos /\ ReadInOrder
  BY <1>4 DEF InTime, Started, OneProjectScan, StopHeld, StoppedHidden, Autos, ReadInOrder,
              InFlight, Waiting, Passed, None, Ids
<1>6. Pursued
  <2>1. due # Nothing => enabled /\ due.file = active /\ due.version = 1 /\ timer = active
    OBVIOUS
  <2> QED
    BY <2>1 DEF Pursued, None
<1> QED
  BY <1>3, <1>5, <1>6 DEF IInv

LEMMA DebounceType ==
    ASSUME TypeOK, NEW f \in Files, NEW v \in 0..MaxText, Debounce(f, v)
    PROVE  /\ timer' \in Files \cup {None}
           /\ due' \in [file : Files \cup {None}, version : 0..MaxText]
BY DEF Debounce, TypeOK

LEMMA TypeStep == TypeOK /\ InTime /\ [Next]_vars => TypeOK' /\ InTime'
<1> SUFFICES ASSUME TypeOK, InTime, [Next]_vars PROVE TypeOK' /\ InTime'
  OBVIOUS
<1> USE ScanAssumption DEF TypeOK, OnDemand
<1>1. ASSUME NEW i \in Ids, NEW s \in OnDemand, Request(i, s)
      PROVE  TypeOK' /\ InTime'
  BY <1>1 DEF Request, auto, editor, InTime, Waiting, Ids
<1>2. ASSUME NEW i \in Ids, StartAuto(i)
      PROVE  TypeOK' /\ InTime'
  <2>1. timer \in Files /\ i \in 0..MaxScans /\ "file" \in OnDemand
    BY <1>2 DEF StartAuto, Ids
  <2>2. pc' \in [Ids -> Waiting \cup Ended \cup {"idle"}] /\ InTime'
    BY <1>2 DEF StartAuto, Waiting, Ended, InTime
  <2>3. state' \in [OnDemand -> {"NotStarted", "Running", "Cancelling"}]
    BY <1>2 DEF StartAuto
  <2>4. /\ scope' \in [Ids -> OnDemand \cup {"auto", None}]
        /\ file' \in [Ids -> Files \cup {None}]
        /\ latest' \in 0..MaxScans
        /\ timer' \in Files \cup {None}
    BY <1>2, <2>1 DEF StartAuto
  <2> QED
    BY <1>2, <2>2, <2>3, <2>4 DEF StartAuto, editor
<1>3. ASSUME NEW i \in Ids, Progress(i)
      PROVE  TypeOK' /\ InTime'
  <2>1. PICK p \in Waiting \cup Ended, n \in 0..(MaxPolls + 1) : Moved(i, p, n)
    BY <1>3, StepOfReview
  <2>2. /\ UNCHANGED <<scope, file, stopped, clicks, dialogs, latest, enabled, announced,
                       timer, active, version, text, due>>
        /\ quota' \in BOOLEAN
        /\ copy' \in [Ids -> 0..MaxText]
    <3>1. file[i] = None \/ text[file[i]] \in 0..MaxText
      BY DEF None
    <3> QED
      BY <1>3, <3>1, StepOfReview
  <2>3. state' \in [OnDemand -> {"NotStarted", "Running", "Cancelling"}]
    BY <2>1 DEF Moved, Owner
  <2>4. InTime'
    BY <2>1 DEF Moved, InTime
  <2> QED
    BY <2>1, <2>2, <2>3, <2>4 DEF Moved
<1>4. ASSUME NEW s \in OnDemand, Click(s) \/ FormActionClicked(s) \/ AskToStop(s)
      PROVE  TypeOK' /\ InTime'
  <2>1. CASE Click(s)
    BY <2>1 DEF Click, scans, auto, editor, InTime
  <2>2. CASE FormActionClicked(s)
    BY <2>2 DEF FormActionClicked, Cancel, scans, auto, editor, InTime
  <2>3. CASE AskToStop(s)
    BY <2>3 DEF AskToStop, scans, auto, editor, InTime
  <2> QED
    BY <1>4, <2>1, <2>2, <2>3
<1>5. CASE \E s \in OnDemand, yes \in BOOLEAN : Answer(s, yes)
  BY <1>5 DEF Answer, Cancel, scans, auto, editor, InTime
<1>6. ASSUME NEW f \in Files, Edit(f)
      PROVE  TypeOK' /\ InTime'
  <2>1. version + 1 \in 0..MaxText
    BY <1>6 DEF Edit
  <2>2. /\ timer' \in Files \cup {None}
        /\ due' \in [file : Files \cup {None}, version : 0..MaxText]
    BY <1>6, <2>1, DebounceType DEF Edit
  <2>3. version' \in 1..MaxText /\ text' \in [Files -> 1..version']
    BY <1>6 DEF Edit
  <2> QED
    BY <1>6, <2>2, <2>3 DEF Edit, scans, control, InTime
<1>7. ASSUME NEW f \in Files, Switch(f)
      PROVE  TypeOK' /\ InTime'
  <2>1. text[f] \in 0..MaxText
    OBVIOUS
  <2>2. /\ timer' \in Files \cup {None}
        /\ due' \in [file : Files \cup {None}, version : 0..MaxText]
    BY <1>7, <2>1, DebounceType DEF Switch
  <2> QED
    BY <1>7, <2>2 DEF Switch, scans, control, InTime
<1>8. CASE Toggle
  BY <1>8 DEF Toggle, Nothing, scans, control, InTime
<1>9. CASE Announce
  <2>1. text[active] \in 0..MaxText
    OBVIOUS
  <2>2. /\ timer' \in Files \cup {None}
        /\ due' \in [file : Files \cup {None}, version : 0..MaxText]
    BY <1>9, <2>1, DebounceType DEF Announce
  <2> QED
    BY <1>9, <2>2 DEF Announce, scans, control, InTime
<1>10. CASE UNCHANGED vars
  BY <1>10 DEF vars, InTime
<1> QED
  BY <1>1, <1>2, <1>3, <1>4, <1>5, <1>6, <1>7, <1>8, <1>9, <1>10 DEF Next

\* The types of the state of all reviews, of the triggers and of the user's requests
\* are kept by every step (startSecurityScan and all that start and stop it).
THEOREM TypeInvariant == Spec => []TypeOK
<1>1. Init => TypeOK /\ InTime
  BY InitInv DEF IInv
<1>2. TypeOK /\ InTime /\ [Next]_vars => (TypeOK /\ InTime)'
  BY TypeStep
<1> QED
  BY <1>1, <1>2, PTL DEF Spec

-----------------------------------------------------------------------------
(* The steps preserve the rest of the invariant *)

\* Request and StartAuto.
Starts(i) == StartAuto(i) \/ \E s \in OnDemand : Request(i, s)

LEMMA StepCases ==
    ASSUME TypeOK, InTime, [Next]_vars
    PROVE  \/ \E i \in Ids : Starts(i)
           \/ \E i \in Ids : Progress(i)
           \/ Aside
<1>1. CASE UNCHANGED vars
  <2>1. \A f \in Files : text[f] <= text[f]
    BY ScanAssumption DEF TypeOK
  <2> QED
    BY <1>1, <2>1 DEF vars, Aside
<1> QED
  BY <1>1, StepAside DEF Starts

\* A new review is not one that was there.
LEMMA StartForm ==
    ASSUME TypeOK, Started, NEW i \in Ids, Starts(i)
    PROVE  /\ pc[i] = "idle" /\ ~stopped[i]
           /\ \A j \in Ids : pc[j] = "idle" => i <= j
           /\ \E p \in {"zip", "stopped"} : pc' = [pc EXCEPT ![i] = p]
           /\ \E s \in OnDemand \cup {"auto"} :
                 /\ scope' = [scope EXCEPT ![i] = s]
                 /\ IF s = "auto"
                    THEN latest' = i /\ \E f \in Files : file' = [file EXCEPT ![i] = f]
                    ELSE /\ latest' = latest /\ file' = file
                         /\ state[s] = "NotStarted" /\ state'[s] = "Running"
                 /\ s # "project" => state'["project"] = state["project"]
           /\ UNCHANGED <<copy, stopped, text>>
<1>1. pc[i] = "idle" /\ ~stopped[i] /\ \A j \in Ids : pc[j] = "idle" => i <= j
  BY DEF Starts, StartAuto, Request, Fresh, Free, Started
<1>2. ASSUME NEW s \in OnDemand, Request(i, s)
      PROVE  /\ pc' = [pc EXCEPT ![i] = "zip"]
             /\ scope' = [scope EXCEPT ![i] = s]
             /\ latest' = latest /\ file' = file /\ s # "auto"
             /\ state[s] = "NotStarted" /\ state'[s] = "Running"
             /\ s # "project" => state'["project"] = state["project"]
             /\ UNCHANGED <<copy, stopped, text>>
  BY <1>2 DEF Request, auto, editor, TypeOK, OnDemand
<1>3. CASE StartAuto(i)
  <2>1. /\ scope' = [scope EXCEPT ![i] = "auto"]
        /\ latest' = i
        /\ file' = [file EXCEPT ![i] = timer] /\ timer \in Files
        /\ UNCHANGED <<copy, stopped, text>>
    BY <1>3 DEF StartAuto, editor, TypeOK
  <2>2. \/ pc' = [pc EXCEPT ![i] = "zip"] /\ state' = state
        \/ pc' = [pc EXCEPT ![i] = "stopped"] /\ state' = [state EXCEPT !["file"] = "NotStarted"]
    BY <1>3 DEF StartAuto
  <2>3. state'["project"] = state["project"]
    BY <2>2 DEF TypeOK, OnDemand
  <2> QED
    BY <1>1, <2>1, <2>2, <2>3
<1> QED
  BY <1>1, <1>2, <1>3 DEF Starts

\* Only the review that reads a text changes its copy.
LEMMA CopyStep ==
    ASSUME TypeOK, InTime, NEW i \in Ids, Progress(i), NEW j \in Ids
    PROVE  /\ j # i \/ pc[i] # "zip" => copy'[j] = copy[j]
           /\ j = i /\ pc[i] = "zip" /\ file[i] # None => copy'[j] = text[file[j]]
           /\ j = i /\ pc[i] = "zip" /\ file[i] = None => copy'[j] = 0
<1>1. copy' = IF pc[i] = "zip"
              THEN [copy EXCEPT ![i] = IF file[i] = None THEN 0 ELSE text[file[i]]]
              ELSE copy
  BY StepOfReview
<1>2. CASE pc[i] = "zip"
  <2>1. copy' = [copy EXCEPT ![i] = IF file[i] = None THEN 0 ELSE text[file[i]]]
    BY <1>1, <1>2
  <2> QED
    BY <1>2, <2>1 DEF TypeOK
<1>3. CASE pc[i] # "zip"
  BY <1>1, <1>3
<1> QED
  BY <1>2, <1>3

LEMMA StartedStep == TypeOK /\ InTime /\ Started /\ [Next]_vars => Started'
<1> SUFFICES ASSUME TypeOK, InTime, Started, [Next]_vars PROVE Started'
  OBVIOUS
<1>1. ASSUME NEW i \in Ids, Starts(i)
      PROVE  Started'
  <2>1. /\ pc[i] = "idle"
        /\ \A j \in Ids : pc[j] = "idle" => i <= j
        /\ \A j \in Ids : j # i => pc'[j] = pc[j] /\ scope'[j] = scope[j]
        /\ pc'[i] # "idle"
        /\ stopped' = stopped /\ copy' = copy
    BY <1>1, StartForm DEF TypeOK
  <2> QED
    BY <2>1, ScanAssumption DEF Started, Ids
<1>2. ASSUME NEW i \in Ids, Progress(i)
      PROVE  Started'
  <2>1. PICK p \in Waiting \cup Ended, n \in 0..(MaxPolls + 1) : Moved(i, p, n)
    BY <1>2, StepOfReview
  <2>2. \A j \in Ids : (pc'[j] = "idle") = (pc[j] = "idle")
    BY <1>2, <2>1, StepOfReview DEF Moved, TypeOK, InFlight, Waiting, Ended
  <2>3. \A j \in Ids : pc[j] = "idle" => copy'[j] = copy[j]
    BY <1>2, StepOfReview, CopyStep DEF InFlight, Waiting
  <2> QED
    BY <1>2, <2>2, <2>3, StepOfReview DEF Started
<1>3. CASE Aside
  BY <1>3 DEF Aside, Cancel, InFlight, Waiting, Started
<1> QED
  BY <1>1, <1>2, <1>3, StepCases

-----------------------------------------------------------------------------
(* One review of the project, and its stop *)

Project == OneProjectScan /\ StopHeld /\ StoppedHidden

LEMMA ProjectStep ==
    TypeOK /\ InTime /\ Started /\ Project /\ [Next]_vars => Project'
<1> SUFFICES ASSUME TypeOK, InTime, Started, Project, [Next]_vars PROVE Project'
  OBVIOUS
<1>1. ASSUME NEW i \in Ids, Starts(i)
      PROVE  Project'
  <2>1. PICK s \in OnDemand \cup {"auto"} :
          /\ scope' = [scope EXCEPT ![i] = s]
          /\ s = "project" => state["project"] = "NotStarted" /\ state'["project"] = "Running"
          /\ s # "project" => state'["project"] = state["project"]
    BY <1>1, StartForm
  <2>2. /\ pc[i] = "idle" /\ ~stopped[i] /\ stopped' = stopped
        /\ \A j \in Ids : j # i => pc'[j] = pc[j] /\ scope'[j] = scope[j]
        /\ scope'[i] = s
    BY <1>1, <2>1, StartForm DEF TypeOK
  <2>3. \A j \in Ids : j # i /\ InFlight(j)' /\ scope'[j] = "project" => s # "project"
    BY <2>1, <2>2 DEF Project, OneProjectScan, InFlight
  <2>4. OneProjectScan'
    BY <2>1, <2>2, <2>3 DEF Project, OneProjectScan, InFlight
  <2>5. StopHeld' /\ StoppedHidden'
    BY <2>1, <2>2, <2>3 DEF Project, StopHeld, StoppedHidden, InFlight
  <2> QED
    BY <2>4, <2>5 DEF Project
<1>2. ASSUME NEW i \in Ids, Progress(i)
      PROVE  Project'
  <2>1. PICK p \in Waiting \cup Ended, n \in 0..(MaxPolls + 1) : Moved(i, p, n)
    BY <1>2, StepOfReview
  <2>2. scope' = scope /\ stopped' = stopped /\ InFlight(i)
    BY <1>2, StepOfReview
  <2>3. /\ \A j \in Ids : j # i => pc'[j] = pc[j]
        /\ pc'[i] = p
    BY <2>1 DEF Moved, TypeOK
  <2>4. state'["project"] # state["project"] => scope[i] = "project" /\ ~InFlight(i)'
    BY <2>1, <2>3 DEF Moved, TypeOK, Owner, OnDemand, InFlight, Waiting, Ended
  <2>5. OneProjectScan'
    BY <2>2, <2>3, <2>4 DEF Project, OneProjectScan, InFlight
  <2>6. StopHeld'
    BY <2>2, <2>3, <2>4 DEF Project, OneProjectScan, StopHeld, InFlight
  <2>7. p = "shown" /\ scope[i] = "project" => ~stopped[i]
    BY <2>1, <2>2 DEF Moved, Cancelled, Project, StopHeld
  <2>8. StoppedHidden'
    BY <2>2, <2>3, <2>7 DEF Project, StoppedHidden
  <2> QED
    BY <2>5, <2>6, <2>8 DEF Project
<1>3. CASE Aside
  <2>1. CASE UNCHANGED <<state, stopped>>
    BY <1>3, <2>1 DEF Aside, Project, OneProjectScan, StopHeld, StoppedHidden, InFlight
  <2>2. ASSUME NEW s \in OnDemand, Cancel(s)
        PROVE  Project'
    <3>1. /\ state'["project"] = IF s = "project" THEN "Cancelling" ELSE state["project"]
          /\ \A i \in Ids : scope[i] = "project" /\ stopped'[i] =>
                stopped[i] \/ (InFlight(i) /\ s = "project")
      BY <2>2 DEF Cancel, TypeOK, OnDemand
    <3>2. OneProjectScan'
      BY <1>3, <3>1 DEF Aside, Project, OneProjectScan, InFlight
    <3>3. StopHeld' /\ StoppedHidden'
      BY <1>3, <3>1 DEF Aside, Project, StopHeld, StoppedHidden, InFlight, Waiting
    <3> QED
      BY <3>2, <3>3 DEF Project
  <2> QED
    BY <1>3, <2>1, <2>2 DEF Aside
<1> QED
  BY <1>1, <1>2, <1>3, StepCases

-----------------------------------------------------------------------------
(* The order of the automatic reviews *)

LEMMA AutosStep ==
    TypeOK /\ InTime /\ Started /\ Autos /\ [Next]_vars => Autos'
<1> SUFFICES ASSUME TypeOK, InTime, Started, Autos, [Next]_vars PROVE Autos'
  OBVIOUS
<1> USE ScanAssumption
<1>1. ASSUME NEW i \in Ids, Starts(i)
      PROVE  Autos'
  <2>1. PICK s \in OnDemand \cup {"auto"} :
          /\ scope' = [scope EXCEPT ![i] = s]
          /\ IF s = "auto"
             THEN latest' = i /\ \E f \in Files : file' = [file EXCEPT ![i] = f]
             ELSE latest' = latest /\ file' = file
    BY <1>1, StartForm
  <2>2. /\ pc[i] = "idle" /\ UNCHANGED <<copy, text>>
        /\ \A j \in Ids : j # i => scope'[j] = scope[j]
        /\ scope'[i] = s
    BY <1>1, <2>1, StartForm DEF TypeOK
  <2>3. \A j \in Ids : scope[j] = "auto" => j < i
    BY <2>2 DEF Started, None
  <2>4. copy[i] = 0
    BY <2>2 DEF Started
  <2>5. ASSUME NEW j \in Ids, scope'[j] = "auto", j # i
        PROVE  j <= latest' /\ file'[j] \in Files /\ copy'[j] <= text'[file'[j]]
    <3>1. scope[j] = "auto"
      BY <2>2, <2>5
    <3>2. file'[j] = file[j] /\ latest' \in {latest, i}
      BY <2>1, <2>5 DEF TypeOK
    <3> QED
      BY <2>2, <2>3, <3>1, <3>2 DEF Autos, Ids
  <2>6. CASE s = "auto"
    <3>1. latest' = i /\ file'[i] \in Files
      BY <2>1, <2>6 DEF TypeOK
    <3>2. copy'[i] <= text'[file'[i]] /\ i <= i
      BY <2>2, <2>4, <3>1 DEF TypeOK, Ids
    <3> QED
      BY <2>5, <3>1, <3>2 DEF Autos
  <2>7. CASE s # "auto"
    BY <2>2, <2>5, <2>7 DEF Autos
  <2> QED
    BY <2>6, <2>7
<1>2. ASSUME NEW i \in Ids, Progress(i)
      PROVE  Autos'
  <2>1. UNCHANGED <<scope, file, latest, text>>
    BY <1>2, StepOfReview
  <2>2. \A j \in Ids : scope[j] = "auto" => copy'[j] = copy[j] \/ copy'[j] = text[file[j]]
    BY <1>2, StepOfReview DEF Autos, TypeOK, None
  <2>3. \A f \in Files : text[f] <= text[f]
    BY DEF TypeOK
  <2> QED
    BY <2>1, <2>2, <2>3 DEF Autos
<1>3. CASE Aside
  <2>1. \A j \in Ids, f \in Files : copy[j] <= text[f] => copy'[j] <= text'[f]
    <3>1. \A f \in Files : text[f] \in Nat /\ text'[f] \in Nat /\ text[f] <= text'[f]
      BY <1>3, TypeStep DEF Aside, TypeOK
    <3>2. copy' = copy /\ \A j \in Ids : copy[j] \in Nat
      BY <1>3 DEF Aside, TypeOK
    <3> QED
      BY <3>1, <3>2
  <2> QED
    BY <1>3, <2>1 DEF Aside, Autos
<1> QED
  BY <1>1, <1>2, <1>3, StepCases

LEMMA ReadInOrderStep ==
    TypeOK /\ InTime /\ Started /\ Autos /\ ReadInOrder /\ [Next]_vars => ReadInOrder'
<1> SUFFICES ASSUME TypeOK, InTime, Started, Autos, ReadInOrder, [Next]_vars
             PROVE  ReadInOrder'
  OBVIOUS
<1> USE ScanAssumption
<1>1. ASSUME NEW i \in Ids, Starts(i)
      PROVE  ReadInOrder'
  <2>1. /\ pc[i] = "idle" /\ copy' = copy
        /\ \A j \in Ids : j # i => pc'[j] = pc[j] /\ scope'[j] = scope[j] /\ file'[j] = file[j]
        /\ pc'[i] \notin Passed \cup {"submit"}
    BY <1>1, StartForm DEF TypeOK, Passed
  <2> QED
    BY <2>1 DEF ReadInOrder
<1>2. ASSUME NEW i \in Ids, Progress(i)
      PROVE  ReadInOrder'
  <2>1. PICK p \in Waiting \cup Ended, n \in 0..(MaxPolls + 1) : Moved(i, p, n)
    BY <1>2, StepOfReview
  <2>2. /\ UNCHANGED <<scope, file>>
        /\ \A j \in Ids : j # i => pc'[j] = pc[j] /\ copy'[j] = copy[j]
        /\ pc'[i] = p
        /\ pc[i] # "zip" => copy'[i] = copy[i]
    <3>1. UNCHANGED <<scope, file>>
      BY <1>2, StepOfReview
    <3>2. pc'[i] = p /\ \A j \in Ids : j # i => pc'[j] = pc[j]
      BY <2>1 DEF Moved, TypeOK
    <3> QED
      BY <1>2, <3>1, <3>2, CopyStep
  <2> SUFFICES ASSUME NEW a \in Ids, NEW b \in Ids, a < b,
                      scope[a] = "auto", pc'[a] \in Passed,
                      scope[b] = "auto", pc'[b] \in Passed \cup {"submit"}, file[a] = file[b]
               PROVE  copy'[a] <= copy'[b]
    BY <2>2 DEF ReadInOrder
  <2>3. CASE i = a
    <3>1. pc[a] \in Passed \/ (pc[a] = "submit" /\ ~Cancelled(a))
      BY <2>1, <2>2, <2>3 DEF Moved
    <3>2. b <= latest
      BY DEF Autos
    <3>3. pc[a] \in Passed
      <4>1. latest > a
        BY <3>2 DEF TypeOK, Ids
      <4> QED
        BY <3>1, <4>1 DEF Cancelled
    <3> QED
      BY <2>2, <2>3, <3>3 DEF ReadInOrder, Passed, Ids
  <2>4. CASE i = b
    <3>1. CASE pc[b] = "zip"
      <4>1. copy'[b] = text[file[b]] /\ copy'[a] = copy[a]
        BY <1>2, <2>2, <2>4, <3>1, CopyStep, ScanAssumption DEF Autos, None, Ids
      <4> QED
        BY <4>1 DEF Autos
    <3>2. CASE pc[b] # "zip"
      <4>1. pc[b] \in Passed \cup {"submit"}
        BY <2>1, <2>2, <2>4, <3>2 DEF Moved
      <4> QED
        BY <2>2, <2>4, <3>2, <4>1 DEF ReadInOrder, Ids
    <3> QED
      BY <3>1, <3>2
  <2>5. CASE i # a /\ i # b
    BY <2>2, <2>5 DEF ReadInOrder
  <2> QED
    BY <2>3, <2>4, <2>5
<1>3. CASE Aside
  BY <1>3 DEF Aside, ReadInOrder
<1> QED
  BY <1>1, <1>2, <1>3, StepCases

-----------------------------------------------------------------------------
(* What asked last is pursued *)

\* A review that is asked for is not the latest automatic one.
LEMMA RequestPursues ==
    ASSUME TypeOK, Started, Pursued, NEW i \in Ids, NEW s \in OnDemand, Request(i, s)
    PROVE  Pursued'
<1>1. /\ scope[i] = None /\ s # "auto"
      /\ scope' = [scope EXCEPT ![i] = s] /\ pc' = [pc EXCEPT ![i] = "zip"]
      /\ UNCHANGED <<file, copy, latest, enabled, timer, text, due>>
  BY DEF Request, Fresh, Free, Started, auto, editor, OnDemand
<1>2. Pursues(latest) => Pursues(latest)'
  BY <1>1 DEF Pursues, TypeOK, None
<1> QED
  BY <1>1, <1>2 DEF Pursued

\* The timer runs out: the review that starts is the latest one, and is about the file
\* of the last call.
LEMMA AutoPursues ==
    ASSUME TypeOK, Pursued, NEW i \in Ids, StartAuto(i)
    PROVE  Pursued'
<1>1. /\ timer # None /\ timer' = None /\ latest' = i
      /\ scope' = [scope EXCEPT ![i] = "auto"] /\ file' = [file EXCEPT ![i] = timer]
      /\ enabled => pc' = [pc EXCEPT ![i] = "zip"]
      /\ UNCHANGED <<enabled, text, due>>
  BY DEF StartAuto, editor
<1>2. due # Nothing => Pursues(i)'
  BY <1>1 DEF Pursued, Pursues, TypeOK
<1> QED
  BY <1>1, <1>2 DEF Pursued

\* The latest automatic review reads what is due, and nothing stops it.
LEMMA ProgressPursues ==
    ASSUME TypeOK, InTime, Pursued, NEW i \in Ids, Progress(i)
    PROVE  Pursued'
<1>1. PICK p \in Waiting \cup Ended, n \in 0..(MaxPolls + 1) : Moved(i, p, n)
  BY StepOfReview
<1>2. UNCHANGED <<scope, file, latest, enabled, timer, text, due>>
  BY StepOfReview
<1>3. ASSUME due # Nothing, timer = None
      PROVE  Pursues(latest)'
  <2>1. Pursues(latest) /\ enabled /\ due.file \in Files /\ due.version <= text[due.file]
    BY <1>3 DEF Pursued
  <2>2. CASE latest # i
    <3>1. pc'[latest] = pc[latest] /\ copy'[latest] = copy[latest]
      BY <1>1, <2>1, <2>2, CopyStep DEF Moved, TypeOK, Pursues
    <3> QED
      BY <1>2, <2>1, <3>1 DEF Pursues
  <2>3. CASE latest = i
    <3>1. ~Cancelled(i)
      BY <2>1, <2>3 DEF Cancelled, Pursues, Ids
    <3>2. pc'[i] # "stopped"
      BY <1>1, <3>1 DEF Moved, TypeOK
    <3>3. copy'[i] >= due.version
      <4>1. due.version \in Nat /\ text[due.file] \in Nat /\ file[i] # None
        BY <2>1, <2>3, ScanAssumption DEF TypeOK, Pursues, None
      <4>2. CASE pc[i] = "zip"
        BY <2>1, <2>3, <4>1, <4>2, CopyStep DEF Pursues
      <4>3. CASE pc[i] # "zip"
        BY <2>1, <2>3, <4>3, CopyStep DEF Pursues
      <4> QED
        BY <4>2, <4>3
    <3> QED
      BY <1>2, <2>1, <2>3, <3>2, <3>3 DEF Pursues
  <2> QED
    BY <2>2, <2>3
<1> QED
  BY <1>2, <1>3 DEF Pursued

\* A call of the debounce has the timer run for what comes to be due.
LEMMA DebouncePursues ==
    ASSUME TypeOK, Pursued, NEW f \in Files, NEW v, Debounce(f, v), v <= text'[f],
           enabled' = enabled
    PROVE  Pursued'
<1>1. CASE enabled
  <2>1. due' = [file |-> f, version |-> v] /\ timer' = f
    BY <1>1 DEF Debounce
  <2> QED
    BY <1>1, <2>1, ScanAssumption DEF Pursued, None
<1>2. CASE ~enabled
  BY <1>2 DEF Debounce, Pursued
<1> QED
  BY <1>1, <1>2

LEMMA PursuedStep ==
    TypeOK /\ InTime /\ Started /\ Pursued /\ [Next]_vars => Pursued'
<1> SUFFICES ASSUME TypeOK, InTime, Started, Pursued, [Next]_vars PROVE Pursued'
  OBVIOUS
<1> USE ScanAssumption
<1>0. /\ active \in Files
      /\ \A f \in Files : text[f] \in Nat /\ text[f] <= version /\ version \in Nat
      /\ due.version \in Nat
  BY DEF TypeOK
<1>1. ASSUME NEW i \in Ids, Progress(i) \/ StartAuto(i) \/ \E s \in OnDemand : Request(i, s)
      PROVE  Pursued'
  BY <1>1, RequestPursues, AutoPursues, ProgressPursues
<1>2. ASSUME UNCHANGED <<scope, file, pc, copy, latest, enabled, timer, due>>,
             \A f \in Files : text[f] <= text'[f] /\ text'[f] \in Nat
      PROVE  Pursued'
  <2>1. Pursues(latest) => Pursues(latest)'
    BY <1>2 DEF Pursues
  <2>2. \A f \in Files : due.version <= text[f] => due.version <= text'[f]
    BY <1>0, <1>2
  <2> QED
    BY <1>2, <2>1, <2>2 DEF Pursued
<1>3. CASE \E s \in OnDemand : Click(s) \/ FormActionClicked(s) \/ AskToStop(s)
  BY <1>0, <1>2, <1>3 DEF Click, FormActionClicked, AskToStop, scans, auto, editor
<1>4. CASE \E s \in OnDemand, yes \in BOOLEAN : Answer(s, yes)
  BY <1>0, <1>2, <1>4 DEF Answer, scans, auto, editor
<1>5. ASSUME NEW f \in Files, Edit(f)
      PROVE  Pursued'
  <2>1. UNCHANGED <<scope, file, pc, copy, latest, enabled>>
    BY <1>5 DEF Edit, scans
  <2>2. text'[f] = version + 1 /\ \A g \in Files : g # f => text'[g] = text[g]
    BY <1>5 DEF Edit, TypeOK
  <2>3. \A g \in Files : text[g] <= text'[g] /\ text'[g] \in Nat
    BY <1>0, <2>2
  <2>4. CASE UNCHANGED <<timer, due>>
    BY <1>2, <2>1, <2>3, <2>4
  <2>5. CASE Debounce(f, version + 1)
    <3>1. version + 1 <= text'[f]
      BY <1>0, <2>2
    <3> QED
      BY <2>1, <2>5, <3>1, DebouncePursues
  <2> QED
    BY <1>5, <2>4, <2>5 DEF Edit
<1>6. ASSUME NEW f \in Files, Switch(f) \/ Announce
      PROVE  Pursued'
  <2>1. /\ UNCHANGED <<scope, file, pc, copy, latest, enabled, text>>
        /\ \/ UNCHANGED <<timer, due>>
           \/ \E g \in Files : Debounce(g, text[g])
    BY <1>0, <1>6 DEF Switch, Announce, scans
  <2> QED
    BY <1>0, <1>2, <2>1, DebouncePursues
<1>7. CASE Toggle
  BY <1>7 DEF Toggle, Pursued
<1>8. CASE UNCHANGED vars
  BY <1>0, <1>2, <1>8 DEF vars
<1> QED
  BY <1>0, <1>1, <1>3, <1>4, <1>5, <1>6, <1>7, <1>8 DEF Next

-----------------------------------------------------------------------------
(* The theorems *)

LEMMA InvStep == IInv /\ [Next]_vars => IInv'
BY TypeStep, StartedStep, ProjectStep, AutosStep, ReadInOrderStep, PursuedStep
   DEF IInv, Project

THEOREM Invariance == Spec => []IInv
<1>1. Init => IInv
  BY InitInv
<1>2. IInv /\ [Next]_vars => IInv'
  BY InvStep
<1> QED
  BY <1>1, <1>2, PTL DEF Spec

\* However many reviews of files end, and whenever stops arrive, there is one review
\* of the project at a time and its state says so (codeScanState).
THEOREM OneAtATime == Spec => []OneProjectScan
<1>1. IInv => OneProjectScan
  BY DEF IInv
<1> QED
  BY <1>1, Invariance, PTL

\* A stopped review of the project shows nothing, at whatever await the stop reaches
\* it (throwIfCancelled).
THEOREM StopHolds == Spec => []StoppedHidden
<1>1. IInv => StoppedHidden
  BY DEF IInv
<1> QED
  BY <1>1, Invariance, PTL

\* Automatic reviews show their findings in the order they started in and of the
\* texts they read (throwIfCancelled, latestScanTime).
THEOREM ShownInOrder == Spec => AutoInOrder
<1>1. ASSUME IInv, [Next]_vars, NEW i \in Ids, NEW j \in Ids,
             scope[i] = "auto", InFlight(i), pc'[i] = "shown",
             scope[j] = "auto", pc[j] = "shown"
      PROVE  j < i /\ (file[j] = file[i] => copy[j] <= copy[i])
  <2> USE ScanAssumption
  <2>1. pc[i] = "list" /\ ~Cancelled(i)
    <3>1. ASSUME NEW k \in Ids, Starts(k)
          PROVE  FALSE
      <4>1. pc[k] = "idle" /\ \E p \in {"zip", "stopped"} : pc' = [pc EXCEPT ![k] = p]
        BY <1>1, <3>1, StartForm DEF IInv
      <4> QED
        BY <1>1, <4>1 DEF IInv, TypeOK, InFlight, Waiting
    <3>2. ASSUME NEW k \in Ids, Progress(k)
          PROVE  pc[i] = "list" /\ ~Cancelled(i)
      <4>1. PICK p \in Waiting \cup Ended, n \in 0..(MaxPolls + 1) : Moved(k, p, n)
        BY <1>1, <3>2, StepOfReview DEF IInv
      <4> QED
        BY <1>1, <4>1 DEF IInv, TypeOK, Moved, InFlight, Waiting
    <3>3. CASE Aside
      BY <1>1, <3>3 DEF Aside, InFlight, Waiting
    <3> QED
      BY <1>1, <3>1, <3>2, <3>3, StepCases DEF IInv
  <2>2. latest <= i
    BY <1>1, <2>1 DEF Cancelled, IInv, TypeOK, Ids
  <2>3. j <= latest
    BY <1>1 DEF IInv, Autos
  <2>4. j < i
    BY <1>1, <2>1, <2>2, <2>3, SMTT(60) DEF IInv, TypeOK, Ids
  <2> QED
    BY <1>1, <2>1, <2>4 DEF IInv, ReadInOrder, Passed
<1>2. IInv /\ [Next]_vars =>
        [\A i, j \in Ids :
           /\ scope[i] = "auto" /\ InFlight(i) /\ pc'[i] = "shown"
           /\ scope[j] = "auto" /\ pc[j] = "shown"
           => j < i /\ (file[j] = file[i] => copy[j] <= copy[i])]_vars
  BY <1>1
<1> QED
  BY <1>2, Invariance, PTL DEF Spec, AutoInOrder

\* What asked for an automatic review last is never lost: until it is reported the timer
\* runs for its file, or a review that reads it is under way, whatever the debounce
\* folds into it and whichever reviews it overtakes (debounceStartSecurityScan,
\* throwIfCancelled).
THEOREM LastIsKept == Spec => []LastRequestKept
<1>1. ASSUME IInv, Pursues(latest)
      PROVE  Underway(due.file, due.version) \/ Reported(due.file, due.version)
  <2>1. /\ latest \in Ids /\ scope[latest] = "auto" /\ file[latest] = due.file
        /\ pc[latest] = "zip" \/ copy[latest] >= due.version
        /\ pc[latest] \in Waiting \cup {"shown", "failed"}
    BY <1>1 DEF Pursues, IInv, TypeOK, Started, Ended, None
  <2>2. CASE pc[latest] \in Waiting
    BY <2>1, <2>2 DEF Underway, InFlight
  <2>3. CASE pc[latest] \in {"shown", "failed"}
    BY <2>1, <2>3 DEF Reported
  <2> QED
    BY <2>1, <2>2, <2>3
<1>2. IInv => LastRequestKept
  BY <1>1 DEF IInv, Pursued, LastRequestKept
<1> QED
  BY <1>2, Invariance, PTL
=============================================================================
