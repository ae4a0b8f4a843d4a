-------------------------- MODULE NotificationsProofs --------------------------
(***************************************************************************)
(* Theorems about Notifications, for any windows, feeds and bounds: types, *)
(* that nothing that was never toasted loses its mark, that what was       *)
(* dismissed stays hidden, and that no toast is repeated.                  *)
(***************************************************************************)
EXTENDS Notifications, TLAPS

\* Before its start-up poll has an answer a window has shown nothing yet, and before
\* the poll ends it has toasted nothing.
BlankAt(w) ==
    pc[w] = "off" \/ (polling[w] = "startUp" /\ pc[w] = "fetch")
        => /\ panel[w].startUp = {} /\ snap[w].startUp = {}
           /\ dismissing[w] = {} /\ gone[w] = {}
UntoldAt(w) ==
    pc[w] = "off" \/ (/\ polling[w] = "startUp"
                      /\ pc[w] \in {"fetch", "store", "rules", "refresh"})
        => \A n \in Ids : toasts[w][n] = 0
Blanks == \A w \in Windows : BlankAt(w) /\ UntoldAt(w)

\* What a window toasted is not marked as new any more.
UnmarkedAt(w) == \A n \in Ids :
    /\ toasts[w][n] <= 1
    /\ toasts[w][n] > 0 => n \notin mem[w].newlyReceived
Unmarked == \A w \in Windows : UnmarkedAt(w)

\* What a window shows or dismisses is in its copy of the feed, and what it
\* dismisses is dismissed in its entry.
StartUps(w) == Payload("startUp", mem[w].startUp)
HeldAt(w) ==
    /\ panel[w].startUp \subseteq StartUps(w) /\ snap[w].startUp \subseteq StartUps(w)
    /\ \A n \in StartUpIds : toasts[w][n] > 0 => n \in StartUps(w)
    /\ dismissing[w] \cup gone[w] \subseteq StartUps(w) \cap mem[w].dismissed
    /\ panel[w].startUp \cap gone[w] = {}
Held == \A w \in Windows : HeldAt(w)

\* While one window only was ever opened, the others are closed, its copies of the
\* entry agree, and the storage has every dismissal that ended.
Alone(w) == \A i \in DOMAIN opened : opened[i] = w
LoneAt(w) ==
    /\ pc[w] # "off" => /\ view[w] = mem[w]
                        /\ goneBefore[w] \subseteq StartUps(w) \cap mem[w].dismissed
                        /\ panel[w].startUp \cap goneBefore[w] = {}
    /\ gone[w] \cup goneBefore[w]
           \subseteq Payload("startUp", disk.startUp) \cap disk.dismissed
Lone == \A w \in Windows : Alone(w) => LoneAt(w)
Others == \A w \in Windows : pc[w] # "off" => \E i \in DOMAIN opened : opened[i] = w

IInv == TypeOK /\ Blanks /\ Unmarked /\ Held /\ Lone /\ Others

\* The feeds are apart, and a payload belongs to its feed.
LEMMA PayloadFacts ==
    /\ \A v \in Versions("startUp") : Payload("startUp", v) \subseteq StartUpIds
    /\ \A v \in Versions("emergency") : Payload("emergency", v) \subseteq EmergencyIds
    /\ StartUpIds \subseteq Ids /\ EmergencyIds \subseteq Ids
    /\ StartUpIds \cap EmergencyIds = {}
<1>1. \A c \in Categories : DOMAIN Feed[c] = 1..Len(Feed[c])
  BY FeedAssumption
<1>2. "startUp" \in Categories /\ "emergency" \in Categories
  BY DEF Categories
<1>3. \A c \in Categories : Len(Feed[c]) \in Nat
  BY FeedAssumption
<1> QED
  BY <1>1, <1>2, <1>3, FeedAssumption DEF Payload, Versions, Ids

\* An entry by its fields.
LEMMA EntryFacts ==
    ASSUME NEW e \in Entry
    PROVE  /\ Cleaned(e) \in Entry
           /\ Cleaned(e).startUp = e.startUp /\ Cleaned(e).emergency = e.emergency
           /\ Cleaned(e).newlyReceived = e.newlyReceived
           /\ Cleaned(e).dismissed = e.dismissed \cap Payload("startUp", e.startUp)
           /\ Received(Cleaned(e)) = Received(e) /\ Received(e) \subseteq Ids
           /\ Received(e) \cap StartUpIds = Payload("startUp", e.startUp)
<1>1. /\ e.startUp \in Versions("startUp") /\ e.emergency \in Versions("emergency")
      /\ e.dismissed \subseteq StartUpIds
  BY DEF Entry
<1>2. /\ Payload("startUp", e.startUp) \subseteq StartUpIds
      /\ Payload("emergency", e.emergency) \cap StartUpIds = {}
      /\ Received(e) \subseteq Ids
  BY <1>1, PayloadFacts DEF Received
<1>3. /\ Cleaned(e).startUp = e.startUp /\ Cleaned(e).emergency = e.emergency
      /\ Cleaned(e).newlyReceived = e.newlyReceived
      /\ Cleaned(e).dismissed = e.dismissed \cap Received(e)
      /\ Cleaned(e) \in Entry
  BY <1>1 DEF Cleaned, Entry
<1> QED
  BY <1>1, <1>2, <1>3 DEF Received

\* What a fetch does to the entry: what is added is marked, and a dismissal is only
\* dropped with its notification.
FetchEffect(w, added) ==
    /\ mem'[w] \in Entry
    /\ mem' = [mem EXCEPT ![w] = mem'[w]] /\ view' = [view EXCEPT ![w] = mem'[w]]
    /\ added \subseteq Ids
    /\ mem'[w].newlyReceived = mem[w].newlyReceived \cup added
    /\ Received(mem'[w]) \subseteq Received(mem[w]) \cup added
    /\ mem'[w].dismissed = mem[w].dismissed \cap StartUps(w)'
    /\ Received(mem'[w]) \cap StartUpIds = StartUps(w)'
    /\ polling[w] = "startUp" \/ mem'[w].startUp = mem[w].startUp
    /\ toasts' = [toasts EXCEPT ![w] = [n \in Ids |-> IF n \in added THEN 0 ELSE @[n]]]

LEMMA FetchedEffect ==
    ASSUME TypeOK, NEW w \in Windows, Fetched(w)
    PROVE  \E added \in SUBSET Ids : FetchEffect(w, added)
<1> DEFINE added(c) == Payload(c, published[c]) \ Payload(c, mem[w][c])
           new(c)   == [mem[w] EXCEPT ![c] = published[c],
                                     !.newlyReceived = @ \cup added(c)]
<1>0. mem[w] \in Entry
  BY DEF TypeOK
<1>1. CASE polling[w] = "startUp"
  <2>1. Category(w) = "startUp"
    BY <1>1 DEF Category
  <2>2. published["startUp"] \in Versions("startUp")
    BY DEF TypeOK, Categories
  <2>3. added("startUp") \subseteq Ids /\ mem[w].newlyReceived \subseteq Ids
    BY <1>0, <2>2, PayloadFacts DEF Entry
  <2>4. /\ new("startUp") \in Entry /\ new("startUp").startUp = published["startUp"]
        /\ new("startUp").emergency = mem[w].emergency
        /\ new("startUp").newlyReceived = mem[w].newlyReceived \cup added("startUp")
        /\ new("startUp").dismissed = mem[w].dismissed
    BY <1>0, <2>2, <2>3 DEF Entry
  <2>5. /\ mem' = [mem EXCEPT ![w] = Cleaned(new("startUp"))]
        /\ view' = [view EXCEPT ![w] = Cleaned(new("startUp"))]
        /\ toasts' = [toasts EXCEPT ![w] =
              [n \in Ids |-> IF n \in added("startUp") THEN 0 ELSE @[n]]]
    BY <2>1 DEF Fetched, Write
  <2>6. mem'[w] = Cleaned(new("startUp"))
    BY <2>5 DEF TypeOK
  <2>7. Received(new("startUp")) \subseteq Received(mem[w]) \cup added("startUp")
    BY <2>4 DEF Received
  <2> HIDE DEF new, added
  <2>8. /\ mem'[w] \in Entry /\ mem'[w].newlyReceived = mem[w].newlyReceived \cup added("startUp")
        /\ Received(mem'[w]) \subseteq Received(mem[w]) \cup added("startUp")
        /\ mem'[w].dismissed = mem[w].dismissed \cap StartUps(w)'
        /\ Received(mem'[w]) \cap StartUpIds = StartUps(w)'
        /\ polling[w] = "startUp" \/ mem'[w].startUp = mem[w].startUp
    BY <1>1, <2>4, <2>6, <2>7, EntryFacts DEF StartUps
  <2>9. FetchEffect(w, added("startUp"))
    BY <2>3, <2>5, <2>6, <2>8 DEF FetchEffect
  <2> QED
    BY <2>3, <2>9
<1>2. CASE polling[w] # "startUp"
  <2>1. Category(w) = "emergency"
    BY <1>2 DEF Category
  <2>2. published["emergency"] \in Versions("emergency")
    BY DEF TypeOK, Categories
  <2>3. added("emergency") \subseteq Ids /\ mem[w].newlyReceived \subseteq Ids
    BY <1>0, <2>2, PayloadFacts DEF Entry
  <2>4. /\ new("emergency") \in Entry /\ new("emergency").startUp = mem[w].startUp
        /\ new("emergency").emergency = published["emergency"]
        /\ new("emergency").newlyReceived = mem[w].newlyReceived \cup added("emergency")
        /\ new("emergency").dismissed = mem[w].dismissed
    BY <1>0, <2>2, <2>3 DEF Entry
  <2>5. /\ mem' = [mem EXCEPT ![w] = Cleaned(new("emergency"))]
        /\ view' = [view EXCEPT ![w] = Cleaned(new("emergency"))]
        /\ toasts' = [toasts EXCEPT ![w] =
              [n \in Ids |-> IF n \in added("emergency") THEN 0 ELSE @[n]]]
    BY <2>1 DEF Fetched, Write
  <2>6. mem'[w] = Cleaned(new("emergency"))
    BY <2>5 DEF TypeOK
  <2>7. Received(new("emergency")) \subseteq Received(mem[w]) \cup added("emergency")
    BY <2>4 DEF Received
  <2> HIDE DEF new, added
  <2>8. /\ mem'[w] \in Entry /\ mem'[w].newlyReceived = mem[w].newlyReceived \cup added("emergency")
        /\ Received(mem'[w]) \subseteq Received(mem[w]) \cup added("emergency")
        /\ mem'[w].dismissed = mem[w].dismissed \cap StartUps(w)'
        /\ Received(mem'[w]) \cap StartUpIds = StartUps(w)'
        /\ polling[w] = "startUp" \/ mem'[w].startUp = mem[w].startUp
    BY <1>2, <2>4, <2>6, <2>7, EntryFacts DEF StartUps
  <2>9. FetchEffect(w, added("emergency"))
    BY <2>3, <2>5, <2>6, <2>8 DEF FetchEffect
  <2> QED
    BY <2>3, <2>9
<1> QED
  BY <1>1, <1>2

\* What the window writes about toasts and dismissals keeps the feeds.
LEMMA WriteMarks ==
    ASSUME TypeOK, NEW w \in Windows, NEW N \in SUBSET Ids,
           Write(w, [mem[w] EXCEPT !.newlyReceived = N])
    PROVE  /\ mem'[w] \in Entry
           /\ mem' = [mem EXCEPT ![w] = mem'[w]] /\ view' = [view EXCEPT ![w] = mem'[w]]
           /\ mem'[w].newlyReceived = N /\ Received(mem'[w]) = Received(mem[w])
           /\ mem'[w].startUp = mem[w].startUp
           /\ mem'[w].dismissed = mem[w].dismissed \cap StartUps(w)
<1> DEFINE new == [mem[w] EXCEPT !.newlyReceived = N]
<1>1. mem[w] \in Entry
  BY DEF TypeOK
<1>2. /\ new \in Entry /\ new.startUp = mem[w].startUp
      /\ new.emergency = mem[w].emergency
      /\ new.newlyReceived = N /\ new.dismissed = mem[w].dismissed
  BY <1>1 DEF Entry
<1>3. /\ mem' = [mem EXCEPT ![w] = Cleaned(new)]
      /\ view' = [view EXCEPT ![w] = Cleaned(new)] /\ mem'[w] = Cleaned(new)
  BY DEF Write, TypeOK
<1>4. Received(new) = Received(mem[w])
  BY <1>2 DEF Received
<1> HIDE DEF new
<1> QED
  BY <1>2, <1>3, <1>4, EntryFacts DEF StartUps

LEMMA WriteDismissals ==
    ASSUME TypeOK, NEW w \in Windows, NEW D \in SUBSET StartUpIds,
           Write(w, [mem[w] EXCEPT !.dismissed = D])
    PROVE  /\ mem'[w] \in Entry
           /\ mem' = [mem EXCEPT ![w] = mem'[w]] /\ view' = [view EXCEPT ![w] = mem'[w]]
           /\ mem'[w].newlyReceived = mem[w].newlyReceived
           /\ Received(mem'[w]) = Received(mem[w])
           /\ mem'[w].startUp = mem[w].startUp
           /\ mem'[w].dismissed = D \cap StartUps(w)
<1> DEFINE new == [mem[w] EXCEPT !.dismissed = D]
<1>1. mem[w] \in Entry
  BY DEF TypeOK
<1>2. /\ new \in Entry /\ new.startUp = mem[w].startUp
      /\ new.emergency = mem[w].emergency
      /\ new.newlyReceived = mem[w].newlyReceived /\ new.dismissed = D
  BY <1>1 DEF Entry
<1>3. /\ mem' = [mem EXCEPT ![w] = Cleaned(new)]
      /\ view' = [view EXCEPT ![w] = Cleaned(new)] /\ mem'[w] = Cleaned(new)
  BY DEF Write, TypeOK
<1>4. Received(new) = Received(mem[w])
  BY <1>2 DEF Received
<1> HIDE DEF new
<1> QED
  BY <1>2, <1>3, <1>4, EntryFacts DEF StartUps

\* A poll that begins takes over dismissals and nothing else.
LEMMA BeginEffect ==
    ASSUME TypeOK, NEW w \in Windows, NEW p \in Polls, BeginPoll(w, p),
           view'[w] \in Entry
    PROVE  /\ mem'[w] \in Entry /\ mem' = [mem EXCEPT ![w] = mem'[w]]
           /\ mem'[w].newlyReceived = mem[w].newlyReceived
           /\ Received(mem'[w]) = Received(mem[w])
           /\ mem'[w].startUp = mem[w].startUp
           /\ mem'[w].dismissed = mem[w].dismissed \cup view'[w].dismissed
           /\ view'[w] = mem[w] => mem'[w] = mem[w]
<1> DEFINE D   == mem[w].dismissed \cup view'[w].dismissed
           new == [mem[w] EXCEPT !.dismissed = D]
<1>1. mem[w] \in Entry /\ D \subseteq StartUpIds
  BY DEF TypeOK, Entry
<1>2. /\ new \in Entry /\ new.startUp = mem[w].startUp
      /\ new.emergency = mem[w].emergency
      /\ new.newlyReceived = mem[w].newlyReceived /\ new.dismissed = D
  BY <1>1 DEF Entry
<1>3. mem' = [mem EXCEPT ![w] = new] /\ mem'[w] = new
  BY DEF BeginPoll, TypeOK
<1>4. view'[w] = mem[w] => new = mem[w]
  BY <1>1 DEF Entry
<1> QED
  BY <1>2, <1>3, <1>4 DEF Received

\* The ways in which a poll ends keep the types.
LEMMA EndPollType ==
    ASSUME TypeOK, NEW w \in Windows, EndPoll(w), view' \in [Windows -> Entry]
    PROVE  /\ mem' \in [Windows -> Entry] /\ polling' \in [Windows -> Polls]
           /\ pc' \in [Windows -> Stages]
<1>1. CASE polling[w] = "startUp"
  <2>1. BeginPoll(w, "first") /\ "first" \in Polls /\ view'[w] \in Entry
    BY <1>1 DEF EndPoll, Polls
  <2>2. mem'[w] \in Entry /\ mem' = [mem EXCEPT ![w] = mem'[w]]
    BY <2>1, BeginEffect
  <2> QED
    BY <2>1, <2>2 DEF BeginPoll, TypeOK, Stages
<1>2. CASE polling[w] # "startUp"
  BY <1>2 DEF EndPoll, GoTo, TypeOK, Stages
<1> QED
  BY <1>1, <1>2

LEMMA TypeInit == Init => TypeOK
<1>1. Default \in Entry
  BY FeedAssumption DEF Default, Entry, Versions, Categories
<1>2. \A c \in Categories : 1 \in Versions(c)
  BY FeedAssumption DEF Versions
<1>3. Blank \in Shown /\ <<>> \in Seq(Windows)
  BY DEF Blank, Shown
<1> QED
  BY <1>1, <1>2, <1>3, BoundsAssumption DEF Init, TypeOK, Ids, Polls, Stages

\* Types: one case per action.
LEMMA TypeStep == TypeOK /\ [Next]_vars => TypeOK'
<1> SUFFICES ASSUME TypeOK, [Next]_vars PROVE TypeOK'
  OBVIOUS
<1> USE DEF worldVars, entryVars, pollVars, historyVars
<1>1. CASE UNCHANGED vars
  BY <1>1 DEF vars, TypeOK
<1>2. ASSUME NEW c \in Categories, Publish(c) PROVE TypeOK'
  BY <1>2, FeedAssumption DEF Publish, TypeOK, Versions
<1>3. CASE Turn
  BY <1>3, BoundsAssumption DEF Turn, TypeOK
<1> SUFFICES ASSUME NEW w \in Windows,
                    \/ Open(w) \/ Close(w) \/ Poll(w) \/ FetchFails(w)
                    \/ RulesFail(w) \/ Dismissals(w)
             PROVE  TypeOK'
  BY <1>1, <1>2, <1>3 DEF Next
<1>4. CASE Open(w)
  <2>1. opened' \in Seq(Windows)
    BY <1>4 DEF Open, TypeOK
  <2> QED
    BY <1>4, <2>1 DEF Open, TypeOK, Polls, Stages
<1>5. CASE Close(w)
  <2>1. Default \in Entry /\ Blank \in Shown
    BY FeedAssumption DEF Default, Entry, Versions, Categories, Blank, Shown
  <2> QED
    BY <1>5, <2>1 DEF Close, TypeOK, Polls, Stages
<1>6. CASE Fetched(w)
  <2>1. PICK added \in SUBSET Ids : FetchEffect(w, added)
    BY <1>6, FetchedEffect
  <2>2. mem' \in [Windows -> Entry] /\ view' \in [Windows -> Entry]
    BY <2>1 DEF FetchEffect, TypeOK
  <2>3. toasts' \in [Windows -> [Ids -> 0..2]]
    <3>1. [n \in Ids |-> IF n \in added THEN 0 ELSE toasts[w][n]] \in [Ids -> 0..2]
      BY DEF TypeOK
    <3> QED
      BY <2>1, <3>1 DEF FetchEffect, TypeOK
  <2>4. pc' \in [Windows -> Stages] /\ UNCHANGED polling
    BY <1>6 DEF Fetched, GoTo, TypeOK, Stages
  <2>5. gone' \in [Windows -> SUBSET StartUpIds]
        /\ goneBefore' \in [Windows -> SUBSET StartUpIds]
    BY <1>6 DEF Fetched, TypeOK
  <2> QED
    BY <1>6, <2>2, <2>3, <2>4, <2>5 DEF Fetched, TypeOK
<1>7. CASE NotModified(w)
  BY <1>7 DEF NotModified, GoTo, TypeOK, Stages
<1>8. CASE FetchFails(w)
  BY <1>8, BoundsAssumption DEF FetchFails, GoTo, TypeOK, Stages
<1>9. CASE FetchStored(w)
  BY <1>9 DEF FetchStored, Stored, GoTo, TypeOK, Stages
<1>10. CASE Display(w)
  <2>1. mem[w].startUp \in Versions("startUp") /\ mem[w].emergency \in Versions("emergency")
    BY DEF TypeOK, Entry
  <2>2. /\ Payload("startUp", mem[w].startUp) \subseteq StartUpIds
        /\ Payload("emergency", mem[w].emergency) \subseteq EmergencyIds
    BY <2>1, PayloadFacts
  <2>3. panel' \in [Windows -> Shown] /\ snap' \in [Windows -> Shown]
    BY <1>10, <2>2 DEF Display, TypeOK, Shown
  <2> QED
    BY <1>10, <2>3 DEF Display, GoTo, TypeOK, Stages
<1>11. CASE RulesFail(w)
  BY <1>11, BoundsAssumption DEF RulesFail, GoTo, TypeOK, Stages
<1>12. CASE Toast(w)
  <2> DEFINE news  == (snap[w].startUp \cup snap[w].emergency) \cap mem[w].newlyReceived
             shown == news \cup (IF polling[w] = "startUp" THEN snap[w].startUp ELSE {})
  <2>0. news \subseteq Ids /\ shown \subseteq Ids /\ mem[w].newlyReceived \subseteq Ids
    BY PayloadFacts DEF TypeOK, Shown, Entry
  <2>1. /\ toasts' = [toasts EXCEPT ![w] =
                         [n \in Ids |-> IF n \in shown /\ @[n] < 2 THEN @[n] + 1 ELSE @[n]]]
        /\ told' = told \cup shown
    BY <1>12 DEF Toast, Toasted
  <2>2. toasts' \in [Windows -> [Ids -> 0..2]] /\ told' \subseteq Ids
    <3> HIDE DEF shown
    <3>1. \A n \in Ids : toasts[w][n] \in 0..2
      BY DEF TypeOK
    <3>2. [n \in Ids |-> IF n \in shown /\ toasts[w][n] < 2
                         THEN toasts[w][n] + 1 ELSE toasts[w][n]] \in [Ids -> 0..2]
      BY <3>1
    <3> QED
      BY <2>0, <2>1, <3>2 DEF TypeOK
  <2>3. snap' \in [Windows -> Shown]
    BY <1>12 DEF Toast, TypeOK, Blank, Shown
  <2>4. /\ view' \in [Windows -> Entry] /\ mem' \in [Windows -> Entry]
        /\ polling' \in [Windows -> Polls] /\ pc' \in [Windows -> Stages]
    <3>1. CASE /\ Write(w, [mem[w] EXCEPT !.newlyReceived = mem[w].newlyReceived \ news])
               /\ GoTo(w, "clean")
      <4>1. mem[w].newlyReceived \ news \in SUBSET Ids
        BY <2>0
      <4>2. /\ mem'[w] \in Entry /\ mem' = [mem EXCEPT ![w] = mem'[w]]
            /\ view' = [view EXCEPT ![w] = mem'[w]]
        BY <3>1, <4>1, WriteMarks
      <4> QED
        BY <3>1, <4>2 DEF GoTo, TypeOK, Stages
    <3>2. CASE UNCHANGED view /\ EndPoll(w)
      BY <3>2, EndPollType DEF TypeOK
    <3> QED
      BY <1>12, <3>1, <3>2 DEF Toast
  <2> QED
    BY <1>12, <2>2, <2>3, <2>4 DEF Toast, TypeOK
<1>13. CASE CleanStored(w)
  <2>1. disk' \in Entry /\ view' \in [Windows -> Entry]
    BY <1>13 DEF CleanStored, Stored, TypeOK
  <2>2. /\ mem' \in [Windows -> Entry] /\ polling' \in [Windows -> Polls]
        /\ pc' \in [Windows -> Stages]
    BY <1>13, <2>1, EndPollType DEF CleanStored
  <2> QED
    BY <1>13, <2>1, <2>2 DEF CleanStored, TypeOK
<1>14. CASE PollAgain(w)
  <2>1. "later" \in Polls /\ view'[w] \in Entry /\ BeginPoll(w, "later")
    BY <1>14 DEF PollAgain, Polls, TypeOK
  <2>2. mem'[w] \in Entry /\ mem' = [mem EXCEPT ![w] = mem'[w]]
    BY <2>1, BeginEffect
  <2> QED
    BY <1>14, <2>1, <2>2 DEF PollAgain, BeginPoll, TypeOK, Stages
<1>15. ASSUME NEW n \in StartUpIds, Dismiss(w, n) PROVE TypeOK'
  <2>1. mem[w].dismissed \cup view[w].dismissed \cup {n} \in SUBSET StartUpIds
    BY DEF TypeOK, Entry
  <2>2. /\ mem'[w] \in Entry /\ mem' = [mem EXCEPT ![w] = mem'[w]]
        /\ view' = [view EXCEPT ![w] = mem'[w]]
    BY <1>15, <2>1, WriteDismissals DEF Dismiss
  <2> QED
    BY <1>15, <2>2 DEF Dismiss, TypeOK
<1>16. ASSUME NEW n \in StartUpIds, DismissDone(w, n) PROVE TypeOK'
  <2>1. panel' \in [Windows -> Shown]
    BY <1>16 DEF DismissDone, TypeOK, Shown
  <2> QED
    BY <1>16, <2>1 DEF DismissDone, Stored, TypeOK
<1> QED
  BY <1>4, <1>5, <1>6, <1>7, <1>8, <1>9, <1>10, <1>11, <1>12, <1>13, <1>14, <1>15,
     <1>16 DEF Poll, Dismissals

\* TypeOK: every variable of the windows, feeds and entries keeps its type
\* (notifications/controller.ts), whatever windows open, poll and close.
THEOREM TypeInvariant == Spec => []TypeOK
  BY TypeInit, TypeStep, PTL DEF Spec

-----------------------------------------------------------------------------
(* Nothing new is lost *)

Kept(e, t) == Received(e) \subseteq e.newlyReceived \cup t

LEMMA NewsKeptParts ==
    NewsKept <=> /\ Kept(disk, told)
                 /\ \A w \in Windows : Kept(view[w], told) /\ Kept(mem[w], told)
  BY DEF NewsKept, Entries, Kept

\* A new version, what is toasted and what is dismissed keep what is new.
LEMMA NewsStep == TypeOK /\ TypeOK' /\ NewsKept /\ [Next]_vars => NewsKept'
<1> SUFFICES ASSUME TypeOK, TypeOK', NewsKept, [Next]_vars PROVE NewsKept'
  OBVIOUS
<1> USE DEF worldVars, entryVars, pollVars, historyVars
<1>0. /\ Kept(disk, told)
      /\ \A w \in Windows : Kept(view[w], told) /\ Kept(mem[w], told)
  BY NewsKeptParts
<1>a. ASSUME /\ Kept(disk', told')
             /\ \A v \in Windows : Kept(view'[v], told') /\ Kept(mem'[v], told')
      PROVE  NewsKept'
  BY <1>a DEF NewsKept, Entries, Kept
<1>1. ASSUME UNCHANGED <<disk, view, mem, told>> PROVE NewsKept'
  BY <1>0, <1>a, <1>1
<1>2. ASSUME NEW w \in Windows, UNCHANGED told, mem' = [mem EXCEPT ![w] = mem'[w]],
             disk' \in {disk, view[w]}, Kept(mem'[w], told),
             \A v \in Windows : view'[v] \in {view[v], view[w], mem'[w], disk}
      PROVE  NewsKept'
  <2>1. \A v \in Windows : Kept(view'[v], told)
    BY <1>0, <1>2
  <2>2. \A v \in Windows : Kept(mem'[v], told)
    BY <1>0, <1>2 DEF TypeOK
  <2> QED
    BY <1>0, <1>a, <1>2, <2>1, <2>2
<1>3. CASE UNCHANGED vars \/ Turn \/ \E c \in Categories : Publish(c)
  BY <1>1, <1>3 DEF vars, Publish, Turn
<1> SUFFICES ASSUME NEW w \in Windows,
                    \/ Open(w) \/ Close(w) \/ Poll(w) \/ FetchFails(w)
                    \/ RulesFail(w) \/ Dismissals(w)
             PROVE  NewsKept'
  BY <1>3 DEF Next
<1>4. CASE Open(w)
  <2>1. /\ UNCHANGED <<told, disk>> /\ view' = [view EXCEPT ![w] = disk]
        /\ mem' = [mem EXCEPT ![w] = disk]
    BY <1>4 DEF Open
  <2> QED
    BY <1>0, <1>2, <2>1 DEF TypeOK
<1>5. CASE Close(w)
  <2>1. Received(Default) = {}
    BY DEF Received, Payload, Default
  <2>2. /\ UNCHANGED <<told, disk>> /\ view' = [view EXCEPT ![w] = Default]
        /\ mem' = [mem EXCEPT ![w] = Default]
    BY <1>5 DEF Close
  <2>3. Kept(Default, told)
    BY <2>1 DEF Kept
  <2>4. view'[w] = mem'[w] /\ mem'[w] = Default
        /\ \A v \in Windows : v # w => view'[v] = view[v]
    BY <2>2 DEF TypeOK
  <2> QED
    BY <1>2, <2>2, <2>3, <2>4
<1>6. CASE Fetched(w)
  <2>1. PICK added \in SUBSET Ids : FetchEffect(w, added)
    BY <1>6, FetchedEffect
  <2>2. Kept(mem'[w], told)
    BY <1>0, <2>1 DEF FetchEffect, Kept
  <2>3. \A v \in Windows : view'[v] \in {view[v], mem'[w]}
    BY <2>1 DEF FetchEffect, TypeOK
  <2> QED
    BY <1>2, <1>6, <2>1, <2>2, <2>3 DEF Fetched, FetchEffect
<1>7. CASE NotModified(w) \/ FetchFails(w) \/ RulesFail(w) \/ Display(w)
  BY <1>1, <1>7 DEF NotModified, FetchFails, RulesFail, Display
<1>8. CASE FetchStored(w)
  BY <1>0, <1>2, <1>8 DEF FetchStored, Stored, TypeOK
<1>9. CASE Toast(w)
  <2> DEFINE news  == (snap[w].startUp \cup snap[w].emergency) \cap mem[w].newlyReceived
             shown == news \cup (IF polling[w] = "startUp" THEN snap[w].startUp ELSE {})
  <2>1. told' = told \cup shown /\ news \subseteq shown /\ UNCHANGED disk
    BY <1>9 DEF Toast
  <2>2. \A e : Kept(e, told) => Kept(e, told')
    BY <2>1 DEF Kept
  <2>3. CASE /\ Write(w, [mem[w] EXCEPT !.newlyReceived = mem[w].newlyReceived \ news])
             /\ GoTo(w, "clean")
    <3> DEFINE N == mem[w].newlyReceived \ news
    <3>1. /\ N \in SUBSET Ids /\ mem[w].newlyReceived \subseteq N \cup shown
          /\ Write(w, [mem[w] EXCEPT !.newlyReceived = N])
      BY <2>3 DEF TypeOK, Entry
    <3> HIDE DEF N
    <3>2. /\ mem' = [mem EXCEPT ![w] = mem'[w]] /\ view' = [view EXCEPT ![w] = mem'[w]]
          /\ mem'[w].newlyReceived = N /\ Received(mem'[w]) = Received(mem[w])
      BY <3>1, WriteMarks
    <3>3. Kept(mem'[w], told')
      BY <1>0, <2>1, <3>1, <3>2 DEF Kept
    <3>4. \A v \in Windows : Kept(view'[v], told') /\ Kept(mem'[v], told')
      BY <1>0, <2>2, <3>2, <3>3 DEF TypeOK
    <3> QED
      BY <1>0, <1>a, <2>1, <2>2, <3>4
  <2>4. CASE UNCHANGED view /\ EndPoll(w)
    <3>1. Kept(mem'[w], told') /\ mem' = [mem EXCEPT ![w] = mem'[w]]
      <4>1. CASE polling[w] = "startUp"
        <5>1. BeginPoll(w, "first") /\ "first" \in Polls /\ view'[w] \in Entry
          BY <2>4, <4>1 DEF EndPoll, Polls, TypeOK
        <5>2. /\ mem' = [mem EXCEPT ![w] = mem'[w]]
              /\ mem'[w].newlyReceived = mem[w].newlyReceived
              /\ Received(mem'[w]) = Received(mem[w])
          BY <5>1, BeginEffect
        <5> QED
          BY <1>0, <2>1, <5>2 DEF Kept
      <4>2. CASE polling[w] # "startUp"
        BY <1>0, <2>2, <2>4, <4>2 DEF EndPoll, TypeOK
      <4> QED
        BY <4>1, <4>2
    <3>2. \A v \in Windows : Kept(view'[v], told') /\ Kept(mem'[v], told')
      BY <1>0, <2>2, <2>4, <3>1 DEF TypeOK
    <3> QED
      BY <1>0, <1>a, <2>1, <2>2, <3>2
  <2> QED
    BY <1>9, <2>3, <2>4 DEF Toast
<1>10. ASSUME CleanStored(w) \/ PollAgain(w) PROVE NewsKept'
  <2>1. /\ UNCHANGED told /\ disk' \in {disk, view[w]} /\ view'[w] \in Entry
        /\ \A v \in Windows : view'[v] \in {view[v], view[w]}
    BY <1>10 DEF CleanStored, PollAgain, Stored, TypeOK
  <2>2. \/ BeginPoll(w, "first") \/ BeginPoll(w, "later") \/ UNCHANGED mem
    BY <1>10 DEF CleanStored, PollAgain, EndPoll
  <2>3. Kept(mem'[w], told) /\ mem' = [mem EXCEPT ![w] = mem'[w]]
    <3>1. CASE UNCHANGED mem
      BY <1>0, <3>1 DEF TypeOK
    <3>2. ASSUME NEW p \in Polls, BeginPoll(w, p)
          PROVE  Kept(mem'[w], told) /\ mem' = [mem EXCEPT ![w] = mem'[w]]
      <4>1. /\ mem' = [mem EXCEPT ![w] = mem'[w]]
            /\ mem'[w].newlyReceived = mem[w].newlyReceived
            /\ Received(mem'[w]) = Received(mem[w])
        BY <2>1, <3>2, BeginEffect
      <4> QED
        BY <1>0, <4>1 DEF Kept
    <3> QED
      BY <2>2, <3>1, <3>2 DEF Polls
  <2> QED
    BY <1>2, <2>1, <2>3
<1>11. ASSUME NEW n \in StartUpIds, Dismiss(w, n) PROVE NewsKept'
  <2>1. mem[w].dismissed \cup view[w].dismissed \cup {n} \in SUBSET StartUpIds
    BY DEF TypeOK, Entry
  <2>2. /\ mem' = [mem EXCEPT ![w] = mem'[w]] /\ view' = [view EXCEPT ![w] = mem'[w]]
        /\ mem'[w].newlyReceived = mem[w].newlyReceived
        /\ Received(mem'[w]) = Received(mem[w])
    BY <1>11, <2>1, WriteDismissals DEF Dismiss
  <2>3. Kept(mem'[w], told) /\ UNCHANGED <<told, disk>>
    BY <1>0, <1>11, <2>2 DEF Kept, Dismiss
  <2>4. \A v \in Windows : view'[v] \in {view[v], mem'[w]}
    BY <2>2 DEF TypeOK
  <2> QED
    BY <1>2, <2>2, <2>3, <2>4
<1>12. ASSUME NEW n \in StartUpIds, DismissDone(w, n) PROVE NewsKept'
  BY <1>0, <1>2, <1>12 DEF DismissDone, Stored, TypeOK
<1> QED
  BY <1>4, <1>5, <1>6, <1>7, <1>8, <1>9, <1>10, <1>11, <1>12 DEF Poll, Dismissals

\* NewsKept: whatever windows crash, poll and overwrite each other's entries, a
\* notification that no window has toasted is still marked as new wherever it was
\* received (controller.ts, fetchNotifications and displayNotifications).
THEOREM NothingNewIsLost == Spec => []NewsKept
<1>1. Init => NewsKept
  BY NewsKeptParts DEF Init, Kept, Received, Payload, Default
<1> QED
  BY <1>1, TypeInit, TypeStep, NewsStep, PTL DEF Spec

-----------------------------------------------------------------------------
(* Toasts and dismissals *)

Acts(w) == \/ Open(w) \/ Close(w) \/ Poll(w) \/ FetchFails(w)
           \/ RulesFail(w) \/ Dismissals(w)

\* What a window shows, and the copy it shows it from, are its own.
Same(v) == /\ pc'[v] = pc[v] /\ polling'[v] = polling[v] /\ mem'[v] = mem[v]
           /\ panel'[v] = panel[v] /\ snap'[v] = snap[v]
           /\ dismissing'[v] = dismissing[v] /\ gone'[v] = gone[v]
           /\ goneBefore'[v] = goneBefore[v]
           /\ \A n \in Ids : toasts'[v][n] = toasts[v][n]

\* How the copy of the acting window changes.
Copied(w) == \/ mem'[w] = mem[w]
             \/ \E added \in SUBSET Ids : Fetched(w) /\ FetchEffect(w, added)
             \/ /\ mem'[w].startUp = mem[w].startUp
                /\ mem'[w].newlyReceived \subseteq mem[w].newlyReceived
                /\ mem[w].dismissed \cap StartUps(w) \subseteq mem'[w].dismissed
             \/ Open(w) /\ mem'[w] = disk
             \/ Close(w)

LEMMA Apart ==
    ASSUME TypeOK, TypeOK', NEW w \in Windows, Acts(w)
    PROVE  Copied(w) /\ \A v \in Windows \ {w} : Same(v)
<1> USE DEF worldVars, entryVars, pollVars, historyVars
<1>0. ASSUME Copied(w), mem' = [mem EXCEPT ![w] = mem'[w]]
      PROVE  Copied(w) /\ \A v \in Windows : v # w => mem'[v] = mem[v]
  BY <1>0 DEF TypeOK
<1>1. ASSUME NEW p \in Polls, BeginPoll(w, p)
      PROVE  Copied(w) /\ mem' = [mem EXCEPT ![w] = mem'[w]]
  <2>1. /\ mem' = [mem EXCEPT ![w] = mem'[w]]
        /\ mem'[w].newlyReceived = mem[w].newlyReceived
        /\ mem'[w].startUp = mem[w].startUp
        /\ mem[w].dismissed \subseteq mem'[w].dismissed
    BY <1>1, BeginEffect DEF TypeOK
  <2> QED
    BY <2>1 DEF Copied
<1>2. CASE Open(w)
  <2>1. mem'[w] = disk
    BY <1>2 DEF Open, TypeOK
  <2> QED
    BY <1>2, <2>1 DEF Open, TypeOK, Same, Copied
<1>3. CASE Close(w)
  BY <1>3 DEF Close, TypeOK, Same, Copied
<1>4. CASE Fetched(w)
  <2>1. PICK added \in SUBSET Ids : FetchEffect(w, added)
    BY <1>4, FetchedEffect
  <2>2. Copied(w) /\ \A v \in Windows : v # w => mem'[v] = mem[v]
    BY <1>4, <2>1 DEF FetchEffect, TypeOK, Copied
  <2> QED
    BY <1>4, <2>2, ZenonT(60) DEF Fetched, GoTo, TypeOK, Same
<1>5. CASE NotModified(w) \/ FetchFails(w) \/ RulesFail(w) \/ FetchStored(w)
  BY <1>5 DEF NotModified, FetchFails, RulesFail, FetchStored, GoTo, TypeOK, Same, Copied
<1>6. CASE Display(w)
  BY <1>6 DEF Display, GoTo, TypeOK, Same, Copied
<1>7. CASE Toast(w)
  <2> DEFINE N == mem[w].newlyReceived
                  \ ((snap[w].startUp \cup snap[w].emergency) \cap mem[w].newlyReceived)
  <2>1. CASE Write(w, [mem[w] EXCEPT !.newlyReceived = N]) /\ GoTo(w, "clean")
    <3>1. N \in SUBSET Ids /\ N \subseteq mem[w].newlyReceived
      BY DEF TypeOK, Entry
    <3> HIDE DEF N
    <3>2. /\ mem' = [mem EXCEPT ![w] = mem'[w]] /\ mem'[w].newlyReceived = N
          /\ mem'[w].startUp = mem[w].startUp
          /\ mem'[w].dismissed = mem[w].dismissed \cap StartUps(w)
      BY <2>1, <3>1, WriteMarks
    <3>3. Copied(w) /\ \A v \in Windows : v # w => mem'[v] = mem[v]
      BY <3>1, <3>2 DEF Copied, TypeOK
    <3> QED
      BY <1>7, <2>1, <3>3 DEF Toast, Toasted, GoTo, TypeOK, Same
  <2>2. CASE EndPoll(w) /\ UNCHANGED view
    <3>1. Copied(w) /\ \A v \in Windows : v # w => mem'[v] = mem[v]
      BY <1>0, <1>1, <2>2 DEF EndPoll, Polls, TypeOK, Copied
    <3> QED
      BY <1>7, <2>2, <3>1 DEF Toast, Toasted, EndPoll, BeginPoll, GoTo, TypeOK, Same
  <2> QED
    BY <1>7, <2>1, <2>2 DEF Toast
<1>8. CASE CleanStored(w) \/ PollAgain(w)
  <2>1. Copied(w) /\ \A v \in Windows : v # w => mem'[v] = mem[v]
    BY <1>0, <1>1, <1>8 DEF CleanStored, PollAgain, EndPoll, Polls, TypeOK, Copied
  <2> QED
    BY <1>8, <2>1
      DEF CleanStored, PollAgain, EndPoll, BeginPoll, GoTo, TypeOK, Same
<1>9. ASSUME NEW n \in StartUpIds, Dismiss(w, n)
      PROVE  Copied(w) /\ \A v \in Windows \ {w} : Same(v)
  <2> DEFINE D == mem[w].dismissed \cup view[w].dismissed \cup {n}
  <2>1. /\ D \in SUBSET StartUpIds /\ mem[w].dismissed \subseteq D
        /\ Write(w, [mem[w] EXCEPT !.dismissed = D])
    BY <1>9 DEF TypeOK, Entry, Dismiss
  <2> HIDE DEF D
  <2>2. /\ mem' = [mem EXCEPT ![w] = mem'[w]]
        /\ mem'[w].newlyReceived = mem[w].newlyReceived
        /\ mem'[w].startUp = mem[w].startUp
        /\ mem'[w].dismissed = D \cap StartUps(w)
    BY <2>1, WriteDismissals
  <2>3. Copied(w) /\ \A v \in Windows : v # w => mem'[v] = mem[v]
    BY <2>1, <2>2 DEF Copied, TypeOK
  <2> QED
    BY <1>9, <2>3 DEF Dismiss, TypeOK, Same
<1>10. ASSUME NEW n \in StartUpIds, DismissDone(w, n)
       PROVE  Copied(w) /\ \A v \in Windows \ {w} : Same(v)
  BY <1>10 DEF DismissDone, TypeOK, Same, Copied
<1> QED
  BY <1>2, <1>3, <1>4, <1>5, <1>6, <1>7, <1>8, <1>9, <1>10 DEF Acts, Poll, Dismissals

LEMMA BlanksStep ==
    ASSUME TypeOK, TypeOK', Blanks, NEW w \in Windows, Acts(w)
    PROVE  Blanks'
<1> USE DEF worldVars, entryVars, pollVars, historyVars, BlankAt, UntoldAt
<1>1. ASSUME BlankAt(w)', UntoldAt(w)' PROVE Blanks'
  BY <1>1, Apart DEF Blanks, Same
<1>0. BlankAt(w) /\ UntoldAt(w)
  BY DEF Blanks
<1>2. CASE Open(w)
  <2>1. pc[w] = "off" /\ UNCHANGED <<panel, snap, dismissing, gone, toasts>>
    BY <1>2 DEF Open
  <2> QED
    BY <1>0, <1>1, <2>1
<1>3. CASE Close(w)
  <2>1. /\ panel'[w] = Blank /\ snap'[w] = Blank /\ dismissing'[w] = {} /\ gone'[w] = {}
        /\ \A n \in Ids : toasts'[w][n] = 0
    BY <1>3 DEF Close, TypeOK
  <2> QED
    BY <1>1, <2>1 DEF Blank
<1>4. CASE Fetched(w)
  <2>1. PICK added \in SUBSET Ids : FetchEffect(w, added)
    BY <1>4, FetchedEffect
  <2>2. \A n \in Ids : toasts'[w][n] = 0 \/ toasts'[w][n] = toasts[w][n]
    BY <2>1 DEF FetchEffect, TypeOK
  <2>3. pc[w] = "fetch" /\ pc'[w] = "store" /\ polling'[w] = polling[w]
    BY <1>4 DEF Fetched, GoTo, TypeOK
  <2> QED
    BY <1>0, <1>1, <2>2, <2>3
<1>5. CASE NotModified(w) \/ FetchFails(w) \/ RulesFail(w) \/ FetchStored(w)
  <2>1. /\ pc[w] \in {"fetch", "rules", "store"} /\ pc'[w] \in {"rules", "idle", "dead"}
        /\ UNCHANGED <<polling, panel, dismissing, gone, toasts>>
    BY <1>5 DEF NotModified, FetchFails, RulesFail, FetchStored, GoTo, TypeOK
  <2> QED
    BY <1>0, <1>1, <2>1
<1>6. CASE Display(w)
  <2>1. pc[w] = "rules" /\ pc'[w] = "refresh" /\ UNCHANGED <<polling, toasts>>
    BY <1>6 DEF Display, GoTo, TypeOK
  <2> QED
    BY <1>0, <1>1, <2>1
<1>7. CASE Toast(w) \/ CleanStored(w) \/ PollAgain(w)
  <2>1. /\ pc'[w] # "off"
        /\ polling'[w] = "startUp" => pc'[w] = "clean" \/ pc'[w] = "idle"
    BY <1>7 DEF Toast, CleanStored, PollAgain, EndPoll, BeginPoll, GoTo, TypeOK
  <2> QED
    BY <1>1, <2>1
<1>8. ASSUME NEW n \in StartUpIds, Dismiss(w, n) PROVE Blanks'
  <2>1. /\ pc[w] # "off" /\ UNCHANGED <<pc, polling, panel, gone, toasts>>
        /\ n \in panel[w].startUp \/ toasts[w][n] > 0
    BY <1>8 DEF Dismiss
  <2>2. n \in Ids
    BY PayloadFacts
  <2> QED
    BY <1>0, <1>1, <2>1, <2>2
<1>9. ASSUME NEW n \in StartUpIds, DismissDone(w, n) PROVE Blanks'
  <2>1. n \in dismissing[w] /\ UNCHANGED <<pc, polling, toasts>>
    BY <1>9 DEF DismissDone
  <2> QED
    BY <1>0, <1>1, <2>1
<1> QED
  BY <1>2, <1>3, <1>4, <1>5, <1>6, <1>7, <1>8, <1>9 DEF Acts, Poll, Dismissals

\* A toast is for what is marked, which it unmarks, or is the first of the window.
LEMMA UnmarkedStep ==
    ASSUME TypeOK, TypeOK', Blanks, Unmarked, NEW w \in Windows, Acts(w)
    PROVE  Unmarked'
<1> USE DEF worldVars, entryVars, pollVars, historyVars, UnmarkedAt
<1>1. ASSUME UnmarkedAt(w)' PROVE Unmarked'
  BY <1>1, Apart DEF Unmarked, Same
<1>0. UnmarkedAt(w) /\ UntoldAt(w) /\ BlankAt(w)
  BY DEF Unmarked, Blanks
<1>2. CASE \A n \in Ids : toasts'[w][n] = 0
  BY <1>1, <1>2
<1>3. ASSUME toasts' = toasts, mem'[w].newlyReceived \subseteq mem[w].newlyReceived
      PROVE  Unmarked'
  BY <1>0, <1>1, <1>3
<1>4. CASE Close(w)
  BY <1>2, <1>4 DEF Close, TypeOK
<1>5. CASE Open(w)
  <2>1. pc[w] = "off" /\ UNCHANGED toasts
    BY <1>5 DEF Open
  <2> QED
    BY <1>0, <1>2, <2>1 DEF UntoldAt
<1>6. CASE Fetched(w)
  <2>1. PICK added \in SUBSET Ids : FetchEffect(w, added)
    BY <1>6, FetchedEffect
  <2>2. \A n \in Ids : toasts'[w][n] = IF n \in added THEN 0 ELSE toasts[w][n]
    BY <2>1 DEF FetchEffect, TypeOK
  <2>3. mem'[w].newlyReceived = mem[w].newlyReceived \cup added
    BY <2>1 DEF FetchEffect
  <2> QED
    BY <1>0, <1>1, <2>2, <2>3
<1>7. CASE Toast(w)
  <2> DEFINE news  == (snap[w].startUp \cup snap[w].emergency) \cap mem[w].newlyReceived
             shown == news \cup (IF polling[w] = "startUp" THEN snap[w].startUp ELSE {})
  <2>1. \A n \in Ids : toasts'[w][n] = IF n \in shown /\ toasts[w][n] < 2
                                       THEN toasts[w][n] + 1 ELSE toasts[w][n]
    BY <1>7 DEF Toast, Toasted, TypeOK
  <2>2. \A n \in Ids : n \in shown => toasts[w][n] = 0
    <3>1. pc[w] = "refresh"
      BY <1>7 DEF Toast
    <3>2. \A n \in Ids : toasts[w][n] \in 0..2
      BY DEF TypeOK
    <3> QED
      BY <1>0, <3>1, <3>2 DEF UntoldAt
  <2>3. /\ mem'[w].newlyReceived \subseteq mem[w].newlyReceived \ news
        /\ shown \cap mem[w].newlyReceived \subseteq news
    <3>1. shown \cap mem[w].newlyReceived \subseteq news
      OBVIOUS
    <3>2. CASE /\ Write(w, [mem[w] EXCEPT !.newlyReceived = mem[w].newlyReceived \ news])
      <4> DEFINE N == mem[w].newlyReceived \ news
      <4>1. N \in SUBSET Ids /\ Write(w, [mem[w] EXCEPT !.newlyReceived = N])
        BY <3>2 DEF TypeOK, Entry
      <4> HIDE DEF N
      <4>2. mem'[w].newlyReceived = N
        BY <4>1, WriteMarks
      <4> QED
        BY <3>1, <4>2 DEF N
    <3>3. CASE news = {} /\ EndPoll(w) /\ UNCHANGED view
      <4>1. CASE polling[w] = "startUp"
        <5>1. BeginPoll(w, "first") /\ "first" \in Polls /\ view'[w] \in Entry
          BY <3>3, <4>1 DEF EndPoll, Polls, TypeOK
        <5>2. mem'[w].newlyReceived = mem[w].newlyReceived
          BY <5>1, BeginEffect
        <5> QED
          BY <3>1, <3>3, <5>2
      <4>2. CASE polling[w] # "startUp"
        BY <3>1, <3>3, <4>2 DEF EndPoll
      <4> QED
        BY <4>1, <4>2
    <3> QED
      BY <1>7, <3>2, <3>3 DEF Toast
  <2> HIDE DEF news, shown
  <2> QED
    BY <1>0, <1>1, <2>1, <2>2, <2>3
<1>8. CASE \/ NotModified(w) \/ FetchStored(w) \/ Display(w) \/ CleanStored(w)
           \/ PollAgain(w) \/ FetchFails(w) \/ RulesFail(w) \/ Dismissals(w)
  <2>1. /\ toasts' = toasts
        /\ ~ Fetched(w) /\ ~ Open(w) /\ ~ Close(w)
    <3>1. toasts' = toasts
      BY <1>8 DEF NotModified, FetchStored, Display, CleanStored, PollAgain, FetchFails,
                  RulesFail, Dismissals, Dismiss, DismissDone
    <3>2. /\ Fetched(w) => pc[w] = "fetch" /\ pc'[w] = "store"
          /\ Open(w) => pc[w] = "off" /\ pc'[w] = "fetch" 
          /\ Close(w) => pc'[w] = "off"
      BY DEF Fetched, Open, Close, GoTo, TypeOK
    <3>3. /\ pc'[w] # "off" /\ ~(pc[w] = "fetch" /\ pc'[w] = "store")
          /\ pc[w] # "off"
      BY <1>8, <1>0 DEF BlankAt, NotModified, FetchStored, Display, CleanStored, PollAgain, FetchFails,
                  RulesFail, Dismissals, Dismiss, DismissDone, EndPoll, BeginPoll, GoTo, TypeOK
    <3> QED
      BY <3>1, <3>2, <3>3
  <2>2. Copied(w)
    BY Apart
  <2> QED
    BY <1>3, <2>1, <2>2 DEF Copied
<1> QED
  BY <1>4, <1>5, <1>6, <1>7, <1>8 DEF Acts, Poll

\* What a fetch leaves of the dismissals is what is still in the feed; and a window
\* that shows something keeps its copy of the start-up feed.
LEMMA HeldStep ==
    ASSUME TypeOK, TypeOK', Blanks, Held, NEW w \in Windows, Acts(w)
    PROVE  Held'
<1> USE DEF worldVars, entryVars, pollVars, historyVars, HeldAt, StartUps
<1>1. ASSUME HeldAt(w)' PROVE Held'
  BY <1>1, Apart, PayloadFacts DEF Held, Same
<1>0. HeldAt(w) /\ BlankAt(w) /\ UntoldAt(w)
  BY DEF Held, Blanks
<1>2. ASSUME panel'[w].startUp = {}, snap'[w].startUp = {}, dismissing'[w] = {},
             gone'[w] = {}, \A n \in Ids : toasts'[w][n] = 0
      PROVE  Held'
  BY <1>1, <1>2, PayloadFacts
<1>3. ASSUME mem'[w].startUp = mem[w].startUp,
             mem[w].dismissed \cap StartUps(w) \subseteq mem'[w].dismissed,
             UNCHANGED <<panel, dismissing, gone, toasts>>,
             snap'[w].startUp \subseteq snap[w].startUp
      PROVE  Held'
  BY <1>0, <1>1, <1>3
<1>4. CASE Close(w)
  BY <1>2, <1>4 DEF Close, TypeOK, Blank
<1>5. CASE Open(w)
  <2>1. pc[w] = "off" /\ UNCHANGED <<panel, dismissing, gone, toasts, snap>>
    BY <1>5 DEF Open
  <2>2. /\ panel[w].startUp = {} /\ dismissing[w] = {} /\ gone[w] = {}
        /\ snap[w].startUp = {} /\ \A n \in Ids : toasts[w][n] = 0
    BY <1>0, <2>1 DEF BlankAt, UntoldAt
  <2> QED
    BY <1>2, <2>1, <2>2
<1>6. CASE Fetched(w)
  <2>1. PICK added \in SUBSET Ids : FetchEffect(w, added)
    BY <1>6, FetchedEffect
  <2>2. /\ \A n \in Ids : toasts'[w][n] = IF n \in added THEN 0 ELSE toasts[w][n]
        /\ gone'[w] = gone[w] \cap Received(mem'[w])
        /\ UNCHANGED <<panel, snap, dismissing>>
        /\ pc[w] = "fetch"
    <3>1. \A n \in Ids : toasts'[w][n] = IF n \in added THEN 0 ELSE toasts[w][n]
      BY <2>1 DEF FetchEffect, TypeOK
    <3>2. gone'[w] = gone[w] \cap Received(mem'[w])
      BY <1>6 DEF Fetched, TypeOK
    <3> QED
      BY <1>6, <3>1, <3>2 DEF Fetched
  <2>3. CASE polling[w] = "startUp"
    <3>1. /\ panel[w].startUp = {} /\ dismissing[w] = {} /\ gone[w] = {}
          /\ snap[w].startUp = {} /\ \A n \in Ids : toasts[w][n] = 0
      BY <1>0, <2>2, <2>3 DEF BlankAt, UntoldAt
    <3> QED
      BY <1>2, <2>2, <3>1
  <2>4. CASE mem'[w].startUp = mem[w].startUp
    <3>1. mem'[w].dismissed = mem[w].dismissed \cap StartUps(w)
      BY <2>1, <2>4 DEF FetchEffect
    <3>2. \A n \in StartUpIds : toasts'[w][n] > 0 => toasts[w][n] > 0
      BY <2>2, PayloadFacts
    <3> QED
      BY <1>0, <1>1, <2>2, <2>4, <3>1, <3>2
  <2> QED
    BY <2>1, <2>3, <2>4 DEF FetchEffect
<1>7. CASE Display(w)
  <2>1. /\ panel'[w].startUp = (StartUps(w) \cap passing) \ mem[w].dismissed
        /\ snap'[w].startUp = (StartUps(w) \cap passing) \ mem[w].dismissed
        /\ UNCHANGED <<mem, dismissing, gone, toasts>>
    BY <1>7 DEF Display, TypeOK
  <2> QED
    BY <1>0, <1>1, <2>1
<1>8. CASE Toast(w)
  <2> DEFINE news  == (snap[w].startUp \cup snap[w].emergency) \cap mem[w].newlyReceived
             shown == news \cup (IF polling[w] = "startUp" THEN snap[w].startUp ELSE {})
  <2>1. \A n \in Ids : toasts'[w][n] = IF n \in shown /\ toasts[w][n] < 2
                                       THEN toasts[w][n] + 1 ELSE toasts[w][n]
    BY <1>8 DEF Toast, Toasted, TypeOK
  <2>2. \A n \in StartUpIds : n \in shown => n \in snap[w].startUp
    BY PayloadFacts DEF TypeOK, Shown
  <2>3. /\ mem'[w].startUp = mem[w].startUp
        /\ mem[w].dismissed \cap StartUps(w) \subseteq mem'[w].dismissed
    <3>1. Copied(w) /\ ~Fetched(w) /\ ~Open(w) /\ ~Close(w)
      BY <1>8, Apart DEF Toast, Fetched, Open, Close, EndPoll, BeginPoll, GoTo, TypeOK
    <3> QED
      BY <3>1 DEF Copied
  <2>4. snap'[w].startUp = {} /\ UNCHANGED <<panel, dismissing, gone>>
    BY <1>8 DEF Toast, Blank, TypeOK
  <2>5. \A n \in StartUpIds : toasts'[w][n] > 0 => n \in snap[w].startUp \/ toasts[w][n] > 0
    <3> HIDE DEF shown
    <3> QED
      BY <2>1, <2>2, PayloadFacts
  <2> QED
    BY <1>0, <1>1, <2>3, <2>4, <2>5
<1>9. CASE \/ NotModified(w) \/ FetchStored(w) \/ FetchFails(w) \/ RulesFail(w)
           \/ CleanStored(w) \/ PollAgain(w)
  <2>1. Copied(w) /\ ~Fetched(w) /\ ~Open(w) /\ ~Close(w)
    <3>1. /\ Fetched(w) => pc[w] = "fetch" /\ pc'[w] = "store"
          /\ Open(w) => pc[w] = "off" /\ pc'[w] = "fetch"
          /\ Close(w) => pc'[w] = "off"
      BY DEF Fetched, Open, Close, GoTo, TypeOK
    <3>2. /\ pc'[w] # "off" /\ ~(pc[w] = "fetch" /\ pc'[w] = "store")
          /\ pc[w] # "off"
      BY <1>9 DEF NotModified, FetchStored, FetchFails, RulesFail, CleanStored, PollAgain,
                  EndPoll, BeginPoll, GoTo, TypeOK
    <3> QED
      BY <3>1, <3>2, Apart
  <2>2. /\ mem'[w].startUp = mem[w].startUp
        /\ mem[w].dismissed \cap StartUps(w) \subseteq mem'[w].dismissed
    BY <2>1 DEF Copied
  <2>3. UNCHANGED <<panel, dismissing, gone, toasts, snap>>
    BY <1>9 DEF NotModified, FetchStored, FetchFails, RulesFail, CleanStored, PollAgain
  <2> QED
    BY <1>3, <2>2, <2>3
<1>10. ASSUME NEW n \in StartUpIds, Dismiss(w, n) PROVE Held'
  <2> DEFINE D == mem[w].dismissed \cup view[w].dismissed \cup {n}
  <2>1. /\ D \in SUBSET StartUpIds /\ mem[w].dismissed \cup {n} \subseteq D
        /\ Write(w, [mem[w] EXCEPT !.dismissed = D])
    BY <1>10 DEF TypeOK, Entry, Dismiss
  <2>2. n \in StartUps(w)
    BY <1>0, <1>10 DEF Dismiss
  <2> HIDE DEF D
  <2>3. mem'[w].startUp = mem[w].startUp /\ mem'[w].dismissed = D \cap StartUps(w)
    BY <2>1, WriteDismissals
  <2>4. /\ dismissing'[w] = dismissing[w] \cup {n}
        /\ UNCHANGED <<panel, snap, gone, toasts>>
    BY <1>10 DEF Dismiss, TypeOK
  <2> QED
    BY <1>0, <1>1, <2>1, <2>2, <2>3, <2>4
<1>11. ASSUME NEW n \in StartUpIds, DismissDone(w, n) PROVE Held'
  <2>1. /\ n \in dismissing[w] /\ dismissing'[w] = dismissing[w] \ {n}
        /\ gone'[w] = gone[w] \cup {n} /\ panel'[w].startUp = panel[w].startUp \ {n}
        /\ UNCHANGED <<mem, snap, toasts>>
    BY <1>11 DEF DismissDone, TypeOK, Shown
  <2> QED
    BY <1>0, <1>1, <2>1
<1> QED
  BY <1>4, <1>5, <1>6, <1>7, <1>8, <1>9, <1>10, <1>11 DEF Acts, Poll, Dismissals

\* ToastedOnce: a notification that is received once is toasted once while a window is
\* open, however often it polls (controller.ts, displayNotifications).
THEOREM NoToastIsRepeated == Spec => []ToastedOnce
<1> DEFINE Inv == TypeOK /\ Blanks /\ Unmarked
<1>1. Init => Inv
  BY TypeInit DEF Init, Blanks, BlankAt, UntoldAt, Unmarked, UnmarkedAt, Blank
<1>2. Inv /\ [Next]_vars => Inv'
  <2> SUFFICES ASSUME Inv, [Next]_vars PROVE Inv'
    OBVIOUS
  <2>1. TypeOK'
    BY TypeStep
  <2>2. CASE UNCHANGED vars \/ Turn \/ \E c \in Categories : Publish(c)
    <3>1. UNCHANGED <<pc, polling, panel, snap, dismissing, gone, toasts, mem>>
      BY <2>2 DEF vars, Turn, Publish, entryVars, pollVars, historyVars
    <3> QED
      BY <2>1, <3>1 DEF Blanks, BlankAt, UntoldAt, Unmarked, UnmarkedAt
  <2>3. CASE \E w \in Windows : Acts(w)
    BY <2>1, <2>3, BlanksStep, UnmarkedStep
  <2> QED
    BY <2>2, <2>3 DEF Next, Acts
<1>3. Inv => ToastedOnce
  BY DEF Unmarked, UnmarkedAt, ToastedOnce
<1> QED
  BY <1>1, <1>2, <1>3, PTL DEF Spec

\* A window that is open was opened, and the opened windows only grow.
LEMMA OthersStep ==
    ASSUME TypeOK, TypeOK', Others, NEW w \in Windows, Acts(w)
    PROVE  /\ Others' /\ \A u \in Windows : Alone(u)' => Alone(u)
           /\ pc[w] = "off" => Open(w) \/ Dismissals(w)
           /\ Open(w) => \A u \in Windows \ {w} : ~Alone(u)'
<1> USE DEF worldVars, entryVars, pollVars, historyVars, Others, Alone
<1>1. CASE Open(w)
  <2>1. /\ opened' = Append(opened, w) /\ opened \in Seq(Windows)
        /\ \A v \in Windows : v # w => pc'[v] = pc[v]
    BY <1>1 DEF Open, TypeOK
  <2>2. /\ Len(opened) + 1 \in DOMAIN opened' /\ opened'[Len(opened) + 1] = w
        /\ \A i \in DOMAIN opened : i \in DOMAIN opened' /\ opened'[i] = opened[i]
    BY <2>1
  <2> QED
    BY <1>1, <2>1, <2>2
<1>2. CASE ~Open(w)
  <2>1. UNCHANGED opened /\ (pc'[w] # "off" => pc[w] # "off" \/ Dismissals(w))
        /\ (pc[w] = "off" => Dismissals(w))
    BY <1>2 DEF Acts, Poll, Close, Fetched, NotModified, FetchFails, FetchStored, Display,
       RulesFail, Toast, CleanStored, PollAgain, Dismissals, Dismiss, DismissDone
  <2>2. \A v \in Windows : v # w => pc'[v] = pc[v]
    BY Apart DEF Same
  <2>3. Dismissals(w) => UNCHANGED pc
    BY DEF Dismissals, Dismiss, DismissDone
  <2> QED
    BY <1>2, <2>1, <2>2, <2>3
<1> QED
  BY <1>1, <1>2

LEMMA LoneStep ==
    ASSUME TypeOK, TypeOK', Blanks, Held, Lone, Others, NEW w \in Windows, Acts(w)
    PROVE  Lone'
<1> USE DEF worldVars, entryVars, pollVars, historyVars
<1>0. HeldAt(w) /\ BlankAt(w)
  BY DEF Held, Blanks
<1>1. ASSUME Alone(w)', Alone(w), LoneAt(w) PROVE LoneAt(w)'
  <2>1. CASE Open(w)
    <3>1. /\ mem'[w] = disk /\ view'[w] = disk /\ pc[w] = "off"
          /\ UNCHANGED <<disk, panel, gone, goneBefore>>
      BY <2>1 DEF Open, TypeOK
    <3> QED
      BY <1>0, <1>1, <3>1 DEF LoneAt, BlankAt, StartUps
  <2>2. CASE Close(w)
    <3>1. /\ pc'[w] = "off" /\ gone'[w] = {} /\ UNCHANGED disk
          /\ goneBefore'[w] = goneBefore[w] \cup gone[w]
      BY <2>2 DEF Close, TypeOK
    <3> QED
      BY <1>1, <3>1 DEF LoneAt
  <2>3. CASE Fetched(w)
    <3>1. PICK added \in SUBSET Ids : FetchEffect(w, added)
      BY <2>3, FetchedEffect
    <3>2. /\ pc[w] = "fetch" /\ UNCHANGED <<panel, disk>>
          /\ gone'[w] = gone[w] \cap Received(mem'[w])
          /\ goneBefore'[w] = goneBefore[w] \cap Received(mem'[w])
      BY <2>3, ZenonT(60) DEF Fetched, TypeOK
    <3>3. /\ view'[w] = mem'[w] /\ mem'[w].dismissed = mem[w].dismissed \cap StartUps(w)'
          /\ Received(mem'[w]) \cap StartUpIds = StartUps(w)'
      BY <3>1 DEF FetchEffect, TypeOK
    <3>4. goneBefore[w] \subseteq StartUpIds
      BY DEF TypeOK
    <3> QED
      BY <1>1, <3>2, <3>3, <3>4 DEF LoneAt
  <2>4. CASE NotModified(w) \/ FetchFails(w) \/ RulesFail(w)
    <3>1. /\ pc[w] # "off" /\ UNCHANGED <<mem, view, disk, panel, gone, goneBefore>>
      BY <2>4 DEF NotModified, FetchFails, RulesFail
    <3> QED
      BY <1>1, <3>1 DEF LoneAt, StartUps
  <2>5. CASE FetchStored(w)
    <3>1. /\ pc[w] # "off" /\ UNCHANGED <<mem, panel, gone, goneBefore>>
          /\ disk' = view[w] /\ view'[w] = view[w]
      BY <2>5 DEF FetchStored, Stored, TypeOK
    <3> QED
      BY <1>0, <1>1, <3>1 DEF LoneAt, StartUps, HeldAt
  <2>6. CASE Display(w)
    <3>1. pc[w] # "off" /\ UNCHANGED <<mem, view, disk, gone, goneBefore>>
      BY <2>6 DEF Display
    <3>2. panel'[w].startUp = (StartUps(w) \cap passing) \ mem[w].dismissed
      BY <2>6 DEF Display, TypeOK, StartUps
    <3> QED
      BY <1>1, <3>1, <3>2 DEF LoneAt, StartUps
  <2>7. ASSUME EndPoll(w) \/ BeginPoll(w, "later"), view'[w] = view[w], pc[w] # "off"
        PROVE  mem'[w] = mem[w]
    <3>1. ASSUME NEW p \in Polls, BeginPoll(w, p) PROVE mem'[w] = mem[w]
      <4>1. view'[w] = mem[w] /\ view'[w] \in Entry
        BY <1>1, <2>7 DEF LoneAt, TypeOK
      <4> QED
        BY <3>1, <4>1, BeginEffect
    <3> QED
      BY <2>7, <3>1 DEF EndPoll, Polls
  <2>8. CASE Toast(w)
    <3> DEFINE N == mem[w].newlyReceived
                  \ ((snap[w].startUp \cup snap[w].emergency) \cap mem[w].newlyReceived)
    <3>0. pc[w] # "off" /\ UNCHANGED <<disk, panel, gone, goneBefore>>
      BY <2>8 DEF Toast
    <3>1. CASE Write(w, [mem[w] EXCEPT !.newlyReceived = N])
      <4>1. N \in SUBSET Ids
        BY DEF TypeOK, Entry
      <4> HIDE DEF N
      <4>2. /\ view' = [view EXCEPT ![w] = mem'[w]]
            /\ mem'[w].startUp = mem[w].startUp
            /\ mem'[w].dismissed = mem[w].dismissed \cap StartUps(w)
        BY <3>1, <4>1, WriteMarks
      <4>3. view'[w] = mem'[w]
        BY <4>2 DEF TypeOK
      <4> QED
        BY <1>1, <3>0, <4>2, <4>3 DEF LoneAt, StartUps
    <3>2. CASE UNCHANGED view /\ EndPoll(w)
      <4>1. mem'[w] = mem[w]
        BY <2>7, <3>0, <3>2
      <4> QED
        BY <1>1, <3>0, <3>2, <4>1 DEF LoneAt, StartUps
    <3> QED
      BY <2>8, <3>1, <3>2 DEF Toast
  <2>9. CASE CleanStored(w)
    <3>1. /\ pc[w] # "off" /\ UNCHANGED <<panel, gone, goneBefore>>
          /\ disk' = view[w] /\ view'[w] = view[w] /\ EndPoll(w)
      BY <2>9 DEF CleanStored, Stored, TypeOK
    <3>2. mem'[w] = mem[w]
      BY <2>7, <3>1
    <3> QED
      BY <1>0, <1>1, <3>1, <3>2 DEF LoneAt, StartUps, HeldAt
  <2>10. CASE PollAgain(w)
    <3>1. /\ pc[w] # "off" /\ UNCHANGED <<view, disk, panel, gone, goneBefore>>
          /\ BeginPoll(w, "later")
      BY <2>10 DEF PollAgain
    <3>2. mem'[w] = mem[w]
      BY <2>7, <3>1
    <3> QED
      BY <1>1, <3>1, <3>2 DEF LoneAt, StartUps
  <2>11. ASSUME NEW n \in StartUpIds, Dismiss(w, n) PROVE LoneAt(w)'
    <3> DEFINE D == mem[w].dismissed \cup view[w].dismissed \cup {n}
    <3>1. /\ D \in SUBSET StartUpIds /\ mem[w].dismissed \subseteq D
          /\ Write(w, [mem[w] EXCEPT !.dismissed = D])
          /\ pc[w] # "off" /\ UNCHANGED <<disk, panel, gone, goneBefore>>
      BY <2>11 DEF TypeOK, Entry, Dismiss
    <3> HIDE DEF D
    <3>2. /\ view' = [view EXCEPT ![w] = mem'[w]]
          /\ mem'[w].startUp = mem[w].startUp
          /\ mem'[w].dismissed = D \cap StartUps(w)
      BY <3>1, WriteDismissals
    <3>3. view'[w] = mem'[w]
      BY <3>2 DEF TypeOK
    <3> QED
      BY <1>1, <3>1, <3>2, <3>3 DEF LoneAt, StartUps
  <2>12. ASSUME NEW n \in StartUpIds, DismissDone(w, n) PROVE LoneAt(w)'
    <3>1. /\ n \in dismissing[w] /\ gone'[w] = gone[w] \cup {n}
          /\ panel'[w].startUp = panel[w].startUp \ {n}
          /\ UNCHANGED <<mem, goneBefore, pc>> /\ disk' = view[w] /\ view'[w] = view[w]
      BY <2>12 DEF DismissDone, Stored, TypeOK, Shown
    <3>2. pc[w] # "off"
      BY <1>0, <3>1 DEF BlankAt
    <3> QED
      BY <1>0, <1>1, <3>1, <3>2 DEF LoneAt, StartUps, HeldAt
  <2> QED
    BY <2>1, <2>2, <2>3, <2>4, <2>5, <2>6, <2>8, <2>9, <2>10, <2>11, <2>12
      DEF Acts, Poll, Dismissals
<1>2. ASSUME NEW u \in Windows \ {w}, Alone(u)' PROVE FALSE
  <2>1. Alone(u) /\ ~Open(w)
    BY <1>2, OthersStep
  <2>2. pc[w] = "off"
    BY <1>2, <2>1 DEF Others, Alone
  <2>3. PICK n \in StartUpIds : Dismiss(w, n) \/ DismissDone(w, n)
    BY <2>1, <2>2, OthersStep DEF Dismissals
  <2>4. n \in dismissing[w]
    BY <2>2, <2>3 DEF Dismiss, DismissDone
  <2> QED
    BY <1>0, <2>2, <2>4 DEF BlankAt
<1>3. Alone(w)' => Alone(w)
  BY OthersStep
<1> QED
  BY <1>1, <1>2, <1>3 DEF Lone

\* DismissedHidden: what the user dismissed stays out of the panel while the window is
\* open, whatever it polls and whatever other windows write; and after restarts too
\* as long as there is one window (controller.ts, dismissNotification).
THEOREM DismissedStaysHidden == Spec => []DismissedHidden
<1>1. Init => IInv
  <2>1. Init => Blanks /\ Held
    BY PayloadFacts DEF Init, Blanks, BlankAt, UntoldAt, Held, HeldAt, Blank
  <2>2. Init => Lone /\ Others /\ Unmarked
    BY DEF Init, Lone, LoneAt, Others, Unmarked, UnmarkedAt
  <2> QED
    BY <2>1, <2>2, TypeInit DEF IInv
<1>2. IInv /\ [Next]_vars => IInv'
  <2> SUFFICES ASSUME IInv, [Next]_vars PROVE IInv'
    OBVIOUS
  <2> USE DEF IInv
  <2>1. TypeOK'
    BY TypeStep
  <2>2. CASE UNCHANGED vars \/ Turn \/ \E c \in Categories : Publish(c)
    <3>1. UNCHANGED <<pc, polling, panel, snap, dismissing, gone, goneBefore, toasts, mem,
                      view, disk, opened>>
      BY <2>2 DEF vars, Turn, Publish, entryVars, pollVars, historyVars
    <3>2. Blanks' /\ Unmarked'
      BY <3>1 DEF Blanks, BlankAt, UntoldAt, Unmarked, UnmarkedAt
    <3>3. Held' /\ Lone' /\ Others'
      BY <3>1 DEF Held, HeldAt, StartUps, Lone, LoneAt, Others, Alone
    <3> QED
      BY <2>1, <3>2, <3>3
  <2>3. CASE \E w \in Windows : Acts(w)
    BY <2>1, <2>3, BlanksStep, UnmarkedStep, HeldStep, LoneStep, OthersStep
  <2> QED
    BY <2>2, <2>3 DEF Next, Acts
<1>3. IInv => DismissedHidden
  <2> SUFFICES ASSUME IInv, NEW w \in Windows
               PROVE  /\ panel[w].startUp \cap gone[w] = {}
                      /\ Alone(w) => panel[w].startUp \cap goneBefore[w] = {}
    BY DEF DismissedHidden, Alone
  <2>1. HeldAt(w) /\ BlankAt(w) /\ (Alone(w) => LoneAt(w))
    BY DEF IInv, Held, Blanks, Lone
  <2> QED
    BY <2>1 DEF HeldAt, BlankAt, LoneAt
<1> QED
  BY <1>1, <1>2, <1>3, PTL DEF Spec
=============================================================================
