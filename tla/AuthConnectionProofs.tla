------------------------ MODULE AuthConnectionProofs ------------------------
(***************************************************************************)
(* Theorems about AuthConnection, for any connections, any number of calls *)
(* and any number of restarts.                                             *)
(***************************************************************************)
EXTENDS AuthConnection, TLAPS

-----------------------------------------------------------------------------
(* The invariant *)

\* Where a call is that has gone through authenticate, or is about to.
Authenticating == {"prompt", "auth", "joined", "granted", "denied"}

\* Where a call is tells what it is about, where it can go on and what it was told.
Fits(r) ==
    /\ r \in Calls
    /\ r.at \notin {"idle", "load", "adopt", "list", "extra"} => r.conn \in Conns
    /\ r.at = "judge" => r.saw \in {"valid", "invalid"}
    /\ r.at = "login" /\ r.op # "create" => r.saw \in States
    /\ r.at \in {"ask", "judge"} /\ r.op # "get" => r.then \in {"activate", "adopt", "idle"}
    /\ r.at \in {"ask", "judge"} /\ r.op = "get" => r.then = None
    /\ r.at = "mark" => r.then \in {"idle", "prompt", "auth", "activate", "adopt", "granted",
                                    "denied", "keep", "left", "erase"}
    /\ r.at \in {"revoke", "revoked"} => r.then \in {"left", "erase"} /\ r.target \in Conns
    /\ r.at \notin {"ask", "judge", "mark", "revoke", "revoked"} => r.then = None
    /\ "keep" \in {r.at, r.then} \/ r.at \in {"added", "kept"} => r.op \in {"connect", "create"}
    /\ r.at \in {"load", "look", "adopt"} \/ r.then = "adopt" => r.op # "get"
    /\ r.at \in Authenticating \/ r.then \in Authenticating => r.op # "create"

Wired == \A u \in Tasks : Fits(call[u])

\* A connection that is kept is not about to be deleted, and it is the one that
\* restoreConnection and clearExtraConnections are about.
Spared(c, p) ==
    /\ p \in {"leave", "revoke", "revoked", "left", "erase", "sweep", "gone"} => c # home
    /\ p \in {"look", "adopt", "list"} => c = home

Spares(r) ==
    /\ r.op \in {None, "start", "reload", "get", "check", "reauth"}
    /\ Spared(r.conn, r.at)
    /\ Spared(r.conn, r.then)

\* What keeps the connection that was saved when the window started.
HomeKept ==
    home # None =>
        /\ savedId = home
        /\ store[home] # None
        /\ saved \in {None, home}
        /\ home \notin extra
        /\ \A u \in Tasks : Spares(call[u])

LEMMA NoneIsNone == None \notin Conns /\ None \notin States
BY AuthAssumption DEF None, States

LEMMA IdleFits == Fits(Idle)
BY DEF Idle, Fits, Authenticating, Calls, None, Points, Ops, States

LEMMA BecomeFits ==
    ASSUME Wired, call \in [Tasks -> Calls], NEW t \in Tasks, NEW r, r.at # "idle" => Fits(r),
           Become(t, r)
    PROVE  Wired' /\ call' \in [Tasks -> Calls]
<1> DEFINE q == IF r.at = "idle" THEN Idle ELSE r
<1>1. Fits(q)
  BY IdleFits
<1>2. call' = [call EXCEPT ![t] = q]
  BY DEF Become
<1> HIDE DEF q
<1>3. q \in Calls
  BY <1>1 DEF Fits, Authenticating
<1>4. call' \in [Tasks -> Calls]
  BY <1>2, <1>3
<1>5. ASSUME NEW u \in Tasks PROVE Fits(call'[u])
  BY <1>1, <1>2 DEF Wired
<1>6. Wired'
  BY <1>5 DEF Wired
<1> QED
  BY <1>4, <1>6

\* Places where a call waits for nothing it has noted.
Plain == Points \ {"idle", "ask", "judge", "mark", "login", "revoke", "revoked"}

\* A call may be at p.
MayBe(r, p) ==
    /\ p \in Plain
    /\ p \notin {"load", "adopt", "list", "extra"} => r.conn \in Conns
    /\ p \in {"keep", "kept", "added"} => r.op \in {"connect", "create"}
    /\ p \in {"load", "look", "adopt"} => r.op # "get"
    /\ p \in Authenticating => r.op # "create"

LEMMA ResumeFits ==
    ASSUME NEW t \in Tasks, Fits(call[t]), NEW p, MayBe(call[t], p)
    PROVE  Fits(Resume(t, p))
<1> DEFINE r == Resume(t, p)
<1>1. call[t] \in Calls
  BY DEF Fits, Authenticating
<1>2. r \in Calls
  BY <1>1 DEF Calls, Resume, MayBe, Plain
<1>3. r.op = call[t].op /\ r.at = p /\ r.conn = call[t].conn /\ r.then = None
  BY <1>1 DEF Calls, Resume, MayBe, Plain
<1>4. Fits(r)
  <2> HIDE DEF r
  <2> QED
    BY <1>2, <1>3 DEF Fits, Authenticating, MayBe, Plain, None
<1> QED
  BY <1>4

LEMMA GotoFits ==
    ASSUME NEW t \in Tasks, Fits(call[t]), NEW p, MayBe(call[t], p), call[t].then = None
    PROVE  Fits([call[t] EXCEPT !.at = p])
BY DEF Fits, Authenticating, MayBe, Plain, Points, Calls, None

LEMMA GotoWithFits ==
    ASSUME NEW t \in Tasks, Fits(call[t]), NEW p, call[t].then = None,
           NEW c \in Conns \cup {None}, MayBe([call[t] EXCEPT !.conn = c], p)
    PROVE  Fits([call[t] EXCEPT !.at = p, !.conn = c])
<1> DEFINE r == [call[t] EXCEPT !.at = p, !.conn = c]
<1>1. call[t] \in Calls
  BY DEF Fits, Authenticating
<1>2. r \in Calls
  BY <1>1 DEF Calls, MayBe, Plain
<1>3. /\ r.op = call[t].op /\ r.at = p /\ r.conn = c /\ r.then = None
      /\ [call[t] EXCEPT !.conn = c].op = call[t].op
      /\ [call[t] EXCEPT !.conn = c].conn = c
  BY <1>1 DEF Calls, MayBe, Plain
<1>4. Fits(r)
  <2> HIDE DEF r
  <2> QED
    BY <1>2, <1>3 DEF Fits, Authenticating, MayBe, Plain, None
<1> QED
  BY <1>4

LEMMA FirstFits ==
    ASSUME NEW o \in Ops, NEW p, NEW c \in Conns \cup {None},
           MayBe([Idle EXCEPT !.op = o, !.conn = c], p)
    PROVE  Fits([Idle EXCEPT !.op = o, !.at = p, !.conn = c])
<1> DEFINE r == [Idle EXCEPT !.op = o, !.at = p, !.conn = c]
<1>1. r \in Calls
  BY DEF Calls, Idle, MayBe, Plain
<1>2. /\ r.op = o /\ r.at = p /\ r.conn = c /\ r.then = None
      /\ [Idle EXCEPT !.op = o, !.conn = c].op = o
      /\ [Idle EXCEPT !.op = o, !.conn = c].conn = c
  BY DEF Idle
<1>3. Fits(r)
  <2> HIDE DEF r
  <2> QED
    BY <1>1, <1>2 DEF Fits, Authenticating, MayBe, Plain, None
<1> QED
  BY <1>3

LEMMA MarkFits ==
    ASSUME NEW t \in Tasks, Fits(call[t]), NEW c \in Conns, NEW s \in States,
           NEW k \in {"idle", "prompt", "auth", "activate", "adopt", "granted",
                      "denied", "keep", "left", "erase"},
           call[t].conn \in Conns,
           k = "keep" => call[t].op \in {"connect", "create"},
           k = "adopt" => call[t].op # "get",
           k \in Authenticating => call[t].op # "create"
    PROVE  Fits([call[t] EXCEPT !.at = "mark", !.target = c, !.then = k, !.saw = s])
<1> DEFINE r == [call[t] EXCEPT !.at = "mark", !.target = c, !.then = k, !.saw = s]
<1>1. call[t] \in Calls
  BY DEF Fits, Authenticating
<1>2. r \in Calls
  <2>1. k \in Points /\ "mark" \in Points
    BY DEF Points
  <2> QED
    BY <1>1, <2>1 DEF Calls
<1>3. r.op = call[t].op /\ r.at = "mark" /\ r.conn = call[t].conn /\ r.then = k
  BY <1>1 DEF Calls, Points
<1>4. Fits(r)
  <2> HIDE DEF r
  <2> QED
    BY <1>2, <1>3 DEF Fits, Authenticating, None
<1> QED
  BY <1>4

-----------------------------------------------------------------------------
(* What the calls have in common keeps the types *)

\* p is where a call may go on, or it ends.
GoesTo(r, p) == p = "idle" \/ MayBe(r, p)

LEMMA GotoTypes ==
    ASSUME TypeOK, Wired, NEW t \in Tasks, NEW p, GoesTo(call[t], p), call[t].then = None,
           Goto(t, p)
    PROVE  Wired' /\ call' \in [Tasks -> Calls]
<1> DEFINE r == [call[t] EXCEPT !.at = p]
<1>1. Fits(call[t])
  BY DEF Wired
<1>2. r.at = p
  BY <1>1 DEF Fits, Authenticating, Calls
<1>3. r.at # "idle" => Fits(r)
  BY <1>1, <1>2, GotoFits DEF GoesTo
<1>4. Become(t, r)
  BY DEF Goto
<1> HIDE DEF r
<1> QED
  BY <1>3, <1>4, BecomeFits DEF TypeOK

LEMMA ResumeTypes ==
    ASSUME TypeOK, Wired, NEW t \in Tasks, NEW p, GoesTo(call[t], p), Become(t, Resume(t, p))
    PROVE  Wired' /\ call' \in [Tasks -> Calls]
<1>1. Fits(call[t])
  BY DEF Wired
<1>2. Resume(t, p).at = p
  BY <1>1 DEF Fits, Authenticating, Calls, Resume
<1>3. Resume(t, p).at # "idle" => Fits(Resume(t, p))
  BY <1>1, <1>2, ResumeFits DEF GoesTo
<1> QED
  BY <1>3, BecomeFits DEF TypeOK

LEMMA ContinueTypes ==
    ASSUME TypeOK, Wired, NEW t \in Tasks, NEW p, GoesTo(call[t], p), Continue(t, p)
    PROVE  TypeOK' /\ Wired'
<1>1. Wired' /\ call' \in [Tasks -> Calls]
  BY ResumeTypes DEF Continue
<1> QED
  BY <1>1 DEF Continue, TypeOK, persisted, window, history

LEMMA BeginTypes ==
    ASSUME TypeOK, Wired, NEW t \in Tasks, NEW o \in Ops, NEW c \in Conns, NEW p,
           MayBe([Idle EXCEPT !.op = o, !.conn = c], p), Begin(t, o, c, p)
    PROVE  Wired' /\ call' \in [Tasks -> Calls]
BY FirstFits, BecomeFits DEF Begin, TypeOK

\* A call that awaits the write of a state, or goes on without one.
LEMMA UpdateTypes ==
    ASSUME TypeOK, Wired, NEW t \in Tasks, NEW c \in Conns, NEW s \in States, NEW k, NEW e,
           call[t].conn \in Conns,
           k \in {"idle", "prompt", "auth", "activate", "adopt", "granted", "denied", "keep",
                  "left", "erase"},
           GoesTo(call[t], k), GoesTo(call[t], e),
           Update(t, c, s, k, e)
    PROVE  TypeOK' /\ Wired'
<1>1. Wired' /\ call' \in [Tasks -> Calls]
  <2>1. CASE ~Known(c)
    BY <2>1, ResumeTypes DEF Update
  <2>2. CASE Known(c) /\ store[c] = s
    BY <2>2, ResumeTypes DEF Update
  <2>3. CASE Known(c) /\ store[c] # s
    <3> DEFINE r == [call[t] EXCEPT !.at = "mark", !.target = c, !.then = k, !.saw = s]
    <3>1. Fits(call[t])
      BY DEF Wired
    <3>2. Fits(r)
      BY <3>1, MarkFits DEF GoesTo, MayBe, Authenticating
    <3>3. Become(t, r)
      BY <2>3 DEF Update
    <3> HIDE DEF r
    <3> QED
      BY <3>2, <3>3, BecomeFits DEF TypeOK
  <2> QED
    BY <2>1, <2>2, <2>3
<1>2. store' \in [Conns -> States \cup {None}]
  BY DEF Update, TypeOK
<1> QED
  BY <1>1, <1>2 DEF Update, TypeOK, window, history

LEMMA ValidateTypes ==
    ASSUME TypeOK, Wired, NEW t \in Tasks, call[t].then = None,
           NEW c \in Conns \cup {None}, NEW p \in {"activate", "adopt"},
           p = "activate" => c \in Conns, call[t].op # "get",
           Validate(t, c, p)
    PROVE  Wired' /\ call' \in [Tasks -> Calls]
<1> DEFINE r == [call[t] EXCEPT !.conn = c, !.at = IF Known(c) THEN "ask" ELSE p,
                                !.then = IF Known(c) THEN p ELSE None]
<1>1. call[t] \in Calls
  BY DEF TypeOK
<1>2. Known(c) => c \in Conns
  BY DEF Known
<1>3. r \in Calls
  <2>1. {"ask", "activate", "adopt"} \subseteq Points
    BY DEF Points
  <2> QED
    BY <1>1, <2>1, ZenonT(60) DEF Calls
<1>4. /\ r.op = call[t].op /\ r.conn = c
      /\ r.at = (IF Known(c) THEN "ask" ELSE p)
      /\ r.then = (IF Known(c) THEN p ELSE None)
  BY <1>1 DEF Calls
<1>5. Become(t, r)
  BY DEF Validate
<1> HIDE DEF r
<1>6. Fits(r)
  BY <1>2, <1>3, <1>4 DEF Fits, Authenticating, None
<1> QED
  BY <1>5, <1>6, BecomeFits DEF TypeOK

LEMMA DeleteTypes ==
    ASSUME TypeOK, Wired, NEW t \in Tasks, NEW o \in Ops, NEW c \in Conns, Delete(t, o, c)
    PROVE  /\ Wired' /\ call' \in [Tasks -> Calls]
           /\ current' \in Conns \cup {None}
<1>1. current' \in Conns \cup {None}
  BY DEF Delete, TypeOK
<1>2. Fits([[Idle EXCEPT !.op = o, !.conn = c] EXCEPT !.at = "gone"])
  BY DEF Idle, Fits, Authenticating, Calls, Points, None
<1>3. Fits([[Idle EXCEPT !.op = o, !.conn = c] EXCEPT !.at = "leave"])
  BY DEF Idle, Fits, Authenticating, Calls, Points, None
<1>4. Fits([[Idle EXCEPT !.op = o, !.conn = c]
              EXCEPT !.at = "revoke", !.target = c, !.then = "erase"])
  BY DEF Idle, Fits, Authenticating, Calls, Points, None
<1>5. CASE ~Known(c)
  BY <1>1, <1>2, <1>5, BecomeFits DEF Delete, TypeOK
<1>6. CASE Known(c) /\ active = c
  BY <1>1, <1>3, <1>6, BecomeFits DEF Delete, TypeOK
<1>7. CASE Known(c) /\ active # c
  BY <1>1, <1>4, <1>7, BecomeFits DEF Delete, TypeOK
<1> QED
  BY <1>5, <1>6, <1>7

\* A deletion that ends.
LEMMA LeftTypes ==
    ASSUME TypeOK, Wired, NEW t \in Tasks,
           Become(t, [Resume(t, After(t)) EXCEPT !.conn = None])
    PROVE  Wired' /\ call' \in [Tasks -> Calls]
<1> DEFINE r == [Resume(t, After(t)) EXCEPT !.conn = None]
<1>1. call[t] \in Calls
  BY DEF TypeOK
<1>2. After(t) \in {"extra", "idle"} /\ {"extra", "idle"} \subseteq Points
  BY DEF After, Points
<1>3. r \in Calls
  BY <1>1, <1>2 DEF Calls, Resume
<1>4. r.op = call[t].op /\ r.at = After(t) /\ r.conn = None /\ r.then = None
  BY <1>1 DEF Calls, Resume
<1> HIDE DEF r
<1>5. Fits(r)
  BY <1>2, <1>3, <1>4 DEF Fits, Authenticating, None
<1> QED
  BY <1>5, BecomeFits DEF TypeOK, r

LEMMA DeletedTypes ==
    ASSUME TypeOK, Wired, NEW t \in Tasks, call[t].conn \in Conns,
           active' \in Conns \cup {None}, Deleted(t)
    PROVE  TypeOK' /\ Wired'
<1>1. Wired' /\ call' \in [Tasks -> Calls]
  <2>1. GoesTo(call[t], "unsave")
    BY DEF GoesTo, MayBe, Plain, Points, Authenticating
  <2> QED
    BY <2>1, ResumeTypes, LeftTypes DEF Deleted
<1>2. follows' \in Conns \cup {None} /\ savedId' \in Conns \cup {None}
  BY DEF Deleted, TypeOK
<1>3. UNCHANGED <<store, current, token, saved, hasRun, busy, extra, restarts, home>>
  BY DEF Deleted, history
<1> QED
  BY <1>1, <1>2, <1>3 DEF TypeOK

LEMMA RestoreTypes ==
    ASSUME TypeOK, Wired, NEW t \in Tasks, NEW o \in Ops \ {"get"}, hasRun' \in BOOLEAN,
           Restore(t, o)
    PROVE  TypeOK' /\ Wired'
<1> DEFINE p == IF current = None THEN "load" ELSE IF Known(current) THEN "ask" ELSE "activate"
           r == [Idle EXCEPT !.op = o, !.at = p, !.conn = current,
                             !.then = IF p = "ask" THEN "activate" ELSE None]
<1>1. current \in Conns \cup {None}
  BY DEF TypeOK
<1>2. Fits(r)
  <2>1. r \in Calls
    BY <1>1 DEF Idle, Calls, Points
  <2>2. /\ r.op = o /\ r.at = p /\ r.conn = current
        /\ r.then = (IF p = "ask" THEN "activate" ELSE None)
    BY DEF Idle
  <2>3. p = "load" \/ current \in Conns
    BY <1>1
  <2>4. p \in {"load", "ask", "activate"}
    OBVIOUS
  <2> HIDE DEF r, p
  <2> QED
    BY <2>1, <2>2, <2>3, <2>4 DEF Fits, Authenticating, None
<1>3. Become(t, r)
  BY DEF Restore
<1>4. Wired' /\ call' \in [Tasks -> Calls]
  <2> HIDE DEF r
  <2> QED
    BY <1>2, <1>3, BecomeFits DEF TypeOK
<1> QED
  BY <1>4 DEF Restore, TypeOK, persisted, history
-----------------------------------------------------------------------------
(* Types *)

LEMMA Typing ==
    ASSUME TypeOK, Wired, [Next]_vars
    PROVE  TypeOK' /\ Wired'

<1>1. ASSUME NEW t \in Tasks, Answered(t) PROVE TypeOK' /\ Wired'
  <2> DEFINE s == IF token[call[t].conn] THEN "valid" ELSE "invalid"
             r == [call[t] EXCEPT !.at = "judge", !.saw = s]
  <2>1. Fits(call[t])
    BY DEF Wired
  <2>2. r \in Calls
    <3>1. s \in States /\ "judge" \in Points
      BY DEF States, Points
    <3> HIDE DEF s
    <3> QED
      BY <2>1, <3>1 DEF Fits, Authenticating, Calls
  <2>3. r.op = call[t].op /\ r.at = "judge" /\ r.conn = call[t].conn /\ r.then = call[t].then
        /\ r.saw = s
    BY <2>1 DEF Fits, Authenticating, Calls
  <2>4. call[t].at = "ask" /\ Become(t, r)
    BY <1>1 DEF Answered
  <2>5. s \in {"valid", "invalid"}
    OBVIOUS
  <2>6. Fits(r)
    <3> HIDE DEF r, s
    <3> QED
      BY <2>1, <2>2, <2>3, <2>4, <2>5 DEF Fits, Authenticating, None
  <2>7. Wired' /\ call' \in [Tasks -> Calls]
    <3> HIDE DEF r
    <3> QED
      BY <2>4, <2>6, BecomeFits DEF TypeOK
  <2> QED
    BY <1>1, <2>7 DEF Answered, TypeOK, persisted, window, history

<1>2. ASSUME NEW t \in Tasks, Unreachable(t) PROVE TypeOK' /\ Wired'
  <2>1. Fits(call[t])
    BY DEF Wired
  <2>2. GoesTo(call[t], Caught(t))
    BY <1>2, <2>1 DEF Unreachable, GoesTo, MayBe, Plain, Points, Authenticating, Fits, Caught, Restoring
  <2> QED
    BY <1>2, <2>2, ContinueTypes DEF Unreachable

<1>3. ASSUME NEW t \in Tasks, Judge(t) PROVE TypeOK' /\ Wired'
  <2>1. Fits(call[t])
    BY DEF Wired
  <2>2. /\ call[t].conn \in Conns /\ call[t].conn \in Conns
        /\ call[t].saw \in States
        /\ call[t].then \in {"idle", "prompt", "auth", "activate", "adopt", "granted", "denied",
                     "keep", "left", "erase"}
    BY <1>3, <2>1 DEF Judge, Fits, States
  <2>3. GoesTo(call[t], call[t].then) /\ GoesTo(call[t], Caught(t))
    BY <1>3, <2>1, <2>2 DEF Judge, GoesTo, MayBe, Plain, Points, Authenticating, Fits, Caught, Restoring
  <2> QED
    BY <1>3, <2>2, <2>3, UpdateTypes DEF Judge

<1>4. ASSUME NEW t \in Tasks, Mark(t) PROVE TypeOK' /\ Wired'
  <2>1. Fits(call[t]) /\ call[t].at = "mark"
    BY <1>4 DEF Wired, Mark
  <2>2. call[t].then # "idle" => Fits(Resume(t, call[t].then))
    BY <2>1, ResumeFits DEF MayBe, Plain, Points, Authenticating, Fits
  <2>3. \A u \in Tasks : \/ call'[u] \in {Idle, call[u]}
                         \/ /\ u = t /\ call[t].then # "idle"
                            /\ call'[u] = Resume(t, call[t].then)
    BY <1>4 DEF Mark
  <2>4. Wired'
    BY <2>2, <2>3, IdleFits DEF Wired
  <2>5. call' \in [Tasks -> Calls]
    BY <1>4, <2>4 DEF Mark, Wired, Fits
  <2> QED
    BY <1>4, <2>4, <2>5 DEF Mark, TypeOK, persisted, window, history

<1>5. ASSUME NEW t \in Tasks, Activate(t) PROVE TypeOK' /\ Wired'
  <2>1. Fits(call[t])
    BY DEF Wired
  <2>2. GoesTo(call[t], IF Restoring(t) THEN "load" ELSE "idle") /\ call[t].then = None
    BY <1>5, <2>1 DEF Activate, GoesTo, MayBe, Plain, Points, Authenticating, Fits, Restoring
  <2>3. Wired' /\ call' \in [Tasks -> Calls]
    BY <1>5, <2>2, GotoTypes DEF Activate
  <2>4. call[t].conn \in Conns
    BY <1>5, <2>1 DEF Activate, Fits
  <2> QED
    BY <1>5, <2>3, <2>4 DEF Activate, TypeOK, States, persisted, window, history

<1>6. ASSUME NEW t \in Tasks, Authenticate(t) PROVE TypeOK' /\ Wired'
  <2> DEFINE s == IF call[t].op = "get"
                  THEN (IF Known(call[t].conn) THEN store[call[t].conn] ELSE "unauthenticated")
                  ELSE "invalid"
             q == [call[t] EXCEPT !.at = "joined"]
             r == [call[t] EXCEPT !.at = "login", !.saw = s]
  <2>1. Fits(call[t])
    BY DEF Wired
  <2>2. call[t].at = "auth" /\ call[t].conn \in Conns /\ call[t].then = None
    BY <1>6, <2>1 DEF Authenticate, Fits
  <2>3. s \in States
    BY <2>2 DEF States, Known, TypeOK
  <2>4. Fits(q)
    BY <2>1, <2>2, GotoFits DEF MayBe, Plain, Points, Fits, Authenticating
  <2>5. Fits(r)
    <3>1. r \in Calls
      <4>1. "login" \in Points
        BY DEF Points
      <4> HIDE DEF s
      <4> QED
        BY <2>1, <2>3, <4>1 DEF Fits, Authenticating, Calls
    <3>2. r.op = call[t].op /\ r.at = "login" /\ r.conn = call[t].conn /\ r.then = None
          /\ r.saw = s
      BY <2>1, <2>2 DEF Fits, Authenticating, Calls
    <3> HIDE DEF r, s
    <3> QED
      BY <2>1, <2>2, <2>3, <3>1, <3>2 DEF Fits, Authenticating, None
  <2>6. Become(t, IF call[t].conn \in busy THEN q ELSE r)
    BY <1>6 DEF Authenticate
  <2>7. Wired' /\ call' \in [Tasks -> Calls]
    <3> HIDE DEF q, r
    <3> QED
      BY <2>4, <2>5, <2>6, BecomeFits DEF TypeOK
  <2> QED
    BY <1>6, <2>2, <2>7 DEF Authenticate, TypeOK, persisted, history

<1>7. ASSUME NEW t \in Tasks, LogIn(t) PROVE TypeOK' /\ Wired'
  <2>1. Fits(call[t])
    BY DEF Wired
  <2>2. GoesTo(call[t], "issued")
    BY <1>7, <2>1 DEF LogIn, GoesTo, MayBe, Plain, Points, Authenticating, Fits
  <2>3. Wired' /\ call' \in [Tasks -> Calls]
    BY <1>7, <2>2, ResumeTypes DEF LogIn
  <2> QED
    BY <1>7, <2>3 DEF LogIn, TypeOK, window, history

<1>8. ASSUME NEW t \in Tasks, LogInFails(t) PROVE TypeOK' /\ Wired'
  <2>1. Fits(call[t])
    BY DEF Wired
  <2>2. /\ call[t].conn \in Conns /\ call[t].conn \in Conns
        /\ call[t].saw \in States
        /\ "denied" \in {"idle", "prompt", "auth", "activate", "adopt", "granted", "denied",
                     "keep", "left", "erase"}
    BY <1>8, <2>1 DEF LogInFails, Fits, States
  <2>3. GoesTo(call[t], "denied") /\ GoesTo(call[t], "denied")
    BY <1>8, <2>1, <2>2 DEF LogInFails, GoesTo, MayBe, Plain, Points, Authenticating, Fits
  <2> QED
    BY <1>8, <2>2, <2>3, UpdateTypes DEF LogInFails

<1>9. ASSUME NEW t \in Tasks, LogInUnreachable(t) PROVE TypeOK' /\ Wired'
  <2>1. Fits(call[t])
    BY DEF Wired
  <2>2. GoesTo(call[t], IF call[t].op = "create" THEN "idle" ELSE "denied")
    BY <1>9, <2>1 DEF LogInUnreachable, GoesTo, MayBe, Plain, Points, Authenticating, Fits
  <2> QED
    BY <1>9, <2>2, ContinueTypes DEF LogInUnreachable

<1>10. ASSUME NEW t \in Tasks, Issued(t) PROVE TypeOK' /\ Wired'
  <2>1. Fits(call[t])
    BY DEF Wired
  <2>2. /\ call[t].conn \in Conns /\ call[t].conn \in Conns
        /\ "valid" \in States
        /\ "granted" \in {"idle", "prompt", "auth", "activate", "adopt", "granted", "denied",
                     "keep", "left", "erase"}
    BY <1>10, <2>1 DEF Issued, Fits, States
  <2>3. GoesTo(call[t], "granted") /\ GoesTo(call[t], "denied")
    BY <1>10, <2>1, <2>2 DEF Issued, GoesTo, MayBe, Plain, Points, Authenticating, Fits
  <2> QED
    BY <1>10, <2>2, <2>3, UpdateTypes DEF Issued

<1>11. ASSUME NEW t \in Tasks, Resolve(t) PROVE TypeOK' /\ Wired'
  <2>1. ASSUME NEW u \in Tasks, call[u].at \in {"granted", "denied", "joined"},
               NEW p \in {"granted", "denied"}
        PROVE  Fits(Authenticated(u, p))
    <3>1. Fits(call[u]) /\ call[u].then = None
      BY <2>1 DEF Wired, Fits
    <3>2. CASE p = "granted" /\ call[u].op = "connect"
      <4>1. MayBe(call[u], "keep")
        BY <2>1, <3>1, <3>2 DEF MayBe, Plain, Points, Authenticating, Fits
      <4> QED
        BY <3>1, <3>2, <4>1, GotoFits DEF Authenticated
    <3>3. CASE ~(p = "granted" /\ call[u].op = "connect")
      BY <3>3, IdleFits DEF Authenticated
    <3> QED
      BY <3>2, <3>3
  <2>2. \A u \in Tasks : \/ call'[u] = call[u]
                         \/ /\ call[u].at \in {"granted", "denied", "joined"}
                            /\ call'[u] = Authenticated(u, call[t].at)
    BY <1>11 DEF Resolve
  <2>3. call[t].at \in {"granted", "denied"}
    BY <1>11 DEF Resolve
  <2>4. Wired'
    BY <2>1, <2>2, <2>3 DEF Wired
  <2>5. call' \in [Tasks -> Calls]
    BY <1>11, <2>4 DEF Resolve, Wired, Fits
  <2> QED
    BY <1>11, <2>4, <2>5 DEF Resolve, TypeOK, persisted, history

<1>12. ASSUME NEW t \in Tasks, GotToken(t) PROVE TypeOK' /\ Wired'
  <2>1. Fits(call[t])
    BY DEF Wired
  <2>2. GoesTo(call[t], "idle")
    BY <1>12, <2>1 DEF GotToken, GoesTo, MayBe, Plain, Points, Authenticating, Fits
  <2> QED
    BY <1>12, <2>2, ContinueTypes DEF GotToken

<1>13. ASSUME NEW t \in Tasks, Invalid(t) PROVE TypeOK' /\ Wired'
  <2>1. Fits(call[t])
    BY DEF Wired
  <2> DEFINE k == CASE store[call[t].conn] = "valid" -> "prompt"
                    [] store[call[t].conn] = "unauthenticated" -> "auth"
                    [] OTHER -> "idle"
  <2>2. call[t].conn \in Conns
    BY <1>13, <2>1 DEF Invalid, Fits
  <2>3. k \in {"prompt", "auth", "idle"}
    OBVIOUS
  <2>4. Update(t, call[t].conn, "invalid", k, "idle")
    BY <1>13 DEF Invalid
  <2> HIDE DEF k
  <2>5. GoesTo(call[t], k) /\ GoesTo(call[t], "idle")
    BY <1>13, <2>2, <2>3 DEF Invalid, GoesTo, MayBe, Plain, Points, Authenticating
  <2> QED
    BY <2>2, <2>3, <2>4, <2>5, UpdateTypes DEF States

<1>14. ASSUME NEW t \in Tasks, Orphaned(t) PROVE TypeOK' /\ Wired'
  <2>1. Fits(call[t])
    BY DEF Wired
  <2>2. call[t].conn \in Conns /\ active' \in Conns \cup {None}
    BY <1>14, <2>1 DEF Orphaned, Fits, TypeOK
  <2> QED
    BY <1>14, <2>2, DeletedTypes DEF Orphaned

<1>15. ASSUME NEW t \in Tasks, Accept(t) PROVE TypeOK' /\ Wired'
  <2>1. Fits(call[t])
    BY DEF Wired
  <2>2. GoesTo(call[t], "auth")
    BY <1>15, <2>1 DEF Accept, GoesTo, MayBe, Plain, Points, Authenticating, Fits
  <2> QED
    BY <1>15, <2>2, ContinueTypes DEF Accept

<1>16. ASSUME NEW t \in Tasks, Decline(t) PROVE TypeOK' /\ Wired'
  <2>1. Fits(call[t])
    BY DEF Wired
  <2>2. GoesTo(call[t], "idle")
    BY <1>16, <2>1 DEF Decline, GoesTo, MayBe, Plain, Points, Authenticating, Fits
  <2> QED
    BY <1>16, <2>2, ContinueTypes DEF Decline

<1>17. ASSUME NEW t \in Tasks, AddProfile(t) PROVE TypeOK' /\ Wired'
  <2>1. Fits(call[t])
    BY DEF Wired
  <2>2. GoesTo(call[t], "added") /\ call[t].then = None
    BY <1>17, <2>1 DEF AddProfile, GoesTo, MayBe, Plain, Points, Authenticating, Fits
  <2>3. Wired' /\ call' \in [Tasks -> Calls]
    BY <1>17, <2>2, GotoTypes DEF AddProfile
  <2>4. call[t].conn \in Conns
    BY <1>17, <2>1 DEF AddProfile, Fits
  <2> QED
    BY <1>17, <2>3, <2>4 DEF AddProfile, TypeOK, States, persisted, window, history

<1>18. ASSUME NEW t \in Tasks, Added(t) PROVE TypeOK' /\ Wired'
  <2>1. Fits(call[t])
    BY DEF Wired
  <2>2. /\ call[t].conn \in Conns /\ call[t].conn \in Conns
        /\ "valid" \in States
        /\ "keep" \in {"idle", "prompt", "auth", "activate", "adopt", "granted", "denied",
                     "keep", "left", "erase"}
    BY <1>18, <2>1 DEF Added, Fits, States
  <2>3. GoesTo(call[t], "keep") /\ GoesTo(call[t], "idle")
    BY <1>18, <2>1, <2>2 DEF Added, GoesTo, MayBe, Plain, Points, Authenticating, Fits
  <2> QED
    BY <1>18, <2>2, <2>3, UpdateTypes DEF Added

<1>19. ASSUME NEW t \in Tasks, Keep(t) PROVE TypeOK' /\ Wired'
  <2>1. Fits(call[t])
    BY DEF Wired
  <2>2. GoesTo(call[t], "kept") /\ call[t].then = None
    BY <1>19, <2>1 DEF Keep, GoesTo, MayBe, Plain, Points, Authenticating, Fits
  <2>3. Wired' /\ call' \in [Tasks -> Calls]
    BY <1>19, <2>2, GotoTypes DEF Keep
  <2>4. call[t].conn \in Conns
    BY <1>19, <2>1 DEF Keep, Fits
  <2> QED
    BY <1>19, <2>3, <2>4 DEF Keep, TypeOK, States, persisted, window, history

<1>20. ASSUME NEW t \in Tasks, Kept(t) PROVE TypeOK' /\ Wired'
  <2>1. Fits(call[t])
    BY DEF Wired
  <2>2. call[t].conn \in Conns /\ call[t].then = None /\ call[t].op # "get"
    BY <1>20, <2>1 DEF Kept, Fits
  <2>3. Wired' /\ call' \in [Tasks -> Calls]
    BY <1>20, <2>2, ValidateTypes, GotoTypes DEF Kept, GoesTo
  <2> QED
    BY <1>20, <2>2, <2>3 DEF Kept, TypeOK, persisted, history

<1>21. ASSUME NEW t \in Tasks, Leave(t) PROVE TypeOK' /\ Wired'
  <2> DEFINE r == [call[t] EXCEPT !.at = "revoke", !.target = active, !.then = "left"]
  <2>1. Fits(call[t])
    BY DEF Wired
  <2>2. call[t].at = "leave"
    BY <1>21 DEF Leave
  <2>3. ASSUME Known(active) PROVE Fits(r)
    <3>1. active \in Conns
      BY <2>3 DEF Known, TypeOK
    <3>2. r \in Calls
      BY <2>1, <3>1 DEF Fits, Authenticating, Calls, Points
    <3>3. /\ r.op = call[t].op /\ r.at = "revoke" /\ r.conn = call[t].conn
          /\ r.target = active /\ r.then = "left"
      BY <2>1 DEF Fits, Authenticating, Calls
    <3> HIDE DEF r
    <3> QED
      BY <2>1, <2>2, <3>1, <3>2, <3>3 DEF Fits, Authenticating, None
  <2>4. Become(t, IF Known(active) THEN r ELSE Idle)
    BY <1>21 DEF Leave
  <2>5. Wired' /\ call' \in [Tasks -> Calls]
    <3> HIDE DEF r
    <3> QED
      BY <2>3, <2>4, IdleFits, BecomeFits DEF TypeOK
  <2> QED
    BY <1>21, <2>5 DEF Leave, TypeOK, persisted, window, history

<1>22. ASSUME NEW t \in Tasks, Revoke(t) PROVE TypeOK' /\ Wired'
  <2> DEFINE r == [call[t] EXCEPT !.at = "revoked"]
  <2>1. Fits(call[t])
    BY DEF Wired
  <2>2. r \in Calls
    BY <2>1 DEF Fits, Authenticating, Calls, Points
  <2>3. /\ r.op = call[t].op /\ r.at = "revoked" /\ r.conn = call[t].conn
        /\ r.target = call[t].target /\ r.then = call[t].then
    BY <2>1 DEF Fits, Authenticating, Calls
  <2>4. call[t].at = "revoke" /\ Become(t, r)
    BY <1>22 DEF Revoke, Goto
  <2>5. Wired' /\ call' \in [Tasks -> Calls]
    <3> HIDE DEF r
    <3>1. Fits(r)
      BY <2>1, <2>2, <2>3, <2>4 DEF Fits, Authenticating, None
    <3> QED
      BY <2>4, <3>1, BecomeFits DEF TypeOK
  <2> QED
    BY <1>22, <2>5 DEF Revoke, TypeOK, window, history

<1>23. ASSUME NEW t \in Tasks, Revoked(t) PROVE TypeOK' /\ Wired'
  <2>1. Fits(call[t])
    BY DEF Wired
  <2>2. /\ call[t].target \in Conns /\ call[t].conn \in Conns
        /\ "invalid" \in States
        /\ call[t].then \in {"idle", "prompt", "auth", "activate", "adopt", "granted", "denied",
                     "keep", "left", "erase"}
    BY <1>23, <2>1 DEF Revoked, Fits, States
  <2>3. GoesTo(call[t], call[t].then) /\ GoesTo(call[t], "idle")
    BY <1>23, <2>1, <2>2 DEF Revoked, GoesTo, MayBe, Plain, Points, Authenticating, Fits
  <2> QED
    BY <1>23, <2>2, <2>3, UpdateTypes DEF Revoked

<1>24. ASSUME NEW t \in Tasks, Erase(t) PROVE TypeOK' /\ Wired'
  <2>1. Fits(call[t])
    BY DEF Wired
  <2>2. GoesTo(call[t], "sweep") /\ call[t].then = None
    BY <1>24, <2>1 DEF Erase, GoesTo, MayBe, Plain, Points, Authenticating, Fits
  <2>3. Wired' /\ call' \in [Tasks -> Calls]
    BY <1>24, <2>2, GotoTypes DEF Erase
  <2>4. call[t].conn \in Conns
    BY <1>24, <2>1 DEF Erase, Fits
  <2> QED
    BY <1>24, <2>3, <2>4 DEF Erase, TypeOK, States, persisted, window, history

<1>25. ASSUME NEW t \in Tasks, Sweep(t) PROVE TypeOK' /\ Wired'
  <2>1. Fits(call[t])
    BY DEF Wired
  <2>2. call[t].conn \in Conns /\ active' \in Conns \cup {None}
    BY <1>25, <2>1 DEF Sweep, Fits, TypeOK
  <2> QED
    BY <1>25, <2>2, DeletedTypes DEF Sweep

<1>26. ASSUME NEW t \in Tasks, Gone(t) PROVE TypeOK' /\ Wired'
  <2>1. Fits(call[t])
    BY DEF Wired
  <2>2. call[t].conn \in Conns /\ active' \in Conns \cup {None}
    BY <1>26, <2>1 DEF Gone, Fits, TypeOK
  <2> QED
    BY <1>26, <2>2, DeletedTypes DEF Gone

<1>27. ASSUME NEW t \in Tasks, Unsave(t) PROVE TypeOK' /\ Wired'
  <2>1. Wired' /\ call' \in [Tasks -> Calls]
    BY <1>27, LeftTypes DEF Unsave
  <2> QED
    BY <1>27, <2>1 DEF Unsave, TypeOK, persisted, history

<1>28. ASSUME NEW t \in Tasks, Load(t) PROVE TypeOK' /\ Wired'
  <2>1. Fits(call[t]) /\ savedId \in Conns \cup {None}
    BY DEF Wired, TypeOK
  <2> DEFINE p == IF savedId = None THEN "adopt" ELSE "look"
             r == [call[t] EXCEPT !.at = p, !.conn = savedId]
  <2>2. call[t].then = None
    BY <1>28, <2>1 DEF Load, Fits
  <2>3. /\ [call[t] EXCEPT !.conn = savedId].conn = savedId
        /\ [call[t] EXCEPT !.conn = savedId].op = call[t].op
        /\ call[t].op # "get"
    BY <1>28, <2>1 DEF Fits, Authenticating, Calls, Load
  <2>4. MayBe([call[t] EXCEPT !.conn = savedId], p)
    BY <2>1, <2>3 DEF MayBe, Plain, Points, Authenticating
  <2>5. Fits(r)
    BY <2>1, <2>2, <2>4, GotoWithFits
  <2>6. Become(t, r)
    BY <1>28 DEF Load
  <2>7. Wired' /\ call' \in [Tasks -> Calls]
    <3> HIDE DEF r
    <3> QED
      BY <2>5, <2>6, BecomeFits DEF TypeOK
  <2> QED
    BY <1>28, <2>7 DEF Load, TypeOK, persisted, window, history

<1>29. ASSUME NEW t \in Tasks, Look(t) PROVE TypeOK' /\ Wired'
  <2>1. Fits(call[t])
    BY DEF Wired
  <2>2. call[t].conn \in Conns /\ call[t].then = None /\ call[t].op # "get"
    BY <1>29, <2>1 DEF Look, Fits
  <2>3. Wired' /\ call' \in [Tasks -> Calls]
    BY <1>29, <2>2, ValidateTypes DEF Look
  <2> QED
    BY <1>29, <2>3 DEF Look, TypeOK, window, history

<1>30. ASSUME NEW t \in Tasks, Adopt(t) PROVE TypeOK' /\ Wired'
  <2> DEFINE c == IF call[t].conn # None THEN call[t].conn ELSE follows
             r == [call[t] EXCEPT !.at = "list", !.conn = c]
  <2>1. Fits(call[t]) /\ call[t] \in Calls
    BY DEF Wired, TypeOK
  <2>2. c \in Conns \cup {None} /\ call[t].conn \in Conns \cup {None}
    BY <2>1 DEF TypeOK, Calls
  <2>3. call[t].then = None
    BY <1>30, <2>1 DEF Adopt, Fits
  <2>4. MayBe([call[t] EXCEPT !.conn = c], "list")
    BY DEF MayBe, Plain, Points, Authenticating
  <2>5. Fits(r)
    BY <2>1, <2>2, <2>3, <2>4, GotoWithFits
  <2>6. Become(t, IF call[t].op = "start" THEN r ELSE Idle)
    BY <1>30 DEF Adopt
  <2>7. Wired' /\ call' \in [Tasks -> Calls]
    <3> HIDE DEF r
    <3> QED
      BY <2>5, <2>6, IdleFits, BecomeFits DEF TypeOK
  <2> QED
    BY <1>30, <2>2, <2>7 DEF Adopt, TypeOK, persisted, history

<1>31. ASSUME NEW t \in Tasks, List(t) PROVE TypeOK' /\ Wired'
  <2> DEFINE r == [call[t] EXCEPT !.at = "extra", !.conn = None]
  <2>1. Fits(call[t])
    BY DEF Wired
  <2>2. call[t].then = None
    BY <1>31, <2>1 DEF List, Fits
  <2>3. MayBe([call[t] EXCEPT !.conn = None], "extra")
    BY DEF MayBe, Plain, Points, Authenticating
  <2>4. Fits(r)
    BY <2>1, <2>2, <2>3, GotoWithFits
  <2>5. Become(t, r)
    BY <1>31 DEF List
  <2>6. Wired' /\ call' \in [Tasks -> Calls]
    <3> HIDE DEF r
    <3> QED
      BY <2>4, <2>5, BecomeFits DEF TypeOK
  <2> QED
    BY <1>31, <2>6 DEF List, TypeOK, persisted, history

<1>32. ASSUME NEW t \in Tasks, NEW c \in Conns, DeleteExtra(t, c) PROVE TypeOK' /\ Wired'
  <2>1. /\ Wired' /\ call' \in [Tasks -> Calls]
        /\ current' \in Conns \cup {None}
    BY <1>32, DeleteTypes DEF DeleteExtra, Ops
  <2> QED
    BY <1>32, <2>1 DEF DeleteExtra, TypeOK, history

<1>33. ASSUME NEW t \in Tasks, NoExtra(t) PROVE TypeOK' /\ Wired'
  <2>1. Fits(call[t])
    BY DEF Wired
  <2>2. GoesTo(call[t], "idle")
    BY <1>33, <2>1 DEF NoExtra, GoesTo, MayBe, Plain, Points, Authenticating, Fits
  <2> QED
    BY <1>33, <2>2, ContinueTypes DEF NoExtra

<1>34. ASSUME NEW t \in Tasks, Start(t) PROVE TypeOK' /\ Wired'
  <2>1. hasRun' \in BOOLEAN
    BY <1>34 DEF Start, TypeOK
  <2> QED
    BY <1>34, <2>1, RestoreTypes DEF Start, Ops

<1>35. ASSUME NEW t \in Tasks, Reload(t) PROVE TypeOK' /\ Wired'
  <2>1. hasRun' \in BOOLEAN
    BY <1>35 DEF Reload, TypeOK
  <2> QED
    BY <1>35, <2>1, RestoreTypes DEF Reload, Ops

<1>36. ASSUME NEW t \in Tasks, GetToken(t) PROVE TypeOK' /\ Wired'
  <2> DEFINE r == [Idle EXCEPT !.op = "get", !.at = "ask", !.conn = Using]
  <2>1. Using \in Conns
    BY <1>36 DEF GetToken, Using, Known, TypeOK
  <2>2. Fits(r)
    BY <2>1 DEF Fits, Authenticating, Calls, Points, Ops, Idle, None
  <2>3. Become(t, r)
    BY <1>36 DEF GetToken, Begin
  <2>4. Wired' /\ call' \in [Tasks -> Calls]
    <3> HIDE DEF r
    <3> QED
      BY <2>2, <2>3, BecomeFits DEF TypeOK
  <2> QED
    BY <1>36, <2>4 DEF GetToken, TypeOK, persisted, window, history

<1>37. ASSUME NEW t \in Tasks, Check(t) PROVE TypeOK' /\ Wired'
  <2> DEFINE r == [Idle EXCEPT !.op = "check", !.at = "ask", !.conn = Using, !.then = "idle"]
  <2>1. Using \in Conns
    BY <1>37 DEF Check, Using, Known, TypeOK
  <2>2. Fits(r)
    BY <2>1 DEF Fits, Authenticating, Calls, Points, Ops, Idle, None
  <2>3. Become(t, r)
    BY <1>37 DEF Check, Begin
  <2>4. Wired' /\ call' \in [Tasks -> Calls]
    <3> HIDE DEF r
    <3> QED
      BY <2>2, <2>3, BecomeFits DEF TypeOK
  <2> QED
    BY <1>37, <2>4 DEF Check, TypeOK, persisted, window, history

<1>38. ASSUME NEW t \in Tasks, Reauthenticate(t) PROVE TypeOK' /\ Wired'
  <2>1. Using \in Conns
    BY <1>38 DEF Reauthenticate, Using, Known, TypeOK
  <2>2. MayBe([Idle EXCEPT !.op = "reauth", !.conn = Using], "auth")
    BY <2>1 DEF MayBe, Plain, Points, Authenticating, Idle
  <2>3. Wired' /\ call' \in [Tasks -> Calls]
    BY <1>38, <2>1, <2>2, BeginTypes DEF Reauthenticate, Ops
  <2> QED
    BY <1>38, <2>3 DEF Reauthenticate, TypeOK, persisted, window, history

<1>39. ASSUME NEW t \in Tasks, NEW c \in Conns, Connect(t, c) PROVE TypeOK' /\ Wired'
  <2> DEFINE p == IF store[c] = "invalid" THEN "auth" ELSE "keep"
  <2>1. MayBe([Idle EXCEPT !.op = "connect", !.conn = c], p)
    BY DEF MayBe, Plain, Points, Authenticating, Idle
  <2>2. Begin(t, "connect", c, p)
    BY <1>39 DEF Connect
  <2>3. Wired' /\ call' \in [Tasks -> Calls]
    <3> HIDE DEF p
    <3> QED
      BY <2>1, <2>2, BeginTypes DEF Ops
  <2> QED
    BY <1>39, <2>3 DEF Connect, TypeOK, persisted, window

<1>40. ASSUME NEW t \in Tasks, NEW c \in Conns, Create(t, c) PROVE TypeOK' /\ Wired'
  <2> DEFINE r == [Idle EXCEPT !.op = "create", !.at = "login", !.conn = c]
  <2>1. Fits(r)
    BY DEF Fits, Authenticating, Calls, Points, Ops, Idle, None
  <2>2. Become(t, r)
    BY <1>40 DEF Create, Begin
  <2>3. Wired' /\ call' \in [Tasks -> Calls]
    <3> HIDE DEF r
    <3> QED
      BY <2>1, <2>2, BecomeFits DEF TypeOK
  <2> QED
    BY <1>40, <2>3 DEF Create, TypeOK, persisted, window

<1>41. ASSUME NEW t \in Tasks, SignOut(t) PROVE TypeOK' /\ Wired'
  <2>1. Using \in Conns
    BY <1>41 DEF SignOut, Using, TypeOK
  <2>2. /\ Wired' /\ call' \in [Tasks -> Calls]
        /\ current' \in Conns \cup {None}
    BY <1>41, <2>1, DeleteTypes DEF SignOut, Ops
  <2> QED
    BY <1>41, <2>2 DEF SignOut, TypeOK, window

<1>42. ASSUME NEW c \in Conns, Expire(c) PROVE TypeOK' /\ Wired'
  BY <1>42 DEF Expire, TypeOK, Wired, window, history
<1>43. ASSUME Restart PROVE TypeOK' /\ Wired'
  <2>1. Wired' /\ call' \in [Tasks -> Calls]
    BY <1>43, IdleFits DEF Restart, Wired, Fits
  <2>2. home' \in Conns \cup {None} /\ restarts' \in 0..MaxRestarts
    BY <1>43, AuthAssumption DEF Restart, TypeOK
  <2> QED
    BY <1>43, <2>1, <2>2 DEF Restart, TypeOK, persisted
<1>44. ASSUME UNCHANGED vars PROVE TypeOK' /\ Wired'
  BY <1>44 DEF vars, TypeOK, Wired
<1> QED
  BY <1>1, <1>2, <1>3, <1>4, <1>5, <1>6, <1>7, <1>8, <1>9, <1>10, <1>11, <1>12, <1>13, <1>14,
     <1>15, <1>16, <1>17, <1>18, <1>19, <1>20, <1>21, <1>22, <1>23, <1>24, <1>25, <1>26, <1>27,
     <1>28, <1>29, <1>30, <1>31, <1>32, <1>33, <1>34, <1>35, <1>36, <1>37, <1>38, <1>39, <1>40,
     <1>41, <1>42, <1>43, <1>44 DEF Next, Step, Reply, Request

-----------------------------------------------------------------------------
(* The active connection *)

\* Nothing but the task t changes where it is, no profile goes and no other connection
\* becomes active.
LEMMA StaysActive ==
    ASSUME TypeOK, ActiveExists, NEW t \in Tasks, call[t].at # "sweep", NEW r, Become(t, r),
           active' \in {None, active},
           \A c \in Conns : store'[c] = None => store[c] = None
    PROVE  ActiveExists'
<1>1. \A u \in Tasks : call[u].at = "sweep" => call'[u].at = "sweep"
  BY DEF Become, TypeOK
<1>2. ASSUME active' # None, store'[active'] = None PROVE \E u \in Tasks : call'[u].at = "sweep"
  <2>1. active' = active /\ active \in Conns
    BY <1>2 DEF TypeOK
  <2>2. store[active] = None
    BY <1>2, <2>1
  <2> QED
    BY <1>1, <1>2, <2>1, <2>2 DEF ActiveExists
<1> QED
  BY <1>2 DEF ActiveExists

LEMMA UpdateStaysActive ==
    ASSUME TypeOK, ActiveExists, NEW t \in Tasks, call[t].at # "sweep", NEW c \in Conns,
           NEW s \in States, NEW k, NEW e, Update(t, c, s, k, e)
    PROVE  ActiveExists'
<1>1. active' = active
  BY DEF Update, window
<1>2. \A d \in Conns : store'[d] = None => store[d] = None
  BY NoneIsNone DEF Update, TypeOK
<1>3. \E r : Become(t, r)
  BY DEF Update
<1> QED
  BY <1>1, <1>2, <1>3, StaysActive

LEMMA ActiveStep ==
    ASSUME TypeOK, Wired, ActiveExists, [Next]_vars
    PROVE  ActiveExists'

<1>1. ASSUME NEW t \in Tasks, Answered(t) PROVE ActiveExists'
  <2>1. call[t].at # "sweep" /\ \E r : Become(t, r)
    BY <1>1 DEF Answered
  <2>2. active' = active /\ \A d \in Conns : store'[d] = None => store[d] = None
    BY <1>1 DEF Answered, persisted, window
  <2> QED
    BY <2>1, <2>2, StaysActive

<1>2. ASSUME NEW t \in Tasks, Unreachable(t) PROVE ActiveExists'
  <2>1. call[t].at # "sweep" /\ \E r : Become(t, r)
    BY <1>2 DEF Unreachable, Continue
  <2>2. active' = active /\ \A d \in Conns : store'[d] = None => store[d] = None
    BY <1>2 DEF Unreachable, Continue, persisted, window
  <2> QED
    BY <2>1, <2>2, StaysActive

<1>3. ASSUME NEW t \in Tasks, Judge(t) PROVE ActiveExists'
  <2>1. Fits(call[t])
    BY DEF Wired
  <2>2. call[t].at # "sweep" /\ call[t].conn \in Conns /\ call[t].saw \in States
    BY <1>3, <2>1 DEF Judge, Fits, States
  <2> QED
    BY <1>3, <2>2, UpdateStaysActive DEF Judge

<1>4. ASSUME NEW t \in Tasks, Mark(t) PROVE ActiveExists'
  <2>1. \A u \in Tasks : call[u].at = "sweep" => call'[u].at = "sweep"
    BY <1>4 DEF Mark
  <2> QED
    BY <1>4, <2>1 DEF Mark, persisted, window, ActiveExists

<1>5. ASSUME NEW t \in Tasks, Activate(t) PROVE ActiveExists'
  <2>1. CASE Known(call[t].conn)
    BY <1>5, <2>1, NoneIsNone DEF Activate, Known, ActiveExists
  <2>2. CASE ~Known(call[t].conn)
    <3>1. /\ call[t].at # "sweep" /\ active' = active /\ store' = store
          /\ \E r : Become(t, r)
      BY <1>5, <2>2 DEF Activate, Goto
    <3> QED
      BY <3>1, StaysActive
  <2> QED
    BY <2>1, <2>2

<1>6. ASSUME NEW t \in Tasks, Authenticate(t) PROVE ActiveExists'
  <2>1. call[t].at # "sweep" /\ \E r : Become(t, r)
    BY <1>6 DEF Authenticate
  <2>2. active' = active /\ \A d \in Conns : store'[d] = None => store[d] = None
    BY <1>6 DEF Authenticate, persisted, window
  <2> QED
    BY <2>1, <2>2, StaysActive

<1>7. ASSUME NEW t \in Tasks, LogIn(t) PROVE ActiveExists'
  <2>1. call[t].at # "sweep" /\ \E r : Become(t, r)
    BY <1>7 DEF LogIn
  <2>2. active' = active /\ \A d \in Conns : store'[d] = None => store[d] = None
    BY <1>7 DEF LogIn, persisted, window
  <2> QED
    BY <2>1, <2>2, StaysActive

<1>8. ASSUME NEW t \in Tasks, LogInFails(t) PROVE ActiveExists'
  <2>1. Fits(call[t])
    BY DEF Wired
  <2>2. call[t].at # "sweep" /\ call[t].conn \in Conns /\ call[t].saw \in States
    BY <1>8, <2>1 DEF LogInFails, Fits, States
  <2> QED
    BY <1>8, <2>2, UpdateStaysActive DEF LogInFails

<1>9. ASSUME NEW t \in Tasks, LogInUnreachable(t) PROVE ActiveExists'
  <2>1. call[t].at # "sweep" /\ \E r : Become(t, r)
    BY <1>9 DEF LogInUnreachable, Continue
  <2>2. active' = active /\ \A d \in Conns : store'[d] = None => store[d] = None
    BY <1>9 DEF LogInUnreachable, Continue, persisted, window
  <2> QED
    BY <2>1, <2>2, StaysActive

<1>10. ASSUME NEW t \in Tasks, Issued(t) PROVE ActiveExists'
  <2>1. Fits(call[t])
    BY DEF Wired
  <2>2. call[t].at # "sweep" /\ call[t].conn \in Conns /\ "valid" \in States
    BY <1>10, <2>1 DEF Issued, Fits, States
  <2> QED
    BY <1>10, <2>2, UpdateStaysActive DEF Issued

<1>11. ASSUME NEW t \in Tasks, Resolve(t) PROVE ActiveExists'
  <2>1. \A u \in Tasks : call[u].at = "sweep" => call'[u].at = "sweep"
    BY <1>11 DEF Resolve
  <2> QED
    BY <1>11, <2>1 DEF Resolve, persisted, ActiveExists

<1>12. ASSUME NEW t \in Tasks, GotToken(t) PROVE ActiveExists'
  <2>1. call[t].at # "sweep" /\ \E r : Become(t, r)
    BY <1>12 DEF GotToken, Continue
  <2>2. active' = active /\ \A d \in Conns : store'[d] = None => store[d] = None
    BY <1>12 DEF GotToken, Continue, persisted, window
  <2> QED
    BY <2>1, <2>2, StaysActive

<1>13. ASSUME NEW t \in Tasks, Invalid(t) PROVE ActiveExists'
  <2>1. Fits(call[t])
    BY DEF Wired
  <2>2. call[t].at # "sweep" /\ call[t].conn \in Conns /\ "invalid" \in States
    BY <1>13, <2>1 DEF Invalid, Fits, States
  <2> QED
    BY <1>13, <2>2, UpdateStaysActive DEF Invalid

<1>14. ASSUME NEW t \in Tasks, Orphaned(t) PROVE ActiveExists'
  <2>1. call[t].at # "sweep" /\ \E r : Become(t, r)
    BY <1>14 DEF Orphaned, Deleted
  <2>2. active' = active /\ \A d \in Conns : store'[d] = None => store[d] = None
    BY <1>14 DEF Orphaned, Deleted, persisted, window
  <2> QED
    BY <2>1, <2>2, StaysActive

<1>15. ASSUME NEW t \in Tasks, Accept(t) PROVE ActiveExists'
  <2>1. call[t].at # "sweep" /\ \E r : Become(t, r)
    BY <1>15 DEF Accept, Continue
  <2>2. active' = active /\ \A d \in Conns : store'[d] = None => store[d] = None
    BY <1>15 DEF Accept, Continue, persisted, window
  <2> QED
    BY <2>1, <2>2, StaysActive

<1>16. ASSUME NEW t \in Tasks, Decline(t) PROVE ActiveExists'
  <2>1. call[t].at # "sweep" /\ \E r : Become(t, r)
    BY <1>16 DEF Decline, Continue
  <2>2. active' = active /\ \A d \in Conns : store'[d] = None => store[d] = None
    BY <1>16 DEF Decline, Continue, persisted, window
  <2> QED
    BY <2>1, <2>2, StaysActive

<1>17. ASSUME NEW t \in Tasks, AddProfile(t) PROVE ActiveExists'
  <2>1. call[t].at # "sweep" /\ \E r : Become(t, r)
    BY <1>17 DEF AddProfile, Goto
  <2>2. active' = active /\ \A d \in Conns : store'[d] = None => store[d] = None
    BY <1>17, NoneIsNone DEF AddProfile, Goto, TypeOK, None, persisted, window
  <2> QED
    BY <2>1, <2>2, StaysActive

<1>18. ASSUME NEW t \in Tasks, Added(t) PROVE ActiveExists'
  <2>1. Fits(call[t])
    BY DEF Wired
  <2>2. call[t].at # "sweep" /\ call[t].conn \in Conns /\ "valid" \in States
    BY <1>18, <2>1 DEF Added, Fits, States
  <2> QED
    BY <1>18, <2>2, UpdateStaysActive DEF Added

<1>19. ASSUME NEW t \in Tasks, Keep(t) PROVE ActiveExists'
  <2>1. call[t].at # "sweep" /\ \E r : Become(t, r)
    BY <1>19 DEF Keep, Goto
  <2>2. active' = active /\ \A d \in Conns : store'[d] = None => store[d] = None
    BY <1>19 DEF Keep, Goto, persisted, window
  <2> QED
    BY <2>1, <2>2, StaysActive

<1>20. ASSUME NEW t \in Tasks, Kept(t) PROVE ActiveExists'
  <2>1. call[t].at # "sweep" /\ \E r : Become(t, r)
    BY <1>20 DEF Kept, Validate, Goto
  <2>2. active' = active /\ \A d \in Conns : store'[d] = None => store[d] = None
    BY <1>20 DEF Kept, Validate, Goto, persisted, window
  <2> QED
    BY <2>1, <2>2, StaysActive

<1>21. ASSUME NEW t \in Tasks, Leave(t) PROVE ActiveExists'
  <2>1. call[t].at # "sweep" /\ \E r : Become(t, r)
    BY <1>21 DEF Leave
  <2>2. active' = active /\ \A d \in Conns : store'[d] = None => store[d] = None
    BY <1>21 DEF Leave, persisted, window
  <2> QED
    BY <2>1, <2>2, StaysActive

<1>22. ASSUME NEW t \in Tasks, Revoke(t) PROVE ActiveExists'
  <2>1. call[t].at # "sweep" /\ \E r : Become(t, r)
    BY <1>22 DEF Revoke, Goto
  <2>2. active' = active /\ \A d \in Conns : store'[d] = None => store[d] = None
    BY <1>22 DEF Revoke, Goto, persisted, window
  <2> QED
    BY <2>1, <2>2, StaysActive

<1>23. ASSUME NEW t \in Tasks, Revoked(t) PROVE ActiveExists'
  <2>1. Fits(call[t])
    BY DEF Wired
  <2>2. call[t].at # "sweep" /\ call[t].target \in Conns /\ "invalid" \in States
    BY <1>23, <2>1 DEF Revoked, Fits, States
  <2> QED
    BY <1>23, <2>2, UpdateStaysActive DEF Revoked

<1>24. ASSUME NEW t \in Tasks, Erase(t) PROVE ActiveExists'
  <2>1. call'[t].at = "sweep"
    BY <1>24 DEF Erase, Goto, Become, TypeOK, Calls
  <2> QED
    BY <2>1 DEF ActiveExists

<1>25. ASSUME NEW t \in Tasks, Sweep(t) PROVE ActiveExists'
  <2>1. (active' = None \/ (active' = active /\ Known(active))) /\ store' = store
    BY <1>25 DEF Sweep, Deleted
  <2> QED
    BY <1>25, <2>1 DEF Sweep, Deleted, Known, ActiveExists

<1>26. ASSUME NEW t \in Tasks, Gone(t) PROVE ActiveExists'
  <2>1. call[t].at # "sweep" /\ \E r : Become(t, r)
    BY <1>26 DEF Gone, Deleted
  <2>2. active' = active /\ \A d \in Conns : store'[d] = None => store[d] = None
    BY <1>26 DEF Gone, Deleted, persisted, window
  <2> QED
    BY <2>1, <2>2, StaysActive

<1>27. ASSUME NEW t \in Tasks, Unsave(t) PROVE ActiveExists'
  <2>1. call[t].at # "sweep" /\ \E r : Become(t, r)
    BY <1>27 DEF Unsave
  <2>2. active' = active /\ \A d \in Conns : store'[d] = None => store[d] = None
    BY <1>27 DEF Unsave, persisted, window
  <2> QED
    BY <2>1, <2>2, StaysActive

<1>28. ASSUME NEW t \in Tasks, Load(t) PROVE ActiveExists'
  <2>1. call[t].at # "sweep" /\ \E r : Become(t, r)
    BY <1>28 DEF Load
  <2>2. active' = active /\ \A d \in Conns : store'[d] = None => store[d] = None
    BY <1>28 DEF Load, persisted, window
  <2> QED
    BY <2>1, <2>2, StaysActive

<1>29. ASSUME NEW t \in Tasks, Look(t) PROVE ActiveExists'
  <2>1. call[t].at # "sweep" /\ \E r : Become(t, r)
    BY <1>29 DEF Look, Validate
  <2>2. active' = active /\ \A d \in Conns : store'[d] = None => store[d] = None
    BY <1>29 DEF Look, Validate, persisted, window
  <2> QED
    BY <2>1, <2>2, StaysActive

<1>30. ASSUME NEW t \in Tasks, Adopt(t) PROVE ActiveExists'
  <2>1. call[t].at # "sweep" /\ \E r : Become(t, r)
    BY <1>30 DEF Adopt
  <2>2. active' = active /\ \A d \in Conns : store'[d] = None => store[d] = None
    BY <1>30 DEF Adopt, persisted, window
  <2> QED
    BY <2>1, <2>2, StaysActive

<1>31. ASSUME NEW t \in Tasks, List(t) PROVE ActiveExists'
  <2>1. call[t].at # "sweep" /\ \E r : Become(t, r)
    BY <1>31 DEF List
  <2>2. active' = active /\ \A d \in Conns : store'[d] = None => store[d] = None
    BY <1>31 DEF List, persisted, window
  <2> QED
    BY <2>1, <2>2, StaysActive

<1>32. ASSUME NEW t \in Tasks, NEW c \in Conns, DeleteExtra(t, c) PROVE ActiveExists'
  <2>1. call[t].at # "sweep" /\ \E r : Become(t, r)
    BY <1>32 DEF DeleteExtra, Delete
  <2>2. active' = active /\ \A d \in Conns : store'[d] = None => store[d] = None
    BY <1>32 DEF DeleteExtra, Delete, persisted, window
  <2> QED
    BY <2>1, <2>2, StaysActive

<1>33. ASSUME NEW t \in Tasks, NoExtra(t) PROVE ActiveExists'
  <2>1. call[t].at # "sweep" /\ \E r : Become(t, r)
    BY <1>33 DEF NoExtra, Continue
  <2>2. active' = active /\ \A d \in Conns : store'[d] = None => store[d] = None
    BY <1>33 DEF NoExtra, Continue, persisted, window
  <2> QED
    BY <2>1, <2>2, StaysActive

<1>34. ASSUME NEW t \in Tasks, Start(t) PROVE ActiveExists'
  <2>1. call[t].at # "sweep" /\ \E r : Become(t, r)
    BY <1>34 DEF Start, Restore, Idle
  <2>2. active' = active /\ \A d \in Conns : store'[d] = None => store[d] = None
    BY <1>34 DEF Start, Restore, persisted, window
  <2> QED
    BY <2>1, <2>2, StaysActive

<1>35. ASSUME NEW t \in Tasks, Reload(t) PROVE ActiveExists'
  <2>1. call[t].at # "sweep" /\ \E r : Become(t, r)
    BY <1>35 DEF Reload, Restore, Idle
  <2>2. active' = active /\ \A d \in Conns : store'[d] = None => store[d] = None
    BY <1>35 DEF Reload, Restore, persisted, window
  <2> QED
    BY <2>1, <2>2, StaysActive

<1>36. ASSUME NEW t \in Tasks, GetToken(t) PROVE ActiveExists'
  <2>1. call[t].at # "sweep" /\ \E r : Become(t, r)
    BY <1>36 DEF GetToken, Begin, Idle
  <2>2. active' = active /\ \A d \in Conns : store'[d] = None => store[d] = None
    BY <1>36 DEF GetToken, Begin, persisted, window
  <2> QED
    BY <2>1, <2>2, StaysActive

<1>37. ASSUME NEW t \in Tasks, Check(t) PROVE ActiveExists'
  <2>1. call[t].at # "sweep" /\ \E r : Become(t, r)
    BY <1>37 DEF Check, Idle
  <2>2. active' = active /\ \A d \in Conns : store'[d] = None => store[d] = None
    BY <1>37 DEF Check, persisted, window
  <2> QED
    BY <2>1, <2>2, StaysActive

<1>38. ASSUME NEW t \in Tasks, Reauthenticate(t) PROVE ActiveExists'
  <2>1. call[t].at # "sweep" /\ \E r : Become(t, r)
    BY <1>38 DEF Reauthenticate, Begin, Idle
  <2>2. active' = active /\ \A d \in Conns : store'[d] = None => store[d] = None
    BY <1>38 DEF Reauthenticate, Begin, persisted, window
  <2> QED
    BY <2>1, <2>2, StaysActive

<1>39. ASSUME NEW t \in Tasks, NEW c \in Conns, Connect(t, c) PROVE ActiveExists'
  <2>1. call[t].at # "sweep" /\ \E r : Become(t, r)
    BY <1>39 DEF Connect, Begin, Idle
  <2>2. active' = active /\ \A d \in Conns : store'[d] = None => store[d] = None
    BY <1>39 DEF Connect, Begin, persisted, window
  <2> QED
    BY <2>1, <2>2, StaysActive

<1>40. ASSUME NEW t \in Tasks, NEW c \in Conns, Create(t, c) PROVE ActiveExists'
  <2>1. call[t].at # "sweep" /\ \E r : Become(t, r)
    BY <1>40 DEF Create, Begin, Idle
  <2>2. active' = active /\ \A d \in Conns : store'[d] = None => store[d] = None
    BY <1>40 DEF Create, Begin, persisted, window
  <2> QED
    BY <2>1, <2>2, StaysActive

<1>41. ASSUME NEW t \in Tasks, SignOut(t) PROVE ActiveExists'
  <2>1. call[t].at # "sweep" /\ \E r : Become(t, r)
    BY <1>41 DEF SignOut, Delete, Idle
  <2>2. active' = active /\ \A d \in Conns : store'[d] = None => store[d] = None
    BY <1>41 DEF SignOut, Delete, persisted, window
  <2> QED
    BY <2>1, <2>2, StaysActive

<1>42. ASSUME NEW c \in Conns, Expire(c) PROVE ActiveExists'
  BY <1>42 DEF Expire, ActiveExists, window
<1>43. ASSUME Restart PROVE ActiveExists'
  BY <1>43 DEF Restart, ActiveExists
<1>44. ASSUME UNCHANGED vars PROVE ActiveExists'
  BY <1>44 DEF vars, ActiveExists
<1> QED
  BY <1>1, <1>2, <1>3, <1>4, <1>5, <1>6, <1>7, <1>8, <1>9, <1>10, <1>11, <1>12, <1>13, <1>14,
     <1>15, <1>16, <1>17, <1>18, <1>19, <1>20, <1>21, <1>22, <1>23, <1>24, <1>25, <1>26, <1>27,
     <1>28, <1>29, <1>30, <1>31, <1>32, <1>33, <1>34, <1>35, <1>36, <1>37, <1>38, <1>39, <1>40,
     <1>41, <1>42, <1>43, <1>44 DEF Next, Step, Reply, Request

-----------------------------------------------------------------------------
(* The saved connection *)

LEMMA IdleSpares == Spares(Idle)
BY DEF Spares, Spared, Idle, None

\* Nothing but the task t goes on.
LEMMA StaysKept ==
    ASSUME TypeOK, HomeKept, home # None, home' = home, savedId' = savedId,
           store'[home] # None, saved' \in {None, home}, home \notin extra',
           NEW t \in Tasks, NEW r, r.at # "idle" => Spares(r), Become(t, r)
    PROVE  HomeKept'
<1>1. ASSUME NEW u \in Tasks PROVE Spares(call'[u])
  <2>1. CASE u = t
    BY <2>1, IdleSpares DEF Become, TypeOK
  <2>2. CASE u # t
    BY <2>2 DEF Become, TypeOK, HomeKept
  <2> QED
    BY <2>1, <2>2
<1>2. \A u \in Tasks : Spares(call[u])'
  BY <1>1 DEF Spares, Spared
<1> QED
  BY <1>2 DEF HomeKept

LEMMA ResumeSpares ==
    ASSUME TypeOK, HomeKept, home # None, NEW t \in Tasks, NEW p, Spared(call[t].conn, p)
    PROVE  Spares(Resume(t, p))
<1> DEFINE r == Resume(t, p)
<1>1. call[t] \in Calls /\ Spares(call[t])
  BY DEF TypeOK, HomeKept
<1>2. r.op = call[t].op /\ r.at = p /\ r.conn = call[t].conn /\ r.then = None
  BY <1>1 DEF Resume, Calls
<1>3. Spares(r)
  <2> HIDE DEF r
  <2> QED
    BY <1>1, <1>2 DEF Spares, Spared, None
<1> QED
  BY <1>3

LEMMA GotoSpares ==
    ASSUME TypeOK, HomeKept, home # None, NEW t \in Tasks, NEW p, Spared(call[t].conn, p)
    PROVE  Spares([call[t] EXCEPT !.at = p])
<1> DEFINE r == [call[t] EXCEPT !.at = p]
<1>1. call[t] \in Calls /\ Spares(call[t])
  BY DEF TypeOK, HomeKept
<1>2. r.op = call[t].op /\ r.at = p /\ r.conn = call[t].conn /\ r.then = call[t].then
  BY <1>1 DEF Calls
<1>3. Spares(r)
  <2> HIDE DEF r
  <2> QED
    BY <1>1, <1>2 DEF Spares
<1> QED
  BY <1>3

LEMMA GotoKeeps ==
    ASSUME TypeOK, HomeKept, home # None, home' = home, savedId' = savedId,
           store'[home] # None, saved' \in {None, home}, home \notin extra',
           NEW t \in Tasks, NEW p, Spared(call[t].conn, p), Goto(t, p)
    PROVE  HomeKept'
BY GotoSpares, StaysKept DEF Goto

LEMMA ContinueKeeps ==
    ASSUME TypeOK, HomeKept, home # None, NEW t \in Tasks, NEW p, Spared(call[t].conn, p),
           Continue(t, p)
    PROVE  HomeKept'
<1>1. /\ home' = home /\ savedId' = savedId /\ store'[home] # None
      /\ saved' \in {None, home} /\ home \notin extra'
      /\ Become(t, Resume(t, p))
  BY DEF Continue, persisted, window, history, HomeKept
<1>2. Spares(Resume(t, p))
  BY ResumeSpares
<1> QED
  BY <1>1, <1>2, StaysKept

LEMMA UpdateKeeps ==
    ASSUME TypeOK, HomeKept, home # None, NEW t \in Tasks, NEW c \in Conns, NEW s \in States,
           NEW k, NEW e, Spared(call[t].conn, k), Spared(call[t].conn, e),
           Update(t, c, s, k, e)
    PROVE  HomeKept'
<1>1. home' = home /\ savedId' = savedId /\ saved' \in {None, home} /\ home \notin extra'
  BY DEF Update, window, history, HomeKept
<1>2. store'[home] # None
  BY NoneIsNone DEF Update, HomeKept, TypeOK
<1>3. CASE ~Known(c)
  BY <1>1, <1>2, <1>3, ResumeSpares, StaysKept DEF Update
<1>4. CASE Known(c) /\ store[c] = s
  BY <1>1, <1>2, <1>4, ResumeSpares, StaysKept DEF Update
<1>5. CASE Known(c) /\ store[c] # s
  <2> DEFINE r == [call[t] EXCEPT !.at = "mark", !.target = c, !.then = k, !.saw = s]
  <2>1. call[t] \in Calls /\ Spares(call[t])
    BY DEF TypeOK, HomeKept
  <2>2. r.op = call[t].op /\ r.at = "mark" /\ r.conn = call[t].conn /\ r.then = k
    BY <2>1 DEF Calls
  <2>3. Become(t, r)
    BY <1>5 DEF Update
  <2>4. Spares(r)
    <3> HIDE DEF r
    <3> QED
      BY <2>1, <2>2 DEF Spares, Spared
  <2> HIDE DEF r
  <2> QED
    BY <1>1, <1>2, <2>3, <2>4, StaysKept
<1> QED
  BY <1>3, <1>4, <1>5

\* A deletion ends, and it was not of that connection.
LEMMA DeletedKeeps ==
    ASSUME TypeOK, HomeKept, home # None, NEW t \in Tasks, call[t].conn \in Conns \ {home},
           Deleted(t)
    PROVE  HomeKept'
<1>1. call[t] \in Calls /\ Spares(call[t])
  BY DEF TypeOK, HomeKept
<1>2. ~(call[t].op = "signout" \/ saved = call[t].conn)
  BY <1>1, NoneIsNone DEF Spares, HomeKept, None
<1>3. savedId' = savedId /\ Become(t, [Resume(t, After(t)) EXCEPT !.conn = None])
  BY <1>2 DEF Deleted
<1>4. /\ home' = home /\ store'[home] # None /\ saved' \in {None, home} /\ home \notin extra'
  BY DEF Deleted, HomeKept, history
<1> DEFINE r == [Resume(t, After(t)) EXCEPT !.conn = None]
<1>5. r.op = call[t].op /\ r.at = After(t) /\ r.then = None
  BY <1>1 DEF Resume, Calls
<1>6. Spares(r)
  <2>1. After(t) \in {"extra", "idle"}
    BY DEF After
  <2> HIDE DEF r
  <2> QED
    BY <1>1, <1>5, <2>1 DEF Spares, Spared, None
<1> HIDE DEF r
<1> QED
  BY <1>3, <1>4, <1>6, StaysKept DEF r

LEMMA ValidateKeeps ==
    ASSUME TypeOK, HomeKept, home # None, home' = home, savedId' = savedId,
           store'[home] # None, saved' \in {None, home}, home \notin extra',
           NEW t \in Tasks, NEW c, NEW p \in {"activate", "adopt"}, p = "adopt" => c = home,
           Validate(t, c, p)
    PROVE  HomeKept'
<1> DEFINE r == [call[t] EXCEPT !.conn = c, !.at = IF Known(c) THEN "ask" ELSE p,
                                !.then = IF Known(c) THEN p ELSE None]
<1>1. call[t] \in Calls /\ Spares(call[t])
  BY DEF TypeOK, HomeKept
<1>2. /\ r.op = call[t].op /\ r.conn = c
      /\ r.at = (IF Known(c) THEN "ask" ELSE p)
      /\ r.then = (IF Known(c) THEN p ELSE None)
  BY <1>1 DEF Calls
<1>3. Become(t, r)
  BY DEF Validate
<1>4. Spares(r)
  <2> HIDE DEF r
  <2> QED
    BY <1>1, <1>2 DEF Spares, Spared, None
<1> HIDE DEF r
<1> QED
  BY <1>3, <1>4, StaysKept

LEMMA RestoreKeeps ==
    ASSUME TypeOK, HomeKept, home # None, NEW t \in Tasks, NEW o \in {"start", "reload"},
           Restore(t, o)
    PROVE  HomeKept'
<1> DEFINE p == IF current = None THEN "load" ELSE IF Known(current) THEN "ask" ELSE "activate"
           r == [Idle EXCEPT !.op = o, !.at = p, !.conn = current,
                             !.then = IF p = "ask" THEN "activate" ELSE None]
<1>1. /\ home' = home /\ savedId' = savedId /\ store'[home] # None
      /\ saved' \in {None, home} /\ home \notin extra'
  BY DEF Restore, persisted, history, HomeKept
<1>2. r.op = o /\ r.at = p /\ r.then = (IF p = "ask" THEN "activate" ELSE None)
  BY DEF Idle
<1>3. p \in {"load", "ask", "activate"}
  OBVIOUS
<1>4. Become(t, r)
  BY DEF Restore
<1>5. Spares(r)
  <2> HIDE DEF r, p
  <2> QED
    BY <1>2, <1>3 DEF Spares, Spared, None
<1> HIDE DEF r
<1> QED
  BY <1>1, <1>4, <1>5, StaysKept

LEMMA BeginKeeps ==
    ASSUME TypeOK, HomeKept, home # None, NEW t \in Tasks, NEW r, Become(t, r),
           r.op \in {"get", "check", "reauth"}, r.at \in {"ask", "auth"},
           r.then \in {None, "idle"}, UNCHANGED <<persisted, window, history>>
    PROVE  HomeKept'
<1>1. /\ home' = home /\ savedId' = savedId /\ store'[home] # None
      /\ saved' \in {None, home} /\ home \notin extra'
  BY DEF persisted, window, history, HomeKept
<1>2. Spares(r)
  BY DEF Spares, Spared, None
<1> QED
  BY <1>1, <1>2, StaysKept

LEMMA KeepStep ==
    ASSUME TypeOK, Wired, HomeKept, [Next]_vars
    PROVE  HomeKept'

<1>1. ASSUME NEW t \in Tasks, Answered(t) PROVE HomeKept'
  <2> SUFFICES ASSUME home # None PROVE HomeKept'
    BY <1>1 DEF Answered, HomeKept, history
  <2>1. Fits(call[t]) /\ call[t] \in Calls /\ Spares(call[t])
    BY DEF Wired, TypeOK, HomeKept
  <2> DEFINE r == [call[t] EXCEPT !.at = "judge",
                                !.saw = IF token[call[t].conn] THEN "valid" ELSE "invalid"]
  <2>2. r.op = call[t].op /\ r.at = "judge" /\ r.conn = call[t].conn /\ r.then = call[t].then
    BY <2>1 DEF Calls
  <2>3. Become(t, r)
    BY <1>1 DEF Answered
  <2>4. Spares(r)
    <3> HIDE DEF r
    <3> QED
      BY <2>1, <2>2 DEF Spares, Spared
  <2>5. /\ home' = home /\ savedId' = savedId /\ store'[home] # None
        /\ saved' \in {None, home} /\ home \notin extra'
    BY <1>1 DEF Answered, HomeKept, persisted, window, history
  <2> HIDE DEF r
  <2> QED
    BY <2>3, <2>4, <2>5, StaysKept

<1>2. ASSUME NEW t \in Tasks, Unreachable(t) PROVE HomeKept'
  <2> SUFFICES ASSUME home # None PROVE HomeKept'
    BY <1>2 DEF Unreachable, Continue, HomeKept, history
  <2>1. Fits(call[t]) /\ call[t] \in Calls /\ Spares(call[t])
    BY DEF Wired, TypeOK, HomeKept
  <2>2. Spared(call[t].conn, Caught(t))
    BY <1>2, <2>1 DEF Unreachable, Spares, Spared, Caught, Restoring
  <2> QED
    BY <1>2, <2>2, ContinueKeeps DEF Unreachable

<1>3. ASSUME NEW t \in Tasks, Judge(t) PROVE HomeKept'
  <2> SUFFICES ASSUME home # None PROVE HomeKept'
    BY <1>3 DEF Judge, Update, HomeKept, history
  <2>1. Fits(call[t]) /\ call[t] \in Calls /\ Spares(call[t])
    BY DEF Wired, TypeOK, HomeKept
  <2>2. call[t].conn \in Conns /\ call[t].saw \in States
    BY <1>3, <2>1 DEF Judge, Fits, States
  <2>3. Spared(call[t].conn, call[t].then) /\ Spared(call[t].conn, Caught(t))
    BY <1>3, <2>1 DEF Judge, Spares, Spared, Caught, Restoring
  <2> QED
    BY <1>3, <2>2, <2>3, UpdateKeeps DEF Judge

<1>4. ASSUME NEW t \in Tasks, Mark(t) PROVE HomeKept'
  <2> SUFFICES ASSUME home # None PROVE HomeKept'
    BY <1>4 DEF Mark, HomeKept, history
  <2>1. Fits(call[t]) /\ call[t] \in Calls /\ Spares(call[t])
    BY DEF Wired, TypeOK, HomeKept
  <2>2. Spares(Resume(t, call[t].then))
    BY <2>1, ResumeSpares DEF Spares
  <2>3. \A u \in Tasks : call'[u] \in {Idle, call[u], Resume(t, call[t].then)}
    BY <1>4 DEF Mark
  <2>4. \A u \in Tasks : Spares(call'[u])
    BY <2>2, <2>3, IdleSpares DEF HomeKept
  <2>5. \A u \in Tasks : Spares(call[u])'
    BY <1>4, <2>4 DEF Mark, history, Spares, Spared
  <2> QED
    BY <1>4, <2>5 DEF Mark, HomeKept, persisted, window, history

<1>5. ASSUME NEW t \in Tasks, Activate(t) PROVE HomeKept'
  <2> SUFFICES ASSUME home # None PROVE HomeKept'
    BY <1>5 DEF Activate, HomeKept, history
  <2>1. Fits(call[t]) /\ call[t] \in Calls /\ Spares(call[t])
    BY DEF Wired, TypeOK, HomeKept
  <2>2. Spared(call[t].conn, IF Restoring(t) THEN "load" ELSE "idle")
    BY <1>5, <2>1 DEF Activate, Spares, Spared, Restoring
  <2>3. /\ home' = home /\ savedId' = savedId /\ store'[home] # None
        /\ saved' \in {None, home} /\ home \notin extra'
    BY <1>5, <2>1, NoneIsNone DEF Activate, HomeKept, TypeOK, None, Fits, Spares, Spared,
       persisted, window, history
  <2> QED
    BY <1>5, <2>2, <2>3, GotoKeeps DEF Activate

<1>6. ASSUME NEW t \in Tasks, Authenticate(t) PROVE HomeKept'
  <2> SUFFICES ASSUME home # None PROVE HomeKept'
    BY <1>6 DEF Authenticate, HomeKept, history
  <2>1. Fits(call[t]) /\ call[t] \in Calls /\ Spares(call[t])
    BY DEF Wired, TypeOK, HomeKept
  <2> DEFINE s == IF call[t].op = "get"
                  THEN (IF Known(call[t].conn) THEN store[call[t].conn] ELSE "unauthenticated")
                  ELSE "invalid"
             q == [call[t] EXCEPT !.at = "joined"]
             r == [call[t] EXCEPT !.at = "login", !.saw = s]
  <2>2. Spares(q)
    BY GotoSpares DEF Spared
  <2>3. r.op = call[t].op /\ r.at = "login" /\ r.conn = call[t].conn /\ r.then = call[t].then
    BY <2>1 DEF Calls
  <2>4. Spares(r)
    <3> HIDE DEF r
    <3> QED
      BY <2>1, <2>3 DEF Spares, Spared
  <2>5. Become(t, IF call[t].conn \in busy THEN q ELSE r)
    BY <1>6 DEF Authenticate
  <2>6. /\ home' = home /\ savedId' = savedId /\ store'[home] # None
        /\ saved' \in {None, home} /\ home \notin extra'
    BY <1>6 DEF Authenticate, HomeKept, persisted, history
  <2> HIDE DEF q, r
  <2> QED
    BY <2>2, <2>4, <2>5, <2>6, StaysKept

<1>7. ASSUME NEW t \in Tasks, LogIn(t) PROVE HomeKept'
  <2> SUFFICES ASSUME home # None PROVE HomeKept'
    BY <1>7 DEF LogIn, HomeKept, history
  <2>1. Fits(call[t]) /\ call[t] \in Calls /\ Spares(call[t])
    BY DEF Wired, TypeOK, HomeKept
  <2>2. Spares(Resume(t, "issued"))
    BY ResumeSpares DEF Spared
  <2>3. /\ home' = home /\ savedId' = savedId /\ store'[home] # None
        /\ saved' \in {None, home} /\ home \notin extra'
    BY <1>7 DEF LogIn, HomeKept, window, history
  <2> QED
    BY <1>7, <2>2, <2>3, StaysKept DEF LogIn

<1>8. ASSUME NEW t \in Tasks, LogInFails(t) PROVE HomeKept'
  <2> SUFFICES ASSUME home # None PROVE HomeKept'
    BY <1>8 DEF LogInFails, Update, HomeKept, history
  <2>1. Fits(call[t]) /\ call[t] \in Calls /\ Spares(call[t])
    BY DEF Wired, TypeOK, HomeKept
  <2>2. call[t].conn \in Conns /\ call[t].saw \in States
    BY <1>8, <2>1 DEF LogInFails, Fits, States
  <2>3. Spared(call[t].conn, "denied") /\ Spared(call[t].conn, "denied")
    BY <1>8, <2>1 DEF LogInFails, Spares, Spared
  <2> QED
    BY <1>8, <2>2, <2>3, UpdateKeeps DEF LogInFails

<1>9. ASSUME NEW t \in Tasks, LogInUnreachable(t) PROVE HomeKept'
  <2> SUFFICES ASSUME home # None PROVE HomeKept'
    BY <1>9 DEF LogInUnreachable, Continue, HomeKept, history
  <2>1. Fits(call[t]) /\ call[t] \in Calls /\ Spares(call[t])
    BY DEF Wired, TypeOK, HomeKept
  <2>2. Spared(call[t].conn, IF call[t].op = "create" THEN "idle" ELSE "denied")
    BY <1>9, <2>1 DEF LogInUnreachable, Spares, Spared
  <2> QED
    BY <1>9, <2>2, ContinueKeeps DEF LogInUnreachable

<1>10. ASSUME NEW t \in Tasks, Issued(t) PROVE HomeKept'
  <2> SUFFICES ASSUME home # None PROVE HomeKept'
    BY <1>10 DEF Issued, Update, HomeKept, history
  <2>1. Fits(call[t]) /\ call[t] \in Calls /\ Spares(call[t])
    BY DEF Wired, TypeOK, HomeKept
  <2>2. call[t].conn \in Conns /\ "valid" \in States
    BY <1>10, <2>1 DEF Issued, Fits, States
  <2>3. Spared(call[t].conn, "granted") /\ Spared(call[t].conn, "denied")
    BY <1>10, <2>1 DEF Issued, Spares, Spared
  <2> QED
    BY <1>10, <2>2, <2>3, UpdateKeeps DEF Issued

<1>11. ASSUME NEW t \in Tasks, Resolve(t) PROVE HomeKept'
  <2> SUFFICES ASSUME home # None PROVE HomeKept'
    BY <1>11 DEF Resolve, HomeKept, history
  <2>1. \A u \in Tasks : call'[u] \in {Idle, call[u]}
    BY <1>11 DEF Resolve, Authenticated, HomeKept, Spares, None
  <2>2. \A u \in Tasks : Spares(call'[u])
    BY <2>1, IdleSpares DEF HomeKept
  <2>3. \A u \in Tasks : Spares(call[u])'
    BY <1>11, <2>2 DEF Resolve, history, Spares, Spared
  <2> QED
    BY <1>11, <2>3 DEF Resolve, HomeKept, persisted, history

<1>12. ASSUME NEW t \in Tasks, GotToken(t) PROVE HomeKept'
  <2> SUFFICES ASSUME home # None PROVE HomeKept'
    BY <1>12 DEF GotToken, Continue, HomeKept, history
  <2>1. Fits(call[t]) /\ call[t] \in Calls /\ Spares(call[t])
    BY DEF Wired, TypeOK, HomeKept
  <2>2. Spared(call[t].conn, "idle")
    BY <1>12, <2>1 DEF GotToken, Spares, Spared
  <2> QED
    BY <1>12, <2>2, ContinueKeeps DEF GotToken

<1>13. ASSUME NEW t \in Tasks, Invalid(t) PROVE HomeKept'
  <2> SUFFICES ASSUME home # None PROVE HomeKept'
    BY <1>13 DEF Invalid, Update, HomeKept, history
  <2>1. Fits(call[t]) /\ call[t] \in Calls /\ Spares(call[t])
    BY DEF Wired, TypeOK, HomeKept
  <2> DEFINE k == CASE store[call[t].conn] = "valid" -> "prompt"
                    [] store[call[t].conn] = "unauthenticated" -> "auth"
                    [] OTHER -> "idle"
  <2>2. call[t].conn \in Conns /\ "invalid" \in States
    BY <1>13, <2>1 DEF Invalid, Fits, States
  <2>3. k \in {"prompt", "auth", "idle"}
    OBVIOUS
  <2>4. Update(t, call[t].conn, "invalid", k, "idle")
    BY <1>13 DEF Invalid
  <2> HIDE DEF k
  <2>5. Spared(call[t].conn, k) /\ Spared(call[t].conn, "idle")
    BY <2>3 DEF Spared
  <2> QED
    BY <2>2, <2>4, <2>5, UpdateKeeps

<1>14. ASSUME NEW t \in Tasks, Orphaned(t) PROVE HomeKept'
  <2> SUFFICES ASSUME home # None PROVE HomeKept'
    BY <1>14 DEF Orphaned, Deleted, HomeKept, history
  <2>1. Fits(call[t]) /\ call[t] \in Calls /\ Spares(call[t])
    BY DEF Wired, TypeOK, HomeKept
  <2>2. call[t].conn \in Conns \ {home}
    BY <1>14, <2>1 DEF Orphaned, Fits, Known, HomeKept
  <2> QED
    BY <1>14, <2>2, DeletedKeeps DEF Orphaned

<1>15. ASSUME NEW t \in Tasks, Accept(t) PROVE HomeKept'
  <2> SUFFICES ASSUME home # None PROVE HomeKept'
    BY <1>15 DEF Accept, Continue, HomeKept, history
  <2>1. Fits(call[t]) /\ call[t] \in Calls /\ Spares(call[t])
    BY DEF Wired, TypeOK, HomeKept
  <2>2. Spared(call[t].conn, "auth")
    BY <1>15, <2>1 DEF Accept, Spares, Spared
  <2> QED
    BY <1>15, <2>2, ContinueKeeps DEF Accept

<1>16. ASSUME NEW t \in Tasks, Decline(t) PROVE HomeKept'
  <2> SUFFICES ASSUME home # None PROVE HomeKept'
    BY <1>16 DEF Decline, Continue, HomeKept, history
  <2>1. Fits(call[t]) /\ call[t] \in Calls /\ Spares(call[t])
    BY DEF Wired, TypeOK, HomeKept
  <2>2. Spared(call[t].conn, "idle")
    BY <1>16, <2>1 DEF Decline, Spares, Spared
  <2> QED
    BY <1>16, <2>2, ContinueKeeps DEF Decline

<1>17. ASSUME NEW t \in Tasks, AddProfile(t) PROVE HomeKept'
  <2> SUFFICES ASSUME home # None PROVE HomeKept'
    BY <1>17 DEF AddProfile, Goto, HomeKept, history
  <2>1. Fits(call[t]) /\ call[t] \in Calls /\ Spares(call[t])
    BY DEF Wired, TypeOK, HomeKept
  <2>2. Spared(call[t].conn, "added")
    BY <1>17, <2>1 DEF AddProfile, Spares, Spared
  <2>3. /\ home' = home /\ savedId' = savedId /\ store'[home] # None
        /\ saved' \in {None, home} /\ home \notin extra'
    BY <1>17, <2>1, NoneIsNone DEF AddProfile, HomeKept, TypeOK, None, Fits, Spares, Spared,
       persisted, window, history
  <2> QED
    BY <1>17, <2>2, <2>3, GotoKeeps DEF AddProfile

<1>18. ASSUME NEW t \in Tasks, Added(t) PROVE HomeKept'
  <2> SUFFICES ASSUME home # None PROVE HomeKept'
    BY <1>18 DEF Added, Update, HomeKept, history
  <2>1. Fits(call[t]) /\ call[t] \in Calls /\ Spares(call[t])
    BY DEF Wired, TypeOK, HomeKept
  <2>2. call[t].conn \in Conns /\ "valid" \in States
    BY <1>18, <2>1 DEF Added, Fits, States
  <2>3. Spared(call[t].conn, "keep") /\ Spared(call[t].conn, "idle")
    BY <1>18, <2>1 DEF Added, Spares, Spared
  <2> QED
    BY <1>18, <2>2, <2>3, UpdateKeeps DEF Added

<1>19. ASSUME NEW t \in Tasks, Keep(t) PROVE HomeKept'
  <2> SUFFICES ASSUME home # None PROVE HomeKept'
    BY <1>19 DEF Keep, Goto, HomeKept, history
  <2>1. Fits(call[t]) /\ call[t] \in Calls /\ Spares(call[t])
    BY DEF Wired, TypeOK, HomeKept
  <2> QED
    BY <1>19, <2>1 DEF Keep, Fits, Spares, None

<1>20. ASSUME NEW t \in Tasks, Kept(t) PROVE HomeKept'
  <2> SUFFICES ASSUME home # None PROVE HomeKept'
    BY <1>20 DEF Kept, Validate, Goto, HomeKept, history
  <2>1. Fits(call[t]) /\ call[t] \in Calls /\ Spares(call[t])
    BY DEF Wired, TypeOK, HomeKept
  <2> QED
    BY <1>20, <2>1 DEF Kept, Fits, Spares, None

<1>21. ASSUME NEW t \in Tasks, Leave(t) PROVE HomeKept'
  <2> SUFFICES ASSUME home # None PROVE HomeKept'
    BY <1>21 DEF Leave, HomeKept, history
  <2>1. Fits(call[t]) /\ call[t] \in Calls /\ Spares(call[t])
    BY DEF Wired, TypeOK, HomeKept
  <2> DEFINE r == [call[t] EXCEPT !.at = "revoke", !.target = active, !.then = "left"]
  <2>2. r.op = call[t].op /\ r.at = "revoke" /\ r.conn = call[t].conn /\ r.then = "left"
    BY <2>1 DEF Calls
  <2>3. call[t].at = "leave" /\ Become(t, IF Known(active) THEN r ELSE Idle)
    BY <1>21 DEF Leave
  <2>4. Spares(r)
    <3> HIDE DEF r
    <3> QED
      BY <2>1, <2>2, <2>3 DEF Spares, Spared
  <2>5. /\ home' = home /\ savedId' = savedId /\ store'[home] # None
        /\ saved' \in {None, home} /\ home \notin extra'
    BY <1>21 DEF Leave, HomeKept, persisted, window, history
  <2> HIDE DEF r
  <2> QED
    BY <2>3, <2>4, <2>5, IdleSpares, StaysKept

<1>22. ASSUME NEW t \in Tasks, Revoke(t) PROVE HomeKept'
  <2> SUFFICES ASSUME home # None PROVE HomeKept'
    BY <1>22 DEF Revoke, Goto, HomeKept, history
  <2>1. Fits(call[t]) /\ call[t] \in Calls /\ Spares(call[t])
    BY DEF Wired, TypeOK, HomeKept
  <2>2. Spared(call[t].conn, "revoked")
    BY <1>22, <2>1 DEF Revoke, Spares, Spared
  <2>3. /\ home' = home /\ savedId' = savedId /\ store'[home] # None
        /\ saved' \in {None, home} /\ home \notin extra'
    BY <1>22, <2>1, NoneIsNone DEF Revoke, HomeKept, TypeOK, None, Fits, Spares, Spared,
       persisted, window, history
  <2> QED
    BY <1>22, <2>2, <2>3, GotoKeeps DEF Revoke

<1>23. ASSUME NEW t \in Tasks, Revoked(t) PROVE HomeKept'
  <2> SUFFICES ASSUME home # None PROVE HomeKept'
    BY <1>23 DEF Revoked, Update, HomeKept, history
  <2>1. Fits(call[t]) /\ call[t] \in Calls /\ Spares(call[t])
    BY DEF Wired, TypeOK, HomeKept
  <2>2. call[t].target \in Conns /\ "invalid" \in States
    BY <1>23, <2>1 DEF Revoked, Fits, States
  <2>3. Spared(call[t].conn, call[t].then) /\ Spared(call[t].conn, "idle")
    BY <1>23, <2>1 DEF Revoked, Spares, Spared
  <2> QED
    BY <1>23, <2>2, <2>3, UpdateKeeps DEF Revoked

<1>24. ASSUME NEW t \in Tasks, Erase(t) PROVE HomeKept'
  <2> SUFFICES ASSUME home # None PROVE HomeKept'
    BY <1>24 DEF Erase, HomeKept, history
  <2>1. Fits(call[t]) /\ call[t] \in Calls /\ Spares(call[t])
    BY DEF Wired, TypeOK, HomeKept
  <2>2. Spared(call[t].conn, "sweep")
    BY <1>24, <2>1 DEF Erase, Spares, Spared
  <2>3. /\ home' = home /\ savedId' = savedId /\ store'[home] # None
        /\ saved' \in {None, home} /\ home \notin extra'
    BY <1>24, <2>1, NoneIsNone DEF Erase, HomeKept, TypeOK, None, Fits, Spares, Spared,
       persisted, window, history
  <2> QED
    BY <1>24, <2>2, <2>3, GotoKeeps DEF Erase

<1>25. ASSUME NEW t \in Tasks, Sweep(t) PROVE HomeKept'
  <2> SUFFICES ASSUME home # None PROVE HomeKept'
    BY <1>25 DEF Sweep, Deleted, HomeKept, history
  <2>1. Fits(call[t]) /\ call[t] \in Calls /\ Spares(call[t])
    BY DEF Wired, TypeOK, HomeKept
  <2>2. call[t].conn \in Conns \ {home}
    BY <1>25, <2>1 DEF Sweep, Fits, Spares, Spared
  <2> QED
    BY <1>25, <2>2, DeletedKeeps DEF Sweep

<1>26. ASSUME NEW t \in Tasks, Gone(t) PROVE HomeKept'
  <2> SUFFICES ASSUME home # None PROVE HomeKept'
    BY <1>26 DEF Gone, Deleted, HomeKept, history
  <2>1. Fits(call[t]) /\ call[t] \in Calls /\ Spares(call[t])
    BY DEF Wired, TypeOK, HomeKept
  <2>2. call[t].conn \in Conns \ {home}
    BY <1>26, <2>1 DEF Gone, Fits, Spares, Spared
  <2> QED
    BY <1>26, <2>2, DeletedKeeps DEF Gone

<1>27. ASSUME NEW t \in Tasks, Unsave(t) PROVE HomeKept'
  <2> SUFFICES ASSUME home # None PROVE HomeKept'
    BY <1>27 DEF Unsave, HomeKept, history
  <2>1. Fits(call[t]) /\ call[t] \in Calls /\ Spares(call[t])
    BY DEF Wired, TypeOK, HomeKept
  <2> DEFINE r == [Resume(t, After(t)) EXCEPT !.conn = None]
  <2>2. r.op = call[t].op /\ r.at = After(t) /\ r.then = None
    BY <2>1 DEF Resume, Calls
  <2>3. Spares(r)
    <3>1. After(t) \in {"extra", "idle"}
      BY DEF After
    <3> HIDE DEF r
    <3> QED
      BY <2>1, <2>2, <3>1 DEF Spares, Spared, None
  <2>4. /\ home' = home /\ savedId' = savedId /\ store'[home] # None
        /\ saved' \in {None, home} /\ home \notin extra'
    BY <1>27 DEF Unsave, HomeKept, persisted, history
  <2>5. Become(t, r)
    BY <1>27 DEF Unsave
  <2> HIDE DEF r
  <2> QED
    BY <2>3, <2>4, <2>5, StaysKept

<1>28. ASSUME NEW t \in Tasks, Load(t) PROVE HomeKept'
  <2> SUFFICES ASSUME home # None PROVE HomeKept'
    BY <1>28 DEF Load, HomeKept, history
  <2>1. Fits(call[t]) /\ call[t] \in Calls /\ Spares(call[t])
    BY DEF Wired, TypeOK, HomeKept
  <2> DEFINE r == [call[t] EXCEPT !.at = IF savedId = None THEN "adopt" ELSE "look",
                                !.conn = savedId]
  <2>2. savedId = home
    BY DEF HomeKept
  <2>3. r.op = call[t].op /\ r.at = "look" /\ r.conn = home /\ r.then = None
    BY <1>28, <2>1, <2>2 DEF Calls, Load, Fits
  <2>4. Become(t, r)
    BY <1>28 DEF Load
  <2>5. Spares(r)
    <3> HIDE DEF r
    <3> QED
      BY <2>1, <2>3 DEF Spares, Spared, None
  <2>6. /\ home' = home /\ savedId' = savedId /\ store'[home] # None
        /\ saved' \in {None, home} /\ home \notin extra'
    BY <1>28 DEF Load, HomeKept, persisted, window, history
  <2> HIDE DEF r
  <2> QED
    BY <2>4, <2>5, <2>6, StaysKept

<1>29. ASSUME NEW t \in Tasks, Look(t) PROVE HomeKept'
  <2> SUFFICES ASSUME home # None PROVE HomeKept'
    BY <1>29 DEF Look, Validate, HomeKept, history
  <2>1. Fits(call[t]) /\ call[t] \in Calls /\ Spares(call[t])
    BY DEF Wired, TypeOK, HomeKept
  <2>2. call[t].conn = home /\ Known(home)
    BY <1>29, <2>1 DEF Look, Spares, Spared, Known, HomeKept
  <2>3. Validate(t, home, "adopt") /\ savedId' = savedId
    BY <1>29, <2>2 DEF Look
  <2>4. /\ home' = home /\ savedId' = savedId /\ store'[home] # None
        /\ saved' \in {None, home} /\ home \notin extra'
    BY <1>29, <2>3 DEF Look, HomeKept, window, history
  <2> QED
    BY <2>3, <2>4, ValidateKeeps

<1>30. ASSUME NEW t \in Tasks, Adopt(t) PROVE HomeKept'
  <2> SUFFICES ASSUME home # None PROVE HomeKept'
    BY <1>30 DEF Adopt, HomeKept, history
  <2>1. Fits(call[t]) /\ call[t] \in Calls /\ Spares(call[t])
    BY DEF Wired, TypeOK, HomeKept
  <2>2. call[t].at = "adopt" /\ call[t].conn = home
    BY <1>30, <2>1 DEF Adopt, Spares, Spared
  <2> DEFINE r == [call[t] EXCEPT !.at = "list", !.conn = home]
  <2>3. Become(t, IF call[t].op = "start" THEN r ELSE Idle)
    BY <1>30, <2>2 DEF Adopt
  <2>4. r.op = call[t].op /\ r.at = "list" /\ r.conn = home /\ r.then = call[t].then
    BY <2>1 DEF Calls
  <2>5. Spares(r)
    <3> HIDE DEF r
    <3> QED
      BY <2>1, <2>2, <2>4 DEF Spares, Spared
  <2>6. /\ home' = home /\ savedId' = savedId /\ store'[home] # None
        /\ saved' \in {None, home} /\ home \notin extra'
    BY <1>30, <2>2 DEF Adopt, HomeKept, persisted, history
  <2> HIDE DEF r
  <2> QED
    BY <2>3, <2>5, <2>6, IdleSpares, StaysKept

<1>31. ASSUME NEW t \in Tasks, List(t) PROVE HomeKept'
  <2> SUFFICES ASSUME home # None PROVE HomeKept'
    BY <1>31 DEF List, HomeKept, history
  <2>1. Fits(call[t]) /\ call[t] \in Calls /\ Spares(call[t])
    BY DEF Wired, TypeOK, HomeKept
  <2>2. call[t].conn = home /\ call[t].then = None
    BY <1>31, <2>1 DEF List, Spares, Spared, Fits
  <2> DEFINE r == [call[t] EXCEPT !.at = "extra", !.conn = None]
  <2>3. Become(t, r)
    BY <1>31 DEF List
  <2>4. r.op = call[t].op /\ r.at = "extra" /\ r.then = None
    BY <2>1, <2>2 DEF Calls
  <2>5. Spares(r)
    <3> HIDE DEF r
    <3> QED
      BY <2>1, <2>4 DEF Spares, Spared, None
  <2>6. /\ home' = home /\ savedId' = savedId /\ store'[home] # None
        /\ saved' \in {None, home} /\ home \notin extra'
    BY <1>31, <2>2 DEF List, HomeKept, persisted, history
  <2> HIDE DEF r
  <2> QED
    BY <2>3, <2>5, <2>6, StaysKept

<1>32. ASSUME NEW t \in Tasks, NEW c \in Conns, DeleteExtra(t, c) PROVE HomeKept'
  <2> SUFFICES ASSUME home # None PROVE HomeKept'
    BY <1>32 DEF DeleteExtra, Delete, HomeKept, history
  <2>1. Fits(call[t]) /\ call[t] \in Calls /\ Spares(call[t])
    BY DEF Wired, TypeOK, HomeKept
  <2>2. c # home
    BY <1>32 DEF DeleteExtra, HomeKept
  <2>3. /\ home' = home /\ savedId' = savedId /\ store'[home] # None
        /\ saved' \in {None, home} /\ home \notin extra'
    BY <1>32 DEF DeleteExtra, HomeKept, history
  <2> DEFINE i == [Idle EXCEPT !.op = "start", !.conn = c]
  <2>4. \A p \in {"gone", "leave"} : Spares([i EXCEPT !.at = p])
    BY <2>2 DEF Idle, Spares, Spared, None
  <2>5. Spares([i EXCEPT !.at = "revoke", !.target = c, !.then = "erase"])
    BY <2>2 DEF Idle, Spares, Spared, None
  <2>6. CASE ~Known(c)
    BY <1>32, <2>3, <2>4, <2>6, StaysKept DEF DeleteExtra, Delete
  <2>7. CASE Known(c) /\ active = c
    BY <1>32, <2>3, <2>4, <2>7, StaysKept DEF DeleteExtra, Delete
  <2>8. CASE Known(c) /\ active # c
    BY <1>32, <2>3, <2>5, <2>8, StaysKept DEF DeleteExtra, Delete
  <2> QED
    BY <2>6, <2>7, <2>8

<1>33. ASSUME NEW t \in Tasks, NoExtra(t) PROVE HomeKept'
  <2> SUFFICES ASSUME home # None PROVE HomeKept'
    BY <1>33 DEF NoExtra, Continue, HomeKept, history
  <2>1. Fits(call[t]) /\ call[t] \in Calls /\ Spares(call[t])
    BY DEF Wired, TypeOK, HomeKept
  <2>2. Spared(call[t].conn, "idle")
    BY <1>33, <2>1 DEF NoExtra, Spares, Spared
  <2> QED
    BY <1>33, <2>2, ContinueKeeps DEF NoExtra

<1>34. ASSUME NEW t \in Tasks, Start(t) PROVE HomeKept'
  <2> SUFFICES ASSUME home # None PROVE HomeKept'
    BY <1>34 DEF Start, Restore, HomeKept, history
  <2> QED
    BY <1>34, RestoreKeeps DEF Start

<1>35. ASSUME NEW t \in Tasks, Reload(t) PROVE HomeKept'
  <2> SUFFICES ASSUME home # None PROVE HomeKept'
    BY <1>35 DEF Reload, Restore, HomeKept, history
  <2> QED
    BY <1>35, RestoreKeeps DEF Reload

<1>36. ASSUME NEW t \in Tasks, GetToken(t) PROVE HomeKept'
  <2> SUFFICES ASSUME home # None PROVE HomeKept'
    BY <1>36 DEF GetToken, Begin, HomeKept, history
  <2> DEFINE r == [Idle EXCEPT !.op = "get", !.at = "ask", !.conn = Using]
  <2>1. Become(t, r) /\ UNCHANGED <<persisted, window, history>>
    BY <1>36 DEF GetToken, Begin
  <2>2. r.op = "get" /\ r.at = "ask" /\ r.then \in {None, "idle"}
    BY DEF Idle
  <2> HIDE DEF r
  <2> QED
    BY <2>1, <2>2, BeginKeeps

<1>37. ASSUME NEW t \in Tasks, Check(t) PROVE HomeKept'
  <2> SUFFICES ASSUME home # None PROVE HomeKept'
    BY <1>37 DEF Check, HomeKept, history
  <2> DEFINE r == [Idle EXCEPT !.op = "check", !.at = "ask", !.conn = Using, !.then = "idle"]
  <2>1. Become(t, r) /\ UNCHANGED <<persisted, window, history>>
    BY <1>37 DEF Check, Begin
  <2>2. r.op = "check" /\ r.at = "ask" /\ r.then \in {None, "idle"}
    BY DEF Idle
  <2> HIDE DEF r
  <2> QED
    BY <2>1, <2>2, BeginKeeps

<1>38. ASSUME NEW t \in Tasks, Reauthenticate(t) PROVE HomeKept'
  <2> SUFFICES ASSUME home # None PROVE HomeKept'
    BY <1>38 DEF Reauthenticate, Begin, HomeKept, history
  <2> DEFINE r == [Idle EXCEPT !.op = "reauth", !.at = "auth", !.conn = Using]
  <2>1. Become(t, r) /\ UNCHANGED <<persisted, window, history>>
    BY <1>38 DEF Reauthenticate, Begin
  <2>2. r.op = "reauth" /\ r.at = "auth" /\ r.then \in {None, "idle"}
    BY DEF Idle
  <2> HIDE DEF r
  <2> QED
    BY <2>1, <2>2, BeginKeeps

<1>39. ASSUME NEW t \in Tasks, NEW c \in Conns, Connect(t, c) PROVE HomeKept'
  BY <1>39 DEF Connect, HomeKept

<1>40. ASSUME NEW t \in Tasks, NEW c \in Conns, Create(t, c) PROVE HomeKept'
  BY <1>40 DEF Create, HomeKept

<1>41. ASSUME NEW t \in Tasks, SignOut(t) PROVE HomeKept'
  BY <1>41 DEF SignOut, HomeKept

<1>42. ASSUME NEW c \in Conns, Expire(c) PROVE HomeKept'
  BY <1>42 DEF Expire, HomeKept, window, history, Spares, Spared
<1>43. ASSUME Restart PROVE HomeKept'
  <2>1. \A u \in Tasks : call'[u] = Idle
    BY <1>43 DEF Restart
  <2>2. \A u \in Tasks : Spares(call[u])'
    BY <2>1 DEF Spares, Spared, Idle, None
  <2> QED
    BY <1>43, <2>2 DEF Restart, HomeKept, Known, persisted
<1>44. ASSUME UNCHANGED vars PROVE HomeKept'
  BY <1>44 DEF vars, HomeKept, Spares, Spared
<1> QED
  BY <1>1, <1>2, <1>3, <1>4, <1>5, <1>6, <1>7, <1>8, <1>9, <1>10, <1>11, <1>12, <1>13, <1>14,
     <1>15, <1>16, <1>17, <1>18, <1>19, <1>20, <1>21, <1>22, <1>23, <1>24, <1>25, <1>26, <1>27,
     <1>28, <1>29, <1>30, <1>31, <1>32, <1>33, <1>34, <1>35, <1>36, <1>37, <1>38, <1>39, <1>40,
     <1>41, <1>42, <1>43, <1>44 DEF Next, Step, Reply, Request

-----------------------------------------------------------------------------
(* Logins are shared *)

\* The call logs in through authenticate, waits for the login of another, or neither.
Working(r) ==
    /\ r.op # "create"
    /\ \/ r.at \in {"login", "issued", "granted", "denied"}
       \/ r.at = "mark" /\ r.then \in {"granted", "denied"}
Waiting(r) == r.at = "joined"
Apart(r) == ~Working(r) /\ ~Waiting(r)

\* There is one login of a connection at most, and authenticate() knows of it.
Shared ==
    /\ \A t \in Tasks : ~Apart(call[t]) => call[t].conn \in busy
    /\ \A t, u \in Tasks :
          Working(call[t]) /\ Working(call[u]) /\ call[t].conn = call[u].conn => t = u

\* The call takes the same part in a login as before.
Alike(q, r) ==
    /\ Working(r) <=> Working(q)
    /\ Waiting(r) <=> Waiting(q)
    /\ Apart(q) \/ r.conn = q.conn

\* A step that begins, joins and ends no login.
LoginsKept == busy' = busy /\ \A u \in Tasks : Alike(call[u], call'[u])

LEMMA KeptShares ==
    ASSUME Shared, LoginsKept
    PROVE  Shared' /\ \A c \in Conns : Login!Step(c)
<1>1. Shared'
  BY DEF Shared, LoginsKept, Alike, Apart
<1>2. ASSUME NEW c \in Conns PROVE Login!Step(c)
  <2>1. \A u \in Tasks : /\ u \in LoggingIn(c) <=> Working(call[u]) /\ call[u].conn = c
                         /\ u \in Joining(c) <=> Waiting(call[u]) /\ call[u].conn = c
    BY DEF LoggingIn, Joining, Working, Waiting
  <2>2. \A u \in Tasks : /\ u \in LoggingIn(c)' <=> Working(call'[u]) /\ call'[u].conn = c
                         /\ u \in Joining(c)' <=> Waiting(call'[u]) /\ call'[u].conn = c
    BY DEF LoggingIn, Joining, Working, Waiting
  <2>3. LoggingIn(c) \subseteq Tasks /\ LoggingIn(c)' \subseteq Tasks
    BY DEF LoggingIn
  <2>4. Joining(c) \subseteq Tasks /\ Joining(c)' \subseteq Tasks
    BY DEF Joining
  <2>5. LoggingIn(c)' = LoggingIn(c) /\ Joining(c)' = Joining(c)
    BY <2>1, <2>2, <2>3, <2>4 DEF LoginsKept, Alike, Apart
  <2>6. Login!Same(c)
    BY <2>5 DEF Login!Same, LoginsKept
  <2> QED
    BY <2>6 DEF Login!Step
<1> QED
  BY <1>1, <1>2

\* Places no login is at.
Outside == Points \ {"login", "issued", "granted", "denied", "joined", "mark"}

LEMMA IdleApart == Apart(Idle)
BY DEF Apart, Working, Waiting, Idle, None

LEMMA OutsideApart ==
    ASSUME NEW r, r.at \in Outside
    PROVE  Apart(r)
BY DEF Apart, Working, Waiting, Outside

LEMMA BecomeAlike ==
    ASSUME TypeOK, NEW t \in Tasks, NEW r, Become(t, r), busy' = busy,
           Alike(call[t], IF r.at = "idle" THEN Idle ELSE r)
    PROVE  LoginsKept
<1> DEFINE q == IF r.at = "idle" THEN Idle ELSE r
<1>1. call' = [call EXCEPT ![t] = q]
  BY DEF Become
<1>2. Alike(call[t], q)
  OBVIOUS
<1> HIDE DEF q
<1>3. \A u \in Tasks : call'[u] = IF u = t THEN q ELSE call[u]
  BY <1>1 DEF TypeOK
<1>4. \A u \in Tasks : Alike(call[u], call[u])
  BY DEF Alike
<1> QED
  BY <1>2, <1>3, <1>4 DEF LoginsKept

\* A call that takes part in no login, before and after.
LEMMA BecomeApart ==
    ASSUME TypeOK, NEW t \in Tasks, NEW r, Become(t, r), busy' = busy,
           Apart(call[t]), Apart(r)
    PROVE  LoginsKept
<1>1. Alike(call[t], IF r.at = "idle" THEN Idle ELSE r)
  BY IdleApart DEF Alike, Apart
<1> QED
  BY <1>1, BecomeAlike

LEMMA ResumeFields ==
    ASSUME TypeOK, NEW t \in Tasks, NEW p
    PROVE  /\ Resume(t, p).at = p /\ Resume(t, p).then = None
           /\ Resume(t, p).op = call[t].op /\ Resume(t, p).conn = call[t].conn
BY DEF TypeOK, Calls, Resume

LEMMA ResumeApart ==
    ASSUME TypeOK, NEW t \in Tasks, NEW p \in Outside, Become(t, Resume(t, p)),
           busy' = busy, Apart(call[t])
    PROVE  LoginsKept
BY ResumeFields, OutsideApart, BecomeApart

LEMMA GotoApart ==
    ASSUME TypeOK, NEW t \in Tasks, NEW p \in Outside, Goto(t, p), busy' = busy,
           Apart(call[t])
    PROVE  LoginsKept
<1>1. [call[t] EXCEPT !.at = p].at = p
  BY DEF TypeOK, Calls
<1> QED
  BY <1>1, OutsideApart, BecomeApart DEF Goto

\* A call that writes the state of a connection takes the same part in a login, if it
\* does so where it goes on.
LEMMA UpdateAlike ==
    ASSUME TypeOK, NEW t \in Tasks, NEW c, NEW s, NEW k, NEW e, Update(t, c, s, k, e),
           \/ Apart(call[t]) /\ k \in Outside /\ e \in Outside
           \/ Working(call[t]) /\ {k, e} \subseteq {"granted", "denied"}
    PROVE  LoginsKept
<1> DEFINE w == [call[t] EXCEPT !.at = "mark", !.target = c, !.then = k, !.saw = s]
<1>1. busy' = busy
  BY DEF Update, window
<1>2. w.at = "mark" /\ w.then = k /\ w.op = call[t].op /\ w.conn = call[t].conn
  BY DEF TypeOK, Calls
<1>3. \/ Become(t, Resume(t, e)) \/ Become(t, Resume(t, k)) \/ Become(t, w)
  BY DEF Update
<1> HIDE DEF w
<1>4. CASE Apart(call[t]) /\ k \in Outside /\ e \in Outside
  <2>1. Apart(w)
    BY <1>2, <1>4 DEF Apart, Working, Waiting, Outside
  <2> QED
    BY <1>1, <1>3, <1>4, <2>1, ResumeApart, BecomeApart
<1>5. CASE Working(call[t]) /\ {k, e} \subseteq {"granted", "denied"}
  <2>1. call[t].op # "create" /\ ~Waiting(call[t])
    BY <1>5 DEF Working, Waiting
  <2>2. Working(w) /\ ~Waiting(w)
    BY <1>2, <1>5, <2>1 DEF Working, Waiting
  <2>3. Alike(call[t], w) /\ w.at # "idle"
    BY <1>2, <1>5, <2>1, <2>2 DEF Alike
  <2>4. ASSUME NEW p \in {"granted", "denied"}
        PROVE  Alike(call[t], Resume(t, p)) /\ Resume(t, p).at # "idle"
    BY <1>5, <2>1, ResumeFields DEF Alike, Working, Waiting
  <2> QED
    BY <1>1, <1>3, <1>5, <2>3, <2>4, BecomeAlike
<1> QED
  BY <1>4, <1>5

LEMMA ValidateApart ==
    ASSUME TypeOK, NEW t \in Tasks, NEW c, NEW p \in {"activate", "adopt"},
           Validate(t, c, p), busy' = busy, Apart(call[t])
    PROVE  LoginsKept
<1> DEFINE r == [call[t] EXCEPT !.conn = c, !.at = IF Known(c) THEN "ask" ELSE p,
                                !.then = IF Known(c) THEN p ELSE None]
<1>1. r.at \in {"ask", "activate", "adopt"}
  BY DEF TypeOK, Calls
<1>2. Become(t, r)
  BY DEF Validate
<1> HIDE DEF r
<1>3. r.at \in Outside
  BY <1>1 DEF Outside, Points
<1> QED
  BY <1>2, <1>3, OutsideApart, BecomeApart

LEMMA DeleteApart ==
    ASSUME TypeOK, NEW t \in Tasks, NEW o, NEW c, Delete(t, o, c), busy' = busy,
           Apart(call[t])
    PROVE  LoginsKept
<1> DEFINE q == [Idle EXCEPT !.op = o, !.conn = c]
           g == [q EXCEPT !.at = "gone"]
           l == [q EXCEPT !.at = "leave"]
           r == [q EXCEPT !.at = "revoke", !.target = c, !.then = "erase"]
<1>1. g.at = "gone" /\ l.at = "leave" /\ r.at = "revoke"
  BY DEF Idle
<1>2. Become(t, g) \/ Become(t, l) \/ Become(t, r)
  BY DEF Delete
<1>3. {"gone", "leave", "revoke"} \subseteq Outside
  BY DEF Outside, Points
<1> HIDE DEF g, l, r
<1>4. Apart(g) /\ Apart(l) /\ Apart(r)
  BY <1>1, <1>3, OutsideApart
<1> QED
  BY <1>2, <1>4, BecomeApart

LEMMA EndsApart ==
    ASSUME TypeOK, NEW t \in Tasks,
           Become(t, [Resume(t, After(t)) EXCEPT !.conn = None]), busy' = busy,
           Apart(call[t])
    PROVE  LoginsKept
<1> DEFINE r == [Resume(t, After(t)) EXCEPT !.conn = None]
<1>1. r.at = After(t)
  BY DEF TypeOK, Calls, Resume
<1>2. After(t) \in Outside
  BY DEF After, Outside, Points
<1> HIDE DEF r
<1> QED
  BY <1>1, <1>2, OutsideApart, BecomeApart DEF r

LEMMA DeletedApart ==
    ASSUME TypeOK, NEW t \in Tasks, Deleted(t), Apart(call[t])
    PROVE  LoginsKept
<1>1. "unsave" \in Outside /\ busy' = busy
  BY DEF Outside, Points, Deleted
<1> QED
  BY <1>1, ResumeApart, EndsApart DEF Deleted

LEMMA KeptStep ==
    ASSUME TypeOK, Wired, NEW t \in Tasks,
           \/ Step(t) /\ ~Authenticate(t) /\ ~Resolve(t)
           \/ Reply(t)
           \/ Request(t)
    PROVE  LoginsKept
<1> USE DEF persisted, window, history
<1>1. Fits(call[t]) /\ call[t] \in Calls
  BY DEF Wired, TypeOK
<1>2. call[t].at \in Outside => Apart(call[t])
  BY OutsideApart
<1>3. call[t] = Idle => Apart(call[t])
  BY IdleApart
<1>4. CASE Unreachable(t)
  BY <1>4, <1>1, <1>2, ResumeApart DEF Unreachable, Outside, Points, Continue, Caught
<1>5. CASE Answered(t)
  <2> DEFINE r == [call[t] EXCEPT !.at = "judge",
                                !.saw = IF token[call[t].conn] THEN "valid" ELSE "invalid"]
  <2>1. r.at = "judge"
    BY <1>1 DEF Calls
  <2>2. Become(t, r) /\ busy' = busy /\ call[t].at = "ask"
    BY <1>5 DEF Answered
  <2> HIDE DEF r
  <2> QED
    BY <1>2, <2>1, <2>2, OutsideApart, BecomeApart DEF Outside, Points
<1>6. CASE Judge(t)
  <2>1. {call[t].then, Caught(t)} \subseteq Outside /\ call[t].at \in Outside
    BY <1>6, <1>1 DEF Judge, Fits, Caught, Outside, Points
  <2> QED
    BY <1>6, <1>2, <2>1, UpdateAlike DEF Judge
<1>7. CASE Activate(t)
  BY <1>7, <1>1, <1>2, GotoApart DEF Activate, Outside, Points
<1>8. CASE LogIn(t)
  <2>1. Become(t, Resume(t, "issued")) /\ busy' = busy /\ call[t].at = "login"
    BY <1>8 DEF LogIn
  <2>2. Alike(call[t], Resume(t, "issued")) /\ Resume(t, "issued").at # "idle"
    BY <2>1, ResumeFields DEF Alike, Apart, Working, Waiting
  <2> QED
    BY <2>1, <2>2, BecomeAlike
<1>9. CASE LogInFails(t) \/ Issued(t)
  <2>1. Working(call[t])
    BY <1>9 DEF LogInFails, Issued, Working
  <2> QED
    BY <1>9, <2>1, UpdateAlike DEF LogInFails, Issued
<1>10. CASE LogInUnreachable(t)
  <2>1. call[t].at = "login" /\ busy' = busy
    BY <1>10 DEF LogInUnreachable, Continue
  <2>2. CASE call[t].op = "create"
    <3>1. Apart(call[t]) /\ "idle" \in Outside
      BY <2>1, <2>2 DEF Apart, Working, Waiting, Outside, Points
    <3> QED
      BY <1>10, <2>1, <2>2, <3>1, ResumeApart DEF LogInUnreachable, Continue
  <2>3. CASE call[t].op # "create"
    <3>1. Alike(call[t], Resume(t, "denied")) /\ Resume(t, "denied").at # "idle"
      BY <2>1, <2>3, ResumeFields DEF Alike, Apart, Working, Waiting
    <3> QED
      BY <1>10, <2>1, <2>3, <3>1, BecomeAlike DEF LogInUnreachable, Continue
  <2> QED
    BY <2>2, <2>3
<1>11. CASE Mark(t)
  <2> DEFINE p == call[t].then
             r == IF p = "idle" THEN Idle ELSE Resume(t, p)
  <2>1. call[t].at = "mark" /\ busy' = busy
    BY <1>11 DEF Mark
  <2>2. Alike(call[t], Resume(t, p))
    BY <1>1, <2>1, ResumeFields DEF Fits, Authenticating, Alike, Apart, Working, Waiting
  <2>3. p = "idle" => Apart(call[t])
    BY <2>1 DEF Apart, Working, Waiting
  <2>4. Alike(call[t], r)
    BY <2>2, <2>3, IdleApart DEF Alike, Apart
  <2>5. \A u \in Tasks : \/ u = t /\ call'[u] = r
                         \/ call'[u] = call[u]
                         \/ call[u].at = "prompt" /\ call'[u] = Idle
    BY <1>11 DEF Mark
  <2>6. ASSUME NEW u \in Tasks PROVE Alike(call[u], call'[u])
    <3> HIDE DEF p, r
    <3>1. CASE u = t /\ call'[u] = r
      BY <2>4, <3>1
    <3>2. CASE call'[u] = call[u]
      BY <3>2 DEF Alike
    <3>3. CASE call[u].at = "prompt" /\ call'[u] = Idle
      BY <3>3, IdleApart DEF Alike, Apart, Working, Waiting
    <3> QED
      BY <2>5, <3>1, <3>2, <3>3
  <2> QED
    BY <2>1, <2>6 DEF LoginsKept
<1>12. CASE GotToken(t)
  BY <1>12, <1>1, <1>2, ResumeApart DEF GotToken, Outside, Points, Continue
<1>13. CASE Invalid(t)
  <2>1. PICK k \in {"prompt", "auth", "idle"} : Update(t, call[t].conn, "invalid", k, "idle")
    BY <1>13 DEF Invalid
  <2>2. {k, "idle"} \subseteq Outside /\ call[t].at \in Outside
    BY <1>13 DEF Invalid, Outside, Points
  <2> QED
    BY <1>2, <2>1, <2>2, UpdateAlike
<1>14. CASE Orphaned(t) \/ Gone(t) \/ Sweep(t)
  BY <1>14, <1>2, DeletedApart DEF Orphaned, Gone, Sweep, Outside, Points
<1>15. CASE Accept(t) \/ Decline(t) \/ NoExtra(t)
  <2>1. call[t].at \in Outside /\ "auth" \in Outside /\ "idle" \in Outside
    BY <1>15 DEF Accept, Decline, NoExtra, Outside, Points
  <2> QED
    BY <1>15, <1>2, <2>1, ResumeApart DEF Accept, Decline, NoExtra, Continue
<1>16. CASE AddProfile(t)
  <2>1. Apart(call[t]) /\ "added" \in Outside
    BY <1>16 DEF AddProfile, Apart, Working, Waiting, Outside, Points
  <2> QED
    BY <1>16, <2>1, GotoApart DEF AddProfile
<1>17. CASE Added(t)
  BY <1>17, <1>1, <1>2, UpdateAlike DEF Added, Outside, Points
<1>18. CASE Keep(t)
  BY <1>18, <1>1, <1>2, GotoApart DEF Keep, Outside, Points
<1>19. CASE Kept(t)
  <2>1. call[t].at \in Outside /\ "idle" \in Outside /\ busy' = busy
    BY <1>19 DEF Kept, Outside, Points
  <2> QED
    BY <1>19, <1>2, <2>1, ValidateApart, GotoApart DEF Kept
<1>20. CASE Leave(t)
  <2> DEFINE r == [call[t] EXCEPT !.at = "revoke", !.target = active, !.then = "left"]
  <2>1. r.at = "revoke"
    BY <1>1 DEF Calls
  <2>2. (Become(t, r) \/ Become(t, Idle)) /\ busy' = busy /\ call[t].at = "leave"
    BY <1>20 DEF Leave
  <2> HIDE DEF r
  <2>3. Apart(r) /\ Apart(call[t])
    BY <2>1, <2>2, OutsideApart DEF Outside, Points
  <2> QED
    BY <2>2, <2>3, IdleApart, BecomeApart
<1>21. CASE Revoke(t)
  BY <1>21, <1>1, <1>2, GotoApart DEF Revoke, Outside, Points
<1>22. CASE Revoked(t)
  <2>1. {call[t].then, "idle"} \subseteq Outside /\ call[t].at \in Outside
    BY <1>22, <1>1 DEF Revoked, Fits, Outside, Points
  <2> QED
    BY <1>22, <1>2, <2>1, UpdateAlike DEF Revoked
<1>23. CASE Erase(t)
  BY <1>23, <1>1, <1>2, GotoApart DEF Erase, Outside, Points
<1>24. CASE Unsave(t)
  BY <1>24, <1>1, <1>2, EndsApart DEF Unsave, Outside, Points
<1>25. CASE Load(t)
  <2> DEFINE r == [call[t] EXCEPT !.at = IF savedId = None THEN "adopt" ELSE "look",
                                !.conn = savedId]
  <2>1. r.at \in {"adopt", "look"}
    BY <1>1 DEF Calls
  <2>2. Become(t, r) /\ busy' = busy /\ call[t].at = "load"
    BY <1>25 DEF Load
  <2> HIDE DEF r
  <2>3. Apart(r) /\ Apart(call[t])
    BY <2>1, <2>2, OutsideApart DEF Outside, Points
  <2> QED
    BY <2>2, <2>3, BecomeApart
<1>26. CASE Look(t)
  <2>1. call[t].at \in Outside /\ busy' = busy
    BY <1>26 DEF Look, Outside, Points
  <2> QED
    BY <1>26, <1>2, <2>1, ValidateApart DEF Look
<1>27. CASE Adopt(t)
  <2> DEFINE r == [call[t] EXCEPT !.at = "list",
                        !.conn = IF call[t].conn # None THEN call[t].conn ELSE follows]
  <2>1. r.at = "list"
    BY <1>1 DEF Calls
  <2>2. (Become(t, r) \/ Become(t, Idle)) /\ busy' = busy /\ call[t].at = "adopt"
    BY <1>27 DEF Adopt
  <2> HIDE DEF r
  <2>3. Apart(r) /\ Apart(call[t])
    BY <2>1, <2>2, OutsideApart DEF Outside, Points
  <2> QED
    BY <2>2, <2>3, IdleApart, BecomeApart
<1>28. CASE List(t)
  <2> DEFINE r == [call[t] EXCEPT !.at = "extra", !.conn = None]
  <2>1. r.at = "extra"
    BY <1>1 DEF Calls
  <2>2. Become(t, r) /\ busy' = busy /\ call[t].at = "list"
    BY <1>28 DEF List
  <2> HIDE DEF r
  <2>3. Apart(r) /\ Apart(call[t])
    BY <2>1, <2>2, OutsideApart DEF Outside, Points
  <2> QED
    BY <2>2, <2>3, BecomeApart
<1>29. ASSUME NEW c \in Conns, DeleteExtra(t, c) PROVE LoginsKept
  BY <1>29, <1>2, DeleteApart DEF DeleteExtra, Outside, Points
<1>30. CASE Start(t) \/ Reload(t)
  <2>1. PICK o : Restore(t, o)
    BY <1>30 DEF Start, Reload
  <2> DEFINE p == IF current = None THEN "load" ELSE IF Known(current) THEN "ask" ELSE "activate"
             r == [Idle EXCEPT !.op = o, !.at = p, !.conn = current,
                               !.then = IF p = "ask" THEN "activate" ELSE None]
  <2>2. r.at \in {"load", "ask", "activate"}
    BY DEF Idle
  <2>3. Become(t, r) /\ busy' = busy /\ call[t] = Idle
    BY <2>1 DEF Restore
  <2> HIDE DEF r
  <2>4. Apart(r)
    BY <2>2, OutsideApart DEF Outside, Points
  <2> QED
    BY <1>3, <2>3, <2>4, BecomeApart
<1>31. ASSUME NEW o, NEW c, NEW p, Begin(t, o, c, p), busy' = busy,
             p \in Outside \/ (o = "create" /\ p = "login")
      PROVE  LoginsKept
  <2> DEFINE r == [Idle EXCEPT !.op = o, !.at = p, !.conn = c]
  <2>1. r.op = o /\ r.at = p
    BY DEF Idle
  <2>2. Become(t, r) /\ call[t] = Idle
    BY <1>31 DEF Begin
  <2> HIDE DEF r
  <2>3. Apart(r)
    BY <1>31, <2>1, OutsideApart DEF Apart, Working, Waiting
  <2> QED
    BY <1>31, <1>3, <2>2, <2>3, BecomeApart
<1>32. CASE GetToken(t) \/ Reauthenticate(t) \/ \E c \in Conns : Connect(t, c) \/ Create(t, c)
  <2>1. {"ask", "auth", "keep"} \subseteq Outside
    BY DEF Outside, Points
  <2> QED
    BY <1>32, <1>31, <2>1 DEF GetToken, Reauthenticate, Connect, Create
<1>33. CASE Check(t)
  <2> DEFINE r == [Idle EXCEPT !.op = "check", !.at = "ask", !.conn = Using, !.then = "idle"]
  <2>1. r.at = "ask"
    BY DEF Idle
  <2>2. Become(t, r) /\ busy' = busy /\ call[t] = Idle
    BY <1>33 DEF Check
  <2> HIDE DEF r
  <2>3. Apart(r)
    BY <2>1, OutsideApart DEF Outside, Points
  <2> QED
    BY <1>3, <2>2, <2>3, BecomeApart
<1>34. CASE SignOut(t)
  BY <1>34, <1>3, DeleteApart DEF SignOut
<1> QED
  BY <1>4, <1>5, <1>6, <1>7, <1>8, <1>9, <1>10, <1>11, <1>12, <1>13, <1>14, <1>15, 
     <1>16, <1>17, <1>18, <1>19, <1>20, <1>21, <1>22, <1>23, <1>24, <1>25, <1>26, <1>27, 
     <1>28, <1>29, <1>30, <1>32, <1>33, <1>34
     DEF Step, Reply, Request

\* The parts the calls take tell the variables of SingleFlight.
LEMMA Parts ==
    ASSUME NEW c \in Conns
    PROVE  /\ LoggingIn(c) = {u \in Tasks : Working(call[u]) /\ call[u].conn = c}
           /\ Joining(c) = {u \in Tasks : Waiting(call[u]) /\ call[u].conn = c}
           /\ LoggingIn(c)' = {u \in Tasks : Working(call'[u]) /\ call'[u].conn = c}
           /\ Joining(c)' = {u \in Tasks : Waiting(call'[u]) /\ call'[u].conn = c}
BY DEF LoggingIn, Joining, Working, Waiting

\* The calls whose part in the login of c is the same.
LEMMA SameParts ==
    ASSUME NEW c \in Conns,
           \A u \in Tasks :
              /\ Working(call'[u]) /\ call'[u].conn = c <=> Working(call[u]) /\ call[u].conn = c
              /\ Waiting(call'[u]) /\ call'[u].conn = c <=> Waiting(call[u]) /\ call[u].conn = c
    PROVE  LoggingIn(c)' = LoggingIn(c) /\ Joining(c)' = Joining(c)
<1>1. {u \in Tasks : Working(call'[u]) /\ call'[u].conn = c} =
         {u \in Tasks : Working(call[u]) /\ call[u].conn = c}
  OBVIOUS
<1>2. {u \in Tasks : Waiting(call'[u]) /\ call'[u].conn = c} =
         {u \in Tasks : Waiting(call[u]) /\ call[u].conn = c}
  OBVIOUS
<1> QED
  BY <1>1, <1>2, Parts

\* A call that authenticates begins the login of its connection, or joins it.
LEMMA AuthenticateShares ==
    ASSUME TypeOK, Wired, Shared, NEW t \in Tasks, Authenticate(t)
    PROVE  Shared' /\ \A c \in Conns : Login!Step(c)
<1>0. PICK c \in Conns : c = call[t].conn
  BY DEF Authenticate, Wired, Fits
<1> DEFINE s == IF call[t].op = "get"
                THEN (IF Known(c) THEN store[c] ELSE "unauthenticated") ELSE "invalid"
           q == [call[t] EXCEPT !.at = "joined"]
           l == [call[t] EXCEPT !.at = "login", !.saw = s]
           r == IF c \in busy THEN q ELSE l
<1>1. /\ call[t].at = "auth" /\ c = call[t].conn /\ call[t].op # "create"
      /\ call[t] \in Calls
  BY <1>0 DEF Authenticate, Wired, Fits, Authenticating
<1>2. Become(t, r) /\ busy' = busy \cup {c}
  BY <1>1 DEF Authenticate
<1>3. /\ q.at = "joined" /\ q.conn = c
      /\ l.at = "login" /\ l.conn = c /\ l.op = call[t].op
  <2> HIDE DEF s
  <2> QED
    BY <1>1 DEF Calls
<1>4. /\ Waiting(q) /\ ~Working(q)
      /\ Working(l) /\ ~Waiting(l)
      /\ Apart(call[t])
  <2> HIDE DEF q, l
  <2> QED
    BY <1>1, <1>3 DEF Working, Waiting, Apart
<1>5. \A u \in Tasks : call'[u] = IF u = t THEN r ELSE call[u]
  <2>1. r.at # "idle"
    <3> HIDE DEF q, l
    <3> QED
      BY <1>3
  <2> HIDE DEF r
  <2> QED
    BY <1>2, <2>1 DEF Become, TypeOK
<1> HIDE DEF q, l
<1>6. Shared'
  BY <1>1, <1>2, <1>3, <1>4, <1>5 DEF Shared, Apart
<1>7. ASSUME NEW d \in Conns, d # c PROVE Login!Step(d)
  <2>1. LoggingIn(d)' = LoggingIn(d) /\ Joining(d)' = Joining(d)
    <3>1. r.conn = c /\ c # d
      BY <1>3, <1>7
    <3> HIDE DEF r
    <3> QED
      BY <1>1, <1>5, <3>1, SameParts
  <2>2. d \in busy' <=> d \in busy
    BY <1>2, <1>7
  <2>3. Login!Same(d)
    BY <2>1, <2>2 DEF Login!Same
  <2> QED
    BY <2>3 DEF Login!Step
<1>8. ASSUME c \in busy PROVE Login!Join(c, t)
  <2>1. LoggingIn(c)' = LoggingIn(c) /\ t \notin LoggingIn(c)
    <3>1. \A u \in Tasks :
             Working(call'[u]) /\ call'[u].conn = c <=> Working(call[u]) /\ call[u].conn = c
      BY <1>4, <1>5, <1>8 DEF Apart
    <3>2. ~Working(call[t])
      BY <1>4 DEF Apart
    <3>3. t \notin LoggingIn(c)
      BY <3>2, Parts
    <3>4. LoggingIn(c)' = LoggingIn(c)
      BY <3>1, Parts, ZenonT(60)
    <3> QED
      BY <3>3, <3>4
  <2>2. Joining(c)' = Joining(c) \cup {t}
    BY <1>1, <1>3, <1>4, <1>5, <1>8, Parts
  <2> QED
    BY <1>1, <1>2, <1>8, <2>1, <2>2 DEF Login!Join
<1>9. ASSUME c \notin busy PROVE Login!Begin(c, t)
  <2>1. LoggingIn(c) = {} /\ Joining(c) = {}
    BY <1>1, <1>9, Parts DEF Shared, Apart
  <2>2. LoggingIn(c)' = {t} /\ Joining(c)' = {}
    BY <1>1, <1>3, <1>4, <1>5, <1>9, <2>1, Parts
  <2> QED
    BY <1>1, <1>2, <1>9, <2>1, <2>2 DEF Login!Begin
<1>10. \A d \in Conns : Login!Step(d)
  BY <1>7, <1>8, <1>9 DEF Login!Step
<1> QED
  BY <1>6, <1>10

\* A login that has ended leaves nobody waiting for it.
LEMMA ResolveShares ==
    ASSUME TypeOK, Wired, Shared, NEW t \in Tasks, Resolve(t)
    PROVE  Shared' /\ \A c \in Conns : Login!Step(c)
<1>0. PICK c \in Conns : c = call[t].conn
  BY DEF Resolve, Wired, Fits
<1>1. c = call[t].conn /\ Working(call[t]) /\ busy' = busy \ {c}
  BY <1>0 DEF Resolve, Wired, Fits, Authenticating, Working
<1>2. c \in busy
  BY <1>1 DEF Shared, Apart
<1>3. ASSUME NEW u \in Tasks PROVE Apart(Authenticated(u, call[t].at))
  <2>1. [call[u] EXCEPT !.at = "keep"].at = "keep"
    BY DEF TypeOK, Calls
  <2>2. Apart([call[u] EXCEPT !.at = "keep"])
    BY <2>1, OutsideApart DEF Outside, Points
  <2> QED
    BY <2>2, IdleApart DEF Authenticated
<1>4. ASSUME NEW u \in Tasks
      PROVE  \/ Apart(call'[u])
             \/ call'[u] = call[u] /\ call[u].conn # c
             \/ call'[u] = call[u] /\ Apart(call[u])
  <2>1. CASE u = t \/ (Waiting(call[u]) /\ call[u].conn = c)
    BY <1>1, <1>3, <2>1 DEF Resolve, Waiting
  <2>2. CASE u # t /\ ~(Waiting(call[u]) /\ call[u].conn = c)
    <3>1. call'[u] = call[u]
      BY <1>1, <2>2 DEF Resolve, Waiting
    <3>2. Working(call[u]) => call[u].conn # c
      BY <1>1, <2>2 DEF Shared
    <3> QED
      BY <2>2, <3>1, <3>2 DEF Apart
  <2> QED
    BY <2>1, <2>2
<1>5. \A u \in Tasks : call[u].conn # c => call'[u] = call[u]
  BY <1>1 DEF Resolve
<1>6. Shared'
  BY <1>1, <1>4 DEF Shared, Apart
<1>7. LoggingIn(c)' = {} /\ Joining(c)' = {}
  BY <1>1, <1>4, Parts DEF Apart
<1>8. Login!Settle(c)
  BY <1>1, <1>2, <1>7 DEF Login!Settle
<1>9. ASSUME NEW d \in Conns, d # c PROVE Login!Step(d)
  <2>1. \A u \in Tasks : call'[u].conn = d /\ ~Apart(call'[u]) => call'[u] = call[u]
    BY <1>4
  <2>2. \A u \in Tasks : call[u].conn = d => call'[u] = call[u]
    BY <1>5, <1>9
  <2>3. LoggingIn(d)' = LoggingIn(d) /\ Joining(d)' = Joining(d)
    BY <2>1, <2>2, SameParts DEF Apart
  <2>4. d \in busy' <=> d \in busy
    BY <1>1, <1>9
  <2>5. Login!Same(d)
    BY <2>3, <2>4 DEF Login!Same
  <2> QED
    BY <2>5 DEF Login!Step
<1> QED
  BY <1>6, <1>8, <1>9 DEF Login!Step

\* A window that restarts loses the logins and those that wait for them.
LEMMA RestartShares ==
    ASSUME Shared, Restart
    PROVE  Shared' /\ \A c \in Conns : Login!Step(c)
<1>1. busy' = {} /\ \A u \in Tasks : Apart(call'[u])
  BY IdleApart DEF Restart
<1>2. Shared'
  BY <1>1 DEF Shared, Apart
<1>3. ASSUME NEW c \in Conns PROVE Login!Step(c)
  <2>1. LoggingIn(c)' = {} /\ Joining(c)' = {}
    BY <1>1, Parts DEF Apart
  <2>2. CASE c \in busy
    <3>1. Login!Settle(c)
      BY <1>1, <2>1, <2>2 DEF Login!Settle
    <3> QED
      BY <3>1 DEF Login!Step
  <2>3. CASE c \notin busy
    <3>1. LoggingIn(c) = {} /\ Joining(c) = {}
      BY <2>3, Parts DEF Shared, Apart
    <3>2. Login!Same(c)
      BY <1>1, <2>1, <2>3, <3>1 DEF Login!Same
    <3> QED
      BY <3>2 DEF Login!Step
  <2> QED
    BY <2>2, <2>3
<1> QED
  BY <1>2, <1>3

LEMMA ShareStep ==
    ASSUME TypeOK, Wired, Shared, [Next]_vars
    PROVE  Shared' /\ Login!Next
<1>1. ASSUME NEW t \in Tasks, Authenticate(t) \/ Resolve(t)
      PROVE  Shared' /\ \A c \in Conns : Login!Step(c)
  BY <1>1, AuthenticateShares, ResolveShares
<1>2. ASSUME NEW t \in Tasks, ~Authenticate(t), ~Resolve(t), Step(t) \/ Reply(t) \/ Request(t)
      PROVE  LoginsKept
  BY <1>2, KeptStep
<1>3. ASSUME UNCHANGED <<busy, call>> PROVE LoginsKept
  BY <1>3 DEF LoginsKept, Alike
<1>4. UNCHANGED vars \/ (\E c \in Conns : Expire(c)) => UNCHANGED <<busy, call>>
  BY DEF vars, Expire, window
<1> QED
  BY <1>1, <1>2, <1>3, <1>4, KeptShares, RestartShares DEF Next, Login!Next

-----------------------------------------------------------------------------
(* The connection in use *)

\* A creation before it adds its profile.
Unborn(r) == r.op = "create" /\ r.at \in {"login", "issued"}

\* c is among the connections, or the window names it.
Held(c) == Known(c) \/ c \in {current, savedId, active, follows, saved} \cup extra

\* Nothing knows the id of a creation before it adds its profile.
UnbornUnknown ==
    \A t \in Tasks : Unborn(call[t]) =>
        /\ ~Held(call[t].conn)
        /\ \A u \in Tasks : call[u].conn = call[t].conn => u = t

\* A profile that was deleted does not come back.
GoneUnknown == \A t \in Tasks : call[t].at \in {"sweep", "gone"} => ~Known(call[t].conn)

Agreed == ActiveAgrees /\ UnbornUnknown /\ GoneUnknown

\* A call that goes on with the connection it had, or one that the window names.
Moves(r, q) ==
    /\ q.conn \in {r.conn, None} \/ Held(q.conn)
    /\ Unborn(q) => Unborn(r) /\ q.conn = r.conn

\* What the window names are connections it named or, in the end, those of its calls.
Named ==
    \A c \in Conns : Held(c)' => Held(c) \/ \E u \in Tasks : c = call[u].conn /\ ~Unborn(call'[u])

LEMMA UnbornKept ==
    ASSUME Wired, UnbornUnknown, Named, \A u \in Tasks : Moves(call[u], call'[u])
    PROVE  UnbornUnknown'
<1> SUFFICES ASSUME NEW t \in Tasks, Unborn(call'[t])
             PROVE  /\ ~Held(call[t].conn)'
                    /\ \A u \in Tasks : call'[u].conn = call'[t].conn => u = t
  BY DEF UnbornUnknown, Unborn
<1>1. Unborn(call[t]) /\ call'[t].conn = call[t].conn
  BY DEF Moves
<1>2. call[t].conn \in Conns /\ call[t].conn # None
  BY <1>1, NoneIsNone DEF Wired, Fits, Unborn
<1>3. ~Held(call[t].conn) /\ \A u \in Tasks : call[u].conn = call[t].conn => u = t
  BY <1>1 DEF UnbornUnknown
<1>4. ASSUME NEW c \in Conns, c = call[t].conn PROVE ~Held(c)'
  BY <1>3, <1>4 DEF Named
<1>5. ~Held(call[t].conn)'
  <2>1. PICK c \in Conns : c = call[t].conn
    BY <1>2
  <2> QED
    BY <1>1, <1>4, <2>1 DEF Held, Known
<1>6. ASSUME NEW u \in Tasks, call'[u].conn = call'[t].conn PROVE u = t
  BY <1>1, <1>2, <1>3, <1>6 DEF Moves
<1> QED
  BY <1>5, <1>6

\* A call that is not about to delete, and does not come to that, or that goes on to
\* drop the active connection.
Stays(r, q) ==
    /\ Moves(r, q)
    /\ r.at = "sweep" => q = r
    /\ q.at \in {"sweep", "gone"} => q = r
    /\ Leaving(r) => Leaving(q) \/ ~Known(active)

\* The profiles that there are, and the connection in use, remain.
UseKept ==
    /\ UNCHANGED <<active, follows, current>>
    /\ \A c \in Conns : store'[c] = None <=> store[c] = None

LEMMA AgreeKept ==
    ASSUME TypeOK, Wired, Agreed, ActiveExists', UseKept, Named,
           \A u \in Tasks : Stays(call[u], call'[u])
    PROVE  Agreed'
<1>1. UnbornUnknown'
  BY UnbornKept DEF Agreed, Stays
<1>2. \A c \in Conns : store'[c] = None <=> store[c] = None
  BY DEF UseKept
<1>3. active' = active /\ follows' = follows /\ current' = current /\ active \in Conns \cup {None}
  BY DEF UseKept, TypeOK
<1>4. Known(active)' <=> Known(active)
  BY <1>2, <1>3 DEF Known
<1>5. ASSUME NEW u \in Tasks, call'[u].at \in {"sweep", "gone"} PROVE ~Known(call[u].conn)'
  <2>1. call'[u] = call[u]
    BY <1>5 DEF Stays
  <2>2. call[u].conn \in Conns
    BY <1>5, <2>1 DEF Wired, Fits
  <2> QED
    BY <1>2, <1>5, <2>1, <2>2 DEF Agreed, GoneUnknown, Known
<1>6. ASSUME NEW u \in Tasks, call[u].at = "sweep" PROVE call'[u].at = "sweep"
  BY <1>6 DEF Stays
<1>7. \A u \in Tasks : Leaving(call'[u]) => Leaving(call[u])'
  BY <1>3, <1>4 DEF Leaving
<1>8. active \notin {None, current} => \E u \in Tasks : Leaving(call[u])'
  <2> SUFFICES ASSUME active \notin {None, current} PROVE \E u \in Tasks : Leaving(call[u])'
    OBVIOUS
  <2>1. PICK u \in Tasks : Leaving(call[u])
    BY DEF Agreed, ActiveAgrees
  <2>2. CASE Leaving(call'[u])
    BY <1>7, <2>2
  <2>3. CASE ~Known(active)
    <3>1. PICK v \in Tasks : call'[v].at = "sweep"
      BY <1>3, <1>4, <2>3 DEF ActiveExists, Known
    <3> QED
      BY <1>4, <2>3, <3>1 DEF Leaving
  <2> QED
    BY <2>1, <2>2, <2>3 DEF Stays
<1>9. ActiveAgrees'
  BY <1>3, <1>4, <1>6, <1>8 DEF Agreed, ActiveAgrees
<1>10. GoneUnknown'
  BY <1>5 DEF GoneUnknown
<1> QED
  BY <1>1, <1>9, <1>10 DEF Agreed

\* One call goes on.
LEMMA BecomeAgrees ==
    ASSUME TypeOK, Wired, Agreed, ActiveExists', UseKept, Named,
           NEW t \in Tasks, NEW r, Become(t, r), call[t].at # "sweep",
           r.at \notin {"sweep", "gone"}, Moves(call[t], r),
           Leaving(call[t]) => Leaving(r) \/ ~Known(active)
    PROVE  Agreed'
<1> DEFINE q == IF r.at = "idle" THEN Idle ELSE r
<1>1. Stays(call[t], q)
  BY DEF Stays, Moves, Leaving, Unborn, Idle, None
<1>2. call' = [call EXCEPT ![t] = q]
  BY DEF Become
<1> HIDE DEF q
<1>3. \A u \in Tasks : call'[u] = IF u = t THEN q ELSE call[u]
  BY <1>2 DEF TypeOK
<1>4. \A u \in Tasks : Stays(call[u], call[u])
  BY DEF Stays, Moves
<1>5. \A u \in Tasks : Stays(call[u], call'[u])
  BY <1>1, <1>3, <1>4
<1> QED
  BY <1>5, AgreeKept

LEMMA HeldSame ==
    ASSUME UseKept, UNCHANGED <<savedId, saved, extra>>
    PROVE  Named
BY DEF UseKept, Named, Held, Known

\* Places that say something of the connection of a call.
Telling == {"login", "issued", "sweep", "gone"}

LEMMA CallAgrees ==
    ASSUME TypeOK, Wired, Agreed, ActiveExists', UseKept, Named,
           NEW t \in Tasks, NEW r, Become(t, r), call[t].at # "sweep", r.at \notin Telling,
           r.conn \in {call[t].conn, None} \/ Held(r.conn),
           Leaving(call[t]) => Leaving(r) \/ ~Known(active)
    PROVE  Agreed'
<1>1. Moves(call[t], r)
  BY DEF Moves, Unborn, Telling
<1> QED
  BY <1>1, BecomeAgrees DEF Telling

LEMMA ResumeAgrees ==
    ASSUME TypeOK, Wired, Agreed, ActiveExists', UseKept, UNCHANGED <<savedId, saved, extra>>,
           NEW t \in Tasks, NEW p, Become(t, Resume(t, p)), call[t].at # "sweep",
           p \notin Telling, Leaving(call[t]) => p = "left" \/ ~Known(active)
    PROVE  Agreed'
<1> DEFINE r == Resume(t, p)
<1>1. r.at = p /\ r.conn = call[t].conn
  BY ResumeFields
<1>2. Become(t, r)
  OBVIOUS
<1> HIDE DEF r
<1>3. p = "left" => Leaving(r)
  BY <1>1 DEF Leaving
<1> QED
  BY <1>1, <1>2, <1>3, HeldSame, CallAgrees

LEMMA GotoAgrees ==
    ASSUME TypeOK, Wired, Agreed, ActiveExists', UseKept, Named,
           NEW t \in Tasks, NEW p, Goto(t, p), call[t].at # "sweep",
           p \notin Telling, ~Leaving(call[t])
    PROVE  Agreed'
<1> DEFINE r == [call[t] EXCEPT !.at = p]
<1>1. r.at = p /\ r.conn = call[t].conn
  BY DEF TypeOK, Calls
<1>2. Become(t, r)
  BY DEF Goto
<1> HIDE DEF r
<1> QED
  BY <1>1, <1>2, CallAgrees

LEMMA ContinueAgrees ==
    ASSUME TypeOK, Wired, Agreed, ActiveExists', NEW t \in Tasks, NEW p, Continue(t, p),
           call[t].at # "sweep", p \notin Telling, ~Leaving(call[t])
    PROVE  Agreed'
BY ResumeAgrees DEF Continue, UseKept, persisted, window

LEMMA UpdateAgrees ==
    ASSUME TypeOK, Wired, Agreed, ActiveExists', NEW t \in Tasks, NEW c \in Conns,
           NEW s \in States, NEW k, NEW e, Update(t, c, s, k, e), call[t].at # "sweep",
           k \notin Telling, e \notin Telling,
           Leaving(call[t]) => k = "left" /\ c = active
    PROVE  Agreed'
<1>1. UNCHANGED <<savedId, saved, extra, active, follows, current>>
  BY DEF Update, window
<1>2. \A d \in Conns : store'[d] = None <=> store[d] = None
  BY NoneIsNone DEF Update, TypeOK, Known
<1>3. UseKept
  BY <1>1, <1>2 DEF UseKept
<1> DEFINE w == [call[t] EXCEPT !.at = "mark", !.target = c, !.then = k, !.saw = s]
<1>4. w.at = "mark" /\ w.conn = call[t].conn /\ w.then = k /\ w.target = c
  BY DEF TypeOK, Calls
<1>5. \/ ~Known(c) /\ Become(t, Resume(t, e))
      \/ Become(t, Resume(t, k)) \/ Become(t, w)
  BY DEF Update
<1> HIDE DEF w
<1>6. CASE ~Known(c) /\ Become(t, Resume(t, e))
  BY <1>1, <1>3, <1>6, ResumeAgrees
<1>7. CASE Become(t, Resume(t, k))
  BY <1>1, <1>3, <1>7, ResumeAgrees
<1>8. CASE Become(t, w)
  <2>1. Leaving(call[t]) => Leaving(w)
    BY <1>4 DEF Leaving
  <2>2. w.at \notin Telling
    BY <1>4 DEF Telling
  <2> QED
    BY <1>1, <1>3, <1>4, <1>8, <2>1, <2>2, HeldSame, CallAgrees
<1> QED
  BY <1>5, <1>6, <1>7, <1>8

LEMMA ValidateAgrees ==
    ASSUME TypeOK, Wired, Agreed, ActiveExists', UseKept, Named,
           NEW t \in Tasks, NEW c, NEW p \in {"activate", "adopt"}, Validate(t, c, p),
           c \in {call[t].conn, None}, call[t].at # "sweep", ~Leaving(call[t])
    PROVE  Agreed'
<1> DEFINE r == [call[t] EXCEPT !.conn = c, !.at = IF Known(c) THEN "ask" ELSE p,
                                !.then = IF Known(c) THEN p ELSE None]
<1>1. r.at \in {"ask", "activate", "adopt"} /\ r.conn = c
  BY DEF TypeOK, Calls
<1>2. Become(t, r)
  BY DEF Validate
<1> HIDE DEF r
<1> QED
  BY <1>1, <1>2, CallAgrees DEF Telling

\* A call begins, for a connection that the window names.
LEMMA BeginAgrees ==
    ASSUME TypeOK, Wired, Agreed, ActiveExists', UseKept, UNCHANGED <<savedId, saved, extra>>,
           NEW t \in Tasks, call[t] = Idle, NEW r, Become(t, r), r.at \notin Telling,
           r.conn = None \/ Held(r.conn)
    PROVE  Agreed'
<1>1. call[t].at # "sweep" /\ ~Leaving(call[t])
  BY DEF Idle, Leaving
<1> QED
  BY <1>1, HeldSame, CallAgrees

\* Where nobody is on the way to drop the active connection.
Apace == {"idle", "ask", "judge", "activate", "auth", "login", "joined", "issued", "granted",
          "denied", "prompt", "added", "keep", "kept", "erase", "gone", "unsave", "load",
          "look", "adopt", "list", "extra"}

LEMMA PlainStep ==
    ASSUME TypeOK, Wired, Agreed, ActiveExists', NEW t \in Tasks,
           \/ Answered(t) \/ Unreachable(t) \/ Judge(t) \/ Authenticate(t) \/ LogIn(t)
           \/ LogInFails(t) \/ LogInUnreachable(t) \/ Issued(t) \/ GotToken(t) \/ Invalid(t)
           \/ Accept(t) \/ Decline(t) \/ Added(t) \/ Keep(t) \/ Kept(t) \/ Leave(t)
           \/ Revoke(t) \/ Revoked(t) \/ Unsave(t) \/ Load(t) \/ Look(t) \/ Adopt(t)
           \/ List(t) \/ NoExtra(t)
    PROVE  Agreed'
<1> USE DEF persisted, window, history
<1>1. Fits(call[t]) /\ call[t] \in Calls
  BY DEF Wired, TypeOK
<1>2. call[t].at \in Apace => call[t].at # "sweep" /\ ~Leaving(call[t])
  BY DEF Apace, Leaving
<1>4. CASE Answered(t)
  <2> DEFINE r == [call[t] EXCEPT !.at = "judge",
                                !.saw = IF token[call[t].conn] THEN "valid" ELSE "invalid"]
  <2>1. r.at = "judge" /\ r.conn = call[t].conn
    BY <1>1 DEF Calls
  <2>2. Become(t, r) /\ call[t].at = "ask"
    BY <1>4 DEF Answered
  <2>3. UseKept /\ UNCHANGED <<savedId, saved, extra>>
    BY <1>4 DEF Answered, UseKept
  <2> HIDE DEF r
  <2> QED
    BY <1>2, <2>1, <2>2, <2>3, HeldSame, CallAgrees DEF Telling, Apace
<1>5. CASE Unreachable(t)
  BY <1>5, <1>1, <1>2, ContinueAgrees DEF Unreachable, Caught, Telling, Apace
<1>6. CASE Judge(t)
  <2>1. /\ call[t].at \in Apace /\ call[t].conn \in Conns /\ call[t].saw \in States
        /\ call[t].then \notin Telling /\ Caught(t) \notin Telling
    BY <1>6, <1>1 DEF Judge, Fits, Caught, Telling, Apace, States
  <2> QED
    BY <1>6, <1>2, <2>1, UpdateAgrees DEF Judge
<1>7. CASE Authenticate(t)
  <2>1. PICK r : /\ r.at \in {"joined", "login"} /\ r.conn = call[t].conn
                 /\ r.op = call[t].op /\ Become(t, r)
    BY <1>7, <1>1 DEF Authenticate, Calls
  <2>2. call[t].op # "create" /\ call[t].at \in Apace
    BY <1>7, <1>1 DEF Authenticate, Fits, Authenticating, Apace
  <2>3. UseKept /\ UNCHANGED <<savedId, saved, extra>>
    BY <1>7 DEF Authenticate, UseKept
  <2>4. Moves(call[t], r)
    BY <2>1, <2>2 DEF Moves, Unborn
  <2> QED
    BY <1>2, <2>1, <2>2, <2>3, <2>4, HeldSame, BecomeAgrees
<1>8. CASE LogIn(t)
  <2> DEFINE r == Resume(t, "issued")
  <2>1. r.at = "issued" /\ r.conn = call[t].conn /\ r.op = call[t].op
    BY ResumeFields
  <2>2. Become(t, r) /\ call[t].at = "login"
    BY <1>8 DEF LogIn
  <2>3. UseKept /\ UNCHANGED <<savedId, saved, extra>>
    BY <1>8 DEF LogIn, UseKept
  <2> HIDE DEF r
  <2>4. Moves(call[t], r)
    BY <2>1, <2>2 DEF Moves, Unborn
  <2> QED
    BY <1>2, <2>1, <2>2, <2>3, <2>4, HeldSame, BecomeAgrees DEF Apace
<1>9. CASE LogInFails(t)
  <2>1. call[t].conn \in Conns /\ call[t].saw \in States
    BY <1>9, <1>1 DEF LogInFails, Fits, States
  <2> QED
    BY <1>9, <1>2, <2>1, UpdateAgrees DEF LogInFails, Telling, Apace
<1>10. CASE LogInUnreachable(t)
  BY <1>10, <1>2, ContinueAgrees DEF LogInUnreachable, Telling, Apace
<1>11. CASE Issued(t)
  <2>1. call[t].conn \in Conns /\ "valid" \in States
    BY <1>11, <1>1 DEF Issued, Fits, States
  <2> QED
    BY <1>11, <1>2, <2>1, UpdateAgrees DEF Issued, Telling, Apace
<1>12. CASE GotToken(t)
  BY <1>12, <1>2, ContinueAgrees DEF GotToken, Telling, Apace
<1>13. CASE Invalid(t)
  <2>1. PICK k \in {"prompt", "auth", "idle"} : Update(t, call[t].conn, "invalid", k, "idle")
    BY <1>13 DEF Invalid
  <2>2. call[t].conn \in Conns /\ "invalid" \in States /\ call[t].at \in Apace
    BY <1>13, <1>1 DEF Invalid, Fits, States, Apace
  <2>3. k \notin Telling /\ "idle" \notin Telling
    BY DEF Telling
  <2> QED
    BY <1>2, <2>1, <2>2, <2>3, UpdateAgrees
<1>14. CASE Accept(t) \/ Decline(t) \/ NoExtra(t)
  BY <1>14, <1>2, ContinueAgrees DEF Accept, Decline, NoExtra, Telling, Apace
<1>15. CASE Added(t)
  <2>1. call[t].conn \in Conns /\ "valid" \in States
    BY <1>15, <1>1 DEF Added, Fits, States
  <2> QED
    BY <1>15, <1>2, <2>1, UpdateAgrees DEF Added, Telling, Apace
<1>16. CASE Keep(t)
  <2>1. UseKept /\ call[t].at = "keep" /\ Goto(t, "kept")
    BY <1>16 DEF Keep, UseKept
  <2>2. ~Unborn(call'[t])
    <3>1. call'[t].at = "kept"
      BY <2>1 DEF Goto, Become, TypeOK, Calls
    <3> QED
      BY <3>1 DEF Unborn
  <2>3. Named
    BY <1>16, <2>1, <2>2 DEF Keep, UseKept, Named, Held, Known
  <2> QED
    BY <1>2, <2>1, <2>3, GotoAgrees DEF Telling, Apace
<1>17. CASE Kept(t)
  <2>1. UseKept /\ call[t].at = "kept"
    BY <1>17 DEF Kept, UseKept
  <2>2. call'[t].at \in {"idle", "ask", "activate"}
    <3> DEFINE g == [call[t] EXCEPT !.at = "idle"]
               v == [call[t] EXCEPT !.conn = call[t].conn,
                        !.at = IF Known(call[t].conn) THEN "ask" ELSE "activate",
                        !.then = IF Known(call[t].conn) THEN "activate" ELSE None]
    <3>1. g.at = "idle" /\ v.at \in {"ask", "activate"}
      BY <1>1 DEF Calls
    <3>2. Become(t, g) \/ Become(t, v)
      BY <1>17 DEF Kept, Validate, Goto
    <3> HIDE DEF g, v
    <3> QED
      BY <3>1, <3>2 DEF Become, Idle, TypeOK
  <2>3. Named
    BY <1>17, <2>1, <2>2 DEF Kept, UseKept, Named, Held, Known, Unborn
  <2>4. CASE active = None
    BY <1>17, <1>2, <2>1, <2>3, <2>4, ValidateAgrees DEF Kept, Apace
  <2>5. CASE active # None
    BY <1>17, <1>2, <2>1, <2>3, <2>5, GotoAgrees DEF Kept, Telling, Apace
  <2> QED
    BY <2>4, <2>5
<1>18. CASE Leave(t)
  <2> DEFINE r == [call[t] EXCEPT !.at = "revoke", !.target = active, !.then = "left"]
  <2>1. r.at = "revoke" /\ r.conn = call[t].conn /\ r.target = active /\ r.then = "left"
    BY <1>1 DEF Calls
  <2>2. call[t].at = "leave" /\ IF Known(active) THEN Become(t, r) ELSE Become(t, Idle)
    BY <1>18 DEF Leave
  <2>3. UseKept /\ UNCHANGED <<savedId, saved, extra>>
    BY <1>18 DEF Leave, UseKept
  <2> HIDE DEF r
  <2>4. Leaving(r) /\ r.at \notin Telling
    BY <2>1 DEF Leaving, Telling
  <2>5. Idle.at \notin Telling /\ Idle.conn = None
    BY DEF Idle, Telling
  <2> QED
    BY <2>1, <2>2, <2>3, <2>4, <2>5, HeldSame, CallAgrees
<1>19. CASE Revoke(t)
  <2> DEFINE r == [call[t] EXCEPT !.at = "revoked"]
  <2>1. /\ r.at = "revoked" /\ r.conn = call[t].conn
        /\ r.then = call[t].then /\ r.target = call[t].target
    BY <1>1 DEF Calls
  <2>2. Become(t, r) /\ call[t].at = "revoke"
    BY <1>19 DEF Revoke, Goto
  <2>3. UseKept /\ UNCHANGED <<savedId, saved, extra>>
    BY <1>19 DEF Revoke, UseKept
  <2> HIDE DEF r
  <2>4. Leaving(call[t]) => Leaving(r)
    BY <2>1, <2>2 DEF Leaving
  <2> QED
    BY <2>1, <2>2, <2>3, <2>4, HeldSame, CallAgrees DEF Telling
<1>20. CASE Revoked(t)
  <2>1. /\ call[t].target \in Conns /\ "invalid" \in States /\ call[t].at = "revoked"
        /\ call[t].then \in {"left", "erase"}
    BY <1>20, <1>1 DEF Revoked, Fits, States
  <2>2. Leaving(call[t]) => call[t].then = "left" /\ call[t].target = active
    BY <2>1 DEF Leaving
  <2>3. call[t].then \notin Telling /\ "idle" \notin Telling
    BY <2>1 DEF Telling
  <2> QED
    BY <1>20, <2>1, <2>2, <2>3, UpdateAgrees DEF Revoked
<1>21. CASE Unsave(t)
  <2> DEFINE r == [Resume(t, After(t)) EXCEPT !.conn = None]
  <2>1. r.at = After(t) /\ r.conn = None /\ After(t) \notin Telling
    BY DEF TypeOK, Calls, Resume, After, Telling
  <2>2. Become(t, r) /\ call[t].at = "unsave"
    BY <1>21 DEF Unsave
  <2>3. UseKept /\ UNCHANGED <<savedId, extra>> /\ saved' = None
    BY <1>21 DEF Unsave, UseKept
  <2> HIDE DEF r
  <2>4. Named
    BY <2>3, NoneIsNone DEF UseKept, Named, Held, Known
  <2> QED
    BY <1>2, <2>1, <2>2, <2>3, <2>4, CallAgrees DEF Apace
<1>22. CASE Load(t)
  <2> DEFINE r == [call[t] EXCEPT !.at = IF savedId = None THEN "adopt" ELSE "look",
                                !.conn = savedId]
  <2>1. r.at \in {"adopt", "look"} /\ r.conn = savedId
    BY <1>1 DEF Calls
  <2>2. Become(t, r) /\ call[t].at = "load"
    BY <1>22 DEF Load
  <2>3. UseKept /\ UNCHANGED <<savedId, saved, extra>> /\ Held(savedId)
    BY <1>22 DEF Load, UseKept, Held
  <2> HIDE DEF r
  <2> QED
    BY <1>2, <2>1, <2>2, <2>3, HeldSame, CallAgrees DEF Telling, Apace
<1>23. CASE Look(t)
  <2>1. UseKept /\ call[t].at = "look" /\ UNCHANGED <<saved, extra>> /\ savedId' \in {savedId, None}
    BY <1>23 DEF Look, UseKept
  <2>2. Named
    BY <2>1, NoneIsNone DEF UseKept, Named, Held, Known
  <2> QED
    BY <1>23, <1>2, <2>1, <2>2, ValidateAgrees DEF Look, Apace
<1>24. CASE Adopt(t)
  <2> DEFINE r == [call[t] EXCEPT !.at = "list",
                        !.conn = IF call[t].conn # None THEN call[t].conn ELSE follows]
  <2>1. r.at = "list" /\ r.conn \in {call[t].conn, follows}
    BY <1>1 DEF Calls
  <2>2. (Become(t, r) \/ Become(t, Idle)) /\ call[t].at = "adopt" /\ saved' = call[t].conn
    BY <1>24 DEF Adopt
  <2> HIDE DEF r
  <2>3. UseKept /\ UNCHANGED <<savedId, extra>> /\ Held(follows)
    BY <1>24 DEF Adopt, UseKept, Held
  <2>4. call'[t].at \in {"list", "idle"}
    BY <2>1, <2>2 DEF Become, Idle, TypeOK
  <2>5. Named
    BY <2>2, <2>3, <2>4 DEF UseKept, Named, Held, Known, Unborn
  <2>6. /\ r.at \notin Telling /\ Idle.at \notin Telling /\ Idle.conn = None
        /\ r.conn = call[t].conn \/ Held(r.conn)
    BY <2>1, <2>3 DEF Idle, Telling
  <2> QED
    BY <1>2, <2>2, <2>3, <2>5, <2>6, CallAgrees DEF Apace
<1>25. CASE List(t)
  <2> DEFINE r == [call[t] EXCEPT !.at = "extra", !.conn = None]
  <2>1. r.at = "extra" /\ r.conn = None
    BY <1>1 DEF Calls
  <2>2. Become(t, r) /\ call[t].at = "list"
    BY <1>25 DEF List
  <2> HIDE DEF r
  <2>3. UseKept /\ UNCHANGED <<savedId, saved>> /\ \A c \in extra' : Known(c)
    BY <1>25 DEF List, UseKept
  <2>4. Named
    BY <2>3 DEF UseKept, Named, Held, Known
  <2> QED
    BY <1>2, <2>1, <2>2, <2>3, <2>4, CallAgrees DEF Telling, Apace
<1> QED
  BY <1>4, <1>5, <1>6, <1>7, <1>8, <1>9, <1>10, <1>11, <1>12, <1>13, <1>14, <1>15, <1>16,
     <1>17, <1>18, <1>19, <1>20, <1>21, <1>22, <1>23, <1>24, <1>25

LEMMA ManyAgree ==
    ASSUME TypeOK, Wired, Agreed, ActiveExists', NEW t \in Tasks, Mark(t) \/ Resolve(t)
    PROVE  Agreed'
<1>1. UseKept /\ UNCHANGED <<savedId, saved, extra>>
  BY DEF Mark, Resolve, UseKept, persisted, window
<1>2. Fits(call[t])
  BY DEF Wired
<1>3. ASSUME NEW u \in Tasks PROVE Stays(call[u], call'[u])
  <2>1. CASE call'[u] = call[u]
    BY <2>1 DEF Stays, Moves
  <2>2. ASSUME call'[u].at \notin Telling, call'[u].conn \in {call[u].conn, None},
               call[u].at # "sweep", Leaving(call[u]) => Leaving(call'[u])
        PROVE  Stays(call[u], call'[u])
    BY <2>2 DEF Stays, Moves, Unborn, Telling
  <2>3. CASE Mark(t) /\ u = t
    <3>1. call'[t] = IF call[t].then = "idle" THEN Idle ELSE Resume(t, call[t].then)
      BY <2>3 DEF Mark
    <3>2. call[t].at = "mark" /\ call[t].then \notin Telling
      BY <2>3, <1>2 DEF Mark, Fits, Telling
    <3>3. Leaving(call[t]) => call[t].then = "left"
      BY <3>2 DEF Leaving
    <3>4. Resume(t, call[t].then).at = "left" => Leaving(Resume(t, call[t].then))
      BY DEF Leaving
    <3>5. Idle.at \notin Telling /\ Idle.conn = None
      BY DEF Idle, Telling
    <3> QED
      BY <2>2, <2>3, <3>1, <3>2, <3>3, <3>4, <3>5, ResumeFields
  <2>4. CASE Mark(t) /\ u # t /\ call'[u] # call[u]
    <3>1. call[u].at = "prompt" /\ call'[u] = Idle
      BY <2>4 DEF Mark
    <3> QED
      BY <2>2, <3>1 DEF Idle, Telling, Leaving
  <2>5. CASE Resolve(t) /\ call'[u] # call[u]
    <3>1. /\ call[u].at \in {"granted", "denied", "joined"}
          /\ call'[u] = Idle \/ call'[u] = [call[u] EXCEPT !.at = "keep"]
      BY <2>5 DEF Resolve, Authenticated
    <3>2. call'[u].at \in {"idle", "keep"} /\ call'[u].conn \in {None, call[u].conn}
      BY <3>1 DEF Idle, TypeOK, Calls
    <3> QED
      BY <2>2, <3>1, <3>2 DEF Telling, Leaving
  <2> QED
    BY <2>1, <2>3, <2>4, <2>5
<1> QED
  BY <1>1, <1>3, HeldSame, AgreeKept

\* What the connection in use is for the calls that come after a step of t.
LEMMA StepUnborn ==
    ASSUME TypeOK, Wired, Agreed, Named, NEW t \in Tasks, NEW q,
           call' = [call EXCEPT ![t] = q], Moves(call[t], q)
    PROVE  UnbornUnknown'
<1>1. \A u \in Tasks : call'[u] = IF u = t THEN q ELSE call[u]
  BY DEF TypeOK
<1>2. \A u \in Tasks : Moves(call[u], call'[u])
  BY <1>1 DEF Moves
<1> QED
  BY <1>2, UnbornKept DEF Agreed

LEMMA ActivateAgrees ==
    ASSUME TypeOK, Wired, Agreed, ActiveExists', NEW t \in Tasks, Activate(t)
    PROVE  Agreed'
<1>1. call[t].at = "activate" /\ ~Leaving(call[t])
  BY DEF Activate, Leaving
<1>2. PICK p \in {"load", "idle"} : Goto(t, p)
  BY DEF Activate
<1>3. CASE ~Known(call[t].conn)
  <2>1. UseKept /\ UNCHANGED <<savedId, saved, extra>>
    BY <1>3 DEF Activate, UseKept
  <2> QED
    BY <1>1, <1>2, <2>1, HeldSame, GotoAgrees DEF Telling
<1>4. CASE Known(call[t].conn)
  <2> DEFINE q == IF p = "idle" THEN Idle ELSE [call[t] EXCEPT !.at = p]
  <2>1. call' = [call EXCEPT ![t] = q]
    BY <1>2 DEF Goto, Become, TypeOK, Calls
  <2>2. q.at \in {"load", "idle"} /\ q.conn \in {call[t].conn, None}
    BY DEF Idle, TypeOK, Calls
  <2> HIDE DEF q
  <2>3. Moves(call[t], q)
    BY <2>2 DEF Moves, Unborn
  <2>4. /\ active' = call[t].conn /\ follows' = call[t].conn /\ current' = call[t].conn
        /\ UNCHANGED <<store, savedId, saved, extra>>
    BY <1>4 DEF Activate
  <2>5. Named
    BY <1>4, <2>4 DEF Named, Held, Known
  <2>6. GoneUnknown'
    BY <2>1, <2>2, <2>4 DEF Agreed, GoneUnknown, Known, TypeOK
  <2> QED
    BY <2>1, <2>3, <2>4, <2>5, <2>6, StepUnborn DEF Agreed, ActiveAgrees
<1> QED
  BY <1>3, <1>4

LEMMA AddProfileAgrees ==
    ASSUME TypeOK, Wired, Agreed, ActiveExists', NEW t \in Tasks, AddProfile(t)
    PROVE  Agreed'
<1> DEFINE q == [call[t] EXCEPT !.at = "added"]
<1>1. call' = [call EXCEPT ![t] = q] /\ q.at = "added" /\ q.conn = call[t].conn
  BY DEF AddProfile, Goto, Become, TypeOK, Calls
<1> HIDE DEF q
<1>2. \A u \in Tasks : call'[u] = IF u = t THEN q ELSE call[u]
  BY <1>1 DEF TypeOK
<1>3. Unborn(call[t]) /\ call[t].at = "issued"
  BY DEF AddProfile, Unborn
<1>4. ~Held(call[t].conn) /\ \A u \in Tasks : call[u].conn = call[t].conn => u = t
  BY <1>3 DEF Agreed, UnbornUnknown
<1>5. /\ UNCHANGED <<active, follows, current, savedId, saved, extra>>
      /\ \A c \in Conns : c # call[t].conn => store'[c] = store[c]
  BY DEF AddProfile, TypeOK, window
<1>6. active # call[t].conn /\ active \in Conns \cup {None}
  BY <1>4 DEF Held, TypeOK
<1>7. Known(active)' <=> Known(active)
  BY <1>5, <1>6 DEF Known
<1>8. ~Unborn(call'[t])
  BY <1>1, <1>2 DEF Unborn
<1>9. Named
  BY <1>5, <1>8 DEF Named, Held, Known
<1>10. Moves(call[t], q)
  BY <1>1 DEF Moves, Unborn
<1>11. UnbornUnknown'
  BY <1>1, <1>9, <1>10, StepUnborn
<1>12. GoneUnknown'
  <2> SUFFICES ASSUME NEW u \in Tasks, call'[u].at \in {"sweep", "gone"}
               PROVE  ~Known(call[u].conn)'
    BY DEF GoneUnknown
  <2>1. u # t /\ call'[u] = call[u] /\ call[u].conn \in Conns
    BY <1>1, <1>2 DEF Wired, Fits
  <2> QED
    BY <1>4, <1>5, <2>1 DEF Agreed, GoneUnknown, Known
<1>13. \A u \in Tasks : Leaving(call[u]) => Leaving(call[u])'
  BY <1>2, <1>3, <1>5, <1>7 DEF Leaving
<1>14. \A u \in Tasks : call[u].at = "sweep" => call'[u].at = "sweep"
  BY <1>2, <1>3
<1>15. ActiveAgrees'
  BY <1>5, <1>7, <1>13, <1>14 DEF Agreed, ActiveAgrees
<1> QED
  BY <1>11, <1>12, <1>15 DEF Agreed

LEMMA EraseAgrees ==
    ASSUME TypeOK, Wired, Agreed, ActiveExists', NEW t \in Tasks, Erase(t)
    PROVE  Agreed'
<1> DEFINE q == [call[t] EXCEPT !.at = "sweep"]
<1>1. call' = [call EXCEPT ![t] = q] /\ q.at = "sweep" /\ q.conn = call[t].conn
  BY DEF Erase, Goto, Become, TypeOK, Calls
<1> HIDE DEF q
<1>2. \A u \in Tasks : call'[u] = IF u = t THEN q ELSE call[u]
  BY <1>1 DEF TypeOK
<1>3. /\ UNCHANGED <<current, savedId, saved, extra>>
      /\ store' = [store EXCEPT ![call[t].conn] = None]
  BY DEF Erase
<1>4. \A c : c \in Conns /\ store[c] = None => store'[c] = None
  BY <1>3 DEF TypeOK
<1>5. active' \in {active, None} /\ follows' \in {follows, None}
  BY DEF Erase
<1>6. Named
  BY <1>3, <1>4, <1>5, NoneIsNone DEF Named, Held, Known
<1>7. Moves(call[t], q)
  BY <1>1 DEF Moves, Unborn
<1>8. UnbornUnknown'
  BY <1>1, <1>6, <1>7, StepUnborn
<1>9. GoneUnknown'
  <2> SUFFICES ASSUME NEW u \in Tasks, call'[u].at \in {"sweep", "gone"}
               PROVE  ~Known(call[u].conn)'
    BY DEF GoneUnknown
  <2>1. call'[u].conn = call[u].conn /\ call[u].conn \in Conns
    BY <1>1, <1>2 DEF Wired, Fits, Erase
  <2>2. CASE u = t
    BY <1>3, <2>1, <2>2 DEF Known, TypeOK
  <2>3. CASE u # t
    <3>1. ~Known(call[u].conn)
      BY <1>2, <2>3 DEF Agreed, GoneUnknown
    <3>2. store[call[u].conn] = None
      BY <2>1, <3>1, NoneIsNone DEF Known
    <3> QED
      BY <1>4, <2>1, <3>2 DEF Known
  <2> QED
    BY <2>2, <2>3
<1>10. CASE call[t].at = "left"
  BY <1>8, <1>9, <1>10 DEF Erase, Agreed, ActiveAgrees
<1>11. CASE call[t].at = "erase"
  <2>1. active' = active /\ follows' = follows /\ active \in Conns \cup {None}
    BY <1>11 DEF Erase, TypeOK
  <2>2. ~Known(active) => ~Known(active)'
    BY <1>4, <2>1 DEF Known
  <2>3. ASSUME NEW u \in Tasks, Leaving(call[u]) PROVE Leaving(call[u])'
    <3>1. u # t
      BY <1>11, <2>3 DEF Leaving
    <3> QED
      BY <1>2, <2>1, <2>2, <2>3, <3>1 DEF Leaving
  <2>4. \A u \in Tasks : call[u].at = "sweep" => call'[u].at = "sweep"
    BY <1>1, <1>2
  <2>5. ActiveAgrees'
    BY <1>3, <2>1, <2>2, <2>3, <2>4 DEF Agreed, ActiveAgrees
  <2> QED
    BY <1>8, <1>9, <2>5 DEF Agreed
<1> QED
  BY <1>10, <1>11 DEF Erase

\* The end of a deletion, which found no profile of the connection.
LEMMA DeletedAgrees ==
    ASSUME TypeOK, Wired, Agreed, ActiveExists', NEW t \in Tasks, Deleted(t),
           call[t].conn \in Conns, ~Known(call[t].conn),
           \/ call[t].at \in {"judge", "gone"} /\ active' = active
           \/ call[t].at = "sweep" /\ active' = IF Known(active) THEN active ELSE None
    PROVE  Agreed'
<1>1. \E q : /\ call' = [call EXCEPT ![t] = q]
             /\ q.at \in {"unsave", "extra", "idle"} /\ q.conn \in {call[t].conn, None}
  <2> DEFINE a == Resume(t, "unsave")
             b == [Resume(t, After(t)) EXCEPT !.conn = None]
  <2>1. a.at = "unsave" /\ a.conn = call[t].conn
    BY ResumeFields
  <2>2. b.at \in {"extra", "idle"} /\ b.conn = None
    BY DEF Resume, After, TypeOK, Calls
  <2>3. Become(t, a) \/ Become(t, b)
    BY DEF Deleted
  <2> HIDE DEF a, b
  <2> QED
    BY <2>1, <2>2, <2>3 DEF Become, Idle
<1>2. PICK q : /\ call' = [call EXCEPT ![t] = q]
               /\ q.at \in {"unsave", "extra", "idle"} /\ q.conn \in {call[t].conn, None}
  BY <1>1
<1>3. \A u \in Tasks : call'[u] = IF u = t THEN q ELSE call[u]
  BY <1>2 DEF TypeOK
<1>4. /\ UNCHANGED <<store, current, saved, extra>> /\ savedId' \in {savedId, None}
      /\ follows' = IF follows = call[t].conn \/ active' # active THEN None ELSE follows
  BY DEF Deleted
<1>5. active' \in {active, None} /\ active \in Conns \cup {None} /\ follows \in {active, None}
  BY DEF TypeOK, Agreed, ActiveAgrees
<1>6. Named
  BY <1>4, <1>5, NoneIsNone DEF Named, Held, Known
<1>7. Moves(call[t], q)
  BY <1>2 DEF Moves, Unborn
<1>8. UnbornUnknown'
  BY <1>2, <1>6, <1>7, StepUnborn
<1>9. GoneUnknown'
  <2> SUFFICES ASSUME NEW u \in Tasks, call'[u].at \in {"sweep", "gone"}
               PROVE  ~Known(call[u].conn)' /\ call'[u] = call[u]
    BY DEF GoneUnknown, Known
  <2>1. call'[u] = call[u]
    BY <1>2, <1>3
  <2> QED
    BY <1>4, <2>1 DEF Agreed, GoneUnknown, Known
<1>10. CASE active' = None
  BY <1>4, <1>5, <1>8, <1>9, <1>10 DEF Agreed, ActiveAgrees
<1>11. CASE active' = active /\ active # None
  <2>1. call[t].at = "sweep" => Known(active)
    BY <1>11
  <2>2. Known(active)' <=> Known(active)
    BY <1>4, <1>11 DEF Known
  <2>3. ASSUME NEW u \in Tasks, Leaving(call[u]) PROVE Leaving(call[u])'
    <3>1. u # t
      BY <2>1, <2>3 DEF Leaving
    <3> QED
      BY <1>3, <1>11, <2>2, <2>3, <3>1 DEF Leaving
  <2>4. active \notin {None, current} => \E u \in Tasks : Leaving(call[u])'
    BY <2>3 DEF Agreed, ActiveAgrees
  <2>5. ASSUME active # follows'
        PROVE  ~Known(active) /\ \E u \in Tasks : call'[u].at = "sweep"
    <3>1. ~Known(active)
      BY <1>4, <1>5, <1>11, <2>5 DEF Agreed, ActiveAgrees
    <3>2. store'[active'] = None /\ active' # None
      BY <1>4, <1>11, <3>1 DEF Known
    <3> QED
      BY <3>1, <3>2 DEF ActiveExists
  <2>6. ActiveAgrees'
    BY <1>4, <1>5, <1>11, <2>2, <2>4, <2>5 DEF ActiveAgrees
  <2> QED
    BY <1>8, <1>9, <2>6 DEF Agreed
<1> QED
  BY <1>5, <1>10, <1>11

\* The beginning of a deletion.
LEMMA DeleteAgrees ==
    ASSUME TypeOK, Wired, Agreed, ActiveExists', NEW t \in Tasks, NEW o, o # "create",
           NEW c \in Conns, Held(c), Delete(t, o, c), call[t].at \in {"idle", "extra"},
           UNCHANGED <<store, savedId, active, follows, saved>>, extra' \subseteq extra
    PROVE  Agreed'
<1> DEFINE g == [[Idle EXCEPT !.op = o, !.conn = c] EXCEPT !.at = "gone"]
           l == [[Idle EXCEPT !.op = o, !.conn = c] EXCEPT !.at = "leave"]
           r == [[Idle EXCEPT !.op = o, !.conn = c]
                    EXCEPT !.at = "revoke", !.target = c, !.then = "erase"]
<1>1. /\ g.at = "gone" /\ g.conn = c
      /\ l.at = "leave" /\ l.conn = c
      /\ r.at = "revoke" /\ r.conn = c
  BY DEF Idle
<1>2. \/ ~Known(c) /\ call' = [call EXCEPT ![t] = g] /\ current' = current
      \/ Known(c) /\ active = c /\ call' = [call EXCEPT ![t] = l] /\ current' = None
      \/ call' = [call EXCEPT ![t] = r] /\ current' = current
  BY <1>1 DEF Delete, Become
<1> HIDE DEF g, l, r
<1>3. PICK q : /\ call' = [call EXCEPT ![t] = q]
               /\ q.conn = c /\ q.at \in {"gone", "leave", "revoke"}
               /\ q.at = "gone" => ~Known(c)
               /\ current' # current => q.at = "leave"
  BY <1>1, <1>2
<1>4. \A u \in Tasks : call'[u] = IF u = t THEN q ELSE call[u]
  BY <1>3 DEF TypeOK
<1>5. current' \in {current, None}
  BY <1>2
<1>6. Named
  BY <1>5, NoneIsNone DEF Named, Held, Known
<1>7. Moves(call[t], q)
  BY <1>3 DEF Moves, Unborn
<1>8. UnbornUnknown'
  BY <1>3, <1>6, <1>7, StepUnborn
<1>9. GoneUnknown'
  <2> SUFFICES ASSUME NEW u \in Tasks, call'[u].at \in {"sweep", "gone"}
               PROVE  ~Known(call'[u].conn)
    BY DEF GoneUnknown, Known
  <2> QED
    BY <1>3, <1>4 DEF Agreed, GoneUnknown
<1>10. \A u \in Tasks : call[u].at = "sweep" => call'[u].at = "sweep"
  BY <1>4
<1>11. ASSUME active \notin {None, current'} PROVE \E u \in Tasks : Leaving(call[u])'
  <2>1. CASE q.at = "leave"
    <3>1. call'[t].at = "leave"
      BY <1>4, <2>1
    <3> QED
      BY <3>1 DEF Leaving
  <2>2. CASE q.at # "leave"
    <3>1. PICK u \in Tasks : Leaving(call[u])
      BY <1>3, <1>11, <2>2 DEF Agreed, ActiveAgrees
    <3>2. call'[u] = call[u]
      BY <1>4, <3>1 DEF Leaving
    <3> QED
      BY <3>1, <3>2 DEF Leaving, Known
  <2> QED
    BY <2>1, <2>2
<1>12. ActiveAgrees'
  BY <1>10, <1>11 DEF Agreed, ActiveAgrees, Known
<1> QED
  BY <1>8, <1>9, <1>12 DEF Agreed

LEMMA CreateAgrees ==
    ASSUME TypeOK, Wired, Agreed, ActiveExists', NEW t \in Tasks, NEW c \in Conns, Create(t, c)
    PROVE  Agreed'
<1> DEFINE q == [Idle EXCEPT !.op = "create", !.at = "login", !.conn = c]
<1>1. q.at = "login" /\ q.conn = c
  BY DEF Idle
<1>2. call' = [call EXCEPT ![t] = q] /\ call[t] = Idle
  BY <1>1 DEF Create, Begin, Become
<1> HIDE DEF q
<1>3. \A u \in Tasks : call'[u] = IF u = t THEN q ELSE call[u]
  BY <1>2 DEF TypeOK
<1>4. UNCHANGED <<store, current, savedId, active, follows, saved, extra>>
  BY DEF Create, persisted, window
<1>5. ~Held(c) /\ \A u \in Tasks : call[u].conn # c
  BY DEF Create, Fresh, Held
<1>6. UnbornUnknown'
  <2> SUFFICES ASSUME NEW u \in Tasks, Unborn(call'[u])
               PROVE  /\ ~Held(call'[u].conn)
                      /\ \A v \in Tasks : call'[v].conn = call'[u].conn => v = u
    BY <1>4 DEF UnbornUnknown, Unborn, Held, Known
  <2>1. CASE u = t
    BY <1>1, <1>3, <1>5, <2>1
  <2>2. CASE u # t
    BY <1>1, <1>3, <1>5, <2>2 DEF Agreed, UnbornUnknown
  <2> QED
    BY <2>1, <2>2
<1>7. GoneUnknown'
  <2> SUFFICES ASSUME NEW u \in Tasks, call'[u].at \in {"sweep", "gone"}
               PROVE  ~Known(call'[u].conn)
    BY <1>4 DEF GoneUnknown, Known
  <2> QED
    BY <1>1, <1>3 DEF Agreed, GoneUnknown
<1>8. \A u \in Tasks : call[u].at # "idle" => call'[u] = call[u]
  BY <1>2, <1>3 DEF Idle
<1>9. \A u \in Tasks : Leaving(call[u]) => Leaving(call[u])'
  BY <1>4, <1>8 DEF Leaving, Known
<1>10. ActiveAgrees'
  BY <1>4, <1>8, <1>9 DEF Agreed, ActiveAgrees, Known
<1> QED
  BY <1>6, <1>7, <1>10 DEF Agreed

LEMMA RequestAgrees ==
    ASSUME TypeOK, Wired, Agreed, ActiveExists', NEW t \in Tasks,
           \/ Start(t) \/ Reload(t) \/ GetToken(t) \/ Check(t) \/ Reauthenticate(t)
           \/ \E c \in Conns : Connect(t, c)
    PROVE  Agreed'
<1>1. UseKept /\ UNCHANGED <<savedId, saved, extra>>
  BY DEF Start, Reload, Restore, GetToken, Check, Reauthenticate, Connect, UseKept,
     persisted, window
<1>2. \E r : /\ call[t] = Idle /\ Become(t, r) /\ r.at \in {"load", "ask", "activate", "auth", "keep"}
             /\ r.conn \in {current, Using} \/ Known(r.conn)
  <2>1. CASE Start(t) \/ Reload(t)
    <3>1. PICK o : Restore(t, o)
      BY <2>1 DEF Start, Reload
    <3> DEFINE p == IF current = None THEN "load" ELSE IF Known(current) THEN "ask" ELSE "activate"
               r == [Idle EXCEPT !.op = o, !.at = p, !.conn = current,
                                 !.then = IF p = "ask" THEN "activate" ELSE None]
    <3>2. r.at \in {"load", "ask", "activate"} /\ r.conn = current
      BY DEF Idle
    <3>3. Become(t, r) /\ call[t] = Idle
      BY <3>1 DEF Restore
    <3> QED
      BY <3>2, <3>3
  <2>2. ASSUME NEW o, NEW c, NEW p \in {"ask", "auth", "keep"}, Begin(t, o, c, p)
        PROVE  \E r : /\ call[t] = Idle /\ Become(t, r) /\ r.at = p /\ r.conn = c
    <3> DEFINE r == [Idle EXCEPT !.op = o, !.at = p, !.conn = c]
    <3>1. r.at = p /\ r.conn = c
      BY DEF Idle
    <3> QED
      BY <2>2, <3>1 DEF Begin
  <2>3. CASE GetToken(t)
    <3>1. Begin(t, "get", Using, "ask")
      BY <2>3 DEF GetToken
    <3> QED
      BY <2>2, <3>1
  <2>4. CASE Reauthenticate(t)
    <3>1. Begin(t, "reauth", Using, "auth")
      BY <2>4 DEF Reauthenticate
    <3> QED
      BY <2>2, <3>1
  <2>5. ASSUME NEW c \in Conns, Connect(t, c)
        PROVE  \E r : /\ call[t] = Idle /\ Become(t, r) /\ r.at \in {"auth", "keep"} /\ r.conn = c
                      /\ Known(c)
    <3>1. \E p \in {"auth", "keep"} : Begin(t, "connect", c, p)
      BY <2>5 DEF Connect
    <3> QED
      BY <2>2, <2>5, <3>1 DEF Connect
  <2>6. CASE Check(t)
    <3> DEFINE r == [Idle EXCEPT !.op = "check", !.at = "ask", !.conn = Using, !.then = "idle"]
    <3>1. r.at = "ask" /\ r.conn = Using
      BY DEF Idle
    <3> QED
      BY <2>6, <3>1 DEF Check
  <2> QED
    BY <2>1, <2>3, <2>4, <2>5, <2>6
<1>3. PICK r : /\ call[t] = Idle /\ Become(t, r) /\ r.at \in {"load", "ask", "activate", "auth", "keep"}
               /\ r.conn \in {current, Using} \/ Known(r.conn)
  BY <1>2
<1>4. Held(r.conn)
  BY <1>3 DEF Held, Using
<1> QED
  BY <1>1, <1>3, <1>4, BeginAgrees DEF Telling

LEMMA AgreeStep ==
    ASSUME TypeOK, Wired, Agreed, ActiveExists', [Next]_vars
    PROVE  Agreed'
<1>1. ASSUME NEW t \in Tasks, Orphaned(t) \/ Sweep(t) \/ Gone(t) PROVE Agreed'
  <2>1. Fits(call[t])
    BY DEF Wired
  <2>2. call[t].conn \in Conns
    BY <1>1, <2>1 DEF Orphaned, Sweep, Gone, Fits
  <2>3. ~Known(call[t].conn)
    BY <1>1 DEF Orphaned, Sweep, Gone, Agreed, GoneUnknown
  <2> QED
    BY <1>1, <2>2, <2>3, DeletedAgrees DEF Orphaned, Sweep, Gone
<1>2. ASSUME NEW t \in Tasks, NEW c \in Conns, DeleteExtra(t, c) PROVE Agreed'
  BY <1>2, DeleteAgrees DEF DeleteExtra, Held
<1>3. ASSUME NEW t \in Tasks, SignOut(t) PROVE Agreed'
  <2>1. PICK c \in Conns : c = Using
    BY <1>3 DEF SignOut, Using, TypeOK
  <2>2. Held(c) /\ call[t].at = "idle"
    BY <1>3, <2>1 DEF SignOut, Using, Held, Idle
  <2> QED
    BY <1>3, <2>1, <2>2, DeleteAgrees DEF SignOut, window
<1>4. ASSUME NEW t \in Tasks, Step(t) PROVE Agreed'
  BY <1>1, <1>2, <1>4, PlainStep, ManyAgree, ActivateAgrees, AddProfileAgrees, EraseAgrees DEF Step
<1>5. ASSUME NEW t \in Tasks, Reply(t) PROVE Agreed'
  BY <1>5, PlainStep DEF Reply
<1>6. ASSUME NEW t \in Tasks, Request(t) PROVE Agreed'
  BY <1>3, <1>6, RequestAgrees, CreateAgrees DEF Request
<1>7. CASE Restart
  <2>1. active' = None /\ follows' = None /\ \A u \in Tasks : call'[u] = Idle
    BY <1>7 DEF Restart
  <2>2. UnbornUnknown' /\ GoneUnknown'
    BY <2>1 DEF UnbornUnknown, GoneUnknown, Unborn, Idle, None
  <2> QED
    BY <2>1, <2>2 DEF Agreed, ActiveAgrees
<1>8. CASE UNCHANGED vars \/ \E c \in Conns : Expire(c)
  <2>1. UNCHANGED <<store, current, savedId, active, follows, saved, extra, call>>
    BY <1>8 DEF vars, Expire, window
  <2> QED
    BY <2>1 DEF Agreed, ActiveAgrees, UnbornUnknown, GoneUnknown, Leaving, Unborn, Held, Known
<1> QED
  BY <1>4, <1>5, <1>6, <1>7, <1>8 DEF Next

-----------------------------------------------------------------------------
(* The theorems *)

IInv == TypeOK /\ Wired /\ ActiveExists /\ HomeKept

LEMMA Initially == Init => IInv
<1> SUFFICES ASSUME Init PROVE IInv
  OBVIOUS
<1>1. TypeOK
  <2>1. call \in [Tasks -> Calls]
    BY IdleFits DEF Init, Fits
  <2>2. restarts \in 0..MaxRestarts
    BY AuthAssumption DEF Init
  <2> QED
    BY <2>1, <2>2 DEF Init, TypeOK
<1>2. Wired
  BY IdleFits DEF Init, Wired
<1> QED
  BY <1>1, <1>2 DEF IInv, Init, ActiveExists, HomeKept

\* The inductive invariant.
THEOREM Invariance == Spec => []IInv
<1>1. ASSUME IInv, [Next]_vars PROVE IInv'
  BY <1>1, Typing, ActiveStep, KeepStep DEF IInv
<1> QED
  BY <1>1, Initially, PTL DEF Spec

\* Types.
THEOREM TypeInvariant == Spec => []TypeOK
<1>1. IInv => TypeOK
  BY DEF IInv
<1> QED
  BY <1>1, Invariance, PTL

\* Whatever calls overlap, the active connection has a profile, but for the moment until
\* the deletion of its profile looks for it (useConnection, deleteConnection).
THEOREM NoGhostIsActive == Spec => []ActiveExists
<1>1. IInv => ActiveExists
  BY DEF IInv
<1> QED
  BY <1>1, Invariance, PTL

\* Auth, the global state and SecondaryAuth name the same connection in use, whatever
\* sign-ins, sign-outs, clean-ups and restorations overlap and at whatever await, but
\* for the rest of a call that is about to drop it (useConnection, logout, the events
\* of SecondaryAuth).
THEOREM ActiveIsOne == Spec => []ActiveAgrees
<1>1. Init => IInv /\ Agreed
  <2>1. Init => Agreed
    BY DEF Init, Agreed, ActiveAgrees, ActiveExists, UnbornUnknown, GoneUnknown, Unborn, Idle, None
  <2> QED
    BY <2>1, Initially
<1>2. ASSUME IInv, Agreed, [Next]_vars PROVE Agreed'
  <2>1. ActiveExists'
    BY <1>2, ActiveStep DEF IInv
  <2> QED
    BY <1>2, <2>1, AgreeStep DEF IInv
<1>3. Agreed => ActiveAgrees
  BY DEF Agreed
<1> QED
  BY <1>1, <1>2, <1>3, Invariance, PTL DEF Spec

\* A window that starts neither forgets nor deletes the saved connection, until the user
\* signs in or out (restoreConnection, clearExtraConnections).
THEOREM StartKeeps == Spec => []KeptAtStart
<1>1. IInv => KeptAtStart
  BY DEF IInv, HomeKept, KeptAtStart
<1> QED
  BY <1>1, Invariance, PTL

\* The logins of every connection are those of SingleFlight, whatever calls overlap
\* with them: a call that asks for a login finds one under way and waits for it, or
\* logs in itself, and no login ends without those that wait for it (keyedDebounce
\* around authenticate).
THEOREM LoginsAreShared == Spec => LoginShared
<1>1. Init => IInv /\ Shared /\ Login!Init
  <2>1. Init => Shared
    BY IdleApart DEF Init, Shared, Apart
  <2>2. Init => Login!Init
    BY DEF Init, Login!Init, LoggingIn, Joining, Idle, None
  <2> QED
    BY <2>1, <2>2, Initially
<1>2. TypeOK /\ Wired /\ Shared /\ [Next]_vars => Shared' /\ Login!Next
  BY ShareStep
<1>3. IInv => TypeOK /\ Wired
  BY DEF IInv
<1> QED
  BY <1>1, <1>2, <1>3, Invariance, PTL DEF Spec, LoginShared, Login!Spec
=============================================================================
