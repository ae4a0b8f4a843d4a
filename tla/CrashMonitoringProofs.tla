----------------------- MODULE CrashMonitoringProofs -----------------------
(***************************************************************************)
(* Proofs about CrashMonitoring for every number of instances and every    *)
(* length of the intervals: its type invariant, that TimeLag keeps a       *)
(* guarded check from taking a live instance for a crashed one, that the   *)
(* state of an old OS session is cleared, and that a crash is reported     *)
(* once at most.                                                           *)
(***************************************************************************)
EXTENDS CrashMonitoring, TLAPS

(* Type correctness: one lemma per action. *)

\* The values that actions give to ages and timers are of their types.
LEMMA Values ==
    /\ 0 \in Ages /\ 0 \in Lags
    /\ \A a \in Ages : Older(a) \in Ages
    /\ \A l \in Lags : Lagged(l) \in Lags
    /\ Off \in Off..HeartbeatInterval /\ Off \in Off..CheckInterval
    /\ HeartbeatInterval \in Off..HeartbeatInterval
    /\ CheckInterval \in Off..CheckInterval
    /\ \A n \in Off..HeartbeatInterval :
           n # Off /\ n # 0 => n - 1 \in Off..HeartbeatInterval
    /\ \A n \in Off..CheckInterval :
           n # Off /\ n # 0 => n - 1 \in Off..CheckInterval
BY TimingAssumption DEF Ages, Lags, Older, Lagged, Min2, Off

LEMMA InitType == Init => TypeOK
<1> SUFFICES ASSUME Init PROVE TypeOK
  OBVIOUS
<1> USE Values DEF Init
<1>1. FsType
  BY DEF FsType, Fates
<1>2. ProcessType /\ TimerType /\ BeatType
  BY DEF ProcessType, TimerType, BeatType, Modes
<1>3. CheckType /\ CountType
  BY DEF CheckType, CountType, Fates
<1> QED
  BY <1>1, <1>2, <1>3 DEF TypeOK

LEMMA TypeLaunch == ASSUME TypeOK, NEW e \in Ext, Launch(e) PROVE TypeOK'
BY Values DEF TypeOK, FsType, ProcessType, TimerType, BeatType, CheckType,
    CountType,
   Modes, Fates, fsVars, beatVars, checkVars, timerVars, budgets,
   Launch

LEMMA TypeBootFails == ASSUME TypeOK, NEW e \in Ext, BootFails(e) PROVE TypeOK'
BY Values DEF TypeOK, FsType, ProcessType, TimerType, BeatType, CheckType,
    CountType,
   Modes, Fates, fsVars, beatVars, checkVars, timerVars, budgets,
   BootFails

LEMMA TypeReadBoot == ASSUME TypeOK, NEW e \in Ext, ReadBoot(e) PROVE TypeOK'
BY Values DEF TypeOK, FsType, ProcessType, TimerType, BeatType, CheckType,
    CountType,
   Modes, Fates, fsVars, beatVars, checkVars, timerVars, budgets,
   ReadBoot

LEMMA TypeMarkBoot == ASSUME TypeOK, NEW e \in Ext, MarkBoot(e) PROVE TypeOK'
BY Values DEF TypeOK, FsType, ProcessType, TimerType, BeatType, CheckType,
    CountType,
   Modes, Fates, fsVars, beatVars, checkVars, timerVars, budgets,
   MarkBoot

LEMMA TypeClearState == ASSUME TypeOK, NEW e \in Ext,
    ClearState(e) PROVE TypeOK'
BY Values DEF TypeOK, FsType, ProcessType, TimerType, BeatType, CheckType,
    CountType,
   Modes, Fates, fsVars, beatVars, checkVars, timerVars, budgets,
   ClearState

LEMMA TypeMkdir == ASSUME TypeOK, NEW e \in Ext, Mkdir(e) PROVE TypeOK'
BY Values DEF TypeOK, FsType, ProcessType, TimerType, BeatType, CheckType,
    CountType,
   Modes, Fates, fsVars, beatVars, checkVars, timerVars, budgets,
   Mkdir

LEMMA TypeHeartbeatFires == ASSUME TypeOK, NEW e \in Ext,
    HeartbeatFires(e) PROVE TypeOK'
BY Values DEF TypeOK, FsType, ProcessType, TimerType, BeatType, CheckType,
    CountType,
   Modes, Fates, fsVars, beatVars, checkVars, timerVars, budgets,
   HeartbeatFires

LEMMA TypeBeatOpen == ASSUME TypeOK, NEW e \in Ext, BeatOpen(e) PROVE TypeOK'
BY Values DEF TypeOK, FsType, ProcessType, TimerType, BeatType, CheckType,
    CountType,
   Modes, Fates, fsVars, beatVars, checkVars, timerVars, budgets,
   BeatOpen, Truncate

LEMMA TypeBeatWrite == ASSUME TypeOK, NEW e \in Ext, BeatWrite(e) PROVE TypeOK'
<1> USE DEF TypeOK, BeatWrite
<1>1. FsType'
  <2>1. CASE linked[e]
    BY <2>1 DEF FsType, BeatType, Fates
  <2>2. CASE ~linked[e]
    BY <2>2 DEF FsType
  <2> QED
    BY <2>1, <2>2
<1>2. BeatType'
  BY DEF BeatType
<1>3. ProcessType' /\ TimerType' /\ CheckType' /\ CountType'
  BY DEF ProcessType, TimerType, CheckType, CountType, checkVars, timerVars,
      budgets
<1> QED
  BY <1>1, <1>2, <1>3

LEMMA TypeBeatVerified == ASSUME TypeOK, NEW e \in Ext,
    BeatVerified(e) PROVE TypeOK'
<1> USE Values DEF TypeOK, BeatVerified
<1>1. starting' \in [Ext -> {"no", "beat", "check"}]
  BY DEF ProcessType
<1>2. hbIn' \in [Ext -> Off..HeartbeatInterval]
  BY DEF TimerType
<1>3. /\ check' \in [Ext -> {"idle", "list", "judge", "trunc", "rm", "emit"}]
      /\ guarded' \in [Ext -> BOOLEAN]
  BY DEF CheckType
<1>4. BeatType'
  BY DEF BeatType
<1> QED
  BY <1>1, <1>2, <1>3, <1>4 DEF FsType, ProcessType, TimerType, CheckType,
      CountType, fsVars, budgets

LEMMA TypeBeatRetry == ASSUME TypeOK, NEW e \in Ext, BeatRetry(e) PROVE TypeOK'
BY Values DEF TypeOK, FsType, ProcessType, TimerType, BeatType, CheckType,
    CountType,
   Modes, Fates, fsVars, beatVars, checkVars, timerVars, budgets,
   BeatRetry

LEMMA TypeBeatGivesUp == ASSUME TypeOK, NEW e \in Ext,
    BeatGivesUp(e) PROVE TypeOK'
<1> USE Values DEF TypeOK, BeatGivesUp
<1>1. ProcessType'
  <2>1. CASE starting[e] = "beat"
    BY <2>1 DEF ProcessType, Cleanup, Modes
  <2>2. CASE starting[e] # "beat"
    BY <2>2 DEF ProcessType, Modes
  <2> QED
    BY <2>1, <2>2
<1>2. TimerType'
  <2>1. CASE starting[e] = "beat"
    BY <2>1 DEF TimerType, Cleanup
  <2>2. CASE starting[e] # "beat"
    BY <2>2 DEF TimerType
  <2> QED
    BY <2>1, <2>2
<1>3. BeatType'
  BY DEF BeatType
<1> QED
  BY <1>1, <1>2, <1>3 DEF FsType, CheckType, CountType, MayFail, fsVars,
      checkVars, budgets

LEMMA TypeDeleteTruncate == ASSUME TypeOK, NEW e \in Ext,
    DeleteTruncate(e) PROVE TypeOK'
BY Values DEF TypeOK, FsType, ProcessType, TimerType, BeatType, CheckType,
    CountType,
   Modes, Fates, fsVars, beatVars, checkVars, timerVars, budgets,
   DeleteTruncate, Truncate

LEMMA TypeAfterDelete ==
    ASSUME TypeOK, NEW e \in Ext, AfterDelete(e)
    PROVE  /\ mode' \in [Ext -> Modes] /\ del' \in [Ext -> {"no", "trunc", "rm"}]
           /\ hbIn' \in [Ext -> Off..HeartbeatInterval]
           /\ ckIn' \in [Ext -> Off..CheckInterval]
           /\ lag' \in [Ext -> Lags]
<1> USE Values DEF TypeOK, ProcessType, TimerType, Modes, AfterDelete
<1>1. CASE mode[e] = "failing"
  BY <1>1 DEF Cleanup
<1>2. CASE mode[e] # "failing"
  BY <1>2
<1> QED
  BY <1>1, <1>2

LEMMA TypeDeleteRemove == ASSUME TypeOK, NEW e \in Ext,
    DeleteRemove(e) PROVE TypeOK'
BY Values, TypeAfterDelete DEF TypeOK, FsType, ProcessType, TimerType,
    BeatType, CheckType, CountType, Fates, fsVars, beatVars, checkVars,
        timerVars, budgets, DeleteRemove, Remove

LEMMA TypeDeleteGivesUp == ASSUME TypeOK, NEW e \in Ext,
    DeleteGivesUp(e) PROVE TypeOK'
BY Values, TypeAfterDelete DEF TypeOK, FsType, ProcessType, TimerType,
    BeatType, CheckType, CountType, Fates, fsVars, beatVars, checkVars,
        timerVars, budgets, DeleteGivesUp, MayFail

LEMMA TypeCheckFires == ASSUME TypeOK, NEW c \in Ext,
    CheckFires(c) PROVE TypeOK'
<1> USE Values DEF TypeOK, FsType, ProcessType, TimerType, BeatType,
    CheckType, CountType, fsVars, beatVars, checkVars, timerVars, budgets,
        CheckFires
<1>1. CASE DidLag(c)
  BY <1>1
<1>2. CASE ~DidLag(c)
  BY <1>2, ZenonT(60)
<1> QED
  BY <1>1, <1>2

LEMMA TypeListFiles == ASSUME TypeOK, NEW e \in Ext, ListFiles(e) PROVE TypeOK'
BY Values DEF TypeOK, FsType, ProcessType, TimerType, BeatType, CheckType,
    CountType,
   Modes, Fates, fsVars, beatVars, checkVars, timerVars, budgets,
   ListFiles

LEMMA TypeReadFile == ASSUME TypeOK, NEW c \in Ext, NEW e \in Ext,
    ReadFile(c, e) PROVE TypeOK'
<1> USE DEF TypeOK
<1>1. CheckType'
  <2>1. CASE file[e] = "beat"
    <3>1. /\ known' = [known EXCEPT ![c] = @ \cup {e}]
          /\ seen' = [seen EXCEPT ![c][e] = age[e]]
          /\ ground' = [ground EXCEPT ![c][e] = fate[e]]
      BY <2>1 DEF ReadFile
    <3>2. known' \in [Ext -> SUBSET Ext]
      BY <3>1 DEF CheckType
    <3>3. seen' \in [Ext -> [Ext -> Ages]]
      BY <3>1 DEF CheckType, FsType
    <3>4. ground' \in [Ext -> [Ext -> Fates]]
      BY <3>1 DEF CheckType, FsType
    <3>5. UNCHANGED <<check, victim, guarded>> /\ toRead' \in [Ext -> SUBSET Ext]
      BY DEF CheckType, ReadFile
    <3> QED
      BY <3>2, <3>3, <3>4, <3>5 DEF CheckType
  <2>2. CASE file[e] # "beat"
    BY <2>2 DEF CheckType, ReadFile
  <2> QED
    BY <2>1, <2>2
<1> QED
  BY <1>1 DEF ReadFile, FsType, ProcessType, TimerType, BeatType, CountType,
      fsVars, beatVars, timerVars, budgets

LEMMA TypeJudgeCrashed == ASSUME TypeOK, NEW c \in Ext, NEW e \in Ext,
    JudgeCrashed(c, e) PROVE TypeOK'
BY Values DEF TypeOK, FsType, ProcessType, TimerType, BeatType, CheckType,
    CountType,
   Modes, Fates, fsVars, beatVars, checkVars, timerVars, budgets,
   JudgeCrashed

LEMMA TypeVictimTruncate == ASSUME TypeOK, NEW e \in Ext,
    VictimTruncate(e) PROVE TypeOK'
BY Values DEF TypeOK, FsType, ProcessType, TimerType, BeatType, CheckType,
    CountType,
   Modes, Fates, fsVars, beatVars, checkVars, timerVars, budgets,
   VictimTruncate, Truncate

LEMMA TypeVictimRemove == ASSUME TypeOK, NEW e \in Ext,
    VictimRemove(e) PROVE TypeOK'
BY Values DEF TypeOK, FsType, ProcessType, TimerType, BeatType, CheckType,
    CountType,
   Modes, Fates, fsVars, beatVars, checkVars, timerVars, budgets,
   VictimRemove, Remove

LEMMA TypeEmit == ASSUME TypeOK, NEW e \in Ext, Emit(e) PROVE TypeOK'
BY Values DEF TypeOK, FsType, ProcessType, TimerType, BeatType, CheckType,
    CountType,
   Modes, Fates, fsVars, beatVars, checkVars, timerVars, budgets,
   Emit

LEMMA TypeFinish == ASSUME TypeOK, NEW e \in Ext, Finish(e) PROVE TypeOK'
BY Values DEF TypeOK, FsType, ProcessType, TimerType, BeatType, CheckType,
    CountType,
   Modes, Fates, fsVars, beatVars, checkVars, timerVars, budgets,
   Finish

LEMMA TypeCheckThrows == ASSUME TypeOK, NEW e \in Ext,
    CheckThrows(e) PROVE TypeOK'
BY Values DEF TypeOK, FsType, ProcessType, TimerType, BeatType, CheckType,
    CountType,
   Modes, Fates, fsVars, beatVars, checkVars, timerVars, budgets,
   CheckThrows, MayFail, Cleanup

LEMMA TypeQuit == ASSUME TypeOK, NEW e \in Ext, Quit(e) PROVE TypeOK'
<1> USE Values DEF TypeOK, FsType, ProcessType, TimerType, BeatType,
    CheckType, CountType, Modes, fsVars, beatVars, checkVars, timerVars,
        budgets, Quit
<1>1. CASE Cleanup(e, "quitting")
  BY <1>1 DEF Cleanup
<1>2. CASE mode' = [mode EXCEPT ![e] = "exiting"] /\ UNCHANGED <<timerVars, del>>
  BY <1>2
<1> QED
  BY <1>1, <1>2

LEMMA TypeEndProcesses ==
    ASSUME TypeOK, NEW E \in SUBSET Ext, EndProcesses(E)
    PROVE  /\ starting' \in [Ext -> {"no", "beat", "check"}]
           /\ del' \in [Ext -> {"no", "trunc", "rm"}]
           /\ TimerType' /\ BeatType' /\ CheckType'
           /\ told' \in [Ext -> SUBSET Ext]
<1> USE Values DEF TypeOK, EndProcesses
<1>1. starting' \in [Ext -> {"no", "beat", "check"}] /\ del' \in [Ext -> {"no", "trunc", "rm"}]
  BY DEF ProcessType
<1>2. TimerType'
  BY DEF TimerType
<1>3. BeatType'
  <2>1. linked' \in [Ext -> BOOLEAN]
    BY DEF BeatType
  <2> QED
    BY <2>1 DEF BeatType
<1>4. CheckType'
  BY DEF CheckType
<1>5. told' \in [Ext -> SUBSET Ext]
  BY DEF CountType
<1> QED
  BY <1>1, <1>2, <1>3, <1>4, <1>5

LEMMA TypeExit == ASSUME TypeOK, NEW e \in Ext, Exit(e) PROVE TypeOK'
BY TypeEndProcesses DEF TypeOK, FsType, ProcessType, CountType, Modes,
    fsVars, budgets, Exit

LEMMA TypeCrash == ASSUME TypeOK, NEW e \in Ext, Crash(e) PROVE TypeOK'
BY TypeEndProcesses DEF TypeOK, FsType, ProcessType, CountType, Modes, Fates,
    Crash, Orphan

LEMMA TypeReboot == ASSUME TypeOK, Reboot PROVE TypeOK'
<1> USE DEF TypeOK, Reboot
<1>1. FsType'
  BY DEF FsType, Fates, Orphan
<1>2. mode' \in [Ext -> Modes]
  BY DEF ProcessType, Modes
<1>3. /\ starting' \in [Ext -> {"no", "beat", "check"}]
      /\ del' \in [Ext -> {"no", "trunc", "rm"}]
      /\ TimerType' /\ BeatType' /\ CheckType'
      /\ told' \in [Ext -> SUBSET Ext]
  BY TypeEndProcesses
<1> QED
  BY <1>1, <1>2, <1>3 DEF ProcessType, CountType

LEMMA TypeSleep == ASSUME TypeOK, Sleep PROVE TypeOK'
BY Values DEF TypeOK, FsType, ProcessType, TimerType, BeatType, CheckType,
    CountType,
   Modes, Fates, fsVars, beatVars, checkVars, timerVars, budgets,
   Sleep, Aged

LEMMA TypeTick == ASSUME TypeOK, Tick PROVE TypeOK'
BY Values DEF TypeOK, FsType, ProcessType, TimerType, BeatType, CheckType,
    CountType,
   Modes, Fates, fsVars, beatVars, checkVars, timerVars, budgets,
   Tick, Aged, CountDown, Quiet

LEMMA TypeStep == ASSUME TypeOK, [Next]_vars PROVE TypeOK'
<1>1. CASE UNCHANGED vars
  BY <1>1 DEF TypeOK, FsType, ProcessType, TimerType, BeatType, CheckType,
      CountType, vars, fsVars, beatVars, checkVars, timerVars, budgets
<1>2. ASSUME NEW e \in Ext, BootStep(e)
      PROVE  TypeOK'
  BY <1>2, TypeReadBoot, TypeMarkBoot, TypeClearState, TypeMkdir DEF BootStep
<1>3. ASSUME NEW e \in Ext, BeatStep(e)
      PROVE  TypeOK'
  BY <1>3, TypeHeartbeatFires, TypeBeatOpen, TypeBeatWrite, TypeBeatVerified,
     TypeBeatRetry, TypeBeatGivesUp DEF BeatStep
<1>4. ASSUME NEW e \in Ext, DeleteStep(e)
      PROVE  TypeOK'
  BY <1>4, TypeDeleteTruncate, TypeDeleteRemove, TypeDeleteGivesUp
     DEF DeleteStep
<1>5. ASSUME NEW e \in Ext, CheckStep(e)
      PROVE  TypeOK'
  BY <1>5, TypeCheckFires, TypeListFiles, TypeReadFile, TypeJudgeCrashed,
     TypeVictimTruncate, TypeVictimRemove, TypeEmit, TypeFinish,
     TypeCheckThrows DEF CheckStep
<1>6. ASSUME NEW e \in Ext,
    Launch(e) \/ BootFails(e) \/ Quit(e) \/ Exit(e) \/ Crash(e)
      PROVE  TypeOK'
  BY <1>6, TypeLaunch, TypeBootFails, TypeQuit, TypeExit, TypeCrash
<1>7. CASE Reboot \/ Sleep \/ Tick
  BY <1>7, TypeReboot, TypeSleep, TypeTick
<1> QED
  BY <1>1, <1>2, <1>3, <1>4, <1>5, <1>6, <1>7 DEF Next, Step

\* Every variable keeps its type: ages and timers stay within the intervals,
\* and the stages of processes, heartbeats and checks are the named ones.
THEOREM TypeInvariant == Spec => []TypeOK
<1>1. Init => TypeOK
  BY InitType
<1>2. TypeOK /\ [Next]_vars => TypeOK'
  BY TypeStep
<1> QED
  BY <1>1, <1>2, PTL DEF Spec

-----------------------------------------------------------------------------
(* The inductive invariant behind GuardedCheckSound.                       *)

LiveBeat(e) == file[e] = "beat" /\ fate[e] = "live"
Idle(e) == mode[e] \in {"off", "dead", "boot", "mark", "clear", "mkdir", "bare"}

\* What each stage of an instance's process has under way, and that a
\* heartbeat still called live has a writer who renews or deletes it.
Stages ==
    \A e \in Ext :
        /\ Idle(e) => /\ hbIn[e] = Off /\ ckIn[e] = Off /\ beat[e] = "idle"
                      /\ check[e] = "idle" /\ del[e] = "no"
                      /\ starting[e] = "no" /\ ~LiveBeat(e)
        /\ mode[e] = "up" =>
               /\ del[e] = "no"
               /\ hbIn[e] # Off \/ (starting[e] = "beat" /\ beat[e] # "idle")
        /\ Stopped(e) /\ LiveBeat(e) => del[e] = "trunc"
        /\ mode[e] = "exiting" \/ beat[e] = "write" => ~LiveBeat(e)
        /\ starting[e] = "beat" => check[e] = "idle"
        /\ starting[e] # "no" => ckIn[e] = Off
        /\ guarded[e] => check[e] # "idle"
        /\ check[e] = "idle" => known[e] = {}
        /\ check[e] # "idle" => ckIn[e] \in {Off, CheckInterval}
        /\ beat[e] = "verify" /\ LiveBeat(e) => age[e] = stamp[e]

\* Ticks since the checker c last finished a check, and at most how many
\* since e took the timestamp in its file: time in which the computer was up.
SinceCheck(c) == CheckInterval - ckIn[c]
SinceBeat(e) == IF hbIn[e] = Off \/ beat[e] = "open" THEN HeartbeatInterval
                ELSE HeartbeatInterval - hbIn[e]

\* The wall clock ran at least as far as the timers did, and what it gained
\* on them since a timestamp younger than c's last check, it gained since
\* that check: a sleep that makes a heartbeat look old makes TimeLag skip.
Gained(c, n, a) == \/ lag[c] = CheckInterval + Buffer + 1
                   \/ a + SinceCheck(c) <= n + lag[c]

LagCovers ==
    \A c \in Ext : ckIn[c] # Off =>
        /\ Gained(c, 0, 0)
        /\ \A e \in Ext :
            /\ LiveBeat(e) /\ SinceBeat(e) < SinceCheck(c) =>
                   Gained(c, SinceBeat(e), age[e])
            /\ beat[e] # "idle" /\ 0 < SinceCheck(c) => Gained(c, 0, stamp[e])

\* While a guarded check runs, nothing that a live instance wrote or is
\* writing is old enough to be taken for a crash.
GuardedFresh ==
    \A c, e \in Ext : guarded[c] =>
        /\ LiveBeat(e) => age[e] < CheckInterval
        /\ beat[e] # "idle" => stamp[e] < CheckInterval

\* A heartbeat that a guarded check finds too old is of no live instance.
KnownSound ==
    \A c \in Ext : \A e \in known[c] :
        guarded[c] /\ IsStopped(c, e) => ground[c][e] # "live"

\* Nor is one that it is handling.
VictimSound ==
    \A c \in Ext : guarded[c] /\ check[c] \in {"trunc", "rm", "emit"}
        => ground[c][victim[c]] # "live"

IInv == TypeOK /\ Stages /\ LagCovers /\ GuardedFresh /\ KnownSound

(* What every step but the passing of time does to ages and intervals.     *)
Keeps ==
    /\ \A c \in Ext : \/ ckIn'[c] \in {Off, CheckInterval}
                      \/ ckIn'[c] = ckIn[c] /\ lag'[c] = lag[c]
    /\ \A e \in Ext : LiveBeat(e)' =>
           \/ LiveBeat(e) /\ age'[e] = age[e] /\ SinceBeat(e) <= SinceBeat(e)'
           \/ beat[e] # "idle" /\ age'[e] = stamp[e]
    /\ \A e \in Ext : beat'[e] # "idle" =>
           stamp'[e] = 0 \/ (beat[e] # "idle" /\ stamp'[e] = stamp[e])

LEMMA SinceBeatType ==
    ASSUME TypeOK, NEW e \in Ext
    PROVE  SinceBeat(e) \in 0..HeartbeatInterval
BY TimingAssumption DEF SinceBeat, TypeOK, TimerType, Off

LEMMA LagStep == ASSUME IInv, TypeOK', Keeps PROVE LagCovers'
<1> SUFFICES ASSUME NEW c \in Ext, ckIn'[c] # Off, NEW e \in Ext
             PROVE /\ Gained(c, 0, 0)'
                   /\ LiveBeat(e)' /\ SinceBeat(e)' < SinceCheck(c)' =>
                          Gained(c, SinceBeat(e), age[e])'
                   /\ beat'[e] # "idle" /\ 0 < SinceCheck(c)' => Gained(c, 0, stamp[e])'
  BY DEF LagCovers
<1>0. /\ SinceBeat(e) \in Nat /\ SinceBeat(e)' \in Nat
      /\ lag[c] \in Nat /\ lag'[c] \in Nat /\ age'[e] \in Nat /\ stamp'[e] \in Nat /\ stamp[e] \in Nat /\ age[e] \in Nat
      /\ ckIn[c] \in Int /\ CheckInterval \in Nat /\ Buffer \in Nat
      /\ age'[e] <= CheckInterval
  <2>1. SinceBeat(e) \in Nat /\ SinceBeat(e)' \in Nat
    <3>1. TypeOK
      BY DEF IInv
    <3>2. SinceBeat(e) \in 0..HeartbeatInterval
      BY <3>1, SinceBeatType
    <3>3. (SinceBeat(e) \in 0..HeartbeatInterval)'
       BY TimingAssumption DEF SinceBeat, TypeOK, TimerType, Off
    <3> QED
      BY <3>2, <3>3, TimingAssumption
  <2> QED
    BY <2>1, TimingAssumption DEF IInv, TypeOK, TimerType, FsType, BeatType,
        Ages, Lags, Off
<1>1. CASE ckIn'[c] = CheckInterval
  BY <1>0, <1>1 DEF Gained, SinceCheck
<1>2. CASE ckIn'[c] = ckIn[c] /\ lag'[c] = lag[c]
  <2>1. /\ Gained(c, 0, 0)
        /\ LiveBeat(e) /\ SinceBeat(e) < SinceCheck(c) =>
                   Gained(c, SinceBeat(e), age[e])
        /\ beat[e] # "idle" /\ 0 < SinceCheck(c) => Gained(c, 0, stamp[e])
    BY <1>2 DEF IInv, LagCovers
  <2>2. SinceCheck(c)' = SinceCheck(c)
    BY <1>2 DEF SinceCheck
  <2>3. SinceCheck(c) \in Int
    BY <1>0 DEF SinceCheck
  <2>4. Gained(c, 0, 0)'
    BY <1>2, <2>1, <2>2 DEF Gained
  <2>5. ASSUME LiveBeat(e)', SinceBeat(e)' < SinceCheck(c)' PROVE Gained(c, SinceBeat(e), age[e])'
    <3>1. CASE LiveBeat(e) /\ age'[e] = age[e] /\ SinceBeat(e) <= SinceBeat(e)'
      BY <3>1, <2>5, <1>0, <1>2, <2>1, <2>2, <2>3 DEF Gained
    <3>2. CASE beat[e] # "idle" /\ age'[e] = stamp[e]
      BY <3>2, <2>5, <1>0, <1>2, <2>1, <2>2, <2>3 DEF Gained
    <3> QED
      BY <2>5, <3>1, <3>2 DEF Keeps
  <2>6. ASSUME beat'[e] # "idle", 0 < SinceCheck(c)' PROVE Gained(c, 0, stamp[e])'
      BY <2>6, <1>0, <1>2, <2>1, <2>2, <2>3 DEF Gained, Keeps
  <2> QED
    BY <2>4, <2>5, <2>6
<1> QED
  BY <1>1, <1>2 DEF Keeps
LEMMA LagSleep == ASSUME IInv, TypeOK', Sleep PROVE LagCovers'
<1> SUFFICES ASSUME NEW c \in Ext, ckIn'[c] # Off, NEW e \in Ext
             PROVE /\ Gained(c, 0, 0)'
                   /\ LiveBeat(e)' /\ SinceBeat(e)' < SinceCheck(c)' =>
                          Gained(c, SinceBeat(e), age[e])'
                   /\ beat'[e] # "idle" /\ 0 < SinceCheck(c)' => Gained(c, 0, stamp[e])'
  BY DEF LagCovers
<1>1. /\ Gained(c, 0, 0)
      /\ LiveBeat(e) /\ SinceBeat(e) < SinceCheck(c) =>
                   Gained(c, SinceBeat(e), age[e])
      /\ beat[e] # "idle" /\ 0 < SinceCheck(c) => Gained(c, 0, stamp[e])
  BY DEF IInv, LagCovers, Sleep
<1>2. /\ LiveBeat(e)' <=> LiveBeat(e)
      /\ SinceBeat(e)' = SinceBeat(e)
      /\ SinceCheck(c)' = SinceCheck(c)
      /\ beat'[e] = beat[e]
  BY DEF Sleep, LiveBeat, SinceBeat, SinceCheck
<1>3. lag'[c] = Lagged(lag[c])
  BY DEF Sleep, Aged
<1>4. LiveBeat(e) => age'[e] = Older(age[e])
  BY DEF Sleep, Aged, LiveBeat
<1>5. beat[e] # "idle" => stamp'[e] = Older(stamp[e])
  BY DEF Sleep, Aged
<1>6. /\ SinceBeat(e) \in Nat /\ SinceCheck(c) \in Int
      /\ lag[c] \in Nat /\ age[e] \in Nat /\ stamp[e] \in Nat
      /\ lag[c] <= CheckInterval + Buffer + 1
      /\ CheckInterval \in Nat /\ Buffer \in Nat
  BY SinceBeatType, TimingAssumption DEF IInv, TypeOK, TimerType, BeatType,
      FsType, Ages, Lags, SinceCheck, Off
<1> QED
  BY <1>1, <1>2, <1>3, <1>4, <1>5, <1>6 DEF Gained, Lagged, Older, Min2

LEMMA LagTick == ASSUME IInv, TypeOK', Tick PROVE LagCovers'
<1> SUFFICES ASSUME NEW c \in Ext, ckIn'[c] # Off, NEW e \in Ext
             PROVE /\ Gained(c, 0, 0)'
                   /\ LiveBeat(e)' /\ SinceBeat(e)' < SinceCheck(c)' =>
                          Gained(c, SinceBeat(e), age[e])'
                   /\ beat'[e] # "idle" /\ 0 < SinceCheck(c)' => Gained(c, 0, stamp[e])'
  BY DEF LagCovers
<1>1. ckIn[c] # Off /\ ckIn'[c] = ckIn[c] - 1
  BY DEF Tick, CountDown
<1>2. /\ Gained(c, 0, 0)
      /\ LiveBeat(e) /\ SinceBeat(e) < SinceCheck(c) =>
                   Gained(c, SinceBeat(e), age[e])
  BY <1>1 DEF IInv, LagCovers
<1>3. beat'[e] = "idle" /\ beat[e] = "idle" /\ del[e] = "no"
  BY DEF Tick, Quiet
<1>4. /\ lag[c] \in Nat /\ age[e] \in Nat /\ lag[c] <= CheckInterval + Buffer + 1
      /\ CheckInterval \in Nat /\ Buffer \in Nat /\ HeartbeatInterval \in Nat
      /\ hbIn[e] \in Int /\ ckIn[c] \in Int
  BY TimingAssumption DEF IInv, TypeOK, TimerType, FsType, Ages, Lags, Off
<1>5. lag'[c] = Lagged(lag[c])
  BY <1>1 DEF Tick, Aged
<1>6. LiveBeat(e)' => LiveBeat(e) /\ age'[e] = Older(age[e])
  BY DEF Tick, Aged, LiveBeat
<1>7. LiveBeat(e) => hbIn[e] # Off /\ hbIn[e] # 0 /\ hbIn'[e] = hbIn[e] - 1
  <2>1. LiveBeat(e) => mode[e] = "up"
    BY <1>3 DEF IInv, Stages, Idle, Stopped, TypeOK, ProcessType, Modes
  <2> QED
    BY <2>1, <1>3 DEF IInv, Stages, Tick, Quiet, CountDown
<1> QED
  BY <1>1, <1>2, <1>3, <1>4, <1>5, <1>6, <1>7 DEF Gained, Lagged, Older,
      Min2, SinceBeat, SinceCheck, Off

LEMMA InvLaunch ==
    ASSUME IInv, NEW x \in Ext, Launch(x)
    PROVE  Stages' /\ Keeps /\ GuardedFresh' /\ KnownSound'
<1> USE TimingAssumption DEF IInv, TypeOK, FsType, ProcessType, TimerType,
    BeatType, CheckType,
        Off, Ages, Lags, Modes, fsVars, beatVars, checkVars, timerVars, budgets
<1>1. Stages'
  BY DEF Launch, Stages, Idle, LiveBeat, Stopped, Booting, Running
<1>2. Keeps
  BY DEF Launch, Keeps, SinceBeat, LiveBeat, Stages, Idle, Running
<1>3. GuardedFresh'
  BY DEF Launch, GuardedFresh, LiveBeat, Stages
<1>4. KnownSound'
  BY DEF Launch, KnownSound, IsStopped, LiveBeat, GuardedFresh, Stages
<1> QED
  BY <1>1, <1>2, <1>3, <1>4

LEMMA InvBootFails ==
    ASSUME IInv, NEW x \in Ext, BootFails(x)
    PROVE  Stages' /\ Keeps /\ GuardedFresh' /\ KnownSound'
<1> USE TimingAssumption DEF IInv, TypeOK, FsType, ProcessType, TimerType,
    BeatType, CheckType,
        Off, Ages, Lags, Modes, fsVars, beatVars, checkVars, timerVars, budgets
<1>1. Stages'
  BY DEF BootFails, Stages, Idle, LiveBeat, Stopped, Booting, Running
<1>2. Keeps
  BY DEF BootFails, Keeps, SinceBeat, LiveBeat, Stages, Idle, Running
<1>3. GuardedFresh'
  BY DEF BootFails, GuardedFresh, LiveBeat, Stages
<1>4. KnownSound'
  BY DEF BootFails, KnownSound, IsStopped, LiveBeat, GuardedFresh,
      Stages
<1> QED
  BY <1>1, <1>2, <1>3, <1>4

LEMMA InvReadBoot ==
    ASSUME IInv, NEW x \in Ext, ReadBoot(x)
    PROVE  Stages' /\ Keeps /\ GuardedFresh' /\ KnownSound'
<1> USE TimingAssumption DEF IInv, TypeOK, FsType, ProcessType, TimerType,
    BeatType, CheckType,
        Off, Ages, Lags, Modes, fsVars, beatVars, checkVars, timerVars, budgets
<1>1. Stages'
  BY DEF ReadBoot, Stages, Idle, LiveBeat, Stopped, Booting, Running
<1>2. Keeps
  BY DEF ReadBoot, Keeps, SinceBeat, LiveBeat, Stages, Idle, Running
<1>3. GuardedFresh'
  BY DEF ReadBoot, GuardedFresh, LiveBeat, Stages
<1>4. KnownSound'
  BY DEF ReadBoot, KnownSound, IsStopped, LiveBeat, GuardedFresh, Stages
<1> QED
  BY <1>1, <1>2, <1>3, <1>4

LEMMA InvMarkBoot ==
    ASSUME IInv, NEW x \in Ext, MarkBoot(x)
    PROVE  Stages' /\ Keeps /\ GuardedFresh' /\ KnownSound'
<1> USE TimingAssumption DEF IInv, TypeOK, FsType, ProcessType, TimerType,
    BeatType, CheckType,
        Off, Ages, Lags, Modes, fsVars, beatVars, checkVars, timerVars, budgets
<1>1. Stages'
  BY DEF MarkBoot, Stages, Idle, LiveBeat, Stopped, Booting, Running
<1>2. Keeps
  BY DEF MarkBoot, Keeps, SinceBeat, LiveBeat, Stages, Idle, Running
<1>3. GuardedFresh'
  BY DEF MarkBoot, GuardedFresh, LiveBeat, Stages
<1>4. KnownSound'
  BY DEF MarkBoot, KnownSound, IsStopped, LiveBeat, GuardedFresh, Stages
<1> QED
  BY <1>1, <1>2, <1>3, <1>4

LEMMA InvClearState ==
    ASSUME IInv, NEW x \in Ext, ClearState(x)
    PROVE  Stages' /\ Keeps /\ GuardedFresh' /\ KnownSound'
<1> USE TimingAssumption DEF IInv, TypeOK, FsType, ProcessType, TimerType,
    BeatType, CheckType,
        Off, Ages, Lags, Modes, fsVars, beatVars, checkVars, timerVars, budgets
<1>1. Stages'
  BY DEF ClearState, Stages, Idle, LiveBeat, Stopped, Booting, Running
<1>2. Keeps
  BY DEF ClearState, Keeps, SinceBeat, LiveBeat, Stages, Idle, Running
<1>3. GuardedFresh'
  BY DEF ClearState, GuardedFresh, LiveBeat, Stages
<1>4. KnownSound'
  BY DEF ClearState, KnownSound, IsStopped, LiveBeat, GuardedFresh,
      Stages
<1> QED
  BY <1>1, <1>2, <1>3, <1>4

LEMMA InvMkdir ==
    ASSUME IInv, NEW x \in Ext, Mkdir(x)
    PROVE  Stages' /\ Keeps /\ GuardedFresh' /\ KnownSound'
<1> USE TimingAssumption DEF IInv, TypeOK, FsType, ProcessType, TimerType,
    BeatType, CheckType,
        Off, Ages, Lags, Modes, fsVars, beatVars, checkVars, timerVars, budgets
<1>1. Stages'
  BY DEF Mkdir, Stages, Idle, LiveBeat, Stopped, Booting, Running
<1>2. Keeps
  BY DEF Mkdir, Keeps, SinceBeat, LiveBeat, Stages, Idle, Running
<1>3. GuardedFresh'
  BY DEF Mkdir, GuardedFresh, LiveBeat, Stages
<1>4. KnownSound'
  BY DEF Mkdir, KnownSound, IsStopped, LiveBeat, GuardedFresh, Stages
<1> QED
  BY <1>1, <1>2, <1>3, <1>4

LEMMA InvHeartbeatFires ==
    ASSUME IInv, NEW x \in Ext, HeartbeatFires(x)
    PROVE  Stages' /\ Keeps /\ GuardedFresh' /\ KnownSound'
<1> USE TimingAssumption DEF IInv, TypeOK, FsType, ProcessType, TimerType,
    BeatType, CheckType,
        Off, Ages, Lags, Modes, fsVars, beatVars, checkVars, timerVars, budgets
<1>1. Stages'
  BY DEF HeartbeatFires, Stages, Idle, LiveBeat, Stopped, Booting, Running
<1>2. Keeps
  BY DEF HeartbeatFires, Keeps, SinceBeat, LiveBeat, Stages, Idle, Running
<1>3. GuardedFresh'
  BY DEF HeartbeatFires, GuardedFresh, LiveBeat, Stages
<1>4. KnownSound'
  BY DEF HeartbeatFires, KnownSound, IsStopped, LiveBeat,
      GuardedFresh, Stages
<1> QED
  BY <1>1, <1>2, <1>3, <1>4

LEMMA InvBeatOpen ==
    ASSUME IInv, NEW x \in Ext, BeatOpen(x)
    PROVE  Stages' /\ Keeps /\ GuardedFresh' /\ KnownSound'
<1> USE TimingAssumption DEF IInv, TypeOK, FsType, ProcessType, TimerType,
    BeatType, CheckType,
        Off, Ages, Lags, Modes, fsVars, beatVars, checkVars, timerVars, budgets
<1>1. Stages'
  BY DEF BeatOpen, Truncate, Stages, Idle, LiveBeat, Stopped, Booting, Running
<1>2. Keeps
  BY DEF BeatOpen, Truncate, Keeps, SinceBeat, LiveBeat, Stages, Idle, Running
<1>3. GuardedFresh'
  BY DEF BeatOpen, Truncate, GuardedFresh, LiveBeat, Stages
<1>4. KnownSound'
  BY DEF BeatOpen, Truncate, KnownSound, IsStopped, LiveBeat,
      GuardedFresh, Stages
<1> QED
  BY <1>1, <1>2, <1>3, <1>4

LEMMA StagesBeatWrite == ASSUME IInv, NEW x \in Ext, BeatWrite(x) PROVE Stages'
<1>1. /\ \A e \in Ext \ {x} : LiveBeat(e)' = LiveBeat(e) /\ age'[e] = age[e]
      /\ LiveBeat(x)' => ~Stopped(x) /\ age'[x] = stamp[x]
  <2>1. CASE linked[x]
    BY <2>1 DEF BeatWrite, LiveBeat, IInv, TypeOK, FsType
  <2>2. CASE ~linked[x]
    BY <2>2 DEF BeatWrite, LiveBeat, IInv, Stages
  <2> QED
    BY <2>1, <2>2
<1>2. beat[x] = "write" /\ beat' = [beat EXCEPT ![x] = "verify"] /\ ~Idle(x)
  BY DEF BeatWrite, IInv, Stages
<1>3. UNCHANGED <<mode, starting, timerVars, stamp, del, check, known, guarded>>
  BY DEF BeatWrite, checkVars
<1>4. mode[x] # "exiting" \/ Stopped(x)
  BY DEF Stopped
<1> QED
  BY <1>1, <1>2, <1>3, <1>4 DEF IInv, Stages, Idle, Stopped, TypeOK,
      BeatType, timerVars

LEMMA InvBeatWrite ==
    ASSUME IInv, NEW x \in Ext, BeatWrite(x)
    PROVE  Stages' /\ Keeps /\ GuardedFresh' /\ KnownSound'
<1> USE TimingAssumption DEF IInv, TypeOK, FsType, ProcessType, TimerType,
    BeatType, CheckType,
        Off, Ages, Lags, Modes, fsVars, beatVars, checkVars, timerVars, budgets
<1>1. Stages'
  BY StagesBeatWrite
<1>2. Keeps
  BY DEF BeatWrite, Keeps, SinceBeat, LiveBeat, Stages, Idle, Running
<1>3. GuardedFresh'
  BY DEF BeatWrite, GuardedFresh, LiveBeat, Stages
<1>4. KnownSound'
  BY DEF BeatWrite, KnownSound, IsStopped, LiveBeat, GuardedFresh,
      Stages
<1> QED
  BY <1>1, <1>2, <1>3, <1>4

LEMMA GuardedFreshBeatVerified ==
    ASSUME IInv, NEW x \in Ext, BeatVerified(x)
    PROVE  GuardedFresh'
<1>1. \A c \in Ext : guarded'[c] => guarded[c]
  BY DEF IInv, TypeOK, CheckType, BeatVerified
<1>2. \A e \in Ext : LiveBeat(e)' = LiveBeat(e) /\ age'[e] = age[e]
  BY DEF BeatVerified, LiveBeat, fsVars
<1>3. \A e \in Ext : beat'[e] # "idle" => beat[e] # "idle" /\ stamp'[e] = stamp[e]
  BY DEF IInv, TypeOK, BeatType, BeatVerified
<1> QED
  BY <1>1, <1>2, <1>3 DEF IInv, GuardedFresh

LEMMA KnownSoundBeatVerified ==
    ASSUME IInv, NEW x \in Ext, BeatVerified(x)
    PROVE  KnownSound'
<1>1. \A c \in Ext : guarded'[c] => guarded[c]
  BY DEF IInv, TypeOK, CheckType, BeatVerified
<1> QED
  BY <1>1 DEF IInv, KnownSound, IsStopped, BeatVerified

LEMMA InvBeatVerified ==
    ASSUME IInv, NEW x \in Ext, BeatVerified(x)
    PROVE  Stages' /\ Keeps /\ GuardedFresh' /\ KnownSound'
<1> USE TimingAssumption DEF IInv, TypeOK, FsType, ProcessType, TimerType,
    BeatType, CheckType,
        Off, Ages, Lags, Modes, fsVars, beatVars, checkVars, timerVars, budgets
<1>1. Stages'
  BY DEF BeatVerified, Stages, Idle, LiveBeat, Stopped, Booting, Running
<1>2. Keeps
  BY DEF BeatVerified, Keeps, SinceBeat, LiveBeat, Stages, Idle, Running
<1>3. GuardedFresh'
  BY GuardedFreshBeatVerified
<1>4. KnownSound'
  BY KnownSoundBeatVerified
<1> QED
  BY <1>1, <1>2, <1>3, <1>4

LEMMA InvBeatRetry ==
    ASSUME IInv, NEW x \in Ext, BeatRetry(x)
    PROVE  Stages' /\ Keeps /\ GuardedFresh' /\ KnownSound'
<1> USE TimingAssumption DEF IInv, TypeOK, FsType, ProcessType, TimerType,
    BeatType, CheckType,
        Off, Ages, Lags, Modes, fsVars, beatVars, checkVars, timerVars, budgets
<1>1. Stages'
  BY DEF BeatRetry, Stages, Idle, LiveBeat, Stopped, Booting, Running
<1>2. Keeps
  BY DEF BeatRetry, Keeps, SinceBeat, LiveBeat, Stages, Idle, Running
<1>3. GuardedFresh'
  BY DEF BeatRetry, GuardedFresh, LiveBeat, Stages
<1>4. KnownSound'
  BY DEF BeatRetry, KnownSound, IsStopped, LiveBeat, GuardedFresh,
      Stages
<1> QED
  BY <1>1, <1>2, <1>3, <1>4

LEMMA InvBeatGivesUp ==
    ASSUME IInv, NEW x \in Ext, BeatGivesUp(x)
    PROVE  Stages' /\ Keeps /\ GuardedFresh' /\ KnownSound'
<1> USE TimingAssumption DEF IInv, TypeOK, FsType, ProcessType, TimerType,
    BeatType, CheckType,
        Off, Ages, Lags, Modes, fsVars, beatVars, checkVars, timerVars, budgets
<1>1. Stages'
  BY DEF BeatGivesUp, MayFail, Cleanup, Stages, Idle, LiveBeat, Stopped,
      Booting, Running
<1>2. Keeps
  BY DEF BeatGivesUp, MayFail, Cleanup, Keeps, SinceBeat, LiveBeat, Stages,
      Idle, Running
<1>3. GuardedFresh'
  BY DEF BeatGivesUp, MayFail, Cleanup, GuardedFresh, LiveBeat, Stages
<1>4. KnownSound'
  BY DEF BeatGivesUp, MayFail, Cleanup, KnownSound, IsStopped,
      LiveBeat, GuardedFresh, Stages
<1> QED
  BY <1>1, <1>2, <1>3, <1>4

LEMMA InvDeleteTruncate ==
    ASSUME IInv, NEW x \in Ext, DeleteTruncate(x)
    PROVE  Stages' /\ Keeps /\ GuardedFresh' /\ KnownSound'
<1> USE TimingAssumption DEF IInv, TypeOK, FsType, ProcessType, TimerType,
    BeatType, CheckType,
        Off, Ages, Lags, Modes, fsVars, beatVars, checkVars, timerVars, budgets
<1>1. Stages'
  BY DEF DeleteTruncate, Truncate, Stages, Idle, LiveBeat, Stopped, Booting,
      Running
<1>2. Keeps
  BY DEF DeleteTruncate, Truncate, Keeps, SinceBeat, LiveBeat, Stages, Idle,
      Running
<1>3. GuardedFresh'
  BY DEF DeleteTruncate, Truncate, GuardedFresh, LiveBeat, Stages
<1>4. KnownSound'
  BY DEF DeleteTruncate, Truncate, KnownSound, IsStopped, LiveBeat,
      GuardedFresh, Stages
<1> QED
  BY <1>1, <1>2, <1>3, <1>4

LEMMA InvDeleteRemove ==
    ASSUME IInv, NEW x \in Ext, DeleteRemove(x)
    PROVE  Stages' /\ Keeps /\ GuardedFresh' /\ KnownSound'
<1> USE TimingAssumption DEF IInv, TypeOK, FsType, ProcessType, TimerType,
    BeatType, CheckType,
        Off, Ages, Lags, Modes, fsVars, beatVars, checkVars, timerVars, budgets
<1>1. Stages'
  BY DEF DeleteRemove, Remove, AfterDelete, Cleanup, Stages, Idle, LiveBeat,
      Stopped, Booting, Running
<1>2. Keeps
  BY DEF DeleteRemove, Remove, AfterDelete, Cleanup, Keeps, SinceBeat,
      LiveBeat, Stages, Idle, Running
<1>3. GuardedFresh'
  BY DEF DeleteRemove, Remove, AfterDelete, Cleanup, GuardedFresh, LiveBeat,
      Stages
<1>4. KnownSound'
  BY DEF DeleteRemove, Remove, AfterDelete, Cleanup, KnownSound,
      IsStopped, LiveBeat, GuardedFresh, Stages
<1> QED
  BY <1>1, <1>2, <1>3, <1>4

LEMMA InvDeleteGivesUp ==
    ASSUME IInv, NEW x \in Ext, DeleteGivesUp(x)
    PROVE  Stages' /\ Keeps /\ GuardedFresh' /\ KnownSound'
<1> USE TimingAssumption DEF IInv, TypeOK, FsType, ProcessType, TimerType,
    BeatType, CheckType,
        Off, Ages, Lags, Modes, fsVars, beatVars, checkVars, timerVars, budgets
<1>1. Stages'
  BY DEF DeleteGivesUp, AfterDelete, MayFail, Cleanup, Stages, Idle,
      LiveBeat, Stopped, Booting, Running
<1>2. Keeps
  BY DEF DeleteGivesUp, AfterDelete, MayFail, Cleanup, Keeps, SinceBeat,
      LiveBeat, Stages, Idle, Running
<1>3. GuardedFresh'
  BY DEF DeleteGivesUp, AfterDelete, MayFail, Cleanup, GuardedFresh,
      LiveBeat, Stages
<1>4. KnownSound'
  BY DEF DeleteGivesUp, AfterDelete, MayFail, Cleanup, KnownSound,
      IsStopped, LiveBeat, GuardedFresh, Stages
<1> QED
  BY <1>1, <1>2, <1>3, <1>4

LEMMA GuardedCheckFires ==
    ASSUME IInv, NEW x \in Ext, CheckFires(x)
    PROVE  GuardedFresh' /\ KnownSound'
<1>1. CASE DidLag(x)
  BY <1>1 DEF IInv, CheckFires, GuardedFresh, KnownSound, IsStopped,
      LiveBeat, fsVars, beatVars
<1>2. CASE ~DidLag(x)
  <2>1. guarded' = [guarded EXCEPT ![x] = TRUE] /\ UNCHANGED <<fsVars, beatVars, known, seen, ground>>
    BY <1>2 DEF CheckFires
  <2>2. ckIn[x] = 0 /\ known[x] = {} /\ SinceCheck(x) = CheckInterval
    BY TimingAssumption DEF IInv, Stages, CheckFires, SinceCheck
  <2>3. lag[x] \in Nat /\ CheckInterval \in Nat /\ HeartbeatInterval \in Nat /\ Buffer \in Nat
    BY TimingAssumption DEF IInv, TypeOK, TimerType, Lags
  <2>4. ASSUME NEW e \in Ext
        PROVE  /\ LiveBeat(e) => age[e] < CheckInterval
               /\ beat[e] # "idle" => stamp[e] < CheckInterval
    <3>1. SinceBeat(e) \in 0..HeartbeatInterval /\ age[e] \in Nat /\ stamp[e] \in Nat
      BY TimingAssumption DEF SinceBeat, IInv, TypeOK, TimerType, FsType,
          BeatType, Ages, Off
    <3>2. /\ LiveBeat(e) /\ SinceBeat(e) < SinceCheck(x) =>
                   Gained(x, SinceBeat(e), age[e])
          /\ beat[e] # "idle" /\ 0 < SinceCheck(x) => Gained(x, 0, stamp[e])
      BY <2>2, <2>3 DEF IInv, LagCovers, Off
    <3> QED
      BY <1>2, <2>2, <2>3, <3>1, <3>2, TimingAssumption DEF Gained, DidLag
  <2>5. GuardedFresh'
    BY <2>1, <2>4 DEF IInv, GuardedFresh, LiveBeat, fsVars, beatVars, TypeOK,
        CheckType
  <2>6. KnownSound'
    BY <2>1, <2>2 DEF IInv, KnownSound, IsStopped, TypeOK, CheckType
  <2> QED
    BY <2>5, <2>6
<1> QED
  BY <1>1, <1>2

LEMMA InvCheckFires ==
    ASSUME IInv, NEW x \in Ext, CheckFires(x)
    PROVE  Stages' /\ Keeps /\ GuardedFresh' /\ KnownSound'
<1> USE TimingAssumption DEF IInv, TypeOK, FsType, ProcessType, TimerType,
    BeatType, CheckType,
        Off, Ages, Lags, Modes, fsVars, beatVars, checkVars, timerVars, budgets
<1>1. Stages'
  BY DEF CheckFires, Stages, Idle, LiveBeat, Stopped, Booting, Running
<1>2. Keeps
  BY DEF CheckFires, Keeps, SinceBeat, LiveBeat, Stages, Idle, Running
<1>3. GuardedFresh'
  BY GuardedCheckFires
<1>4. KnownSound'
  BY GuardedCheckFires
<1> QED
  BY <1>1, <1>2, <1>3, <1>4

LEMMA InvListFiles ==
    ASSUME IInv, NEW x \in Ext, ListFiles(x)
    PROVE  Stages' /\ Keeps /\ GuardedFresh' /\ KnownSound'
<1> USE TimingAssumption DEF IInv, TypeOK, FsType, ProcessType, TimerType,
    BeatType, CheckType,
        Off, Ages, Lags, Modes, fsVars, beatVars, checkVars, timerVars, budgets
<1>1. Stages'
  BY DEF ListFiles, Stages, Idle, LiveBeat, Stopped, Booting, Running
<1>2. Keeps
  BY DEF ListFiles, Keeps, SinceBeat, LiveBeat, Stages, Idle, Running
<1>3. GuardedFresh'
  BY DEF ListFiles, GuardedFresh, LiveBeat, Stages
<1>4. KnownSound'
  BY DEF ListFiles, KnownSound, IsStopped, LiveBeat, GuardedFresh,
      Stages
<1> QED
  BY <1>1, <1>2, <1>3, <1>4

LEMMA StagesReadFile ==
    ASSUME IInv, NEW x \in Ext, NEW y \in Ext, ReadFile(x, y)
    PROVE  Stages'
<1>1. check[x] = "judge" /\ UNCHANGED <<fsVars, mode, starting, timerVars, beatVars, del, check, guarded>>
  BY DEF ReadFile
<1>2. \A c \in Ext \ {x} : known'[c] = known[c]
  BY DEF ReadFile, IInv, TypeOK, CheckType
<1> QED
  BY <1>1, <1>2 DEF IInv, Stages, Idle, Stopped, LiveBeat, fsVars, timerVars,
      beatVars

LEMMA KnownSoundReadFile ==
    ASSUME IInv, NEW x \in Ext, NEW y \in Ext, ReadFile(x, y)
    PROVE  KnownSound'
<1>1. CASE file[y] = "beat"
  <2>1. /\ known' = [known EXCEPT ![x] = @ \cup {y}]
        /\ seen' = [seen EXCEPT ![x][y] = age[y]]
        /\ ground' = [ground EXCEPT ![x][y] = fate[y]]
        /\ UNCHANGED guarded
    BY <1>1 DEF ReadFile
  <2>2. ASSUME NEW c \in Ext, NEW e \in Ext, ~(c = x /\ e = y)
        PROVE  /\ e \in known'[c] => e \in known[c]
               /\ seen'[c][e] = seen[c][e] /\ ground'[c][e] = ground[c][e]
    BY <2>1, <2>2 DEF IInv, TypeOK, CheckType
  <2>3. seen'[x][y] = age[y] /\ ground'[x][y] = fate[y]
    BY <2>1 DEF IInv, TypeOK, CheckType
  <2>4. guarded[x] /\ age[y] >= CheckInterval => fate[y] # "live"
    BY <1>1, TimingAssumption DEF IInv, GuardedFresh, LiveBeat, TypeOK,
        FsType, Ages
  <2>5. known'[x] \subseteq Ext /\ \A c \in Ext : known'[c] \subseteq Ext
    BY <2>1 DEF IInv, TypeOK, CheckType
  <2> QED
    BY <2>1, <2>2, <2>3, <2>4, <2>5 DEF IInv, KnownSound, IsStopped
<1>2. CASE file[y] # "beat"
  BY <1>2 DEF IInv, ReadFile, KnownSound, IsStopped
<1> QED
  BY <1>1, <1>2

LEMMA InvReadFile ==
    ASSUME IInv, NEW x \in Ext, NEW y \in Ext, ReadFile(x, y)
    PROVE  Stages' /\ Keeps /\ GuardedFresh' /\ KnownSound'
<1> USE TimingAssumption DEF IInv, TypeOK, FsType, ProcessType, TimerType,
    BeatType, CheckType,
        Off, Ages, Lags, Modes, fsVars, beatVars, checkVars, timerVars, budgets
<1>1. Stages'
  BY StagesReadFile
<1>2. Keeps
  BY DEF ReadFile, Keeps, SinceBeat, LiveBeat, Stages, Idle, Running
<1>3. GuardedFresh'
  BY DEF ReadFile, GuardedFresh, LiveBeat, Stages
<1>4. KnownSound'
  BY KnownSoundReadFile
<1> QED
  BY <1>1, <1>2, <1>3, <1>4

LEMMA InvJudgeCrashed ==
    ASSUME IInv, NEW x \in Ext, NEW y \in Ext, JudgeCrashed(x, y)
    PROVE  Stages' /\ Keeps /\ GuardedFresh' /\ KnownSound'
<1> USE TimingAssumption DEF IInv, TypeOK, FsType, ProcessType, TimerType,
    BeatType, CheckType,
        Off, Ages, Lags, Modes, fsVars, beatVars, checkVars, timerVars, budgets
<1>1. Stages'
  BY DEF JudgeCrashed, Stages, Idle, LiveBeat, Stopped, Booting, Running
<1>2. Keeps
  BY DEF JudgeCrashed, Keeps, SinceBeat, LiveBeat, Stages, Idle, Running
<1>3. GuardedFresh'
  BY DEF JudgeCrashed, GuardedFresh, LiveBeat, Stages
<1>4. KnownSound'
  BY DEF JudgeCrashed, KnownSound, IsStopped, LiveBeat, GuardedFresh,
      Stages
<1> QED
  BY <1>1, <1>2, <1>3, <1>4

LEMMA InvVictimTruncate ==
    ASSUME IInv, NEW x \in Ext, VictimTruncate(x)
    PROVE  Stages' /\ Keeps /\ GuardedFresh' /\ KnownSound'
<1> USE TimingAssumption DEF IInv, TypeOK, FsType, ProcessType, TimerType,
    BeatType, CheckType,
        Off, Ages, Lags, Modes, fsVars, beatVars, checkVars, timerVars, budgets
<1>1. Stages'
  BY DEF VictimTruncate, Truncate, Stages, Idle, LiveBeat, Stopped, Booting,
      Running
<1>2. Keeps
  BY DEF VictimTruncate, Truncate, Keeps, SinceBeat, LiveBeat, Stages, Idle,
      Running
<1>3. GuardedFresh'
  BY DEF VictimTruncate, Truncate, GuardedFresh, LiveBeat, Stages
<1>4. KnownSound'
  BY DEF VictimTruncate, Truncate, KnownSound, IsStopped, LiveBeat,
      GuardedFresh, Stages
<1> QED
  BY <1>1, <1>2, <1>3, <1>4

LEMMA InvVictimRemove ==
    ASSUME IInv, NEW x \in Ext, VictimRemove(x)
    PROVE  Stages' /\ Keeps /\ GuardedFresh' /\ KnownSound'
<1> USE TimingAssumption DEF IInv, TypeOK, FsType, ProcessType, TimerType,
    BeatType, CheckType,
        Off, Ages, Lags, Modes, fsVars, beatVars, checkVars, timerVars, budgets
<1>1. Stages'
  BY DEF VictimRemove, Remove, Stages, Idle, LiveBeat, Stopped, Booting,
      Running
<1>2. Keeps
  BY DEF VictimRemove, Remove, Keeps, SinceBeat, LiveBeat, Stages, Idle,
      Running
<1>3. GuardedFresh'
  BY DEF VictimRemove, Remove, GuardedFresh, LiveBeat, Stages
<1>4. KnownSound'
  BY DEF VictimRemove, Remove, KnownSound, IsStopped, LiveBeat,
      GuardedFresh, Stages
<1> QED
  BY <1>1, <1>2, <1>3, <1>4

LEMMA InvEmit ==
    ASSUME IInv, NEW x \in Ext, Emit(x)
    PROVE  Stages' /\ Keeps /\ GuardedFresh' /\ KnownSound'
<1> USE TimingAssumption DEF IInv, TypeOK, FsType, ProcessType, TimerType,
    BeatType, CheckType,
        Off, Ages, Lags, Modes, fsVars, beatVars, checkVars, timerVars, budgets
<1>1. Stages'
  BY DEF Emit, Stages, Idle, LiveBeat, Stopped, Booting, Running
<1>2. Keeps
  BY DEF Emit, Keeps, SinceBeat, LiveBeat, Stages, Idle, Running
<1>3. GuardedFresh'
  BY DEF Emit, GuardedFresh, LiveBeat, Stages
<1>4. KnownSound'
  BY DEF Emit, KnownSound, IsStopped, LiveBeat, GuardedFresh, Stages
<1> QED
  BY <1>1, <1>2, <1>3, <1>4

LEMMA InvFinish ==
    ASSUME IInv, NEW x \in Ext, Finish(x)
    PROVE  Stages' /\ Keeps /\ GuardedFresh' /\ KnownSound'
<1> USE TimingAssumption DEF IInv, TypeOK, FsType, ProcessType, TimerType,
    BeatType, CheckType,
        Off, Ages, Lags, Modes, fsVars, beatVars, checkVars, timerVars, budgets
<1>1. Stages'
  BY DEF Finish, Stages, Idle, LiveBeat, Stopped, Booting, Running
<1>2. Keeps
  BY DEF Finish, Keeps, SinceBeat, LiveBeat, Stages, Idle, Running
<1>3. GuardedFresh'
  BY DEF Finish, GuardedFresh, LiveBeat, Stages
<1>4. KnownSound'
  BY DEF Finish, KnownSound, IsStopped, LiveBeat, GuardedFresh, Stages
<1> QED
  BY <1>1, <1>2, <1>3, <1>4

LEMMA InvCheckThrows ==
    ASSUME IInv, NEW x \in Ext, CheckThrows(x)
    PROVE  Stages' /\ Keeps /\ GuardedFresh' /\ KnownSound'
<1> USE TimingAssumption DEF IInv, TypeOK, FsType, ProcessType, TimerType,
    BeatType, CheckType,
        Off, Ages, Lags, Modes, fsVars, beatVars, checkVars, timerVars, budgets
<1>1. Stages'
  BY DEF CheckThrows, MayFail, Cleanup, Stages, Idle, LiveBeat, Stopped,
      Booting, Running
<1>2. Keeps
  BY DEF CheckThrows, MayFail, Cleanup, Keeps, SinceBeat, LiveBeat, Stages,
      Idle, Running
<1>3. GuardedFresh'
  BY DEF CheckThrows, MayFail, Cleanup, GuardedFresh, LiveBeat, Stages
<1>4. KnownSound'
  BY DEF CheckThrows, MayFail, Cleanup, KnownSound, IsStopped,
      LiveBeat, GuardedFresh, Stages
<1> QED
  BY <1>1, <1>2, <1>3, <1>4

LEMMA InvQuit ==
    ASSUME IInv, NEW x \in Ext, Quit(x)
    PROVE  Stages' /\ Keeps /\ GuardedFresh' /\ KnownSound'
<1> USE TimingAssumption DEF IInv, TypeOK, FsType, ProcessType, TimerType,
    BeatType, CheckType,
        Off, Ages, Lags, Modes, fsVars, beatVars, checkVars, timerVars, budgets
<1>1. Stages'
  BY DEF Quit, Cleanup, Stages, Idle, LiveBeat, Stopped, Booting, Running
<1>2. Keeps
  BY DEF Quit, Cleanup, Keeps, SinceBeat, LiveBeat, Stages, Idle, Running
<1>3. GuardedFresh'
  BY DEF Quit, Cleanup, GuardedFresh, LiveBeat, Stages
<1>4. KnownSound'
  BY DEF Quit, Cleanup, KnownSound, IsStopped, LiveBeat, GuardedFresh,
      Stages
<1> QED
  BY <1>1, <1>2, <1>3, <1>4

LEMMA StagesExit == ASSUME IInv, NEW x \in Ext, Exit(x) PROVE Stages'
<1>1. \A e \in Ext : LiveBeat(e)' = LiveBeat(e) /\ age'[e] = age[e]
  BY DEF Exit, LiveBeat, fsVars
<1>2. ASSUME NEW e \in Ext \ {x}
      PROVE  UNCHANGED <<mode[e], hbIn[e], ckIn[e], beat[e], check[e], del[e], starting[e], guarded[e], known[e], stamp[e]>>
  BY DEF IInv, TypeOK, ProcessType, TimerType, BeatType, CheckType, Exit,
      EndProcesses
<1>3. /\ mode'[x] = "off" /\ hbIn'[x] = Off /\ ckIn'[x] = Off /\ beat'[x] = "idle" /\ check'[x] = "idle" /\ del'[x] = "no" /\ starting'[x] = "no" /\ guarded'[x] = FALSE
      /\ known'[x] = {}
  BY DEF IInv, TypeOK, ProcessType, Exit, EndProcesses
<1>4. ~LiveBeat(x)
  BY DEF IInv, Stages, Stopped, Exit, TypeOK, ProcessType
<1> QED
  BY <1>1, <1>2, <1>3, <1>4 DEF IInv, Stages, Idle, Stopped

LEMMA InvExit ==
    ASSUME IInv, NEW x \in Ext, Exit(x)
    PROVE  Stages' /\ Keeps /\ GuardedFresh' /\ KnownSound'
<1> USE TimingAssumption DEF IInv, TypeOK, FsType, ProcessType, TimerType,
    BeatType, CheckType,
        Off, Ages, Lags, Modes, fsVars, beatVars, checkVars, timerVars, budgets
<1>1. Stages'
  BY StagesExit
<1>2. Keeps
  BY DEF Exit, EndProcesses, Keeps, SinceBeat, LiveBeat, Stages, Idle, Running
<1>3. GuardedFresh'
  BY DEF Exit, EndProcesses, GuardedFresh, LiveBeat, Stages
<1>4. KnownSound'
  BY DEF Exit, EndProcesses, KnownSound, IsStopped, LiveBeat,
      GuardedFresh, Stages
<1> QED
  BY <1>1, <1>2, <1>3, <1>4

LEMMA InvCrash ==
    ASSUME IInv, NEW x \in Ext, Crash(x)
    PROVE  Stages' /\ Keeps /\ GuardedFresh' /\ KnownSound'
<1> USE TimingAssumption DEF IInv, TypeOK, FsType, ProcessType, TimerType,
    BeatType, CheckType,
        Off, Ages, Lags, Modes, fsVars, beatVars, checkVars, timerVars, budgets
<1>1. Stages'
  BY DEF Crash, EndProcesses, Orphan, Stages, Idle, LiveBeat, Stopped,
      Booting, Running
<1>2. Keeps
  BY DEF Crash, EndProcesses, Orphan, Keeps, SinceBeat, LiveBeat, Stages,
      Idle, Running
<1>3. GuardedFresh'
  BY DEF Crash, EndProcesses, Orphan, GuardedFresh, LiveBeat, Stages
<1>4. KnownSound'
  BY DEF Crash, EndProcesses, Orphan, KnownSound, IsStopped, LiveBeat,
      GuardedFresh, Stages
<1> QED
  BY <1>1, <1>2, <1>3, <1>4

LEMMA InvReboot ==
    ASSUME IInv, Reboot
    PROVE  Stages' /\ Keeps /\ GuardedFresh' /\ KnownSound'
<1> USE TimingAssumption DEF IInv, TypeOK, FsType, ProcessType, TimerType,
    BeatType, CheckType,
        Off, Ages, Lags, Modes, fsVars, beatVars, checkVars, timerVars, budgets
<1>1. Stages'
  BY DEF Reboot, EndProcesses, Orphan, Stages, Idle, LiveBeat, Stopped,
      Booting, Running
<1>2. Keeps
  BY DEF Reboot, EndProcesses, Orphan, Keeps, SinceBeat, LiveBeat, Stages,
      Idle, Running
<1>3. GuardedFresh'
  BY DEF Reboot, EndProcesses, Orphan, GuardedFresh, LiveBeat, Stages
<1>4. KnownSound'
  BY DEF Reboot, EndProcesses, Orphan, KnownSound, IsStopped,
      LiveBeat, GuardedFresh, Stages
<1> QED
  BY <1>1, <1>2, <1>3, <1>4

LEMMA InvSleep ==
    ASSUME IInv, TypeOK', Sleep
    PROVE  Stages' /\ LagCovers' /\ GuardedFresh' /\ KnownSound'
<1> USE TimingAssumption DEF IInv, TypeOK, FsType, ProcessType, TimerType,
    BeatType, CheckType,
        Off, Ages, Lags, Modes, fsVars, beatVars, checkVars, timerVars, budgets
<1>1. Stages'
  BY DEF Sleep, Aged, Older, Lagged, Min2, Stages, Idle, LiveBeat, Stopped,
      Booting, Running
<1>2. LagCovers'
  BY LagSleep
<1>3. GuardedFresh'
  BY DEF Sleep, Aged, Older, Lagged, Min2, GuardedFresh, LiveBeat, Stages
<1>4. KnownSound'
  BY DEF Sleep, Aged, Older, Lagged, Min2, KnownSound, IsStopped,
      LiveBeat, GuardedFresh, Stages
<1> QED
  BY <1>1, <1>2, <1>3, <1>4

LEMMA InvTick ==
    ASSUME IInv, TypeOK', Tick
    PROVE  Stages' /\ LagCovers' /\ GuardedFresh' /\ KnownSound'
<1> USE TimingAssumption DEF IInv, TypeOK, FsType, ProcessType, TimerType,
    BeatType, CheckType,
        Off, Ages, Lags, Modes, fsVars, beatVars, checkVars, timerVars, budgets
<1>1. Stages'
  BY DEF Tick, Aged, Older, Lagged, Min2, CountDown, Quiet, Stages, Idle,
      LiveBeat, Stopped, Booting, Running
<1>2. LagCovers'
  BY LagTick
<1>3. GuardedFresh'
  BY DEF Tick, Aged, Older, Lagged, Min2, CountDown, Quiet, GuardedFresh,
      LiveBeat, Stages
<1>4. KnownSound'
  BY DEF Tick, Aged, Older, Lagged, Min2, CountDown, Quiet,
      KnownSound, IsStopped, LiveBeat, GuardedFresh, Stages
<1> QED
  BY <1>1, <1>2, <1>3, <1>4

LEMMA InvStep == ASSUME IInv, [Next]_vars PROVE IInv'
<1>1. TypeOK'
  BY TypeStep DEF IInv
<1>2. CASE UNCHANGED vars
  BY <1>1, <1>2 DEF IInv, Stages, Idle, Stopped, LiveBeat, LagCovers, Gained,
     SinceCheck, SinceBeat, GuardedFresh, KnownSound, IsStopped, vars,
     fsVars, beatVars, checkVars, timerVars
<1>3. ASSUME Stages', Keeps, GuardedFresh', KnownSound'
      PROVE  IInv'
  BY <1>1, <1>3, LagStep DEF IInv
<1>4. ASSUME NEW e \in Ext, BootStep(e)
      PROVE  IInv'
  BY <1>3, <1>4, InvReadBoot, InvMarkBoot, InvClearState, InvMkdir DEF BootStep
<1>5. ASSUME NEW e \in Ext, BeatStep(e)
      PROVE  IInv'
  BY <1>3, <1>5, InvHeartbeatFires, InvBeatOpen, InvBeatWrite,
     InvBeatVerified, InvBeatRetry, InvBeatGivesUp DEF BeatStep
<1>6. ASSUME NEW e \in Ext, DeleteStep(e)
      PROVE  IInv'
  BY <1>3, <1>6, InvDeleteTruncate, InvDeleteRemove, InvDeleteGivesUp
     DEF DeleteStep
<1>7. ASSUME NEW e \in Ext, CheckStep(e)
      PROVE  IInv'
  BY <1>3, <1>7, InvCheckFires, InvListFiles, InvReadFile, InvJudgeCrashed,
     InvVictimTruncate, InvVictimRemove, InvEmit, InvFinish, InvCheckThrows
     DEF CheckStep
<1>8. ASSUME NEW e \in Ext,
             Launch(e) \/ BootFails(e) \/ Quit(e) \/ Exit(e) \/ Crash(e)
      PROVE  IInv'
  BY <1>3, <1>8, InvLaunch, InvBootFails, InvQuit, InvExit, InvCrash
<1>9. CASE Reboot
  BY <1>3, <1>9, InvReboot
<1>10. CASE Sleep \/ Tick
  BY <1>1, <1>10, InvSleep, InvTick DEF IInv
<1> QED
  BY <1>2, <1>4, <1>5, <1>6, <1>7, <1>8, <1>9, <1>10 DEF Next, Step

LEMMA InvInit == Init => IInv
<1> SUFFICES ASSUME Init PROVE IInv
  OBVIOUS
<1>1. TypeOK
  BY InitType
<1>2. Stages
  BY DEF Init, Stages, Idle, LiveBeat, Stopped
<1>3. LagCovers
  BY DEF Init, LagCovers
<1>4. GuardedFresh /\ KnownSound
  BY DEF Init, GuardedFresh, KnownSound
<1> QED
  BY <1>1, <1>2, <1>3, <1>4 DEF IInv

\* A check handles only what it judged, and nothing it read changes before it has.
LEMMA VictimStep == ASSUME IInv, VictimSound, [Next]_vars PROVE VictimSound'
<1> USE DEF VictimSound, IInv, TypeOK, CheckType
<1>1. ASSUME NEW c \in Ext, CheckStep(c)
      PROVE  VictimSound'
  <2>1. CASE CheckFires(c) \/ ListFiles(c)
    BY <2>1 DEF CheckFires, ListFiles
  <2>2. ASSUME NEW e \in Ext, ReadFile(c, e)
        PROVE  VictimSound'
    <3>1. check[c] = "judge" /\ UNCHANGED <<check, victim, guarded>>
      BY <2>2 DEF ReadFile
    <3>2. \A d \in Ext \ {c} : ground'[d] = ground[d]
      BY <2>2 DEF ReadFile
    <3> QED
      BY <3>1, <3>2
  <2>3. ASSUME NEW e \in Ext, JudgeCrashed(c, e)
        PROVE  VictimSound'
    BY <2>3 DEF JudgeCrashed, KnownSound
  <2>4. CASE VictimTruncate(c) \/ VictimRemove(c) \/ Emit(c)
    BY <2>4 DEF VictimTruncate, VictimRemove, Emit
  <2>5. CASE Finish(c) \/ CheckThrows(c)
    BY <2>5, SMTT(60) DEF Finish, CheckThrows
  <2> QED
    BY <1>1, <2>1, <2>2, <2>3, <2>4, <2>5 DEF CheckStep
<1>2. ASSUME NEW e \in Ext, BootStep(e) \/ DeleteStep(e) \/ Launch(e) \/ BootFails(e)
                               \/ Quit(e)
      PROVE  VictimSound'
  <2>1. UNCHANGED checkVars
    BY <1>2 DEF BootStep, ReadBoot, MarkBoot, ClearState, Mkdir, DeleteStep, DeleteTruncate,
      DeleteRemove, DeleteGivesUp, Launch, BootFails, Quit
  <2> QED
    BY <2>1 DEF checkVars
<1>3. ASSUME NEW e \in Ext, BeatStep(e)
      PROVE  VictimSound'
  <2>1. CASE BeatVerified(e)
    BY <2>1 DEF BeatVerified
  <2>2. CASE ~BeatVerified(e)
    <3>1. UNCHANGED checkVars
      BY <1>3, <2>2 DEF BeatStep, HeartbeatFires, BeatOpen, BeatWrite, BeatRetry, BeatGivesUp
    <3> QED
      BY <3>1 DEF checkVars
  <2> QED
    BY <2>1, <2>2
<1>4. ASSUME NEW E \in SUBSET Ext, EndProcesses(E)
      PROVE  VictimSound'
  BY <1>4 DEF EndProcesses
<1>5. ASSUME NEW e \in Ext, Exit(e) \/ Crash(e)
      PROVE  VictimSound'
  BY <1>4, <1>5 DEF Exit, Crash
<1>6. CASE Reboot
  BY <1>4, <1>6 DEF Reboot
<1>7. CASE Sleep \/ Tick \/ UNCHANGED vars
  BY <1>7 DEF Sleep, Tick, vars, checkVars
<1> QED
  BY <1>1, <1>2, <1>3, <1>5, <1>6, <1>7 DEF Next, Step

\* TimeLag works, for any number of instances, any intervals and any pattern
\* of sleeps: a guarded check never takes for a crash, deletes or reports the
\* heartbeat of an instance that still sends them.
THEOREM GuardedCheckIsSound == Spec => []GuardedCheckSound
<1>1. Init => IInv /\ VictimSound
  BY InvInit DEF Init, VictimSound
<1>2. IInv /\ VictimSound /\ [Next]_vars => IInv' /\ VictimSound'
  BY InvStep, VictimStep
<1>3. IInv /\ VictimSound => GuardedCheckSound
  BY DEF IInv, KnownSound, VictimSound, GuardedCheckSound
<1> QED
  BY <1>1, <1>2, <1>3, PTL DEF Spec

-----------------------------------------------------------------------------
(* The state of an old OS session.                                         *)

\* What every step does to it that is not about the state directory as a whole.
Calm == /\ UNCHANGED <<bootSeen, ends>> /\ faults' \in {faults, faults + 1}
        /\ \A e \in Ext : /\ mode[e] = "clear" => mode'[e] = "clear"
                          /\ fate'[e] = "reboot" => fate[e] = "reboot"

\* A step of one instance that does not start, end or clear is calm.
LEMMA CalmStep ==
    ASSUME IInv, NEW e \in Ext,
           \/ ReadBoot(e) \/ Mkdir(e) \/ BeatStep(e) \/ DeleteStep(e)
           \/ CheckStep(e) \/ Exit(e) \/ Launch(e)
    PROVE  Calm
<1> USE DEF Calm
<1>0. TypeOK /\ Stages
  BY DEF IInv
<1>1. mode \in [Ext -> Modes] /\ fate \in [Ext -> Fates]
  BY <1>0 DEF TypeOK, ProcessType, FsType
<1>2. CASE ReadBoot(e) \/ Mkdir(e) \/ Launch(e)
  BY <1>1, <1>2 DEF ReadBoot, Mkdir, Launch, Running, fsVars, budgets
<1>3. CASE HeartbeatFires(e) \/ BeatVerified(e) \/ BeatRetry(e)
  BY <1>3 DEF HeartbeatFires, BeatVerified, BeatRetry, fsVars, budgets
<1>4. CASE BeatOpen(e) \/ BeatWrite(e)
  BY <1>1, <1>4 DEF BeatOpen, BeatWrite, Truncate, budgets
<1>5. CASE BeatGivesUp(e)
  <2>1. UNCHANGED <<bootSeen, ends, fate>> /\ faults' \in {faults, faults + 1}
    BY <1>5 DEF BeatGivesUp, MayFail, fsVars
  <2>2. \A f \in Ext : mode[f] = "clear" => mode'[f] = "clear"
    BY <1>1, <1>5 DEF BeatGivesUp, Cleanup
  <2> QED
    BY <2>1, <2>2
<1>6. CASE DeleteStep(e)
  <2>1. UNCHANGED <<bootSeen, ends>> /\ faults' \in {faults, faults + 1}
    BY <1>6 DEF DeleteStep, DeleteTruncate, DeleteRemove, DeleteGivesUp, MayFail,
       budgets
  <2>2. \A f \in Ext : mode[f] = "clear" => mode'[f] = "clear"
    BY <1>1, <1>6 DEF DeleteStep, DeleteTruncate, DeleteRemove, DeleteGivesUp,
       AfterDelete, Cleanup
  <2>3. \A f \in Ext : fate'[f] = "reboot" => fate[f] = "reboot"
    BY <1>1, <1>6 DEF DeleteStep, DeleteTruncate, DeleteRemove, DeleteGivesUp,
       Truncate, Remove
  <2> QED
    BY <2>1, <2>2, <2>3
<1>7. CASE CheckThrows(e)
  <2>1. UNCHANGED <<bootSeen, ends, fate>> /\ faults' \in {faults, faults + 1}
    BY <1>7 DEF CheckThrows, MayFail, fsVars
  <2>2. mode[e] # "clear"
    BY <1>0, <1>7 DEF CheckThrows, Stages, Idle
  <2>3. \A f \in Ext : mode[f] = "clear" => mode'[f] = "clear"
    BY <1>1, <1>7, <2>2 DEF CheckThrows, Cleanup
  <2> QED
    BY <2>1, <2>3
<1>8. CASE CheckStep(e) /\ ~CheckThrows(e)
  <2>1. UNCHANGED <<bootSeen, ends, faults, mode>>
    BY <1>8 DEF CheckStep, CheckFires, ListFiles, ReadFile, JudgeCrashed,
       VictimTruncate, VictimRemove, Emit, Finish, fsVars, budgets
  <2>2. \A f \in Ext : fate'[f] = "reboot" => fate[f] = "reboot"
    <3>1. CASE VictimTruncate(e) \/ VictimRemove(e)
      BY <1>1, <3>1 DEF VictimTruncate, VictimRemove, Truncate, Remove
    <3>2. CASE ~(VictimTruncate(e) \/ VictimRemove(e))
      BY <1>8, <3>2 DEF CheckStep, CheckFires, ListFiles, ReadFile, JudgeCrashed,
         Emit, Finish, fsVars
    <3> QED
      BY <3>1, <3>2
  <2> QED
    BY <2>1, <2>2
<1>9. CASE Exit(e)
  BY <1>1, <1>9 DEF Exit, fsVars, budgets
<1> QED
  BY <1>2, <1>3, <1>4, <1>5, <1>6, <1>7, <1>8, <1>9 DEF BeatStep

LEMMA OldStateStep ==
    ASSUME IInv, OldStateGone, [Next]_vars
    PROVE  OldStateGone'
<1>0. faults \in Nat /\ ends \in Nat /\ mode \in [Ext -> Modes]
  BY DEF IInv, TypeOK, CountType, ProcessType
<1>1. ASSUME Calm
      PROVE  OldStateGone'
  BY <1>0, <1>1 DEF Calm, OldStateGone
<1>2. CASE Reboot
  BY <1>2 DEF Reboot, OldStateGone
<1>3. ASSUME NEW e \in Ext, MarkBoot(e)
      PROVE  OldStateGone'
  BY <1>0, <1>3 DEF MarkBoot, OldStateGone
<1>4. ASSUME NEW e \in Ext, ClearState(e)
      PROVE  OldStateGone'
  BY <1>4 DEF ClearState, OldStateGone
<1>5. ASSUME NEW e \in Ext, BootFails(e) \/ Quit(e) \/ Crash(e)
      PROVE  OldStateGone'
  <2>1. faults' = faults + 1 \/ ends' = ends + 1
    BY <1>5 DEF BootFails, Quit, Crash
  <2> QED
    BY <1>0, <2>1 DEF OldStateGone
<1>6. ASSUME NEW e \in Ext, Launch(e) \/ Step(e),
             ~MarkBoot(e), ~ClearState(e)
      PROVE  OldStateGone'
  BY <1>1, <1>6, CalmStep DEF Step, BootStep
<1>7. CASE Sleep \/ Tick \/ UNCHANGED vars
  <2>1. Calm
    BY <1>0, <1>7 DEF Sleep, Tick, vars, fsVars, budgets, Calm
  <2> QED
    BY <1>1, <2>1
<1> QED
  BY <1>2, <1>3, <1>4, <1>5, <1>6, <1>7 DEF Next

\* FileSystemState.init, for any number of instances and restarts of the computer: when
\* nothing fails and nothing is cut off, once some instance has seen to the state no
\* heartbeat of the old OS session is left.
THEOREM OldStateIsCleared == Spec => []OldStateGone
<1>1. Init => IInv /\ OldStateGone
  BY InvInit DEF Init, OldStateGone
<1>2. IInv /\ OldStateGone /\ [Next]_vars => IInv' /\ OldStateGone'
  BY InvStep, OldStateStep
<1> QED
  BY <1>1, <1>2, PTL DEF Spec

-----------------------------------------------------------------------------
(* A crash is reported once.                                               *)

Handling(c) == check[c] \in {"trunc", "rm", "emit"}

\* An instance that was never launched has left no trace.
Unlaunched ==
    \A v \in Ext : launches[v] = 0 =>
        /\ ~Running(v) /\ fate[v] # "crash"
        /\ \A c \in Ext : v \notin told[c] /\ ground[c][v] # "crash"

\* One that was launched once and is known to have crashed is not running; and
\* its heartbeat is gone from when a checker has emptied it, so that the
\* checker which has reported it never gets to it again.
CrashedOnce ==
    \A v \in Ext : launches[v] = 1 =>
        /\ fate[v] = "crash" => ~Running(v)
        /\ \A c \in Ext :
            /\ ground[c][v] = "crash" => ~Running(v)
            /\ check[c] \in {"rm", "emit"} /\ victim[c] = v /\ ground[c][v] = "crash"
                   => file[v] # "beat"
            /\ v \in told[c] => /\ ~Running(v) /\ file[v] # "beat"
                                /\ v \notin known[c]
                                /\ ~(Handling(c) /\ victim[c] = v)

\* What is being handled is not to be judged again in the same check.
Taken == \A c \in Ext : Handling(c) => victim[c] \notin known[c]

Once == Unlaunched /\ CrashedOnce /\ Taken

\* A step that leaves a check as it is, or outside of the handling of a crash.
SameCheck(c) == /\ check'[c] = check[c] /\ known'[c] = known[c]
                /\ told'[c] = told[c] /\ victim'[c] = victim[c]
                /\ \A v \in Ext : ground'[c][v] = ground[c][v]
LeavesCheck(c) == /\ ~Handling(c)' /\ known'[c] \subseteq known[c]
                  /\ told'[c] \subseteq told[c]
                  /\ \A v \in Ext : ground'[c][v] = "crash" => ground[c][v] = "crash"

\* A step that launches nothing: heartbeats come from running instances, and who is
\* gone stays so.
Ordinary ==
    /\ launches' = launches
    /\ \A v \in Ext :
        /\ Running(v)' => Running(v)
        /\ fate'[v] = "crash" => fate[v] = "crash" \/ (Running(v) /\ ~Running(v)')
        /\ file'[v] = "beat" => file[v] = "beat" \/ Running(v)

LEMMA OrdinaryStep ==
    ASSUME Once, Ordinary, \A c \in Ext : SameCheck(c) \/ LeavesCheck(c)
    PROVE  Once'
<1>1. Unlaunched'
  BY DEF Once, Unlaunched, Ordinary, SameCheck, LeavesCheck
<1>2. Taken'
  BY DEF Once, Taken, SameCheck, LeavesCheck, Handling
<1>3. ASSUME NEW v \in Ext, launches'[v] = 1
      PROVE  /\ fate'[v] = "crash" => ~Running(v)'
             /\ \A c \in Ext : ground'[c][v] = "crash" => ~Running(v)'
  BY <1>3 DEF Once, CrashedOnce, Ordinary, SameCheck, LeavesCheck
<1>4. ASSUME NEW v \in Ext, launches'[v] = 1, NEW c \in Ext,
             check'[c] \in {"rm", "emit"}, victim'[c] = v, ground'[c][v] = "crash"
      PROVE  file'[v] # "beat"
  <2>1. SameCheck(c)
    BY <1>4 DEF LeavesCheck, Handling
  <2> QED
    BY <1>4, <2>1 DEF Once, CrashedOnce, Ordinary, SameCheck
<1>5. ASSUME NEW v \in Ext, launches'[v] = 1, NEW c \in Ext, v \in told'[c]
      PROVE  /\ ~Running(v)' /\ file'[v] # "beat"
             /\ v \notin known'[c]
             /\ ~(Handling(c)' /\ victim'[c] = v)
  <2>1. v \in told[c] /\ launches[v] = 1
    BY <1>5 DEF SameCheck, LeavesCheck, Ordinary
  <2>2. ~Running(v) /\ file[v] # "beat" /\ v \notin known[c]
        /\ ~(Handling(c) /\ victim[c] = v)
    BY <2>1 DEF Once, CrashedOnce
  <2> QED
    BY <2>2 DEF SameCheck, LeavesCheck, Ordinary, Handling
<1>6. CrashedOnce'
  BY <1>3, <1>4, <1>5 DEF CrashedOnce
<1> QED
  BY <1>1, <1>2, <1>6 DEF Once

\* Which steps are ordinary: those of start-up, heartbeats and deletions.
LEMMA OrdinaryBeats ==
    ASSUME IInv, NEW e \in Ext,
           \/ BootFails(e) \/ BootStep(e) \/ DeleteStep(e) \/ Quit(e)
           \/ BeatStep(e) /\ ~BeatVerified(e)
    PROVE  Ordinary /\ \A c \in Ext : SameCheck(c)
<1>0. /\ mode \in [Ext -> Modes] /\ fate \in [Ext -> Fates]
      /\ file \in [Ext -> {"absent", "empty", "beat"}]
      /\ beat[e] = "write" => Running(e)
  BY DEF IInv, TypeOK, ProcessType, FsType, Stages, Idle, Running
<1>1. \A c \in Ext : SameCheck(c)
  BY DEF BootFails, BootStep, ReadBoot, MarkBoot, ClearState, Mkdir, DeleteStep,
     DeleteTruncate, DeleteRemove, DeleteGivesUp, Quit, BeatStep, HeartbeatFires,
     BeatOpen, BeatWrite, BeatRetry, BeatGivesUp, checkVars, SameCheck
<1>2. launches' = launches
  BY DEF BootFails, BootStep, ReadBoot, MarkBoot, ClearState, Mkdir, DeleteStep,
     DeleteTruncate, DeleteRemove, DeleteGivesUp, Quit, BeatStep, HeartbeatFires,
     BeatOpen, BeatWrite, BeatRetry, BeatGivesUp, budgets
<1>3. ASSUME NEW v \in Ext, Running(v)'
      PROVE  Running(v)
  <2>1. CASE BootFails(e) \/ BootStep(e) \/ Quit(e)
    BY <1>0, <1>3, <2>1 DEF BootFails, BootStep, ReadBoot, MarkBoot, ClearState,
       Mkdir, Quit, Cleanup, Booting, Running
  <2>2. CASE DeleteStep(e)
    BY <1>0, <1>3, <2>2 DEF DeleteStep, DeleteTruncate, DeleteRemove, DeleteGivesUp,
       AfterDelete, Cleanup, Running
  <2>3. CASE BeatGivesUp(e)
    BY <1>0, <1>3, <2>3 DEF BeatGivesUp, Cleanup, Running
  <2>4. CASE HeartbeatFires(e) \/ BeatOpen(e) \/ BeatWrite(e) \/ BeatRetry(e)
    BY <1>3, <2>4 DEF HeartbeatFires, BeatOpen, BeatWrite, BeatRetry, Running
  <2> QED
    BY <2>1, <2>2, <2>3, <2>4 DEF BeatStep
<1>4. ASSUME NEW v \in Ext
      PROVE  /\ fate'[v] = "crash" => fate[v] = "crash"
             /\ file'[v] = "beat" => file[v] = "beat" \/ Running(v)
  <2>1. CASE BootFails(e) \/ ReadBoot(e) \/ MarkBoot(e) \/ Mkdir(e) \/ Quit(e)
    BY <2>1 DEF BootFails, ReadBoot, MarkBoot, Mkdir, Quit, fsVars
  <2>2. CASE ClearState(e)
    BY <2>2 DEF ClearState
  <2>3. CASE DeleteStep(e)
    BY <1>0, <2>3 DEF DeleteStep, DeleteTruncate, DeleteRemove, DeleteGivesUp,
       Truncate, Remove
  <2>4. CASE HeartbeatFires(e) \/ BeatRetry(e) \/ BeatGivesUp(e)
    BY <2>4 DEF HeartbeatFires, BeatRetry, BeatGivesUp, fsVars
  <2>5. CASE BeatOpen(e)
    BY <1>0, <2>5 DEF BeatOpen, Truncate
  <2>6. CASE BeatWrite(e)
    BY <1>0, <2>6 DEF BeatWrite
  <2> QED
    BY <2>1, <2>2, <2>3, <2>4, <2>5, <2>6 DEF BootStep, BeatStep
<1> QED
  BY <1>1, <1>2, <1>3, <1>4 DEF Ordinary

\* And so are those that begin or end a check, or an instance.
LEMMA OrdinaryChecks ==
    ASSUME IInv, NEW e \in Ext,
           \/ BeatVerified(e) \/ CheckFires(e) \/ ListFiles(e) \/ Finish(e)
           \/ CheckThrows(e)
    PROVE  Ordinary /\ \A c \in Ext : SameCheck(c) \/ LeavesCheck(c)
<1>0. /\ mode \in [Ext -> Modes] /\ TypeOK
      /\ check[e] # "idle" => Running(e)
  BY DEF IInv, TypeOK, ProcessType, Stages, Idle, Running
<1>1. /\ launches' = launches /\ UNCHANGED <<file, fate>>
  BY DEF BeatVerified, CheckFires, ListFiles, Finish, CheckThrows, fsVars, budgets
<1>2. \A v \in Ext : Running(v)' => Running(v)
  BY <1>0 DEF BeatVerified, CheckFires, ListFiles, Finish, CheckThrows, Cleanup,
     Running
<1>3. Ordinary
  BY <1>1, <1>2 DEF Ordinary
<1>4. \A c \in Ext \ {e} : SameCheck(c)
  BY <1>0 DEF BeatVerified, CheckFires, ListFiles, Finish, CheckThrows, SameCheck,
     TypeOK, CheckType
<1>5. SameCheck(e) \/ LeavesCheck(e)
  <2>1. CASE BeatVerified(e) \/ CheckFires(e)
    BY <1>0, <2>1 DEF BeatVerified, CheckFires, SameCheck, LeavesCheck, Handling,
       TypeOK, CheckType
  <2>2. CASE ListFiles(e)
    BY <1>0, <2>2 DEF ListFiles, LeavesCheck, Handling, TypeOK, CheckType
  <2>3. CASE Finish(e) \/ CheckThrows(e)
    BY <1>0, <2>3 DEF Finish, CheckThrows, LeavesCheck, Handling, TypeOK, CheckType
  <2> QED
    BY <2>1, <2>2, <2>3
<1> QED
  BY <1>3, <1>4, <1>5

LEMMA OrdinaryEnds ==
    ASSUME IInv, (\E e \in Ext : Exit(e) \/ Crash(e)) \/ Reboot
    PROVE  Ordinary /\ \A c \in Ext : SameCheck(c) \/ LeavesCheck(c)
<1>0. mode \in [Ext -> Modes] /\ fate \in [Ext -> Fates]
  BY DEF IInv, TypeOK, ProcessType, FsType
<1>1. ASSUME NEW E, EndProcesses(E), NEW c \in Ext
      PROVE  SameCheck(c) \/ LeavesCheck(c)
  BY <1>1 DEF EndProcesses, SameCheck, LeavesCheck, Handling
<1>2. launches' = launches /\ file' = file
  BY DEF Exit, Crash, Reboot, fsVars, budgets
<1>3. \A v \in Ext : Running(v)' => Running(v)
  BY <1>0 DEF Exit, Crash, Reboot, Running
<1>4. ASSUME NEW v \in Ext, fate'[v] = "crash"
      PROVE  fate[v] = "crash" \/ (Running(v) /\ ~Running(v)')
  BY <1>0, <1>4 DEF Exit, Crash, Reboot, Orphan, Running, fsVars
<1> QED
  BY <1>1, <1>2, <1>3, <1>4 DEF Ordinary, Exit, Crash, Reboot

LEMMA OrdinaryTime ==
    ASSUME Sleep \/ Tick \/ UNCHANGED vars
    PROVE  Ordinary /\ \A c \in Ext : SameCheck(c)
BY DEF Sleep, Tick, vars, fsVars, checkVars, budgets, Ordinary, SameCheck, Running

LEMMA OnceStep ==
    ASSUME IInv, Once, [Next]_vars
    PROVE  Once'
<1>0. /\ mode \in [Ext -> Modes] /\ fate \in [Ext -> Fates]
      /\ file \in [Ext -> {"absent", "empty", "beat"}]
      /\ launches \in [Ext -> Nat] /\ told \in [Ext -> SUBSET Ext]
      /\ known \in [Ext -> SUBSET Ext] /\ victim \in [Ext -> Ext]
      /\ ground \in [Ext -> [Ext -> Fates]]
      /\ check \in [Ext -> {"idle", "list", "judge", "trunc", "rm", "emit"}]
  BY DEF IInv, TypeOK, ProcessType, FsType, CountType, CheckType
<1>1. ASSUME NEW e \in Ext, Launch(e)
      PROVE  Once'
  <2>1. /\ UNCHANGED <<fate, file, check, known, victim, ground, told>>
        /\ launches' = [launches EXCEPT ![e] = @ + 1]
        /\ \A v \in Ext \ {e} : mode'[v] = mode[v]
    BY <1>0, <1>1 DEF Launch, fsVars, checkVars
  <2>2. launches'[e] = launches[e] + 1 /\ launches[e] \in Nat
        /\ \A v \in Ext \ {e} : launches'[v] = launches[v]
    BY <1>0, <2>1
  <2>3. launches'[e] # 0 /\ (launches'[e] = 1 => launches[e] = 0)
    BY <2>2
  <2>4. Unlaunched'
    BY <2>1, <2>2, <2>3 DEF Once, Unlaunched, Running
  <2>5. Taken'
    BY <2>1 DEF Once, Taken, Handling
  <2>6. ASSUME NEW v \in Ext, launches'[v] = 1
        PROVE  /\ fate'[v] = "crash" => ~Running(v)'
               /\ \A c \in Ext :
                   /\ ground'[c][v] = "crash" => ~Running(v)'
                   /\ check'[c] \in {"rm", "emit"} /\ victim'[c] = v
                          /\ ground'[c][v] = "crash" => file'[v] # "beat"
                   /\ v \in told'[c] => /\ ~Running(v)' /\ file'[v] # "beat"
                                        /\ v \notin known'[c]
                                        /\ ~(Handling(c)' /\ victim'[c] = v)
    <3>1. CASE v = e
      BY <2>1, <2>3, <2>6, <3>1 DEF Once, Unlaunched
    <3>2. CASE v # e
      BY <2>1, <2>2, <2>6, <3>2 DEF Once, CrashedOnce, Running, Handling
    <3> QED
      BY <3>1, <3>2
  <2> QED
    BY <2>4, <2>5, <2>6 DEF Once, CrashedOnce
<1>2. ASSUME NEW c \in Ext, NEW e \in Ext, ReadFile(c, e)
      PROVE  Once'
  <2>1. UNCHANGED <<mode, file, fate, launches, told, check, victim>>
        /\ check[c] = "judge"
    BY <1>2 DEF ReadFile, fsVars, budgets
  <2>2. \A d \in Ext, v \in Ext : v \in known'[d] =>
            v \in known[d] \/ (d = c /\ v = e /\ file[e] = "beat")
    BY <1>0, <1>2 DEF ReadFile
  <2>3. \A d \in Ext, v \in Ext : ground'[d][v] = ground[d][v] \/ 
            (d = c /\ v = e /\ ground'[d][v] = fate[v])
    BY <1>0, <1>2 DEF ReadFile
  <2>4. Unlaunched'
    BY <2>1, <2>3 DEF Once, Unlaunched, Running
  <2>5. Taken'
    BY <1>0, <2>1, <2>2 DEF Once, Taken, Handling
  <2>6. CrashedOnce'
    <3> SUFFICES ASSUME NEW v \in Ext, launches[v] = 1, NEW d \in Ext
                 PROVE  /\ fate[v] = "crash" => ~Running(v)
                        /\ ground'[d][v] = "crash" => ~Running(v)
                        /\ check[d] \in {"rm", "emit"} /\ victim[d] = v
                               /\ ground'[d][v] = "crash" => file[v] # "beat"
                        /\ v \in told[d] => /\ ~Running(v) /\ file[v] # "beat"
                                            /\ v \notin known'[d]
                                            /\ ~(Handling(d) /\ victim[d] = v)
      BY <2>1 DEF CrashedOnce, Running, Handling
    <3> QED
      BY <2>1, <2>2, <2>3 DEF Once, CrashedOnce
  <2> QED
    BY <2>4, <2>5, <2>6 DEF Once
<1>3. ASSUME NEW c \in Ext, NEW e \in Ext, JudgeCrashed(c, e)
      PROVE  Once'
  <2>1. /\ UNCHANGED <<mode, file, fate, launches, told, ground>>
        /\ check[c] = "judge" /\ e \in known[c]
        /\ check' = [check EXCEPT ![c] = "trunc"]
        /\ victim' = [victim EXCEPT ![c] = e]
    BY <1>3 DEF JudgeCrashed, fsVars, budgets
  <2>2. /\ \A d \in Ext : known'[d] \subseteq known[d]
        /\ e \notin known'[c]
    BY <1>0, <1>3 DEF JudgeCrashed
  <2>3. check'[c] = "trunc" /\ victim'[c] = e
        /\ \A d \in Ext \ {c} : check'[d] = check[d] /\ victim'[d] = victim[d]
    BY <1>0, <2>1
  <2>4. Unlaunched'
    BY <2>1 DEF Once, Unlaunched, Running
  <2>5. Taken'
    BY <2>2, <2>3 DEF Once, Taken, Handling
  <2>6. CrashedOnce'
    <3> SUFFICES ASSUME NEW v \in Ext, launches[v] = 1, NEW d \in Ext
                 PROVE  /\ fate[v] = "crash" => ~Running(v)
                        /\ ground[d][v] = "crash" => ~Running(v)
                        /\ check'[d] \in {"rm", "emit"} /\ victim'[d] = v
                               /\ ground[d][v] = "crash" => file[v] # "beat"
                        /\ v \in told[d] => /\ ~Running(v) /\ file[v] # "beat"
                                            /\ v \notin known'[d]
                                            /\ ~(Handling(d)' /\ victim'[d] = v)
      BY <2>1 DEF CrashedOnce, Running, Handling
    <3> QED
      BY <2>1, <2>2, <2>3 DEF Once, CrashedOnce, Handling
  <2> QED
    BY <2>4, <2>5, <2>6 DEF Once
<1>4. ASSUME NEW c \in Ext, VictimTruncate(c) \/ VictimRemove(c)
      PROVE  Once'
  <2>1. /\ UNCHANGED <<mode, launches, told, known, victim, ground>>
        /\ check[c] \in {"trunc", "rm"} /\ check'[c] \in {"rm", "emit"}
        /\ \A d \in Ext \ {c} : check'[d] = check[d]
    BY <1>0, <1>4 DEF VictimTruncate, VictimRemove, budgets
  <2>2. /\ file'[victim[c]] # "beat"
        /\ \A v \in Ext : /\ fate'[v] = "crash" => fate[v] = "crash"
                          /\ file'[v] = "beat" => file[v] = "beat"
    BY <1>0, <1>4 DEF VictimTruncate, VictimRemove, Truncate, Remove
  <2>3. Unlaunched'
    BY <2>1, <2>2 DEF Once, Unlaunched, Running
  <2>4. Taken'
    BY <2>1 DEF Once, Taken, Handling
  <2>5. CrashedOnce'
    <3> SUFFICES ASSUME NEW v \in Ext, launches[v] = 1, NEW d \in Ext
                 PROVE  /\ fate'[v] = "crash" => ~Running(v)
                        /\ ground[d][v] = "crash" => ~Running(v)
                        /\ check'[d] \in {"rm", "emit"} /\ victim[d] = v
                               /\ ground[d][v] = "crash" => file'[v] # "beat"
                        /\ v \in told[d] => /\ ~Running(v) /\ file'[v] # "beat"
                                            /\ v \notin known[d]
                                            /\ ~(Handling(d)' /\ victim[d] = v)
      BY <2>1 DEF CrashedOnce, Running, Handling
    <3> QED
      BY <2>1, <2>2 DEF Once, CrashedOnce, Handling
  <2> QED
    BY <2>3, <2>4, <2>5 DEF Once
<1>5. ASSUME NEW c \in Ext, Emit(c)
      PROVE  Once'
  <2>1. /\ UNCHANGED <<mode, launches, file, fate, known, victim, ground>>
        /\ check[c] = "emit" /\ check'[c] = "judge"
        /\ \A d \in Ext \ {c} : check'[d] = check[d]
    BY <1>0, <1>5 DEF Emit, fsVars, budgets
  <2>2. \A d \in Ext, v \in Ext : v \in told'[d] =>
            v \in told[d] \/ (d = c /\ v = victim[c] /\ ground[c][v] = "crash")
    BY <1>0, <1>5 DEF Emit
  <2>3. Unlaunched'
    BY <1>0, <2>1, <2>2 DEF Once, Unlaunched, Running
  <2>4. Taken'
    BY <2>1 DEF Once, Taken, Handling
  <2>5. CrashedOnce'
    <3> SUFFICES ASSUME NEW v \in Ext, launches[v] = 1, NEW d \in Ext
                 PROVE  /\ fate[v] = "crash" => ~Running(v)
                        /\ ground[d][v] = "crash" => ~Running(v)
                        /\ check'[d] \in {"rm", "emit"} /\ victim[d] = v
                               /\ ground[d][v] = "crash" => file[v] # "beat"
                        /\ v \in told'[d] => /\ ~Running(v) /\ file[v] # "beat"
                                             /\ v \notin known[d]
                                             /\ ~(Handling(d)' /\ victim[d] = v)
      BY <2>1 DEF CrashedOnce, Running, Handling
    <3> QED
      BY <2>1, <2>2 DEF Once, CrashedOnce, Taken, Handling
  <2> QED
    BY <2>3, <2>4, <2>5 DEF Once
<1>6. CASE Ordinary /\ \A c \in Ext : SameCheck(c) \/ LeavesCheck(c)
  BY <1>6, OrdinaryStep
<1>7. ASSUME NEW e \in Ext, BootFails(e) \/ BootStep(e) \/ DeleteStep(e) \/ Quit(e)
                 \/ BeatStep(e)
      PROVE  Once'
  BY <1>6, <1>7, OrdinaryBeats, OrdinaryChecks
<1>8. ASSUME NEW c \in Ext, CheckStep(c)
      PROVE  Once'
  BY <1>2, <1>3, <1>4, <1>5, <1>6, <1>8, OrdinaryChecks DEF CheckStep
<1>9. CASE (\E e \in Ext : Exit(e) \/ Crash(e)) \/ Reboot
  BY <1>6, <1>9, OrdinaryEnds
<1>10. CASE Sleep \/ Tick \/ UNCHANGED vars
  BY <1>6, <1>10, OrdinaryTime
<1> QED
  BY <1>1, <1>7, <1>8, <1>9, <1>10 DEF Next, Step

\* handleCrashedExt, for any number of instances and checkers: as the heartbeat is
\* deleted before the metric is emitted, a checker reports the crash of an instance once at
\* most.
THEOREM CrashReportedOnce == Spec => []ReportedOnce
<1>1. Init => IInv /\ Once
  <2> SUFFICES ASSUME Init PROVE IInv /\ Once
    OBVIOUS
  <2>1. Unlaunched
    BY DEF Init, Unlaunched, Running
  <2>2. CrashedOnce /\ Taken
    BY DEF Init, CrashedOnce, Taken, Handling
  <2> QED
    BY <2>1, <2>2, InvInit DEF Once
<1>2. IInv /\ Once /\ [Next]_vars => IInv' /\ Once'
  BY InvStep, OnceStep
<1>3. IInv /\ Once => ReportedOnce
  BY DEF IInv, TypeOK, CheckType, Once, CrashedOnce, ReportedOnce, Emitting, Handling
<1> QED
  BY <1>1, <1>2, <1>3, PTL DEF Spec
=============================================================================
