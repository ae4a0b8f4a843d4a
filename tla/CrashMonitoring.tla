--------------------------- MODULE CrashMonitoring ---------------------------
(***************************************************************************)
(* The crash monitor of packages/core/src/shared/crashMonitoring.ts.       *)
(*                                                                         *)
(* Every extension instance keeps one heartbeat file in a directory that   *)
(* all instances share, rewrites it on an interval, and on a longer        *)
(* interval reads the files of all instances: one that has not been        *)
(* rewritten for CheckInterval is taken for a crash, deleted and reported. *)
(* Nothing but the file system connects the instances, so the module       *)
(* interleaves their system calls, and lets the computer sleep, reboot and *)
(* kill an instance between any two of them.                               *)
(*                                                                         *)
(* Time: a tick is the unit of the two intervals.  File operations (15 s   *)
(* of retries at most, against intervals of minutes) end within the tick   *)
(* they start in, so Tick waits for them.  While the computer sleeps only  *)
(* the wall clock moves: timers resume where they stopped.                 *)
(***************************************************************************)
EXTENDS Integers

CONSTANTS
    Ext,                \* the extension instances, one per VS Code window
    Debug,              \* those run by "Run & Debug": never reported
    HeartbeatInterval,  \* ticks between two heartbeats
    CheckInterval,      \* ticks between two checks
    Buffer,             \* TimeLag's tolerance, in ticks
    MaxSleep,           \* bound: ticks slept in a behaviour
    MaxFaults,          \* bound: file system failures in a behaviour
    MaxLaunches,        \* bound: starts of one instance
    MaxReboots,         \* bound: computer restarts
    MaxEnds             \* bound: shutdowns and crashes in a behaviour

ASSUME TimingAssumption ==
    /\ HeartbeatInterval \in Nat /\ Buffer \in Nat
    /\ CheckInterval = 2 * HeartbeatInterval
    /\ Buffer < HeartbeatInterval

ASSUME BoundsAssumption ==
    /\ MaxSleep \in Nat /\ MaxFaults \in Nat
    /\ MaxLaunches \in Nat /\ MaxReboots \in Nat /\ MaxEnds \in Nat
    /\ Debug \subseteq Ext

VARIABLES
    \* the shared file system and operating system
    dir,      \* the state directory exists
    file,     \* file[e]: "absent", "empty" or "beat" (a complete heartbeat)
    age,      \* wall-clock age of the timestamp in file[e], when "beat"
    bootSeen, \* lastOsStartTime already records this OS session
    \* each instance's process
    mode,     \* stage of the process, see Modes
    starting, \* what start() still awaits: "beat", "check" or "no"
    hbIn,     \* ticks to the next heartbeat, Off when the interval is cleared
    ckIn,     \* ticks to the next check, Off when the interval is cleared
    lag,      \* wall-clock age of TimeLag.lastExecution
    beat,     \* next system call of sendHeartbeat
    stamp,    \* age of the timestamp sendHeartbeat is writing
    linked,   \* the open heartbeat handle is the file the directory names
    del,      \* next system call of deleting the own heartbeat file
    check,    \* next step of tryCheckCrash
    toRead,   \* files listed and not read yet
    known,    \* heartbeats read and not judged yet
    seen,     \* seen[c][e]: age of the timestamp c read in e's file
    victim,   \* the instance c is handling as crashed
    \* history
    fate,     \* what became of the instance that wrote file[e], see Fates
    ground,   \* ground[c][e]: fate of the heartbeat that c read in e's file
    guarded,  \* the check in progress passed TimeLag and did not sleep since
    told,     \* told[c]: crashes that c has reported
    \* budgets
    slept, faults, launches, reboots, ends

fsVars    == <<dir, file, age, fate, bootSeen>>
beatVars  == <<beat, stamp, linked>>
checkVars == <<check, toRead, known, seen, victim, ground, guarded>>
timerVars == <<hbIn, ckIn, lag>>
budgets   == <<slept, faults, launches, reboots, ends>>
vars == <<fsVars, mode, starting, timerVars, beatVars, del, checkVars,
          told, budgets>>

Off   == -1
Ages  == 0..CheckInterval               \* older looks the same
Lags  == 0..(CheckInterval + Buffer + 1)
Modes == {"off", "boot", "mark", "clear", "mkdir", "up", "failing", "failed",
          "bare", "quitting", "exiting", "dead"}
\* live: it still monitors, or the file holds no heartbeat; left: it stopped
\* and the heartbeat stayed; reboot: the computer restarted under it.
Fates == {"live", "crash", "left", "reboot"}

\* Modes in which the instance has a process.
Running(e) == mode[e] \notin {"off", "dead"}
\* Modes in which the instance no longer means to send heartbeats.
Stopped(e) == mode[e] \in {"failing", "failed", "quitting", "exiting"}
Booting(e) == mode[e] \in {"boot", "mark", "clear", "mkdir"}

Min2(a, b) == IF a < b THEN a ELSE b
Older(a) == Min2(a + 1, CheckInterval)
Lagged(a) == Min2(a + 1, CheckInterval + Buffer + 1)

FsType ==
    /\ dir \in BOOLEAN /\ bootSeen \in BOOLEAN
    /\ file \in [Ext -> {"absent", "empty", "beat"}]
    /\ age \in [Ext -> Ages]
    /\ fate \in [Ext -> Fates]

ProcessType ==
    /\ mode \in [Ext -> Modes]
    /\ starting \in [Ext -> {"no", "beat", "check"}]
    /\ del \in [Ext -> {"no", "trunc", "rm"}]

TimerType ==
    /\ hbIn \in [Ext -> Off..HeartbeatInterval]
    /\ ckIn \in [Ext -> Off..CheckInterval]
    /\ lag \in [Ext -> Lags]

BeatType ==
    /\ beat \in [Ext -> {"idle", "open", "write", "verify"}]
    /\ stamp \in [Ext -> Ages]
    /\ linked \in [Ext -> BOOLEAN]

CheckType ==
    /\ check \in [Ext -> {"idle", "list", "judge", "trunc", "rm", "emit"}]
    /\ toRead \in [Ext -> SUBSET Ext]
    /\ known \in [Ext -> SUBSET Ext]
    /\ seen \in [Ext -> [Ext -> Ages]]
    /\ victim \in [Ext -> Ext]
    /\ ground \in [Ext -> [Ext -> Fates]]
    /\ guarded \in [Ext -> BOOLEAN]

CountType ==
    /\ told \in [Ext -> SUBSET Ext]
    /\ slept \in Nat /\ faults \in Nat /\ reboots \in Nat /\ ends \in Nat
    /\ launches \in [Ext -> Nat]

TypeOK == FsType /\ ProcessType /\ TimerType /\ BeatType /\ CheckType /\ CountType

Init ==
    /\ dir = FALSE /\ bootSeen = FALSE
    /\ file = [e \in Ext |-> "absent"]
    /\ age = [e \in Ext |-> 0]
    /\ mode = [e \in Ext |-> "off"]
    /\ starting = [e \in Ext |-> "no"]
    /\ hbIn = [e \in Ext |-> Off]
    /\ ckIn = [e \in Ext |-> Off]
    /\ lag = [e \in Ext |-> 0]
    /\ beat = [e \in Ext |-> "idle"]
    /\ stamp = [e \in Ext |-> 0]
    /\ linked = [e \in Ext |-> FALSE]
    /\ del = [e \in Ext |-> "no"]
    /\ check = [e \in Ext |-> "idle"]
    /\ toRead = [e \in Ext |-> {}]
    /\ known = [e \in Ext |-> {}]
    /\ seen = [e \in Ext |-> [f \in Ext |-> 0]]
    /\ victim = [e \in Ext |-> e]
    /\ guarded = [e \in Ext |-> FALSE]
    /\ fate = [e \in Ext |-> "live"]
    /\ ground = [e \in Ext |-> [f \in Ext |-> "live"]]
    /\ told = [e \in Ext |-> {}]
    /\ slept = 0 /\ faults = 0 /\ reboots = 0 /\ ends = 0
    /\ launches = [e \in Ext |-> 0]

-----------------------------------------------------------------------------
(* Effects shared by several actions.                                      *)

\* A process that ends takes its timers and its pending calls with it.
EndProcesses(E) ==
    /\ starting' = [e \in Ext |-> IF e \in E THEN "no" ELSE starting[e]]
    /\ hbIn' = [e \in Ext |-> IF e \in E THEN Off ELSE hbIn[e]]
    /\ ckIn' = [e \in Ext |-> IF e \in E THEN Off ELSE ckIn[e]]
    /\ lag' = [e \in Ext |-> IF e \in E THEN 0 ELSE lag[e]]
    /\ beat' = [e \in Ext |-> IF e \in E THEN "idle" ELSE beat[e]]
    /\ stamp' = [e \in Ext |-> IF e \in E THEN 0 ELSE stamp[e]]
    /\ linked' = [e \in Ext |-> IF e \in E THEN FALSE ELSE linked[e]]
    /\ del' = [e \in Ext |-> IF e \in E THEN "no" ELSE del[e]]
    /\ check' = [e \in Ext |-> IF e \in E THEN "idle" ELSE check[e]]
    /\ toRead' = [e \in Ext |-> IF e \in E THEN {} ELSE toRead[e]]
    /\ known' = [e \in Ext |-> IF e \in E THEN {} ELSE known[e]]
    /\ guarded' = [e \in Ext |-> IF e \in E THEN FALSE ELSE guarded[e]]
    /\ told' = [e \in Ext |-> IF e \in E THEN {} ELSE told[e]]
    /\ UNCHANGED <<seen, victim, ground>>

\* open(path, 'w'): creates the file or empties it.
Truncate(e) ==
    /\ dir
    /\ file' = [file EXCEPT ![e] = "empty"]
    /\ age' = [age EXCEPT ![e] = 0]
    /\ fate' = [fate EXCEPT ![e] = "live"]

\* rm(path, {force: true}): a handle still open on it leads nowhere.
Remove(e) ==
    /\ file' = [file EXCEPT ![e] = "absent"]
    /\ age' = [age EXCEPT ![e] = 0]
    /\ linked' = [linked EXCEPT ![e] = FALSE]
    /\ fate' = [fate EXCEPT ![e] = "live"]

\* A call may fail when its directory is gone, or by a file system fault.
MayFail == \/ ~dir /\ UNCHANGED faults
           \/ faults < MaxFaults /\ faults' = faults + 1

\* CrashMonitoring.cleanup(): clear both intervals, delete the own file.
Cleanup(e, next) ==
    /\ hbIn' = [hbIn EXCEPT ![e] = Off]
    /\ ckIn' = [ckIn EXCEPT ![e] = Off]
    /\ lag' = [lag EXCEPT ![e] = 0]
    /\ del' = [del EXCEPT ![e] = "trunc"]
    /\ mode' = [mode EXCEPT ![e] = next]

-----------------------------------------------------------------------------
(* Start of an instance.                                                   *)

Launch(e) ==
    /\ ~Running(e) /\ launches[e] < MaxLaunches
    /\ mode' = [mode EXCEPT ![e] = "boot"]
    /\ launches' = [launches EXCEPT ![e] = @ + 1]
    /\ UNCHANGED <<fsVars, starting, timerVars, beatVars, del, checkVars,
                   told, slept, faults, reboots, ends>>

\* isStateStale(): the first instance of an OS session clears the state.
ReadBoot(e) ==
    /\ mode[e] = "boot"
    /\ mode' = [mode EXCEPT ![e] = IF bootSeen THEN "mkdir" ELSE "mark"]
    /\ UNCHANGED <<fsVars, starting, timerVars, beatVars, del, checkVars,
                   told, budgets>>

MarkBoot(e) ==
    /\ mode[e] = "mark"
    /\ mode' = [mode EXCEPT ![e] = "clear"]
    /\ bootSeen' = TRUE
    /\ UNCHANGED <<dir, file, age, fate, starting, timerVars, beatVars, del,
                   checkVars, told, budgets>>

ClearStateOwn(e) ==
    /\ mode[e] = "clear"
    /\ mode' = [mode EXCEPT ![e] = "mkdir"]
    /\ Remove(e)
    /\ UNCHANGED <<dir, bootSeen, starting, timerVars, beat, stamp, del,
                   checkVars, told, budgets>>

ClearState(e) ==
    /\ mode[e] = "clear"
    /\ mode' = [mode EXCEPT ![e] = "mkdir"]
    /\ dir' = FALSE
    /\ file' = [f \in Ext |-> "absent"]
    /\ age' = [f \in Ext |-> 0]
    /\ linked' = [f \in Ext |-> FALSE]
    /\ fate' = [f \in Ext |-> "live"]
    /\ UNCHANGED <<bootSeen, starting, timerVars, beat, stamp, del, checkVars,
                   told, budgets>>

\* mkdir, then start(): the first heartbeat takes its timestamp.
Mkdir(e) ==
    /\ mode[e] = "mkdir"
    /\ mode' = [mode EXCEPT ![e] = "up"]
    /\ dir' = TRUE
    /\ starting' = [starting EXCEPT ![e] = "beat"]
    /\ beat' = [beat EXCEPT ![e] = "open"]
    /\ stamp' = [stamp EXCEPT ![e] = 0]
    /\ UNCHANGED <<file, age, fate, bootSeen, timerVars, linked, del, checkVars,
                   told, budgets>>

\* An unstable file system: instance() returns undefined for good.
BootFails(e) ==
    /\ Booting(e) /\ faults < MaxFaults
    /\ faults' = faults + 1
    /\ mode' = [mode EXCEPT ![e] = "bare"]
    /\ UNCHANGED <<fsVars, starting, timerVars, beatVars, del, checkVars, told,
                   slept, launches, reboots, ends>>

BootStep(e) == ReadBoot(e) \/ MarkBoot(e) \/ ClearState(e) \/ Mkdir(e)

-----------------------------------------------------------------------------
(* Heartbeat.                                                              *)

HeartbeatFires(e) ==
    /\ hbIn[e] = 0 /\ beat[e] = "idle"
    /\ hbIn' = [hbIn EXCEPT ![e] = HeartbeatInterval]
    /\ beat' = [beat EXCEPT ![e] = "open"]
    /\ stamp' = [stamp EXCEPT ![e] = 0]
    /\ UNCHANGED <<fsVars, mode, starting, ckIn, lag, linked, del, checkVars,
                   told, budgets>>

BeatOpen(e) ==
    /\ beat[e] = "open" /\ Truncate(e)
    /\ beat' = [beat EXCEPT ![e] = "write"]
    /\ linked' = [linked EXCEPT ![e] = TRUE]
    /\ UNCHANGED <<dir, bootSeen, mode, starting, timerVars, stamp, del,
                   checkVars, told, budgets>>

\* The write reaches the directory's file only through a live handle.
BeatWrite(e) ==
    /\ beat[e] = "write"
    /\ beat' = [beat EXCEPT ![e] = "verify"]
    /\ IF linked[e]
       THEN /\ file' = [file EXCEPT ![e] = "beat"]
            /\ age' = [age EXCEPT ![e] = stamp[e]]
            /\ fate' = [fate EXCEPT ![e] = IF Stopped(e) THEN "left" ELSE "live"]
       ELSE UNCHANGED <<file, age, fate>>
    /\ linked' = [linked EXCEPT ![e] = FALSE]
    /\ UNCHANGED <<dir, bootSeen, mode, starting, timerVars, stamp, del,
                   checkVars, told, budgets>>

BeatVisible(e) == file[e] = "beat"

\* The sanity check succeeds.  The first heartbeat lets start() set the
\* interval and go on with the initial check, which TimeLag does not guard.
BeatVerified(e) ==
    /\ beat[e] = "verify" /\ BeatVisible(e)
    /\ beat' = [beat EXCEPT ![e] = "idle"]
    /\ stamp' = [stamp EXCEPT ![e] = 0]
    /\ IF starting[e] = "beat"
       THEN /\ hbIn' = [hbIn EXCEPT ![e] = HeartbeatInterval]
            /\ starting' = [starting EXCEPT ![e] = "check"]
            /\ check' = [check EXCEPT ![e] = "list"]
            /\ guarded' = [guarded EXCEPT ![e] = FALSE]
       ELSE UNCHANGED <<hbIn, starting, check, guarded>>
    /\ UNCHANGED <<fsVars, mode, ckIn, lag, linked, del, toRead, known, seen,
                   victim, ground, told, budgets>>

BeatRetry(e) ==
    /\ beat[e] = "verify" /\ ~BeatVisible(e)
    /\ beat' = [beat EXCEPT ![e] = "open"]
    /\ UNCHANGED <<fsVars, mode, starting, timerVars, stamp, linked, del,
                   checkVars, told, budgets>>

\* The retries are exhausted.  A failed first heartbeat makes start() clean
\* up; a later one makes the interval shut the heartbeat down first.
BeatGivesUp(e) ==
    /\ \/ beat[e] = "open" /\ MayFail
       \/ beat[e] = "verify" /\ ~BeatVisible(e) /\ UNCHANGED faults
    /\ beat' = [beat EXCEPT ![e] = "idle"]
    /\ stamp' = [stamp EXCEPT ![e] = 0]
    /\ IF starting[e] = "beat"
       THEN /\ starting' = [starting EXCEPT ![e] = "no"]
            /\ Cleanup(e, IF mode[e] = "up" THEN "failed" ELSE mode[e])
       ELSE /\ hbIn' = [hbIn EXCEPT ![e] = Off]
            /\ del' = [del EXCEPT ![e] = "trunc"]
            /\ mode' = [mode EXCEPT ![e] = IF @ = "up" THEN "failing" ELSE @]
            /\ UNCHANGED <<starting, ckIn, lag>>
    /\ UNCHANGED <<fsVars, linked, checkVars, told, slept, launches,
                   reboots, ends>>

BeatStep(e) == \/ HeartbeatFires(e) \/ BeatOpen(e) \/ BeatWrite(e)
               \/ BeatVerified(e) \/ BeatRetry(e) \/ BeatGivesUp(e)

-----------------------------------------------------------------------------
(* Deleting the own heartbeat file.                                        *)

DeleteTruncate(e) ==
    /\ del[e] = "trunc" /\ Truncate(e)
    /\ del' = [del EXCEPT ![e] = "rm"]
    /\ UNCHANGED <<dir, bootSeen, mode, starting, timerVars, beatVars,
                   checkVars, told, budgets>>

\* What awaited the deletion: a failed heartbeat goes on to fire onFailure,
\* whose cleanup deletes again; a shutdown lets the process exit.
AfterDelete(e) ==
    IF mode[e] = "failing" THEN Cleanup(e, "failed")
    ELSE /\ del' = [del EXCEPT ![e] = "no"]
         /\ mode' = [mode EXCEPT ![e] = IF @ = "quitting" THEN "exiting" ELSE @]
         /\ UNCHANGED <<hbIn, ckIn, lag>>

DeleteRemove(e) ==
    /\ del[e] = "rm" /\ Remove(e) /\ AfterDelete(e)
    /\ UNCHANGED <<dir, bootSeen, starting, beat, stamp, checkVars,
                   told, budgets>>

DeleteGivesUp(e) ==
    /\ del[e] = "trunc" /\ MayFail /\ AfterDelete(e)
    /\ fate' = [fate EXCEPT ![e] = IF file[e] = "beat" THEN "left" ELSE @]
    /\ UNCHANGED <<dir, file, age, bootSeen, starting, beatVars, checkVars,
                   told, slept, launches, reboots, ends>>

DeleteStep(e) == DeleteTruncate(e) \/ DeleteRemove(e) \/ DeleteGivesUp(e)

-----------------------------------------------------------------------------
(* The crash check.                                                        *)

\* TimeLag: the wall clock ran further than the interval did.
DidLagLoose(c) == lag[c] > CheckInterval + Buffer + HeartbeatInterval
DidLagAtOnce(c) == lag[c] >= CheckInterval
DidLag(c) == lag[c] > CheckInterval + Buffer

\* The interval callback: a lag skips one check.
CheckFires(c) ==
    /\ ckIn[c] = 0 /\ check[c] = "idle"
    /\ ckIn' = [ckIn EXCEPT ![c] = CheckInterval]
    /\ IF DidLag(c)
       THEN /\ lag' = [lag EXCEPT ![c] = 0]
            /\ UNCHANGED <<check, guarded>>
       ELSE /\ check' = [check EXCEPT ![c] = "list"]
            /\ guarded' = [guarded EXCEPT ![c] = TRUE]
            /\ UNCHANGED lag
    /\ UNCHANGED <<fsVars, mode, starting, hbIn, beatVars, del, toRead, known,
                   seen, victim, ground, told, budgets>>

\* readdir of getAllExts().
ListFiles(c) ==
    /\ check[c] = "list" /\ dir
    /\ check' = [check EXCEPT ![c] = "judge"]
    /\ toRead' = [toRead EXCEPT ![c] = {e \in Ext : file[e] # "absent"}]
    /\ known' = [known EXCEPT ![c] = {}]
    /\ UNCHANGED <<fsVars, mode, starting, timerVars, beatVars, del, seen,
                   victim, ground, guarded, told, budgets>>

\* The files are read in parallel; a missing, empty or partial one is skipped.
ReadFile(c, e) ==
    /\ check[c] = "judge" /\ e \in toRead[c]
    /\ toRead' = [toRead EXCEPT ![c] = @ \ {e}]
    /\ IF file[e] = "beat"
       THEN /\ known' = [known EXCEPT ![c] = @ \cup {e}]
            /\ seen' = [seen EXCEPT ![c][e] = age[e]]
            /\ ground' = [ground EXCEPT ![c][e] = fate[e]]
       ELSE UNCHANGED <<known, seen, ground>>
    /\ UNCHANGED <<fsVars, mode, starting, timerVars, beatVars, del, check,
                   victim, guarded, told, budgets>>

IsStopped(c, e) == seen[c][e] >= CheckInterval

\* The loop runs on to its next crashed entry; the order of the directory
\* decides which running ones it passes on the way.
JudgeCrashed(c, e) ==
    /\ check[c] = "judge" /\ toRead[c] = {}
    /\ e \in known[c] /\ IsStopped(c, e)
    /\ \E passed \in SUBSET {f \in known[c] : ~IsStopped(c, f)} :
           known' = [known EXCEPT ![c] = @ \ (passed \cup {e})]
    /\ victim' = [victim EXCEPT ![c] = e]
    /\ check' = [check EXCEPT ![c] = "trunc"]
    /\ UNCHANGED <<fsVars, mode, starting, timerVars, beatVars, del, toRead,
                   seen, ground, guarded, told, budgets>>

VictimTruncateKept(c) ==
    /\ check[c] = "trunc"
    /\ check' = [check EXCEPT ![c] = "emit"]
    /\ UNCHANGED <<fsVars, mode, starting, timerVars, beatVars, del,
                   toRead, known, seen, victim, ground, guarded, told,
                   budgets>>

\* handleCrashedExt deletes the file, then emits the metric.
VictimTruncate(c) ==
    /\ check[c] = "trunc" /\ Truncate(victim[c])
    /\ check' = [check EXCEPT ![c] = "rm"]
    /\ UNCHANGED <<dir, bootSeen, mode, starting, timerVars, beatVars, del,
                   toRead, known, seen, victim, ground, guarded, told,
                   budgets>>

VictimRemove(c) ==
    /\ check[c] = "rm" /\ Remove(victim[c])
    /\ check' = [check EXCEPT ![c] = "emit"]
    /\ UNCHANGED <<dir, bootSeen, mode, starting, timerVars, beat, stamp, del,
                   toRead, known, seen, victim, ground, guarded, told,
                   budgets>>


Emit(c) ==
    /\ check[c] = "emit"
    /\ check' = [check EXCEPT ![c] = "judge"]
    /\ told' = [told EXCEPT ![c] =
                    IF victim[c] \in Debug \/ ground[c][victim[c]] # "crash"
                    THEN @ ELSE @ \cup {victim[c]}]
    /\ UNCHANGED <<fsVars, mode, starting, timerVars, beatVars, del, toRead,
                   known, seen, victim, ground, guarded, budgets>>

\* A completed check restarts TimeLag; the initial one sets the interval.
Finish(c) ==
    /\ check[c] = "judge" /\ toRead[c] = {}
    /\ \A e \in known[c] : ~IsStopped(c, e)
    /\ check' = [check EXCEPT ![c] = "idle"]
    /\ known' = [known EXCEPT ![c] = {}]
    /\ guarded' = [guarded EXCEPT ![c] = FALSE]
    /\ seen' = [seen EXCEPT ![c] = [e \in Ext |-> 0]]
    /\ ground' = [ground EXCEPT ![c] = [e \in Ext |-> "live"]]
    /\ victim' = [victim EXCEPT ![c] = c]
    /\ lag' = [lag EXCEPT ![c] = 0]
    /\ starting' = [starting EXCEPT ![c] = "no"]
    /\ ckIn' = [ckIn EXCEPT ![c] = IF starting[c] = "check"
                                   THEN CheckInterval ELSE @]
    /\ UNCHANGED <<fsVars, mode, hbIn, beatVars, del, toRead, told, budgets>>

\* readdir, reading a file or deleting one fails: cleanup ends the monitoring.
CheckThrows(c) ==
    /\ \/ check[c] \in {"list", "trunc"} /\ MayFail
       \/ check[c] = "judge" /\ toRead[c] # {}
          /\ faults < MaxFaults /\ faults' = faults + 1
    /\ check' = [check EXCEPT ![c] = "idle"]
    /\ toRead' = [toRead EXCEPT ![c] = {}]
    /\ known' = [known EXCEPT ![c] = {}]
    /\ guarded' = [guarded EXCEPT ![c] = FALSE]
    /\ seen' = [seen EXCEPT ![c] = [e \in Ext |-> 0]]
    /\ ground' = [ground EXCEPT ![c] = [e \in Ext |-> "live"]]
    /\ victim' = [victim EXCEPT ![c] = c]
    /\ starting' = [starting EXCEPT ![c] = "no"]
    /\ Cleanup(c, IF Stopped(c) THEN mode[c] ELSE "failed")
    /\ UNCHANGED <<fsVars, beatVars, told, slept, launches, reboots, ends>>

CheckStep(c) ==
    \/ CheckFires(c) \/ ListFiles(c) \/ \E e \in Ext : ReadFile(c, e)
    \/ \E e \in Ext : JudgeCrashed(c, e)
    \/ VictimTruncate(c) \/ VictimRemove(c) \/ Emit(c)
    \/ Finish(c) \/ CheckThrows(c)

-----------------------------------------------------------------------------
(* Ends of an instance, and the passing of time.                           *)

\* deactivate(): shutdown() of the monitor, if one was created.
Quit(e) ==
    /\ \/ /\ Booting(e) \/ mode[e] = "bare"
          /\ mode' = [mode EXCEPT ![e] = "exiting"]
          /\ UNCHANGED <<timerVars, del>>
       \/ /\ mode[e] \in {"up", "failing", "failed"}
          /\ Cleanup(e, "quitting")
    /\ ends < MaxEnds /\ ends' = ends + 1
    /\ UNCHANGED <<fsVars, starting, beatVars, checkVars, told, slept, faults,
                   launches, reboots>>

Exit(e) ==
    /\ mode[e] = "exiting"
    /\ mode' = [mode EXCEPT ![e] = "off"]
    /\ EndProcesses({e})
    /\ UNCHANGED <<fsVars, budgets>>

\* The heartbeats whose writers end with E without deleting them.
Orphan(E, end) ==
    fate' = [e \in Ext |->
                IF e \notin E \/ file[e] # "beat" \/ fate[e] # "live"
                THEN fate[e]
                ELSE IF Stopped(e) THEN "left" ELSE end]

\* The process dies: no timer, no pending call and no cleanup survives.
Crash(e) ==
    /\ Running(e) /\ ends < MaxEnds
    /\ ends' = ends + 1
    /\ mode' = [mode EXCEPT ![e] = "dead"]
    /\ EndProcesses({e}) /\ Orphan({e}, "crash")
    /\ UNCHANGED <<dir, file, age, bootSeen, slept, faults, launches, reboots>>

Reboot ==
    /\ reboots < MaxReboots
    /\ reboots' = reboots + 1
    /\ mode' = [e \in Ext |-> IF Running(e) THEN "dead" ELSE mode[e]]
    /\ bootSeen' = FALSE
    /\ EndProcesses(Ext) /\ Orphan(Ext, "reboot")
    /\ UNCHANGED <<dir, file, age, slept, faults, launches, ends>>

\* Wall-clock ages advance; those that mean nothing stay 0.
Aged ==
    /\ age' = [e \in Ext |-> IF file[e] = "beat" THEN Older(age[e]) ELSE age[e]]
    /\ lag' = [e \in Ext |-> IF ckIn[e] # Off THEN Lagged(lag[e]) ELSE lag[e]]
    /\ stamp' = [e \in Ext |-> IF beat[e] # "idle" THEN Older(stamp[e])
                                                  ELSE stamp[e]]
    /\ seen' = [c \in Ext |-> [e \in Ext |->
                    IF e \in known[c] THEN Older(seen[c][e]) ELSE seen[c][e]]]

Sleep ==
    /\ slept < MaxSleep
    /\ slept' = slept + 1
    /\ Aged
    /\ guarded' = [e \in Ext |-> FALSE]
    /\ UNCHANGED <<dir, file, fate, bootSeen, mode, starting, hbIn, ckIn, beat,
                   linked, del, check, toRead, known, victim, ground, told,
                   faults, launches, reboots, ends>>

\* No system call is under way and no timer is due.
Quiet == \A e \in Ext :
    /\ beat[e] = "idle" /\ del[e] = "no" /\ check[e] = "idle"
    /\ hbIn[e] # 0 /\ ckIn[e] # 0
    /\ ~Booting(e) /\ mode[e] # "exiting"

CountDown(timer) == [e \in Ext |-> IF timer[e] = Off THEN Off ELSE timer[e] - 1]

Tick ==
    /\ Quiet
    /\ Aged
    /\ hbIn' = CountDown(hbIn)
    /\ ckIn' = CountDown(ckIn)
    /\ UNCHANGED <<dir, file, fate, bootSeen, mode, starting, beat, linked, del,
                   check, toRead, known, victim, ground, guarded, told, budgets>>

-----------------------------------------------------------------------------
Step(e) == \/ BootStep(e) \/ BeatStep(e) \/ DeleteStep(e) \/ CheckStep(e)
           \/ Exit(e)

Next == \/ \E e \in Ext : \/ Launch(e) \/ BootFails(e) \/ Step(e)
                          \/ Quit(e) \/ Crash(e)
        \/ Reboot \/ Sleep \/ Tick

\* System calls that were issued return, and time goes on.
Fairness == /\ WF_vars(Tick)
            /\ \A e \in Ext : WF_vars(Step(e))

Spec == Init /\ [][Next]_vars

FairSpec == Spec /\ Fairness

-----------------------------------------------------------------------------
(* Properties.                                                             *)

\* A session_end metric is about to be emitted, or has just been earned.
Emitting(c) == check[c] = "emit" /\ victim[c] \notin Debug

\* TimeLag keeps a sleeping computer from looking like a crash: a heartbeat
\* that a guarded check finds too old was written by an instance that died
\* or stopped monitoring, never by one that still sends heartbeats; and so was
\* every one that it deletes and reports.
GuardedCheckSound ==
    \A c \in Ext : guarded[c] =>
        /\ \A e \in known[c] : IsStopped(c, e) => ground[c][e] # "live"
        /\ check[c] \in {"trunc", "rm", "emit"} => ground[c][victim[c]] # "live"

\* handleCrashedExt deletes the heartbeat first, so that a checker reports
\* the crash of an instance at most once.
ReportedOnce ==
    \A c \in Ext :
        Emitting(c) /\ ground[c][victim[c]] = "crash" /\ launches[victim[c]] = 1
            => victim[c] \notin told[c]

\* clearState: after a restart of the computer, once an instance has seen to
\* the state and no instance is at it, no heartbeat of the old OS session is
\* left for a checker to report.  It takes a clearState that neither fails nor
\* is cut off: it is not tried again, as the restart is marked as seen by then.
OldStateGone ==
    bootSeen /\ faults = 0 /\ ends = 0 /\ (\A e \in Ext : mode[e] # "clear")
        => \A e \in Ext : fate[e] # "reboot"

\* A crashed instance's heartbeat does not stay unhandled while some instance
\* keeps checking: in the end the heartbeat is gone, or nobody checks.
CrashHandled ==
    \A e \in Ext :
        (fate[e] = "crash") ~>
            (fate[e] # "crash" \/ \A c \in Ext : ckIn[c] = Off)
=============================================================================
