---------------------------- MODULE LspInstaller ----------------------------
(***************************************************************************)
(* The installer of the Amazon Q language server (BaseLspInstaller,        *)
(* LanguageServerResolver, ManifestResolver, cleanLspDownloads).           *)
(*                                                                         *)
(* Every window resolves the server once, when the extension starts: it    *)
(* reads the manifest, takes the newest listed version from the disk if it *)
(* is complete, else downloads it, else falls back to an older version on  *)
(* the disk; then it removes old versions and launches what it found, or,  *)
(* when anything threw, the server bundled with the extension.  The        *)
(* directory is shared by all windows and there is no lock.                *)
(*                                                                         *)
(* One action per await: between two of them other windows run, and the    *)
(* window may be killed.  Deleting a tree and unpacking a zip are each one *)
(* step, except that a kill may cut an unpacking short.                    *)
(***************************************************************************)
EXTENDS Naturals, FiniteSets

CONSTANTS
    Windows,    \* windows that may be open at the same time
    MaxVersion, \* bound: server versions that are ever published
    Files,      \* the zip files of one version ("contents" of the target)
    Main,       \* the zip that holds the node executable (servers.zip)
    MaxStarts   \* bound: windows opened in one behaviour

ASSUME LspAssumption ==
    /\ MaxVersion \in Nat
    /\ Main \in Files
    /\ "none" \notin Files
    /\ MaxStarts \in Nat

VARIABLES
    published,  \* the manifest on the server, at the last request
    saved,      \* the manifest kept in globalState
    dirs,       \* versions that have a directory on the disk
    zip,        \* zip[v][f]: the downloaded zip file, none, torn or whole
    out,        \* out[v][f]: the folder it was unpacked to
    win,        \* win[w]: the resolution window w is in
    starts      \* how many windows were opened

vars == <<published, saved, dirs, zip, out, win, starts>>
store == <<published, saved, starts>>
disk == <<dirs, zip, out>>

\* The versions, numbered in the order of semver.
Versions == 1..MaxVersion

None == "none"

Zips == {None, "torn", "whole"}

\* "part": entries are missing, the others are whole; "torn": one entry was cut
\* off in the middle of its bytes.
Outs == {None, "part", "torn", "whole"}

Manifest == [listed: SUBSET Versions, delisted: SUBSET Versions]

NoManifest == [listed |-> {}, delisted |-> {}]

Steps == {"off", "check", "drop", "mkdir", "fetch", "write", "unzip", "undo", "fallback",
          "install", "clean", "delete", "failed", "serving", "bundled"}

Settled == {"off", "serving", "bundled"}

Window ==
    [pc: Steps, man: Manifest, ver: Versions \cup {0}, todo: SUBSET Files,
     now: Files \cup {None}, seen: SUBSET Files, doomed: SUBSET Versions,
     dropped: SUBSET Files, alone: BOOLEAN]

Closed ==
    [pc |-> "off", man |-> NoManifest, ver |-> 0, todo |-> {}, now |-> None,
     seen |-> {}, doomed |-> {}, dropped |-> {}, alone |-> FALSE]

Empty == [f \in Files |-> None]

Init ==
    /\ published = NoManifest
    /\ saved = NoManifest
    /\ dirs = {}
    /\ zip = [v \in Versions |-> Empty]
    /\ out = [v \in Versions |-> Empty]
    /\ win = [w \in Windows |-> Closed]
    /\ starts = 0

-----------------------------------------------------------------------------
(* What is on the disk *)

Newest(S) == CHOOSE v \in S : \A u \in S : u <= v

\* hasValidLocalCache: every zip of the version is there ...
AllThere(v) == \A f \in Files : zip[v][f] # None

\* ... and every one can be opened.
AllWhole(v, S) == \A f \in S : zip[v][f] = "whole"

\* What unpacking zip f of v leaves: entries that exist are not written again,
\* so one that was cut off stays so.
Unpack(v, f) ==
    IF zip[v][f] = "whole" /\ out[v][f] # "torn" THEN "whole" ELSE out[v][f]

\* copyZipContents: every zip is tried, whatever became of the others.
Unpacked(v, S) == [f \in Files |-> IF f \in S THEN Unpack(v, f) ELSE out[v][f]]

\* A plausible bug: entries are written over, as with overwrite = true.
CutOverwritten(v, f) ==
    IF zip[v][f] = "whole" THEN {"part", "torn"} ELSE {out[v][f]}

\* What may be left when the window dies while it unpacks zip f of v: only an
\* entry that was missing can be half written.
CutShort(v, f) ==
    IF zip[v][f] = "whole" /\ out[v][f] \in {None, "part"}
      THEN {"part", "torn"}
      ELSE {out[v][f]}

\* fs.delete of the directories of the versions in S, with all they hold.
RemoveAll(S) ==
    /\ dirs' = dirs \ S
    /\ zip' = [v \in Versions |-> IF v \in S THEN Empty ELSE zip[v]]
    /\ out' = [v \in Versions |-> IF v \in S THEN Empty ELSE out[v]]

\* The versions the manifest lists that could be launched from the disk.
Usable(m) == {v \in m.listed \cap dirs : AllWhole(v, Files)}

-----------------------------------------------------------------------------
(* The manifest on the server *)

\* What the publisher may have made of manifest m by the next request: versions
\* are added, and delisted for good.
Later(m) ==
    {n \in Manifest :
        /\ n.listed \cap n.delisted = {}
        /\ m.listed \subseteq n.listed \cup n.delisted
        /\ m.delisted \subseteq n.delisted}

-----------------------------------------------------------------------------
(* One resolution *)

At(w, pc) == win[w].pc = pc

Goto(w, pc) == win' = [win EXCEPT ![w].pc = pc]

\* A window that has read manifest m and wants the newest version it lists.
Opened(w, m) ==
    [Closed EXCEPT
        !.man = m,
        !.pc = IF m.listed = {} THEN "failed" ELSE "check",
        !.ver = IF m.listed = {} THEN 0 ELSE Newest(m.listed),
        !.alone = \A u \in Windows \ {w} : win[u].pc \in Settled]

\* The windows u that are resolving are no longer alone.
Disturbed(u) == IF win[u].pc \in Settled THEN win[u] ELSE [win[u] EXCEPT !.alone = FALSE]

\* A window opens and reads the manifest: the published one, which is saved, or
\* the saved one when the request fails.
Start(w) ==
    /\ At(w, "off")
    /\ starts < MaxStarts
    /\ starts' = starts + 1
    /\ \/ \E p \in Later(published) : published' = p /\ saved' = p
       \/ UNCHANGED <<published, saved>>
    /\ win' = [u \in Windows |-> IF u = w THEN Opened(w, saved') ELSE Disturbed(u)]
    /\ UNCHANGED disk

\* A plausible bug: the names of the files are checked, not that they can be opened.
CheckNames(w) ==
    LET v == win[w].ver
    IN  /\ At(w, "check")
        /\ out' = IF AllThere(v) THEN [out EXCEPT ![v] = Unpacked(v, Files)] ELSE out
        /\ Goto(w, IF AllThere(v) THEN "install" ELSE "drop")
        /\ UNCHANGED <<store, dirs, zip>>

\* getLocalServer: unpacks what is there, and takes it when it is all whole.
CheckLocal(w) ==
    LET v == win[w].ver
    IN  /\ At(w, "check")
        /\ out' = IF AllThere(v) THEN [out EXCEPT ![v] = Unpacked(v, Files)] ELSE out
        /\ Goto(w, IF AllWhole(v, Files) THEN "install" ELSE "drop")
        /\ UNCHANGED <<store, dirs, zip>>

\* An invalid cache is deleted before the download.
Drop(w) ==
    /\ At(w, "drop")
    /\ RemoveAll({win[w].ver})
    /\ Goto(w, "mkdir")
    /\ UNCHANGED store

Mkdir(w) ==
    /\ At(w, "mkdir")
    /\ dirs' = dirs \cup {win[w].ver}
    /\ Goto(w, "fetch")
    /\ UNCHANGED <<store, zip, out>>

\* A request threw, after its retries: nothing is cleaned up.
FetchThrows(w) ==
    /\ At(w, "fetch")
    /\ Goto(w, "fallback")
    /\ UNCHANGED <<store, disk>>

\* A response that is missing or not ok: the download failed.
FetchNotOk(w) ==
    /\ At(w, "fetch")
    /\ Goto(w, "undo")
    /\ UNCHANGED <<store, disk>>

\* All were fetched; the ones whose hash is wrong are left out, and not missed.
Fetched(w) ==
    /\ At(w, "fetch")
    /\ \E bad \in SUBSET Files :
         win' = [win EXCEPT ![w].pc = "write", ![w].todo = Files \ bad, ![w].dropped = bad]
    /\ UNCHANGED <<store, disk>>

\* writeFile makes the directory when it is gone and truncates the file.
BeginWrite(w, f) ==
    LET v == win[w].ver
    IN  /\ At(w, "write")
        /\ win[w].now = None
        /\ f \in win[w].todo
        /\ dirs' = dirs \cup {v}
        /\ zip' = [zip EXCEPT ![v][f] = "torn"]
        /\ win' = [win EXCEPT ![w].now = f]
        /\ UNCHANGED <<store, out>>

\* Another window writes the same file now, over the same bytes or in a new file.
Rival(w) == \E u \in Windows \ {w} :
    /\ At(u, "write")
    /\ win[u].ver = win[w].ver
    /\ win[u].now = win[w].now

\* A plausible bug: the loop does not advance.
EndWriteAgain(w) ==
    /\ At(w, "write")
    /\ win[w].now # None
    /\ zip' = [zip EXCEPT ![win[w].ver][win[w].now] = IF @ = None THEN None ELSE "whole"]
    /\ win' = [win EXCEPT ![w].now = None]
    /\ UNCHANGED <<store, dirs, out>>

\* The data of a file that was deleted meanwhile is lost with it.
EndWrite(w) ==
    LET v == win[w].ver
        f == win[w].now
    IN  /\ At(w, "write")
        /\ f # None
        /\ \E z \in IF zip[v][f] = None THEN {None}
                    ELSE IF Rival(w) THEN {"torn", "whole"} ELSE {"whole"} :
             zip' = [zip EXCEPT ![v][f] = z]
        /\ win' = [win EXCEPT ![w].now = None, ![w].todo = @ \ {f}]
        /\ UNCHANGED <<store, dirs, out>>

\* extractZipFilesFromRemote lists the zips; readdir throws without a directory.
ListZips(w) ==
    LET v == win[w].ver
    IN  /\ At(w, "write")
        /\ win[w].now = None
        /\ win[w].todo = {}
        /\ win' = IF v \in dirs
                    THEN [win EXCEPT ![w].pc = "unzip",
                                     ![w].seen = {f \in Files : zip[v][f] # None}]
                    ELSE [win EXCEPT ![w].pc = "fallback"]
        /\ UNCHANGED <<store, disk>>

\* It unpacks the zips it listed, however few they are.
UnzipRemote(w) ==
    LET v == win[w].ver
    IN  /\ At(w, "unzip")
        /\ out' = [out EXCEPT ![v] = Unpacked(v, win[w].seen)]
        /\ Goto(w, IF AllWhole(v, win[w].seen) THEN "install" ELSE "undo")
        /\ UNCHANGED <<store, dirs, zip>>

\* cleanupVersion: the delete is not recursive, so it throws unless the directory
\* is empty.  Either way this stage failed.
Undo(w) ==
    LET v == win[w].ver
    IN  /\ At(w, "undo")
        /\ dirs' = IF zip[v] = Empty /\ out[v] = Empty THEN dirs \ {v} ELSE dirs
        /\ Goto(w, "fallback")
        /\ UNCHANGED <<store, zip, out>>

\* Versions getFallbackDir looks at.
Candidates(w) == {u \in win[w].man.listed \cap dirs : u <= win[w].ver /\ AllThere(u)}

\* A plausible bug: only the newest version on the disk is tried.
FallbackToNewest(w) ==
    LET tried == {u \in Candidates(w) : u = Newest(Candidates(w))}
        valid == {u \in tried : AllWhole(u, Files)}
    IN  /\ At(w, "fallback")
        /\ out' = [v \in Versions |-> IF v \in tried THEN Unpacked(v, Files) ELSE out[v]]
        /\ win' = [win EXCEPT ![w].dropped = {},
                              ![w].pc = IF valid = {} THEN "failed" ELSE "install",
                              ![w].ver = IF valid = {} THEN @ ELSE Newest(valid)]
        /\ UNCHANGED <<store, dirs, zip>>

\* It unpacks all of them and takes the newest that is whole.
Fallback(w) ==
    LET tried == Candidates(w)
        valid == {u \in tried : AllWhole(u, Files)}
    IN  /\ At(w, "fallback")
        /\ out' = [v \in Versions |-> IF v \in tried THEN Unpacked(v, Files) ELSE out[v]]
        /\ win' = [win EXCEPT ![w].dropped = {},
                              ![w].pc = IF valid = {} THEN "failed" ELSE "install",
                              ![w].ver = IF valid = {} THEN @ ELSE Newest(valid)]
        /\ UNCHANGED <<store, dirs, zip>>

\* postInstall: chmod throws when the node executable is not there; in a folder
\* that lacks entries it may or may not be.
PostInstall(w) ==
    /\ At(w, "install")
    /\ \E ok \in CASE out[win[w].ver][Main] = None -> {FALSE}
                   [] out[win[w].ver][Main] = "part" -> BOOLEAN
                   [] OTHER -> {TRUE} :
         Goto(w, IF ok THEN "clean" ELSE "failed")
    /\ UNCHANGED <<store, disk>>

\* A plausible bug: a delisted version is only deleted when it is old.
DoomedByAge(own, man) ==
    {v \in dirs \ {own} : Cardinality({u \in dirs : u > v}) >= 2}

\* What cleanLspDownloads deletes: the delisted versions, and of the others all
\* but the two newest and the one to be launched.
Doomed(own, man) ==
    LET remaining == dirs \ man.delisted
    IN  (dirs \cap man.delisted)
          \cup {v \in remaining \ {own} : Cardinality({u \in remaining : u > v}) >= 2}

Clean(w) ==
    /\ At(w, "clean")
    /\ win' = [win EXCEPT ![w].pc = "delete",
                          ![w].doomed = Doomed(win[w].ver, win[w].man)]
    /\ UNCHANGED <<store, disk>>

DeleteVersion(w, v) ==
    /\ At(w, "delete")
    /\ v \in win[w].doomed
    /\ RemoveAll({v})
    /\ win' = [win EXCEPT ![w].doomed = @ \ {v}]
    /\ UNCHANGED store

Launch(w) ==
    /\ At(w, "delete")
    /\ win[w].doomed = {}
    /\ Goto(w, "serving")
    /\ UNCHANGED <<store, disk>>

\* activate catches whatever resolve threw.
UseBundled(w) ==
    /\ At(w, "failed")
    /\ Goto(w, "bundled")
    /\ UNCHANGED <<store, disk>>

-----------------------------------------------------------------------------
(* Windows are closed or die, at any step *)

Kill(w) ==
    /\ ~At(w, "off")
    /\ win' = [win EXCEPT ![w] = Closed]
    /\ UNCHANGED <<store, disk>>

\* The zips window w is about to unpack, by version.
Unpacking(w) ==
    CASE At(w, "check") -> {<<v, Files>> : v \in {u \in {win[w].ver} : AllThere(u)}}
      [] At(w, "unzip") -> {<<win[w].ver, win[w].seen>>}
      [] At(w, "fallback") -> {<<v, Files>> : v \in Candidates(w)}
      [] OTHER -> {}

\* It dies in the middle of zip f, after the zips in "before".
KillUnpacking(w) ==
    /\ \E u \in Unpacking(w) : \E f \in u[2] : \E before \in SUBSET (u[2] \ {f}) :
         \E o \in CutShort(u[1], f) :
           out' = [out EXCEPT ![u[1]] = [Unpacked(u[1], before) EXCEPT ![f] = o]]
    /\ win' = [win EXCEPT ![w] = Closed]
    /\ UNCHANGED <<store, dirs, zip>>

\* The clear-cache command: the memento and the servers of all windows, then the
\* window reloads.
ClearCache(w) ==
    /\ win[w].pc \in {"serving", "bundled"}
    /\ saved' = NoManifest
    /\ RemoveAll(Versions)
    /\ win' = [u \in Windows |-> IF u = w THEN Closed ELSE Disturbed(u)]
    /\ UNCHANGED <<published, starts>>

\* One step of a resolution.
Resolve(w) ==
    \/ CheckLocal(w)
    \/ Drop(w)
    \/ Mkdir(w)
    \/ FetchThrows(w)
    \/ FetchNotOk(w)
    \/ Fetched(w)
    \/ \E f \in Files : BeginWrite(w, f)
    \/ EndWrite(w)
    \/ ListZips(w)
    \/ UnzipRemote(w)
    \/ Undo(w)
    \/ Fallback(w)
    \/ PostInstall(w)
    \/ Clean(w)
    \/ \E v \in Versions : DeleteVersion(w, v)
    \/ Launch(w)
    \/ UseBundled(w)

Next ==
    \E w \in Windows :
        Start(w) \/ Resolve(w) \/ Kill(w) \/ KillUnpacking(w) \/ ClearCache(w)

Spec == Init /\ [][Next]_vars

\* Every await of a resolution comes back: requests have time limits and file
\* operations end.
FairSpec == Spec /\ \A w \in Windows : WF_vars(Resolve(w))

-----------------------------------------------------------------------------
(* Properties *)

\* Types, and a version without a directory has no files.
TypeOK ==
    /\ published \in Manifest
    /\ saved \in Manifest
    /\ dirs \subseteq Versions
    /\ zip \in [Versions -> [Files -> Zips]]
    /\ out \in [Versions -> [Files -> Outs]]
    /\ \A v \in Versions \ dirs : zip[v] = Empty /\ out[v] = Empty
    /\ win \in [Windows -> Window]
    /\ starts \in 0..MaxStarts

\* Window w is about to launch the server it resolved, and no other window was
\* resolving meanwhile.
Launching(w) == At(w, "delete") /\ win[w].doomed = {} /\ win[w].alone

\* A window that resolved alone launches a server that lacks nothing but the zips
\* it downloaded with a wrong hash: whatever earlier windows left behind when they
\* failed or died, and whatever was cleaned since, every other zip is whole and
\* unpacked (hasValidLocalCache, copyZipContents, cleanLspDownloads).
LaunchesAll ==
    \A w \in Windows : Launching(w) =>
        \A f \in Files \ win[w].dropped :
            /\ zip[win[w].ver][f] = "whole"
            /\ out[win[w].ver][f] \in {"torn", "whole"}

\* A window that resolved alone, and whose download had no wrong hash, uses the
\* bundled server only when no version its manifest lists is whole on the disk:
\* a failed download never costs the fallback (LanguageServerResolver.resolve).
FallsBack ==
    \A w \in Windows :
        At(w, "failed") /\ win[w].alone /\ win[w].dropped = {} => Usable(win[w].man) = {}

\* When a window that resolved alone launches its server, the disk holds no
\* delisted version and at most three others, however many downloads failed or
\* were cut off before (cleanLspDownloads).
DiskBounded ==
    \A w \in Windows : Launching(w) =>
        /\ dirs \cap win[w].man.delisted = {}
        /\ Cardinality(dirs) <= 3

\* Once a zip is unpacked whole no window ever damages its entries, even one that
\* dies while it unpacks the same zip again: they stay until the directory is
\* deleted (extractAllTo with overwrite = false in copyZipContents).
UnpackedIntact ==
    [][\A v \in Versions : \A f \in Files :
          out[v][f] = "whole" /\ v \in dirs' => out'[v][f] = "whole"]_vars

\* A window that opens launches some server, or is closed: no way of failing
\* leaves it without one (tryStageResolvers, activate).
Settles == \A w \in Windows : []<>(win[w].pc \in Settled)
=============================================================================
