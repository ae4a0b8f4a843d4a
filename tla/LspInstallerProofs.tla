------------------------- MODULE LspInstallerProofs -------------------------
(***************************************************************************)
(* Theorems about LspInstaller, for any windows, versions, files and       *)
(* bounds: types, that no window damages what was unpacked, and what a     *)
(* window that resolves alone finds, launches and leaves on the disk.      *)
(***************************************************************************)
EXTENDS LspInstaller, FiniteSetTheorems, WellFoundedInduction, TLAPS

-----------------------------------------------------------------------------
(* The newest version of a set *)

\* The order of the natural numbers has no infinite descent.
LEMMA LessIsWellFounded ==
    IsWellFoundedOn({r \in Nat \X Nat : r[1] < r[2]}, Nat)
BY NatLessThanWellFounded, Zenon DEF OpToRel

LEMMA NewestIs ==
    ASSUME NEW S \in SUBSET Versions, S # {}
    PROVE  /\ Newest(S) \in S
           /\ \A u \in S : u <= Newest(S)
<1> DEFINE R == {r \in Nat \X Nat : r[1] < r[2]}
           D == {MaxVersion - v : v \in S}
<1>1. MaxVersion \in Nat /\ \A v \in S : v \in Nat /\ v <= MaxVersion
  BY LspAssumption DEF Versions
<1>2. D \subseteq Nat /\ D # {}
  BY <1>1
<1>3. PICK d \in D : \A e \in D : <<e, d>> \notin R
  <2> HIDE DEF R, D
  <2>1. IsWellFoundedOn(R, Nat)
    BY LessIsWellFounded DEF R
  <2> QED
    BY <1>2, <2>1, WFMin, Zenon
<1>4. PICK v \in S : d = MaxVersion - v
  OBVIOUS
<1>5. \A u \in S : u <= v
  <2> TAKE u \in S
  <2>1. MaxVersion - u \in D
    OBVIOUS
  <2>2. ~(MaxVersion - u < MaxVersion - v)
    BY <1>2, <1>3, <1>4, <2>1
  <2> QED
    BY <1>1, <2>2
<1> QED
  BY <1>5 DEF Newest

-----------------------------------------------------------------------------
(* The invariant *)

Resolving(w) == win[w].pc \notin Settled

\* While a window resolves alone no other one does.
Lone == \A w \in Windows : Resolving(w) /\ win[w].alone =>
    \A u \in Windows \ {w} : ~Resolving(u)

\* Until it falls back a window wants the newest version of its manifest, and after
\* that one that the manifest lists.
WantsAt(w) ==
    /\ Resolving(w) /\ ~At(w, "failed") => win[w].ver \in win[w].man.listed
    /\ win[w].pc \in {"check", "drop", "mkdir", "fetch", "write", "unzip", "undo", "fallback"}
         => \A u \in win[w].man.listed : u <= win[w].ver
    /\ win[w].pc \in {"check", "drop", "mkdir", "fetch"} =>
         win[w].dropped = {} /\ win[w].now = None
    /\ win[w].man.listed \cap win[w].man.delisted = {}
    /\ At(w, "delete") => win[w].ver \notin win[w].doomed
Wants == \A w \in Windows : WantsAt(w)

\* The zips in S of the version window w wants are whole and unpacked.
Ready(w, S) == \A f \in S :
    /\ zip[win[w].ver][f] = "whole"
    /\ out[win[w].ver][f] \in {"torn", "whole"}

\* What a window that resolves alone has achieved, step by step.
WroteAt(w) == At(w, "write") =>
    /\ win[w].now \in win[w].todo \cup {None}
    /\ win[w].now # None => zip[win[w].ver][win[w].now] # None
    /\ \A f \in (Files \ win[w].dropped) \ win[w].todo : zip[win[w].ver][f] = "whole"
ListedAt(w) == At(w, "unzip") =>
    \A f \in Files \ win[w].dropped :
        zip[win[w].ver][f] = "whole" /\ f \in win[w].seen
InstalledAt(w) == win[w].pc \in {"install", "clean", "delete"} =>
    Ready(w, Files \ win[w].dropped)
FailedAt(w) == At(w, "failed") /\ win[w].dropped = {} => Usable(win[w].man) = {}
CleanedAt(w) == At(w, "delete") =>
    /\ Cardinality(dirs \ win[w].doomed) <= 3
    /\ dirs \cap win[w].man.delisted \subseteq win[w].doomed

DoneAt(w) == Resolving(w) /\ win[w].alone =>
    WroteAt(w) /\ ListedAt(w) /\ InstalledAt(w) /\ FailedAt(w) /\ CleanedAt(w)
Done == \A w \in Windows : DoneAt(w)

ManifestsApart ==
    /\ published.listed \cap published.delisted = {}
    /\ saved.listed \cap saved.delisted = {}

IInv == TypeOK /\ ManifestsApart /\ Lone /\ Wants /\ Done

-----------------------------------------------------------------------------
(* Types *)

\* A window by its fields.
LEMMA WindowFacts ==
    ASSUME TypeOK, NEW w \in Windows
    PROVE  /\ win[w] \in Window
           /\ win[w].pc \in Steps
           /\ win[w].man \in Manifest
           /\ win[w].man.listed \subseteq Versions /\ win[w].man.delisted \subseteq Versions
           /\ win[w].ver \in Versions \cup {0}
           /\ win[w].todo \subseteq Files /\ win[w].now \in Files \cup {None}
           /\ win[w].seen \subseteq Files /\ win[w].doomed \subseteq Versions
           /\ win[w].dropped \subseteq Files /\ win[w].alone \in BOOLEAN
BY DEF TypeOK, Window, Manifest

\* Unpacking keeps the types of what is on the disk, and only fills folders of
\* versions that are there.
LEMMA UnpackedTypes ==
    ASSUME TypeOK, NEW v \in Versions, NEW S \in SUBSET Files
    PROVE  /\ Unpacked(v, S) \in [Files -> Outs]
           /\ v \notin dirs => Unpacked(v, S) = Empty
<1>1. out[v] \in [Files -> Outs] /\ zip[v] \in [Files -> Zips]
  BY DEF TypeOK
<1>2. \A f \in Files : Unpack(v, f) \in Outs
  BY <1>1 DEF Unpack, Outs
<1>3. ASSUME v \notin dirs PROVE Unpacked(v, S) = Empty
  <2>1. zip[v] = Empty /\ out[v] = Empty
    BY <1>3 DEF TypeOK
  <2>2. \A f \in Files : Unpack(v, f) = None
    BY <2>1 DEF Unpack, Empty, None
  <2> QED
    BY <2>1, <2>2 DEF Unpacked, Empty
<1> QED
  BY <1>1, <1>2, <1>3 DEF Unpacked

LEMMA RemoveTypes ==
    ASSUME TypeOK, NEW S \in SUBSET Versions, RemoveAll(S)
    PROVE  /\ dirs' \subseteq Versions
           /\ zip' \in [Versions -> [Files -> Zips]]
           /\ out' \in [Versions -> [Files -> Outs]]
           /\ \A v \in Versions \ dirs' : zip'[v] = Empty /\ out'[v] = Empty
<1>1. Empty \in [Files -> Zips] /\ Empty \in [Files -> Outs]
  BY DEF Empty, Zips, Outs
<1> QED
  BY <1>1 DEF TypeOK, RemoveAll

LEMMA ClosedType == Closed \in Window
BY DEF Closed, Window, Steps, Manifest, NoManifest

LEMMA InitTypes == Init => TypeOK
<1> SUFFICES ASSUME Init PROVE TypeOK
  OBVIOUS
<1>1. Empty \in [Files -> Zips] /\ Empty \in [Files -> Outs]
  BY DEF Empty, Zips, Outs
<1> QED
  BY <1>1, ClosedType, LspAssumption DEF Init, TypeOK, NoManifest, Manifest

\* The disk as TypeOK wants it.
DiskOK ==
    /\ dirs \subseteq Versions
    /\ zip \in [Versions -> [Files -> Zips]]
    /\ out \in [Versions -> [Files -> Outs]]
    /\ \A v \in Versions \ dirs : zip[v] = Empty /\ out[v] = Empty

\* One zip changes, in a directory that is there.
LEMMA ZipTypes ==
    ASSUME DiskOK, NEW v \in Versions, NEW f \in Files, NEW z \in Zips,
           zip' = [zip EXCEPT ![v][f] = z], v \notin dirs => z = None,
           UNCHANGED <<dirs, out>>
    PROVE  DiskOK'
<1>1. [zip[v] EXCEPT ![f] = z] \in [Files -> Zips]
  BY DEF DiskOK
<1>2. v \notin dirs => [zip[v] EXCEPT ![f] = z] = Empty
  BY DEF DiskOK, Empty
<1> QED
  BY <1>1, <1>2 DEF DiskOK

\* Where a step goes to.
LEMMA GotoTypes ==
    ASSUME TypeOK, NEW w \in Windows, NEW pc \in Steps, Goto(w, pc)
    PROVE  /\ win' \in [Windows -> Window]
           /\ win'[w] = [win[w] EXCEPT !.pc = pc]
           /\ \A u \in Windows \ {w} : win'[u] = win[u]
<1>1. win \in [Windows -> Window]
  BY DEF TypeOK
<1>2. [win[w] EXCEPT !.pc = pc] \in Window
  BY <1>1 DEF Window
<1>3. win' = [win EXCEPT ![w] = [win[w] EXCEPT !.pc = pc]]
  BY DEF Goto
<1> QED
  BY <1>1, <1>2, <1>3

\* A window that resolves has a version in view.
Aimed == \A w \in Windows : Resolving(w) /\ ~At(w, "failed") => win[w].ver \in Versions

Typed == TypeOK /\ Aimed

LEMMA SetsAside ==
    /\ Settled \subseteq Steps
    /\ \A pc \in {"check", "drop", "mkdir", "fetch", "write", "unzip", "undo", "fallback",
                  "install", "clean", "delete"} : pc \in Steps \ Settled /\ pc # "failed"
    /\ "failed" \in Steps \ Settled
BY DEF Settled, Steps

LEMMA TypedStart ==
    ASSUME Typed, NEW w \in Windows, Start(w)
    PROVE  Typed'
<1>1. /\ published' \in Manifest /\ saved' \in Manifest
      /\ win' = [u \in Windows |-> IF u = w THEN Opened(w, saved') ELSE Disturbed(u)]
  BY DEF Start, Later, Typed, TypeOK
<1>2. saved'.listed # {} => Newest(saved'.listed) \in Versions
  BY <1>1, NewestIs DEF Manifest
<1>3. /\ Opened(w, saved') \in Window
      /\ Opened(w, saved').pc = "check" => Opened(w, saved').ver \in Versions
      /\ Opened(w, saved').pc \in {"check", "failed"}
  BY <1>1, <1>2, ClosedType, ZenonT(60) DEF Opened, Window, Closed, Steps
<1>4. \A u \in Windows : /\ Disturbed(u) \in Window
                         /\ Disturbed(u).pc = win[u].pc
                         /\ Disturbed(u).ver = win[u].ver
  BY ZenonT(60) DEF Disturbed, Typed, TypeOK, Window
<1>6. win' \in [Windows -> Window]
  BY <1>1, <1>3, <1>4
<1>7. Aimed'
  BY <1>1, <1>3, <1>4 DEF Aimed, Resolving, At, Typed
<1>8. UNCHANGED <<dirs, zip, out>> /\ starts' \in 0..MaxStarts
  BY LspAssumption DEF Start, disk, Typed, TypeOK
<1> QED
  BY <1>1, <1>6, <1>7, <1>8 DEF Typed, TypeOK

\* A step of a window that moves only that window, to a typed state with a version.
LEMMA TypedMove ==
    ASSUME Typed, NEW w \in Windows, NEW r \in Window,
           win' = [win EXCEPT ![w] = r], UNCHANGED store, DiskOK',
           r.pc \notin Settled /\ r.pc # "failed" => r.ver \in Versions
    PROVE  Typed'
<1>1. win' \in [Windows -> Window]
  BY DEF Typed, TypeOK
<1>2. Aimed'
  <2> SUFFICES ASSUME NEW u \in Windows, Resolving(u)', ~At(u, "failed")'
               PROVE  win'[u].ver \in Versions
    BY DEF Aimed
  <2>1. CASE u = w
    BY <2>1 DEF Typed, TypeOK, Resolving, At
  <2>2. CASE u # w
    BY <2>2 DEF Typed, TypeOK, Aimed, Resolving, At
  <2> QED
    BY <2>1, <2>2
<1> QED
  BY <1>1, <1>2 DEF Typed, TypeOK, DiskOK, store

LEMMA TypedStep ==
    ASSUME Typed, NEW w \in Windows, Resolve(w)
    PROVE  Typed'
<1> DEFINE v == win[w].ver
<1>0. TypeOK /\ Aimed /\ win[w] \in Window /\ DiskOK
  BY DEF Typed, TypeOK, DiskOK
<1>1. CASE CheckLocal(w)
  <2> DEFINE r == [win[w] EXCEPT !.pc = IF AllWhole(v, Files) THEN "install" ELSE "drop"]
  <2>1. v \in Versions
    BY <1>0, <1>1 DEF CheckLocal, At, Aimed, Resolving, Settled
  <2>2. DiskOK'
    BY <1>0, <1>1, <2>1, UnpackedTypes DEF CheckLocal, DiskOK
  <2>3. r \in Window /\ win' = [win EXCEPT ![w] = r] /\ r.ver = v
    BY <1>0, <1>1 DEF CheckLocal, Goto, Window, Steps
  <2> QED
    BY <1>1, <2>1, <2>2, <2>3, TypedMove DEF CheckLocal, store
<1>2. CASE Drop(w)
  <2> DEFINE r == [win[w] EXCEPT !.pc = "mkdir"]
  <2>1. v \in Versions
    BY <1>0, <1>2 DEF Drop, At, Aimed, Resolving, Settled
  <2>2. DiskOK'
    BY <1>0, <1>2, <2>1, RemoveTypes DEF Drop, DiskOK
  <2>3. r \in Window /\ win' = [win EXCEPT ![w] = r] /\ r.ver = v
    BY <1>0, <1>2 DEF Drop, Goto, Window, Steps
  <2> QED
    BY <1>2, <2>1, <2>2, <2>3, TypedMove DEF Drop
<1>3. CASE Mkdir(w)
  <2> DEFINE r == [win[w] EXCEPT !.pc = "fetch"]
  <2>1. v \in Versions
    BY <1>0, <1>3 DEF Mkdir, At, Aimed, Resolving, Settled
  <2>2. DiskOK'
    BY <1>0, <1>3, <2>1 DEF Mkdir, DiskOK
  <2>3. r \in Window /\ win' = [win EXCEPT ![w] = r] /\ r.ver = v
    BY <1>0, <1>3 DEF Mkdir, Goto, Window, Steps
  <2> QED
    BY <1>3, <2>1, <2>2, <2>3, TypedMove DEF Mkdir, store
<1>4. CASE FetchThrows(w) \/ FetchNotOk(w) \/ Launch(w) \/ UseBundled(w)
  <2>1. PICK pc \in {"fallback", "undo", "serving", "bundled"} :
          Goto(w, pc) /\ (At(w, "fetch") \/ pc \in {"serving", "bundled"})
    BY <1>4 DEF FetchThrows, FetchNotOk, Launch, UseBundled
  <2> DEFINE r == [win[w] EXCEPT !.pc = pc]
  <2>2. pc \notin Settled => v \in Versions
    BY <1>0, <2>1 DEF At, Aimed, Resolving, Settled
  <2>3. DiskOK' /\ UNCHANGED store
    BY <1>0, <1>4 DEF FetchThrows, FetchNotOk, Launch, UseBundled, disk, DiskOK
  <2>4. r \in Window /\ win' = [win EXCEPT ![w] = r] /\ r.ver = v /\ r.pc = pc
    BY <1>0, <2>1 DEF Goto, Window, Steps
  <2> QED
    BY <2>2, <2>3, <2>4, TypedMove
<1>5. CASE Fetched(w)
  <2>1. PICK bad \in SUBSET Files :
          win' = [win EXCEPT ![w].pc = "write", ![w].todo = Files \ bad, ![w].dropped = bad]
    BY <1>5 DEF Fetched
  <2> DEFINE r == [win[w] EXCEPT !.pc = "write", !.todo = Files \ bad, !.dropped = bad]
  <2>2. v \in Versions
    BY <1>0, <1>5 DEF Fetched, At, Aimed, Resolving, Settled
  <2>3. r \in Window /\ win' = [win EXCEPT ![w] = r] /\ r.ver = v
    BY <1>0, <2>1 DEF Window, Steps
  <2>4. DiskOK' /\ UNCHANGED store
    BY <1>0, <1>5 DEF Fetched, disk, DiskOK
  <2> QED
    BY <2>2, <2>3, <2>4, TypedMove
<1>6. ASSUME NEW f \in Files, BeginWrite(w, f) PROVE Typed'
  <2> DEFINE r == [win[w] EXCEPT !.now = f]
  <2>1. v \in Versions
    BY <1>0, <1>6 DEF BeginWrite, At, Aimed, Resolving, Settled
  <2>2. DiskOK'
    BY <1>0, <1>6, <2>1 DEF BeginWrite, DiskOK, Zips
  <2>3. r \in Window /\ win' = [win EXCEPT ![w] = r] /\ r.ver = v
    BY <1>0, <1>6 DEF BeginWrite, Window
  <2> QED
    BY <1>6, <2>1, <2>2, <2>3, TypedMove DEF BeginWrite, store
<1>7. CASE EndWrite(w)
  <2> DEFINE g == win[w].now
             r == [win[w] EXCEPT !.now = None, !.todo = @ \ {g}]
  <2>1. v \in Versions
    BY <1>0, <1>7 DEF EndWrite, At, Aimed, Resolving, Settled
  <2>2. g \in Files
    BY <1>0, <1>7 DEF EndWrite, Window
  <2>3. PICK z \in Zips : /\ zip' = [zip EXCEPT ![v][g] = z]
                          /\ zip[v][g] = None => z = None
    BY <1>7 DEF EndWrite, Zips, None
  <2>5. r \in Window /\ win' = [win EXCEPT ![w] = r] /\ r.ver = v
    BY <1>0, <1>7 DEF EndWrite, Window
  <2>6. UNCHANGED <<dirs, out>> /\ UNCHANGED store
    BY <1>7 DEF EndWrite, store
  <2>4. DiskOK'
    <3> HIDE DEF v, g, r
    <3>1. v \notin dirs => zip[v] = Empty
      BY <1>0, <2>1 DEF DiskOK
    <3>4. zip[v][g] = None => z = None
      BY <2>3
    <3>5. v \notin dirs => zip[v][g] = None
      BY <2>2, <3>1 DEF Empty
    <3>2. v \notin dirs => z = None
      BY <3>4, <3>5
    <3> QED
      BY <1>0, <2>1, <2>2, <2>3, <2>6, <3>2, ZipTypes
  <2> QED
    BY <2>1, <2>4, <2>5, <2>6, TypedMove
<1>8. CASE ListZips(w)
  <2> DEFINE r == IF v \in dirs
                    THEN [win[w] EXCEPT !.pc = "unzip", !.seen = {f \in Files : zip[v][f] # None}]
                    ELSE [win[w] EXCEPT !.pc = "fallback"]
  <2>1. v \in Versions
    BY <1>0, <1>8 DEF ListZips, At, Aimed, Resolving, Settled
  <2>2. r \in Window /\ win' = [win EXCEPT ![w] = r] /\ r.ver = v
    BY <1>0, <1>8 DEF ListZips, Window, Steps
  <2>3. DiskOK' /\ UNCHANGED store
    BY <1>0, <1>8 DEF ListZips, disk, DiskOK
  <2> QED
    BY <2>1, <2>2, <2>3, TypedMove
<1>9. CASE UnzipRemote(w)
  <2> DEFINE r == [win[w] EXCEPT !.pc = IF AllWhole(v, win[w].seen) THEN "install" ELSE "undo"]
  <2>1. v \in Versions /\ win[w].seen \subseteq Files
    BY <1>0, <1>9 DEF UnzipRemote, At, Aimed, Resolving, Settled, Window
  <2>2. DiskOK'
    BY <1>0, <1>9, <2>1, UnpackedTypes DEF UnzipRemote, DiskOK
  <2>3. r \in Window /\ win' = [win EXCEPT ![w] = r] /\ r.ver = v
    BY <1>0, <1>9 DEF UnzipRemote, Goto, Window, Steps
  <2> QED
    BY <1>9, <2>1, <2>2, <2>3, TypedMove DEF UnzipRemote, store
<1>10. CASE Undo(w)
  <2> DEFINE r == [win[w] EXCEPT !.pc = "fallback"]
  <2>1. v \in Versions
    BY <1>0, <1>10 DEF Undo, At, Aimed, Resolving, Settled
  <2>2. DiskOK'
    BY <1>0, <1>10, <2>1 DEF Undo, DiskOK
  <2>3. r \in Window /\ win' = [win EXCEPT ![w] = r] /\ r.ver = v
    BY <1>0, <1>10 DEF Undo, Goto, Window, Steps
  <2> QED
    BY <1>10, <2>1, <2>2, <2>3, TypedMove DEF Undo, store
<1>11. CASE Fallback(w)
  <2> DEFINE valid == {u \in Candidates(w) : AllWhole(u, Files)}
             r == [win[w] EXCEPT !.dropped = {},
                                 !.pc = IF valid = {} THEN "failed" ELSE "install",
                                 !.ver = IF valid = {} THEN @ ELSE Newest(valid)]
  <2>1. valid \subseteq Versions /\ v \in Versions
    BY <1>0, <1>11 DEF Candidates, DiskOK, Fallback, At, Aimed, Resolving, Settled
  <2>2. valid # {} => Newest(valid) \in Versions
    BY <2>1, NewestIs
  <2>3. DiskOK'
    BY <1>0, <1>11, UnpackedTypes DEF Fallback, DiskOK
  <2>4. r \in Window /\ win' = [win EXCEPT ![w] = r] /\ r.ver \in Versions
    BY <1>0, <1>11, <2>1, <2>2 DEF Fallback, Window, Steps
  <2> QED
    BY <1>11, <2>3, <2>4, TypedMove DEF Fallback, store
<1>12. CASE PostInstall(w)
  <2>1. PICK pc \in {"clean", "failed"} : Goto(w, pc)
    BY <1>12 DEF PostInstall
  <2> DEFINE r == [win[w] EXCEPT !.pc = pc]
  <2>2. v \in Versions
    BY <1>0, <1>12 DEF PostInstall, At, Aimed, Resolving, Settled
  <2>3. DiskOK' /\ UNCHANGED store
    BY <1>0, <1>12 DEF PostInstall, disk, DiskOK
  <2>4. r \in Window /\ win' = [win EXCEPT ![w] = r] /\ r.ver = v
    BY <1>0, <2>1 DEF Goto, Window, Steps
  <2> QED
    BY <2>2, <2>3, <2>4, TypedMove
<1>13. CASE Clean(w)
  <2> DEFINE r == [win[w] EXCEPT !.pc = "delete", !.doomed = Doomed(v, win[w].man)]
  <2>1. v \in Versions
    BY <1>0, <1>13 DEF Clean, At, Aimed, Resolving, Settled
  <2>2. Doomed(v, win[w].man) \subseteq Versions
    BY <1>0 DEF Doomed, DiskOK
  <2>3. r \in Window /\ win' = [win EXCEPT ![w] = r] /\ r.ver = v
    BY <1>0, <1>13, <2>2 DEF Clean, Window, Steps
  <2>4. DiskOK' /\ UNCHANGED store
    BY <1>0, <1>13 DEF Clean, disk, DiskOK
  <2> QED
    BY <2>1, <2>3, <2>4, TypedMove
<1>14. ASSUME NEW u \in Versions, DeleteVersion(w, u) PROVE Typed'
  <2> DEFINE r == [win[w] EXCEPT !.doomed = @ \ {u}]
  <2>1. v \in Versions
    BY <1>0, <1>14 DEF DeleteVersion, At, Aimed, Resolving, Settled
  <2>2. DiskOK'
    BY <1>0, <1>14, RemoveTypes DEF DeleteVersion, DiskOK
  <2>3. r \in Window /\ win' = [win EXCEPT ![w] = r] /\ r.ver = v
    BY <1>0, <1>14 DEF DeleteVersion, Window
  <2> QED
    BY <1>14, <2>1, <2>2, <2>3, TypedMove DEF DeleteVersion
<1> QED
  BY <1>1, <1>2, <1>3, <1>4, <1>5, <1>6, <1>7, <1>8, <1>9, <1>10, <1>11, <1>12, <1>13, <1>14
     DEF Resolve

\* A kill that cuts an unpacking short leaves typed folders.
LEMMA CutTypes ==
    ASSUME TypeOK, Aimed, NEW w \in Windows, NEW u \in Unpacking(w)
    PROVE  u[1] \in Versions /\ u[2] \subseteq Files
<1>1. win[w] \in Window /\ dirs \subseteq Versions
  BY DEF TypeOK
<1>2. CASE At(w, "check")
  BY <1>1, <1>2 DEF Unpacking, Aimed, Resolving, At, Settled
<1>3. CASE At(w, "unzip")
  BY <1>1, <1>3 DEF Unpacking, Aimed, Resolving, At, Settled, Window
<1>4. CASE At(w, "fallback")
  BY <1>1, <1>4 DEF Unpacking, Candidates, At
<1> QED
  BY <1>2, <1>3, <1>4 DEF Unpacking

LEMMA TypedInterrupt ==
    ASSUME Typed, NEW w \in Windows, Kill(w) \/ KillUnpacking(w) \/ ClearCache(w)
    PROVE  Typed'
<1>0. TypeOK /\ Aimed /\ DiskOK /\ Closed \in Window /\ Closed.pc \in Settled
  BY ClosedType DEF Typed, TypeOK, DiskOK, Closed, Settled
<1>1. CASE Kill(w)
  BY <1>0, <1>1, TypedMove DEF Kill, DiskOK, disk
<1>2. CASE KillUnpacking(w)
  <2>a. PICK u \in Unpacking(w) : \E f \in u[2] : \E before \in SUBSET (u[2] \ {f}) :
          \E o \in CutShort(u[1], f) :
            out' = [out EXCEPT ![u[1]] = [Unpacked(u[1], before) EXCEPT ![f] = o]]
    BY <1>2 DEF KillUnpacking
  <2>b. PICK f \in u[2] : \E before \in SUBSET (u[2] \ {f}) : \E o \in CutShort(u[1], f) :
            out' = [out EXCEPT ![u[1]] = [Unpacked(u[1], before) EXCEPT ![f] = o]]
    BY <2>a
  <2>1. PICK before \in SUBSET (u[2] \ {f}), o \in CutShort(u[1], f) :
          out' = [out EXCEPT ![u[1]] = [Unpacked(u[1], before) EXCEPT ![f] = o]]
    BY <2>b
  <2>2. u[1] \in Versions /\ u[2] \subseteq Files /\ before \in SUBSET Files
    BY <1>0, <2>1, CutTypes
  <2>3. o \in Outs /\ (u[1] \notin dirs => o = None)
    <3>1. out[u[1]][f] \in Outs
      BY <1>0, <2>2 DEF DiskOK
    <3>2. u[1] \notin dirs => zip[u[1]][f] = None /\ out[u[1]][f] = None
      BY <1>0, <2>2 DEF DiskOK, Empty
    <3> QED
      BY <3>1, <3>2 DEF CutShort, Outs, None
  <2>4. DiskOK'
    <3> DEFINE n == [Unpacked(u[1], before) EXCEPT ![f] = o]
    <3>1. n \in [Files -> Outs]
      BY <1>0, <2>2, <2>3, UnpackedTypes
    <3>2. u[1] \notin dirs => n = Empty
      BY <1>0, <2>2, <2>3, UnpackedTypes DEF Empty
    <3>3. UNCHANGED <<dirs, zip>>
      BY <1>2 DEF KillUnpacking
    <3> QED
      BY <1>0, <2>1, <2>2, <3>1, <3>2, <3>3 DEF DiskOK
  <2> QED
    BY <1>0, <1>2, <2>4, TypedMove DEF KillUnpacking, store
<1>3. CASE ClearCache(w)
  <2>1. \A u \in Windows : /\ Disturbed(u) \in Window
                           /\ Disturbed(u).pc = win[u].pc
                           /\ Disturbed(u).ver = win[u].ver
    BY <1>0 DEF Disturbed, TypeOK, Window
  <2>2. DiskOK'
    BY <1>0, <1>3, RemoveTypes DEF ClearCache, DiskOK
  <2>3. win' \in [Windows -> Window] /\ Aimed'
    BY <1>0, <1>3, <2>1 DEF ClearCache, Aimed, Resolving, At
  <2>4. saved' \in Manifest
    BY <1>3 DEF ClearCache, NoManifest, Manifest
  <2> QED
    BY <1>0, <1>3, <2>2, <2>3, <2>4 DEF ClearCache, Typed, TypeOK, DiskOK
<1> QED
  BY <1>1, <1>2, <1>3

LEMMA TypedNext == Typed /\ [Next]_vars => Typed'
<1> SUFFICES ASSUME Typed, [Next]_vars PROVE Typed'
  OBVIOUS
<1>1. CASE Next
  BY <1>1, TypedStart, TypedStep, TypedInterrupt DEF Next
<1>2. CASE UNCHANGED vars
  BY <1>2 DEF vars, Typed, TypeOK, Aimed, Resolving, At
<1> QED
  BY <1>1, <1>2

\* Every variable of the installer keeps its type, and a version whose directory was
\* deleted has no files.
THEOREM TypeInvariant == Spec => []TypeOK
<1>1. Init => Typed
  <2> SUFFICES ASSUME Init PROVE Typed
    OBVIOUS
  <2>1. Aimed
    BY DEF Init, Aimed, Resolving, Closed, Settled
  <2> QED
    BY <2>1, InitTypes DEF Typed
<1>2. Typed => TypeOK
  BY DEF Typed
<1> QED
  BY <1>1, <1>2, TypedNext, PTL DEF Spec

-----------------------------------------------------------------------------
(* What was unpacked stays *)

\* The folders that are whole, and whose directory stays, are whole afterwards.
Intact == \A v \in Versions : \A f \in Files :
    out[v][f] = "whole" /\ v \in dirs' => out'[v][f] = "whole"

\* Unpacking leaves alone what is whole or cut off, and says what it makes of a zip.
LEMMA UnpackedFacts ==
    ASSUME NEW v \in Versions, NEW S \in SUBSET Files, NEW f \in Files
    PROVE  /\ out[v][f] \in {"whole", "torn"} => Unpacked(v, S)[f] = out[v][f]
           /\ f \in S /\ zip[v][f] = "whole" => Unpacked(v, S)[f] \in {"torn", "whole"}
BY DEF Unpacked, Unpack

LEMMA RemovalIntact ==
    ASSUME Typed, NEW S \in SUBSET Versions, RemoveAll(S)
    PROVE  Intact
BY DEF RemoveAll, Intact

LEMMA IntactNext == Typed /\ [Next]_vars => Intact
<1> SUFFICES ASSUME Typed, [Next]_vars PROVE Intact
  OBVIOUS
<1>0. out \in [Versions -> [Files -> Outs]] /\ dirs \subseteq Versions
  BY DEF Typed, TypeOK
<1>1. ASSUME UNCHANGED out PROVE Intact
  BY <1>1 DEF Intact
<1>2. ASSUME NEW w \in Windows, Resolve(w) PROVE Intact
  <2> DEFINE v == win[w].ver
  <2>1. CASE CheckLocal(w)
    <3>1. v \in Versions
      BY <2>1 DEF CheckLocal, At, Typed, Aimed, Resolving, Settled
    <3> QED
      BY <1>0, <2>1, <3>1, UnpackedFacts DEF CheckLocal, Intact
  <2>2. CASE UnzipRemote(w)
    <3>1. v \in Versions /\ win[w].seen \subseteq Files
      BY <2>2, WindowFacts DEF UnzipRemote, At, Typed, Aimed, Resolving, Settled
    <3> QED
      BY <1>0, <2>2, <3>1, UnpackedFacts DEF UnzipRemote, Intact
  <2>3. CASE Fallback(w)
    BY <1>0, <2>3, UnpackedFacts, ZenonT(60) DEF Fallback, Intact
  <2>4. CASE Drop(w) \/ \E u \in Versions : DeleteVersion(w, u)
    <3>1. CASE Drop(w)
      <4>1. v \in Versions
        BY <3>1 DEF Drop, At, Typed, Aimed, Resolving, Settled
      <4> QED
        BY <3>1, <4>1, RemovalIntact DEF Drop
    <3>2. CASE \E u \in Versions : DeleteVersion(w, u)
      BY <3>2, RemovalIntact DEF DeleteVersion
    <3> QED
      BY <2>4, <3>1, <3>2
  <2>5. CASE UNCHANGED out
    BY <1>1, <2>5
  <2> QED
    BY <1>2, <2>1, <2>2, <2>3, <2>4, <2>5
       DEF Resolve, Mkdir, FetchThrows, FetchNotOk, Fetched, BeginWrite, EndWrite, ListZips,
           Undo, PostInstall, Clean, Launch, UseBundled, disk
<1>3. ASSUME NEW w \in Windows, KillUnpacking(w) PROVE Intact
  <2>a. PICK u \in Unpacking(w) : \E f \in u[2] : \E before \in SUBSET (u[2] \ {f}) :
          \E o \in CutShort(u[1], f) :
            out' = [out EXCEPT ![u[1]] = [Unpacked(u[1], before) EXCEPT ![f] = o]]
    BY <1>3 DEF KillUnpacking
  <2>b. PICK f \in u[2] : \E before \in SUBSET (u[2] \ {f}) : \E o \in CutShort(u[1], f) :
            out' = [out EXCEPT ![u[1]] = [Unpacked(u[1], before) EXCEPT ![f] = o]]
    BY <2>a
  <2>1. PICK before \in SUBSET (u[2] \ {f}), o \in CutShort(u[1], f) :
          out' = [out EXCEPT ![u[1]] = [Unpacked(u[1], before) EXCEPT ![f] = o]]
    BY <2>b
  <2>2. u[1] \in Versions /\ u[2] \subseteq Files /\ before \in SUBSET Files
    BY <2>1, CutTypes DEF Typed
  <2>3. out[u[1]][f] = "whole" => o = "whole"
    BY <2>1 DEF CutShort, None
  <2>4. ASSUME NEW g \in Files, out[u[1]][g] = "whole"
        PROVE  out'[u[1]][g] = "whole"
    <3>1. Unpacked(u[1], before)[g] = "whole"
      BY <2>2, <2>4, UnpackedFacts
    <3>2. out'[u[1]] = [Unpacked(u[1], before) EXCEPT ![f] = o]
      BY <1>0, <2>1, <2>2
    <3> QED
      BY <2>2, <2>3, <2>4, <3>1, <3>2 DEF Unpacked
  <2> QED
    BY <1>0, <2>1, <2>2, <2>4 DEF Intact
<1>4. ASSUME NEW w \in Windows, ClearCache(w) PROVE Intact
  BY <1>4, RemovalIntact DEF ClearCache
<1> QED
  BY <1>1, <1>2, <1>3, <1>4 DEF Next, Start, Kill, disk, vars

\* However many windows unpack, fail, die and delete at the same time, an entry that
\* was unpacked is never damaged: it stays until its directory goes.
THEOREM UnpackedStays == Spec => UnpackedIntact
<1>1. Init => Typed
  <2> SUFFICES ASSUME Init PROVE Typed
    OBVIOUS
  <2>1. Aimed
    BY DEF Init, Aimed, Resolving, Closed, Settled
  <2> QED
    BY <2>1, InitTypes DEF Typed
<1>2. Typed /\ [Next]_vars => [Intact]_vars
  BY IntactNext
<1> QED
  BY <1>1, <1>2, TypedNext, PTL DEF Spec, UnpackedIntact, Intact
-----------------------------------------------------------------------------
(* What is spared *)

LEMMA VersionsFinite ==
    ASSUME NEW S \in SUBSET Versions
    PROVE  IsFiniteSet(S) /\ Cardinality(S) \in Nat
<1>1. IsFiniteSet(1..MaxVersion)
  BY LspAssumption, FS_Interval
<1>2. IsFiniteSet(S)
  BY <1>1, FS_Subset DEF Versions
<1> QED
  BY <1>2, FS_CardinalityType

LEMMA PairSize ==
    ASSUME NEW a, NEW b, a # b
    PROVE  IsFiniteSet({a, b}) /\ Cardinality({a, b}) = 2
<1>1. IsFiniteSet({a}) /\ Cardinality({a}) = 1
  BY FS_Singleton
<1>2. {a, b} = {a} \cup {b}
  OBVIOUS
<1> QED
  BY <1>1, <1>2, FS_AddElement

LEMMA ThreeAtMost ==
    ASSUME NEW a, NEW b, NEW c, NEW S \in SUBSET {a, b, c}
    PROVE  Cardinality(S) <= 3
<1>1. IsFiniteSet({a}) /\ Cardinality({a}) = 1
  BY FS_Singleton
<1>2. IsFiniteSet({a} \cup {b}) /\ Cardinality({a} \cup {b}) \in {1, 2}
  BY <1>1, FS_AddElement
<1>3. IsFiniteSet(({a} \cup {b}) \cup {c}) /\ Cardinality(({a} \cup {b}) \cup {c}) \in {1, 2, 3}
  BY <1>2, FS_AddElement
<1>4. S \subseteq ({a} \cup {b}) \cup {c}
  OBVIOUS
<1> QED
  BY <1>3, <1>4, FS_Subset, FS_CardinalityType

\* The versions that have fewer than two newer ones are among the two newest.
LEMMA NewestTwo ==
    ASSUME NEW R \in SUBSET Versions
    PROVE  \E a, b : \A v \in R : Cardinality({u \in R : u > v}) < 2 => v \in {a, b}
<1>1. CASE R = {}
  BY <1>1
<1>2. CASE R # {}
  <2> DEFINE a == Newest(R)
             Q == R \ {a}
  <2>1. a \in R /\ \A u \in R : u <= a
    BY <1>2, NewestIs
  <2>2. CASE Q = {}
    BY <2>1, <2>2
  <2>3. CASE Q # {}
    <3> DEFINE b == Newest(Q)
    <3>1. b \in Q /\ \A u \in Q : u <= b
      BY <2>3, NewestIs
    <3>2. ASSUME NEW v \in R, v \notin {a, b}
          PROVE  ~(Cardinality({u \in R : u > v}) < 2)
      <4>1. v < a /\ v < b /\ b \in R /\ a # b
        <5> HIDE DEF a, b
        <5>1. a \in Nat /\ b \in Nat /\ v \in Nat /\ a # b /\ b \in R
          BY <2>1, <3>1, LspAssumption DEF Versions
        <5>2. v \in Q /\ v <= a /\ v <= b
          BY <2>1, <3>1, <3>2
        <5> QED
          BY <3>2, <5>1, <5>2
      <4>2. {a, b} \subseteq {u \in R : u > v}
        BY <2>1, <4>1 DEF Versions
      <4>3. /\ IsFiniteSet({u \in R : u > v})
            /\ Cardinality({u \in R : u > v}) \in Nat
        BY VersionsFinite
      <4>4. Cardinality({a, b}) = 2
        BY <4>1, PairSize
      <4>5. Cardinality({a, b}) <= Cardinality({u \in R : u > v})
        BY <4>2, <4>3, FS_Subset
      <4> QED
        BY <4>3, <4>4, <4>5
    <3> QED
      BY <3>2
  <2> QED
    BY <2>2, <2>3
<1> QED
  BY <1>1, <1>2

\* A clean-up spares at most three versions, and none that is delisted.
LEMMA Spared ==
    ASSUME dirs \subseteq Versions, NEW own, NEW man \in Manifest
    PROVE  /\ Cardinality(dirs \ Doomed(own, man)) <= 3
           /\ dirs \cap man.delisted \subseteq Doomed(own, man)
<1> DEFINE R == dirs \ man.delisted
<1>1. PICK a, b : \A v \in R : Cardinality({u \in R : u > v}) < 2 => v \in {a, b}
  <2>1. R \in SUBSET Versions
    OBVIOUS
  <2> HIDE DEF R
  <2> QED
    BY <2>1, NewestTwo
<1>2. ASSUME NEW v \in dirs \ Doomed(own, man) PROVE v \in {a, b, own}
  <2>1. v \in R /\ (v # own => ~(Cardinality({u \in R : u > v}) >= 2))
    BY <1>2 DEF Doomed
  <2>2. Cardinality({u \in R : u > v}) \in Nat
    BY VersionsFinite
  <2> QED
    BY <1>1, <2>1, <2>2
<1>3. dirs \ Doomed(own, man) \subseteq {a, b, own}
  BY <1>2
<1> QED
  BY <1>3, ThreeAtMost DEF Doomed

-----------------------------------------------------------------------------
(* A window that resolves alone *)

LEMMA InvInit == Init => IInv
<1> SUFFICES ASSUME Init PROVE IInv
  OBVIOUS
<1>1. \A w \in Windows : ~Resolving(w) /\ win[w] = Closed
  BY DEF Init, Resolving, Closed, Settled
<1>2. Wants
  BY <1>1 DEF Wants, WantsAt, Resolving, At, Closed, NoManifest
<1>3. Lone /\ Done /\ ManifestsApart
  BY <1>1 DEF Init, Lone, Done, DoneAt, ManifestsApart, NoManifest
<1> QED
  BY <1>2, <1>3, InitTypes DEF IInv

LEMMA InvTyped == IInv => Typed
BY WindowFacts DEF IInv, Typed, Aimed, Wants, WantsAt

\* What a step of a resolution leaves alone.
LEMMA StepShape ==
    ASSUME TypeOK, NEW w \in Windows, Resolve(w)
    PROVE  /\ Resolving(w)
           /\ win'[w].man = win[w].man /\ win'[w].alone = win[w].alone
           /\ \A u \in Windows \ {w} : win'[u] = win[u]
           /\ UNCHANGED store
<1>0. win \in [Windows -> Window]
  BY DEF TypeOK
<1>1. Resolving(w)
  BY DEF Resolve, CheckLocal, Drop, Mkdir, FetchThrows, FetchNotOk, Fetched, BeginWrite,
         EndWrite, ListZips, UnzipRemote, Undo, Fallback, PostInstall, Clean, DeleteVersion,
         Launch, UseBundled, At, Resolving, Settled
<1>2. UNCHANGED store
  BY DEF Resolve, CheckLocal, Drop, Mkdir, FetchThrows, FetchNotOk, Fetched, BeginWrite,
         EndWrite, ListZips, UnzipRemote, Undo, Fallback, PostInstall, Clean, DeleteVersion,
         Launch, UseBundled, store
<1>3. CASE \E pc \in Steps : Goto(w, pc)
  BY <1>0, <1>1, <1>2, <1>3 DEF Goto, Window
<1>4. CASE Fetched(w)
  BY <1>0, <1>1, <1>2, <1>4 DEF Fetched, Window
<1>5. ASSUME NEW f \in Files, BeginWrite(w, f)
      PROVE  /\ win'[w].man = win[w].man /\ win'[w].alone = win[w].alone
             /\ \A u \in Windows \ {w} : win'[u] = win[u]
  BY <1>0, <1>5 DEF BeginWrite, Window
<1>6. CASE EndWrite(w)
  BY <1>0, <1>1, <1>2, <1>6 DEF EndWrite, Window
<1>7. CASE ListZips(w)
  BY <1>0, <1>1, <1>2, <1>7 DEF ListZips, Window
<1>8. CASE Fallback(w)
  <2>1. win[w] \in Window
    BY <1>0
  <2>2. PICK p, v : win' = [win EXCEPT ![w] = [win[w] EXCEPT !.dropped = {}, !.pc = p, !.ver = v]]
    BY <1>0, <1>8 DEF Fallback
  <2>3. win'[w] = [win[w] EXCEPT !.dropped = {}, !.pc = p, !.ver = v]
    BY <1>0, <2>2
  <2>4. win'[w].man = win[w].man /\ win'[w].alone = win[w].alone
    BY <2>1, <2>3 DEF Window
  <2>5. \A u \in Windows \ {w} : win'[u] = win[u]
    BY <1>0, <2>2
  <2> QED
    BY <1>1, <1>2, <2>4, <2>5
<1>9. CASE Clean(w)
  BY <1>0, <1>1, <1>2, <1>9 DEF Clean, Window
<1>10. ASSUME NEW v \in Versions, DeleteVersion(w, v)
       PROVE  /\ win'[w].man = win[w].man /\ win'[w].alone = win[w].alone
              /\ \A u \in Windows \ {w} : win'[u] = win[u]
  BY <1>0, <1>10 DEF DeleteVersion, Window
<1>11. CASE \/ CheckLocal(w) \/ Drop(w) \/ Mkdir(w) \/ FetchThrows(w) \/ FetchNotOk(w)
            \/ UnzipRemote(w) \/ Undo(w) \/ PostInstall(w) \/ Launch(w) \/ UseBundled(w)
  BY <1>3, <1>11 DEF CheckLocal, Drop, Mkdir, FetchThrows, FetchNotOk, UnzipRemote, Undo,
     PostInstall, Launch, UseBundled, Steps
<1> QED
  BY <1>1, <1>2, <1>4, <1>5, <1>6, <1>7, <1>8, <1>9, <1>10, <1>11 DEF Resolve

\* A step of a resolution keeps the invariant when the window itself keeps its part:
\* while it resolves no other window is alone.
LEMMA InvMove ==
    ASSUME IInv, NEW w \in Windows, Resolve(w), WantsAt(w)',
           win[w].alone => DoneAt(w)'
    PROVE  IInv'
<1>1. /\ Resolving(w) /\ win'[w].alone = win[w].alone
      /\ \A u \in Windows \ {w} : win'[u] = win[u]
      /\ published' = published /\ saved' = saved
  BY StepShape DEF IInv, store
<1>2. TypeOK'
  <2>1. Next
    BY DEF Next
  <2> QED
    BY <2>1, InvTyped, TypedNext DEF Typed
<1>3. ManifestsApart'
  BY <1>1 DEF IInv, ManifestsApart
<1>4. \A u \in Windows \ {w} : ~(Resolving(u) /\ win[u].alone)
  BY <1>1 DEF IInv, Lone
<1>5. Lone'
  BY <1>1, <1>4 DEF IInv, Lone, Resolving
<1>6. Wants'
  BY <1>1 DEF IInv, Wants, WantsAt, Resolving, At
<1>7. Done'
  <2> SUFFICES ASSUME NEW u \in Windows PROVE DoneAt(u)'
    BY DEF Done
  <2>1. CASE u = w
    BY <1>1, <2>1 DEF DoneAt
  <2>2. CASE u # w
    BY <1>1, <1>4, <2>2 DEF DoneAt, Resolving
  <2> QED
    BY <2>1, <2>2
<1> QED
  BY <1>2, <1>3, <1>5, <1>6, <1>7 DEF IInv

\* The steps of a resolution up to the download.
LEMMA InvEarly ==
    ASSUME IInv, NEW w \in Windows,
           \/ Drop(w) \/ Mkdir(w) \/ FetchThrows(w) \/ FetchNotOk(w) \/ Fetched(w)
    PROVE  WantsAt(w)' /\ DoneAt(w)'
<1>0. win \in [Windows -> Window] /\ WantsAt(w)
  BY DEF IInv, TypeOK, Wants
<1>1. CASE \E pc \in {"mkdir", "fetch", "fallback", "undo"} :
             Goto(w, pc) /\ win[w].pc \in {"drop", "mkdir", "fetch"}
  <2>1. PICK pc \in {"mkdir", "fetch", "fallback", "undo"} :
             Goto(w, pc) /\ win[w].pc \in {"drop", "mkdir", "fetch"}
    BY <1>1
  <2>2. win'[w] = [win[w] EXCEPT !.pc = pc]
    BY <1>0, <2>1 DEF Goto
  <2>3. WantsAt(w)'
    BY <1>0, <2>1, <2>2 DEF WantsAt, At, Resolving, Settled, Window
  <2>4. DoneAt(w)'
    BY <1>0, <2>2 DEF DoneAt, WroteAt, ListedAt, InstalledAt, FailedAt, CleanedAt, At, Window
  <2> QED
    BY <2>3, <2>4
<1>2. CASE Fetched(w)
  <2>1. PICK bad \in SUBSET Files :
          win' = [win EXCEPT ![w].pc = "write", ![w].todo = Files \ bad, ![w].dropped = bad]
    BY <1>2 DEF Fetched
  <2>2. win'[w] = [win[w] EXCEPT !.pc = "write", !.todo = Files \ bad, !.dropped = bad]
    BY <1>0, <2>1
  <2>3. At(w, "fetch")
    BY <1>2 DEF Fetched
  <2>4. WantsAt(w)'
    BY <1>0, <2>2, <2>3 DEF WantsAt, At, Resolving, Settled, Window
  <2>5. win'[w].now = None /\ win'[w].pc = "write"
    BY <1>0, <2>2, <2>3 DEF WantsAt, At, Window
  <2>6. WroteAt(w)'
    BY <1>0, <2>2, <2>5 DEF WroteAt, Window
  <2> QED
    BY <2>4, <2>5, <2>6 DEF DoneAt, ListedAt, InstalledAt, FailedAt, CleanedAt, At
<1> QED
  BY <1>1, <1>2 DEF Drop, Mkdir, FetchThrows, FetchNotOk, At

\* The download itself, while the window is alone.
LEMMA InvWrite ==
    ASSUME IInv, NEW w \in Windows,
           (\E f \in Files : BeginWrite(w, f)) \/ EndWrite(w) \/ ListZips(w) \/ UnzipRemote(w)
    PROVE  WantsAt(w)' /\ (win[w].alone => DoneAt(w)')
<1> DEFINE v == win[w].ver
<1>0. /\ win \in [Windows -> Window] /\ WantsAt(w) /\ DoneAt(w)
      /\ zip \in [Versions -> [Files -> Zips]] /\ out \in [Versions -> [Files -> Outs]]
  BY DEF IInv, TypeOK, Wants, Done
<1>1. win[w].pc \in {"write", "unzip"} /\ v \in Versions
  <2>1. win[w].pc \in {"write", "unzip"}
    BY DEF BeginWrite, EndWrite, ListZips, UnzipRemote, At
  <2> QED
    BY <2>1, InvTyped DEF Typed, Aimed, Resolving, Settled, At
<1>2. ASSUME NEW f \in Files, BeginWrite(w, f)
      PROVE  WantsAt(w)' /\ (win[w].alone => DoneAt(w)')
  <2>1. win'[w] = [win[w] EXCEPT !.now = f] /\ win[w].pc = "write" /\ f \in win[w].todo
    BY <1>0, <1>2 DEF BeginWrite, At
  <2>2. /\ zip'[v][f] = "torn"
        /\ \A g \in Files \ {f} : zip'[v][g] = zip[v][g]
    BY <1>0, <1>1, <1>2 DEF BeginWrite
  <2>3. WantsAt(w)'
    BY <1>0, <2>1 DEF WantsAt, At, Resolving, Settled, Window
  <2>4. ASSUME win[w].alone PROVE WroteAt(w)'
    <3>1. WroteAt(w)
      BY <1>0, <2>1, <2>4 DEF DoneAt, Resolving, Settled
    <3> QED
      <4>1. win[w] \in Window
        BY <1>0
      <4>2. /\ win'[w].ver = v /\ win'[w].todo = win[w].todo /\ win'[w].now = f
            /\ win'[w].dropped = win[w].dropped /\ win'[w].pc = "write"
        BY <2>1, <4>1 DEF Window
      <4>3. \A g \in (Files \ win[w].dropped) \ win[w].todo : zip[v][g] = "whole"
        BY <2>1, <3>1 DEF WroteAt, At
      <4>4. \A g \in (Files \ win[w].dropped) \ win[w].todo : zip'[v][g] = "whole"
        BY <2>1, <2>2, <4>3
      <4> QED
        BY <2>1, <2>2, <4>2, <4>4 DEF WroteAt, At, None
  <2>5. win'[w].pc = "write"
    BY <1>0, <2>1 DEF Window
  <2> QED
    BY <2>3, <2>4, <2>5 DEF DoneAt, ListedAt, InstalledAt, FailedAt, CleanedAt, At
<1>3. CASE EndWrite(w)
  <2> DEFINE f == win[w].now
  <2>1. /\ win'[w] = [win[w] EXCEPT !.now = None, !.todo = @ \ {f}]
        /\ win[w].pc = "write" /\ f # None /\ f \in Files
    BY <1>0, <1>3 DEF EndWrite, At, Window
  <2>2. WantsAt(w)'
    BY <1>0, <2>1 DEF WantsAt, At, Resolving, Settled, Window
  <2>3. ASSUME win[w].alone PROVE WroteAt(w)'
    <3>1. WroteAt(w) /\ At(w, "write")
      BY <1>0, <2>1, <2>3 DEF DoneAt, Resolving, Settled, At
    <3>2. ~Rival(w)
      BY <1>1, <2>3 DEF IInv, Lone, Rival, Resolving, Settled, At
    <3>3. zip[v][f] # None
      BY <2>1, <3>1 DEF WroteAt
    <3>4. zip' = [zip EXCEPT ![v][f] = "whole"]
      BY <1>3, <3>2, <3>3 DEF EndWrite
    <3>5. /\ zip'[v][f] = "whole"
          /\ \A g \in Files \ {f} : zip'[v][g] = zip[v][g]
      BY <1>0, <1>1, <2>1, <3>4
    <3>6. /\ win'[w].now = None /\ win'[w].todo = win[w].todo \ {f}
          /\ win'[w].ver = v /\ win'[w].dropped = win[w].dropped
      BY <1>0, <2>1 DEF Window
    <3> HIDE DEF f, v
    <3> QED
      BY <3>1, <3>5, <3>6 DEF WroteAt, v
  <2>4. win'[w].pc = "write"
    BY <1>0, <2>1 DEF Window
  <2> QED
    BY <2>2, <2>3, <2>4 DEF DoneAt, ListedAt, InstalledAt, FailedAt, CleanedAt, At
<1>4. CASE ListZips(w)
  <2>1. /\ win[w].pc = "write" /\ win[w].todo = {} /\ UNCHANGED zip
        /\ \/ win'[w] = [win[w] EXCEPT !.pc = "unzip", !.seen = {f \in Files : zip[v][f] # None}]
           \/ win'[w] = [win[w] EXCEPT !.pc = "fallback"]
    BY <1>0, <1>4 DEF ListZips, At, disk
  <2>2. WantsAt(w)'
    BY <1>0, <2>1, ZenonT(60) DEF WantsAt, At, Resolving, Settled, Window
  <2>3. ASSUME win[w].alone PROVE ListedAt(w)'
    <3>1. WroteAt(w)
      BY <1>0, <2>1, <2>3 DEF DoneAt, Resolving, Settled
    <3>2. \A f \in Files \ win[w].dropped : zip[v][f] = "whole"
      BY <2>1, <3>1 DEF WroteAt, At
    <3>3. CASE win'[w] = [win[w] EXCEPT !.pc = "unzip",
                                       !.seen = {f \in Files : zip[v][f] # None}]
      <4>1. /\ win'[w].seen = {f \in Files : zip[v][f] # None}
            /\ win'[w].ver = v /\ win'[w].dropped = win[w].dropped
        BY <1>0, <3>3 DEF Window
      <4> HIDE DEF v
      <4> QED
        BY <2>1, <3>2, <4>1 DEF ListedAt, None
    <3>4. CASE win'[w] = [win[w] EXCEPT !.pc = "fallback"]
      BY <1>0, <3>4 DEF ListedAt, At, Window
    <3> QED
      BY <2>1, <3>3, <3>4
  <2>4. win'[w].pc \in {"unzip", "fallback"}
    BY <1>0, <2>1, ZenonT(60) DEF Window
  <2> QED
    BY <2>2, <2>3, <2>4 DEF DoneAt, WroteAt, InstalledAt, FailedAt, CleanedAt, At
<1>5. CASE UnzipRemote(w)
  <2>1. /\ win[w].pc = "unzip" /\ win[w].seen \subseteq Files
        /\ zip' = zip /\ out'[v] = Unpacked(v, win[w].seen)
        /\ win'[w] = [win[w] EXCEPT !.pc = IF AllWhole(v, win[w].seen) THEN "install" ELSE "undo"]
    BY <1>0, <1>1, <1>5 DEF UnzipRemote, At, Goto, Window
  <2>2. WantsAt(w)'
    BY <1>0, <2>1 DEF WantsAt, At, Resolving, Settled, Window
  <2>3. ASSUME win[w].alone PROVE InstalledAt(w)'
    <3>1. ListedAt(w)
      BY <1>0, <2>1, <2>3 DEF DoneAt, Resolving, Settled
    <3>2. \A f \in Files \ win[w].dropped : zip[v][f] = "whole" /\ f \in win[w].seen
      BY <2>1, <3>1 DEF ListedAt, At
    <3>3. \A f \in Files \ win[w].dropped : Unpacked(v, win[w].seen)[f] \in {"torn", "whole"}
      BY <1>1, <2>1, <3>2, UnpackedFacts
    <3> QED
      BY <1>0, <2>1, <3>2, <3>3 DEF InstalledAt, Ready, Window
  <2>4. win'[w].pc \in {"install", "undo"}
    BY <1>0, <2>1 DEF Window
  <2> QED
    BY <2>2, <2>3, <2>4 DEF DoneAt, WroteAt, ListedAt, FailedAt, CleanedAt, At
<1> QED
  BY <1>2, <1>3, <1>4, <1>5

\* The local version, and what is tried after a failed download.
LEMMA InvTry ==
    ASSUME IInv, NEW w \in Windows, CheckLocal(w) \/ Undo(w) \/ Fallback(w)
    PROVE  WantsAt(w)' /\ (win[w].alone => DoneAt(w)')
<1> DEFINE v == win[w].ver
<1>0. /\ win \in [Windows -> Window] /\ WantsAt(w) /\ dirs \subseteq Versions
      /\ zip \in [Versions -> [Files -> Zips]] /\ out \in [Versions -> [Files -> Outs]]
  BY DEF IInv, TypeOK, Wants
<1>1. CASE CheckLocal(w)
  <2>1. /\ win[w].pc = "check" /\ zip' = zip
        /\ win'[w] = [win[w] EXCEPT !.pc = IF AllWhole(v, Files) THEN "install" ELSE "drop"]
    BY <1>0, <1>1 DEF CheckLocal, At, Goto
  <2>2. v \in Versions
    BY <2>1, InvTyped DEF Typed, Aimed, Resolving, Settled, At
  <2>3. WantsAt(w)'
    BY <1>0, <2>1 DEF WantsAt, At, Resolving, Settled, Window
  <2>4. InstalledAt(w)'
    <3>1. AllWhole(v, Files) => AllThere(v)
      BY DEF AllWhole, AllThere, None
    <3>2. AllWhole(v, Files) => out'[v] = Unpacked(v, Files)
      BY <1>0, <1>1, <2>2, <3>1 DEF CheckLocal
    <3>3. AllWhole(v, Files) => \A f \in Files : Unpacked(v, Files)[f] \in {"torn", "whole"}
      BY <2>2, UnpackedFacts DEF AllWhole
    <3> QED
      BY <1>0, <2>1, <3>2, <3>3 DEF InstalledAt, Ready, AllWhole, Window
  <2>5. win'[w].pc \in {"install", "drop"}
    BY <1>0, <2>1 DEF Window
  <2> QED
    BY <2>3, <2>4, <2>5 DEF DoneAt, WroteAt, ListedAt, FailedAt, CleanedAt, At
<1>2. CASE Undo(w)
  <2>1. win[w].pc = "undo" /\ win'[w] = [win[w] EXCEPT !.pc = "fallback"]
    BY <1>0, <1>2 DEF Undo, At, Goto
  <2>2. WantsAt(w)'
    BY <1>0, <2>1 DEF WantsAt, At, Resolving, Settled, Window
  <2>3. win'[w].pc = "fallback"
    BY <1>0, <2>1 DEF Window
  <2> QED
    BY <2>2, <2>3 DEF DoneAt, WroteAt, ListedAt, InstalledAt, FailedAt, CleanedAt, At
<1>3. CASE Fallback(w)
  <2> DEFINE valid == {u \in Candidates(w) : AllWhole(u, Files)}
  <2>1. /\ win[w].pc = "fallback" /\ zip' = zip /\ dirs' = dirs
        /\ out' = [u \in Versions |-> IF u \in Candidates(w) THEN Unpacked(u, Files) ELSE out[u]]
        /\ win'[w] = [win[w] EXCEPT !.dropped = {},
                                    !.pc = IF valid = {} THEN "failed" ELSE "install",
                                    !.ver = IF valid = {} THEN @ ELSE Newest(valid)]
    BY <1>0, <1>3 DEF Fallback, At
  <2>2. valid \subseteq Versions /\ valid \subseteq win[w].man.listed
    BY <1>0 DEF Candidates
  <2>3. valid = {} => Usable(win[w].man) = {}
    <3>1. \A u \in Usable(win[w].man) : AllThere(u)
      BY DEF Usable, AllWhole, AllThere, None
    <3>2. Usable(win[w].man) \subseteq valid
      BY <1>0, <2>1, <3>1 DEF Usable, Candidates, WantsAt
    <3> QED
      BY <3>2
  <2>4. CASE valid = {}
    <3>1. /\ win'[w].pc = "failed" /\ win'[w].man = win[w].man
          /\ win'[w].doomed = win[w].doomed
      BY <1>0, <2>1, <2>4 DEF Window
    <3>2. WantsAt(w)'
      BY <1>0, <2>1, <3>1 DEF WantsAt, At
    <3>3. FailedAt(w)'
      BY <2>1, <2>3, <2>4, <3>1 DEF FailedAt, Usable, AllWhole
    <3> QED
      BY <3>1, <3>2, <3>3 DEF DoneAt, WroteAt, ListedAt, InstalledAt, CleanedAt, At
  <2>5. CASE valid # {}
    <3>1. Newest(valid) \in valid
      BY <2>2, <2>5, NewestIs
    <3>2. /\ win'[w].pc = "install" /\ win'[w].man = win[w].man
          /\ win'[w].ver = Newest(valid) /\ win'[w].dropped = {}
      BY <1>0, <2>1, <2>5 DEF Window
    <3>3. WantsAt(w)'
      BY <1>0, <2>2, <3>1, <3>2 DEF WantsAt, At
    <3>4. InstalledAt(w)'
      <4> DEFINE n == Newest(valid)
      <4>1. n \in Candidates(w) /\ AllWhole(n, Files) /\ n \in Versions
        BY <2>2, <3>1
      <4> HIDE DEF n
      <4>2. out'[n] = Unpacked(n, Files)
        BY <2>1, <4>1
      <4>3. \A f \in Files : Unpacked(n, Files)[f] \in {"torn", "whole"}
        BY <4>1, UnpackedFacts DEF AllWhole
      <4>4. win'[w].ver = n
        BY <3>2 DEF n
      <4> QED
        BY <2>1, <4>1, <4>2, <4>3, <4>4 DEF InstalledAt, Ready, AllWhole
    <3> QED
      BY <3>2, <3>3, <3>4 DEF DoneAt, WroteAt, ListedAt, FailedAt, CleanedAt, At
  <2> QED
    BY <2>4, <2>5
<1> QED
  BY <1>1, <1>2, <1>3

\* What follows once the server is found.
LEMMA InvLaunch ==
    ASSUME IInv, NEW w \in Windows,
           \/ PostInstall(w) \/ Clean(w) \/ Launch(w) \/ UseBundled(w)
           \/ \E v \in Versions : DeleteVersion(w, v)
    PROVE  WantsAt(w)' /\ (win[w].alone => DoneAt(w)')
<1> DEFINE own == win[w].ver
<1>0. /\ win \in [Windows -> Window] /\ WantsAt(w) /\ DoneAt(w) /\ dirs \subseteq Versions
      /\ zip \in [Versions -> [Files -> Zips]] /\ out \in [Versions -> [Files -> Outs]]
  BY DEF IInv, TypeOK, Wants, Done
<1>1. CASE PostInstall(w)
  <2>1. PICK ok \in CASE out[own][Main] = None -> {FALSE}
                      [] out[own][Main] = "part" -> BOOLEAN
                      [] OTHER -> {TRUE} :
          Goto(w, IF ok THEN "clean" ELSE "failed")
    BY <1>1 DEF PostInstall
  <2>2. /\ win[w].pc = "install" /\ UNCHANGED disk
        /\ win'[w] = [win[w] EXCEPT !.pc = IF ok THEN "clean" ELSE "failed"]
    BY <1>0, <1>1, <2>1 DEF PostInstall, At, Goto
  <2>3. WantsAt(w)'
    BY <1>0, <2>2 DEF WantsAt, At, Resolving, Settled, Window
  <2>4. ASSUME win[w].alone PROVE InstalledAt(w)' /\ FailedAt(w)'
    <3>1. Ready(w, Files \ win[w].dropped)
      BY <1>0, <2>2, <2>4 DEF DoneAt, InstalledAt, Resolving, Settled
    <3>2. InstalledAt(w)'
      BY <1>0, <2>2, <3>1 DEF InstalledAt, Ready, disk, Window
    <3>3. win[w].dropped = {} => ok
      BY <2>1, <3>1, LspAssumption DEF Ready, None
    <3>4. FailedAt(w)'
      BY <1>0, <2>2, <3>3 DEF FailedAt, At, Window
    <3> QED
      BY <3>2, <3>4
  <2>5. win'[w].pc \in {"clean", "failed"}
    BY <1>0, <2>2 DEF Window
  <2> QED
    BY <2>3, <2>4, <2>5 DEF DoneAt, WroteAt, ListedAt, CleanedAt, At
<1>2. CASE Clean(w)
  <2>1. /\ win[w].pc = "clean" /\ UNCHANGED disk
        /\ win'[w] = [win[w] EXCEPT !.pc = "delete", !.doomed = Doomed(own, win[w].man)]
    BY <1>0, <1>2 DEF Clean, At
  <2>2. own \notin Doomed(own, win[w].man)
    BY <1>0, <2>1 DEF WantsAt, At, Resolving, Settled, Doomed
  <2>3. WantsAt(w)'
    BY <1>0, <2>1, <2>2 DEF WantsAt, At, Resolving, Settled, Window
  <2>4. CleanedAt(w)'
    <3>1. win[w].man \in Manifest
      BY <1>0 DEF Window
    <3>2. /\ win'[w].doomed = Doomed(own, win[w].man) /\ win'[w].man = win[w].man
          /\ dirs' = dirs
      BY <1>0, <2>1 DEF disk, Window
    <3> HIDE DEF own
    <3>3. /\ Cardinality(dirs \ Doomed(own, win[w].man)) <= 3
          /\ dirs \cap win[w].man.delisted \subseteq Doomed(own, win[w].man)
      BY <1>0, <3>1, Spared
    <3> QED
      BY <3>2, <3>3 DEF CleanedAt
  <2>5. ASSUME win[w].alone PROVE InstalledAt(w)'
    <3>1. Ready(w, Files \ win[w].dropped)
      BY <1>0, <2>1, <2>5 DEF DoneAt, InstalledAt, Resolving, Settled
    <3> QED
      BY <1>0, <2>1, <3>1 DEF InstalledAt, Ready, disk, Window
  <2>6. win'[w].pc = "delete"
    BY <1>0, <2>1 DEF Window
  <2> QED
    BY <2>3, <2>4, <2>5, <2>6 DEF DoneAt, WroteAt, ListedAt, FailedAt, At
<1>3. CASE Launch(w) \/ UseBundled(w)
  <2>1. PICK pc \in {"serving", "bundled"} : Goto(w, pc)
    BY <1>3 DEF Launch, UseBundled
  <2>2. win'[w] = [win[w] EXCEPT !.pc = pc]
    BY <1>0, <2>1 DEF Goto
  <2>3. win'[w].pc \in {"serving", "bundled"} /\ win'[w].man = win[w].man
    BY <1>0, <2>2 DEF Window
  <2> QED
    BY <1>0, <2>3 DEF WantsAt, DoneAt, Resolving, Settled, At
<1>4. ASSUME NEW v \in Versions, DeleteVersion(w, v)
      PROVE  WantsAt(w)' /\ (win[w].alone => DoneAt(w)')
  <2>1. /\ win[w].pc = "delete" /\ v \in win[w].doomed /\ own # v /\ RemoveAll({v})
        /\ win'[w] = [win[w] EXCEPT !.doomed = @ \ {v}]
    BY <1>0, <1>4 DEF DeleteVersion, At, WantsAt
  <2>2. WantsAt(w)'
    BY <1>0, <2>1 DEF WantsAt, At, Resolving, Settled, Window
  <2>3. own \in Versions
    BY <2>1, InvTyped DEF Typed, Aimed, Resolving, Settled, At
  <2>4. ASSUME win[w].alone PROVE InstalledAt(w)' /\ CleanedAt(w)'
    <3>1. Ready(w, Files \ win[w].dropped) /\ CleanedAt(w)
      BY <1>0, <2>1, <2>4 DEF DoneAt, InstalledAt, Resolving, Settled
    <3>2. zip'[own] = zip[own] /\ out'[own] = out[own]
      BY <2>1, <2>3 DEF RemoveAll
    <3>3. InstalledAt(w)'
      BY <1>0, <2>1, <3>1, <3>2 DEF InstalledAt, Ready, Window
    <3>4. /\ win'[w].doomed = win[w].doomed \ {v} /\ win'[w].man = win[w].man
          /\ dirs' = dirs \ {v}
      BY <1>0, <2>1 DEF RemoveAll, Window
    <3>5. dirs' \ win'[w].doomed = dirs \ win[w].doomed
      BY <2>1, <3>4
    <3>6. CleanedAt(w)'
      BY <2>1, <3>1, <3>4, <3>5 DEF CleanedAt, At
    <3> QED
      BY <3>3, <3>6
  <2>5. win'[w].pc = "delete"
    BY <1>0, <2>1 DEF Window
  <2> QED
    BY <2>2, <2>4, <2>5 DEF DoneAt, WroteAt, ListedAt, FailedAt, At
<1> QED
  BY <1>1, <1>2, <1>3, <1>4

\* A window that opens while others resolve is not alone, and they no longer are.
LEMMA InvStart ==
    ASSUME IInv, NEW w \in Windows, Start(w)
    PROVE  IInv'
<1>0. Typed /\ win \in [Windows -> Window] /\ ~Resolving(w)
  BY InvTyped DEF IInv, TypeOK, Start, At, Resolving, Settled
<1>1. /\ published' \in Manifest /\ saved' \in Manifest
      /\ win' = [u \in Windows |-> IF u = w THEN Opened(w, saved') ELSE Disturbed(u)]
      /\ ManifestsApart'
  BY <1>0 DEF Start, Later, IInv, TypeOK, ManifestsApart
<1>2. TypeOK'
  BY <1>0, TypedStart DEF Typed
<1>3. \A u \in Windows : /\ Disturbed(u).pc = win[u].pc
                         /\ Resolving(u) => Disturbed(u) = [win[u] EXCEPT !.alone = FALSE]
                         /\ ~Resolving(u) => Disturbed(u) = win[u]
  BY <1>0 DEF Disturbed, Resolving, Window
<1>4. \A u \in Windows \ {w} : WantsAt(u)'
  BY <1>0, <1>1, <1>3 DEF IInv, Wants, WantsAt, At, Resolving, Window
<1>5. \A u \in Windows \ {w} : ~(Resolving(u)' /\ win'[u].alone)
  BY <1>0, <1>1, <1>3 DEF Resolving, Window
<1>6. /\ win'[w] = Opened(w, saved')
      /\ Opened(w, saved').pc \in {"check", "failed"}
      /\ Opened(w, saved').man = saved' /\ Opened(w, saved').dropped = {}
      /\ Opened(w, saved').now = None
      /\ Opened(w, saved').pc = "failed" => saved'.listed = {}
      /\ Opened(w, saved').pc = "check" =>
            saved'.listed # {} /\ Opened(w, saved').ver = Newest(saved'.listed)
      /\ Opened(w, saved').alone => \A u \in Windows \ {w} : ~Resolving(u)
  BY <1>1 DEF Opened, Closed, Resolving
<1>7. WantsAt(w)'
  <2>1. saved'.listed \in SUBSET Versions
    BY <1>1 DEF Manifest
  <2>2. saved'.listed # {} => /\ Newest(saved'.listed) \in saved'.listed
                             /\ \A u \in saved'.listed : u <= Newest(saved'.listed)
    BY <2>1, NewestIs
  <2> QED
    BY <1>1, <1>6, <2>2 DEF WantsAt, ManifestsApart, At, Resolving, Settled
<1>8. DoneAt(w)'
  BY <1>6 DEF DoneAt, WroteAt, ListedAt, InstalledAt, FailedAt, CleanedAt, At, Usable
<1>9. Lone'
  <2>1. \A u \in Windows \ {w} : Resolving(u)' => Resolving(u)
    BY <1>1, <1>3 DEF Resolving
  <2> QED
    BY <1>5, <1>6, <2>1 DEF Lone
<1>10. Wants' /\ Done'
  BY <1>4, <1>5, <1>7, <1>8 DEF Wants, Done, DoneAt
<1> QED
  BY <1>1, <1>2, <1>9, <1>10 DEF IInv

\* A window keeps its part of the invariant while neither it nor the disk moves.
LEMMA SameAt ==
    ASSUME NEW u \in Windows, win'[u] = win[u], UNCHANGED disk, WantsAt(u), DoneAt(u)
    PROVE  WantsAt(u)' /\ DoneAt(u)'
<1>1. WantsAt(u)'
  BY DEF WantsAt, Resolving, At
<1>2. /\ WroteAt(u) => WroteAt(u)'
      /\ ListedAt(u) => ListedAt(u)'
  BY DEF WroteAt, ListedAt, At, disk
<1>3. InstalledAt(u) => InstalledAt(u)'
  BY DEF InstalledAt, Ready, disk
<1>4. /\ FailedAt(u) => FailedAt(u)'
      /\ CleanedAt(u) => CleanedAt(u)'
  BY DEF FailedAt, CleanedAt, Usable, AllWhole, At, disk
<1> QED
  BY <1>1, <1>2, <1>3, <1>4 DEF DoneAt, Resolving

\* A window that is closed, dies or clears the cache.
LEMMA InvInterrupt ==
    ASSUME IInv, NEW w \in Windows, Kill(w) \/ KillUnpacking(w) \/ ClearCache(w)
    PROVE  IInv'
<1>0. Typed /\ win \in [Windows -> Window]
  BY InvTyped DEF IInv, TypeOK
<1>1. TypeOK'
  BY <1>0, TypedInterrupt DEF Typed
<1>2. ManifestsApart'
  BY DEF IInv, ManifestsApart, Kill, KillUnpacking, ClearCache, store, NoManifest
<1>3. win'[w] = Closed /\ ~Resolving(w)'
  <2>1. win'[w] = Closed
    BY <1>0 DEF Kill, KillUnpacking, ClearCache
  <2> QED
    BY <2>1 DEF Closed, Resolving, Settled
<1>4. WantsAt(w)' /\ DoneAt(w)'
  BY <1>3 DEF WantsAt, DoneAt, Closed, NoManifest, At, Resolving
<1>5. ASSUME NEW u \in Windows \ {w}
      PROVE  /\ Resolving(u)' <=> Resolving(u)
             /\ win'[u].alone /\ Resolving(u) => win[u].alone
             /\ WantsAt(u)' /\ DoneAt(u)'
  <2>1. CASE Kill(w)
    <3>1. win'[u] = win[u] /\ UNCHANGED disk
      BY <1>0, <2>1 DEF Kill
    <3> QED
      BY <3>1, SameAt DEF IInv, Wants, Done, Resolving
  <2>2. CASE KillUnpacking(w)
    <3>1. win'[u] = win[u] /\ Resolving(w)
      BY <1>0, <2>2 DEF KillUnpacking, Unpacking, Resolving, Settled, At
    <3>2. ~(Resolving(u) /\ win[u].alone)
      BY <3>1 DEF IInv, Lone
    <3> QED
      BY <3>1, <3>2 DEF IInv, Wants, WantsAt, DoneAt, Resolving, At
  <2>3. CASE ClearCache(w)
    <3>1. win'[u] = Disturbed(u)
      BY <1>0, <2>3 DEF ClearCache
    <3>2. CASE Resolving(u)
      <4>1. win'[u] = [win[u] EXCEPT !.alone = FALSE]
        BY <3>1, <3>2 DEF Disturbed, Resolving
      <4>2. ~win'[u].alone /\ Resolving(u)'
        BY <1>0, <3>2, <4>1 DEF Window, Resolving
      <4>3. WantsAt(u)'
        BY <1>0, <4>1 DEF IInv, Wants, WantsAt, At, Resolving, Window
      <4> QED
        BY <3>2, <4>2, <4>3 DEF DoneAt
    <3>3. CASE ~Resolving(u)
      <4>1. win'[u] = win[u]
        BY <3>1, <3>3 DEF Disturbed, Resolving
      <4> QED
        BY <3>3, <4>1 DEF IInv, Wants, WantsAt, DoneAt, Resolving, At
    <3> QED
      BY <3>2, <3>3
  <2> QED
    BY <2>1, <2>2, <2>3
<1>6. Lone'
  BY <1>3, <1>5 DEF IInv, Lone
<1>7. Wants' /\ Done'
  BY <1>4, <1>5 DEF Wants, Done
<1> QED
  BY <1>1, <1>2, <1>6, <1>7 DEF IInv

LEMMA InvNext == IInv /\ [Next]_vars => IInv'
<1> SUFFICES ASSUME IInv, [Next]_vars PROVE IInv'
  OBVIOUS
<1>1. ASSUME NEW w \in Windows, Resolve(w) PROVE IInv'
  <2>1. WantsAt(w)' /\ (win[w].alone => DoneAt(w)')
    BY <1>1, InvEarly, InvWrite, InvTry, InvLaunch DEF Resolve
  <2> QED
    BY <1>1, <2>1, InvMove
<1>2. CASE UNCHANGED vars
  <2>1. Wants' /\ Done'
    BY <1>2, SameAt DEF vars, disk, IInv, Wants, Done
  <2>2. TypeOK'
    BY InvTyped, TypedNext DEF Typed
  <2> QED
    BY <1>2, <2>1, <2>2 DEF vars, IInv, ManifestsApart, Lone, Resolving
<1> QED
  BY <1>1, <1>2, InvStart, InvInterrupt DEF Next

LEMMA Invariant == Spec => []IInv
BY InvInit, InvNext, PTL DEF Spec

\* A window that resolved alone launches a server that lacks nothing but zips whose
\* hash was wrong, whatever crashes and clean-ups the disk went through before.
THEOREM WholeServer == Spec => []LaunchesAll
<1>1. IInv => LaunchesAll
  BY DEF IInv, Done, DoneAt, InstalledAt, Ready, LaunchesAll, Launching, At, Resolving, Settled
<1> QED
  BY <1>1, Invariant, PTL

\* The bundled server is used only when no listed version is whole on the disk.
THEOREM LastResort == Spec => []FallsBack
<1>1. IInv => FallsBack
  BY DEF IInv, Done, DoneAt, FailedAt, FallsBack, At, Resolving, Settled
<1> QED
  BY <1>1, Invariant, PTL

\* However many versions were ever published, three directories stay at most.
THEOREM ThreeKept == Spec => []DiskBounded
<1>1. IInv => DiskBounded
  <2> SUFFICES ASSUME IInv, NEW w \in Windows, Launching(w)
               PROVE  dirs \cap win[w].man.delisted = {} /\ Cardinality(dirs) <= 3
    BY DEF DiskBounded
  <2>1. CleanedAt(w) /\ At(w, "delete") /\ win[w].doomed = {}
    BY DEF IInv, Done, DoneAt, Launching, At, Resolving, Settled
  <2>2. dirs \ win[w].doomed = dirs
    BY <2>1
  <2> QED
    BY <2>1, <2>2 DEF CleanedAt
<1> QED
  BY <1>1, Invariant, PTL
=============================================================================
