----------------------------- MODULE TransFiles -----------------------------
(***************************************************************************)
(* One transaction of lib/transaction.c seen through its files: what       *)
(* rpmtsPrepare decides to do with each file of each element, and what     *)
(* rpmtsProcess, the package and the file state machines (lib/psm.c,       *)
(* lib/fsm.c) then do to the disk and to the database.                     *)
(*                                                                         *)
(* A file is its content: regular file or symbolic link, packaged or       *)
(* written by the user.  Directories, hard links, %ghost files, the        *)
(* contents of the payload stream and the disk space accounting are left   *)
(* out, and so are relocations and --justdb: paths are fingerprints.       *)
(***************************************************************************)
EXTENDS Naturals, FiniteSets, SequencesExt

CONSTANTS
    NoPkg,          \* no package
    Regs, Links,    \* the contents that are regular files and symbolic links
    UserContents,   \* the contents no package has
    LeadsTo,        \* the content a symbolic link leads to, NoFile if to nothing
    NoFile,         \* no file
    Transactions    \* the transactions looked at, records

VARIABLES
    ts,         \* the transaction
    file,       \* the packages' manifests (rpmfi of every header)
    flags,      \* RPMTAG_FILEFLAGS
    order,      \* ts->order: the elements as rpmtsOrder left them
    headers,    \* the matching database headers rpmtsCheckInstalledFiles has yet to read
    state,      \* fi->fstates: the file states of every package
    act,        \* fi->actions
    recs,       \* ts->ht: the files with a fingerprint
    probs,      \* ts->probs is not empty
    db,         \* the packages the database holds
    disk, saved,    \* the file at a path, and those beside it with a suffix
    failed,     \* the elements with linkFailed set, or that failed
    pc, at, fx, \* the phase, the element and the file reached
    half,       \* a file state machine is between its two renames
    disk0       \* the disk before the transaction (history)

input == <<ts, file, flags, order, disk0>>
prep == <<headers, act, recs, probs>>
run == <<state, db, disk, saved, failed, at, fx, half>>
vars == <<input, prep, run, pc>>

New == ts.new           \* the added elements (TR_ADDED)
Old == ts.old           \* the removed elements (TR_REMOVED), installed packages
Kept == ts.kept         \* the installed packages outside the transaction
PathSeq == ts.paths     \* the paths, in payload order
Replaces == ts.replaces \* flink: the added element a removed one is replaced by
Fails == ts.fails       \* the steps that may fail
NoDocs == "nodocs" \in ts.options          \* RPMTRANS_FLAG_NODOCS
ReplaceOld == "replaceold" \in ts.options  \* RPMPROB_FILTER_REPLACEOLDFILES
ReplaceNew == "replacenew" \in ts.options  \* RPMPROB_FILTER_REPLACENEWFILES
TsColor == ts.tscolor   \* rpmtsColor, as a set of colours
PrefColor == ts.prefcolor
Color(p, f) == ts.color[p]  \* the colours of a file of a package

Elems == New \cup Old
Installed == Old \cup Kept
Pkgs == New \cup Old \cup Kept
Paths == Range(PathSeq)
Contents == Regs \cup Links
FileFlags == {"config", "noreplace", "missingok", "doc", "exists"}
States == {"normal", "notinstalled", "wrongcolor"}
FileSuffixes == {"rpmsave", "rpmnew", "rpmorig"}
Steps == {"pre", "file", "post", "preun", "postun"}
Actions == {"unknown", "create", "backup", "save", "skip", "altname", "erase",
            "skipnstate", "skipcolor"}

\* contents, attributes and states: what files of packages may be, their flags
\* and, for installed packages, their RPMTAG_FILESTATES; strays: what may lie on
\* the disk where no package has a file; alike: packages give a file the same
\* flags; stays: no two added packages have one configuration file, and none
\* moves to another package than the replacement of its own.
ASSUME ContentsTyped ==
    Regs \cap Links = {} /\ NoFile \notin Contents /\ UserContents \subseteq Contents
ASSUME LinksLead == LeadsTo \in [Links -> Regs \cup {NoFile}]
ASSUME TransactionsTyped ==
    \A t \in Transactions :
        /\ t.new \cap t.old = {} /\ t.new \cap t.kept = {} /\ t.old \cap t.kept = {}
        /\ NoPkg \notin t.new \cup t.old \cup t.kept
        /\ t.contents \subseteq Contents \ UserContents /\ t.strays \subseteq Contents
        /\ t.attributes \subseteq SUBSET FileFlags /\ t.states \subseteq States
        /\ t.replaces \in [t.old -> t.new \cup {NoPkg}]
        /\ t.fails \subseteq Steps
        /\ t.options \subseteq {"nodocs", "replaceold", "replacenew", "alike", "stays"}

Manifests ==
    {m \in [Pkgs -> [Paths -> ts.contents \cup {NoFile}]] :
        "stays" \in ts.options => \A f \in Paths, p, q \in New :
            /\ m[p][f] # NoFile /\ m[q][f] # NoFile => p = q
            /\ m[p][f] # NoFile => \A o \in Old : m[o][f] # NoFile => Replaces[o] = p}
Attributes ==
    {a \in [Pkgs -> [Paths -> ts.attributes]] :
        "alike" \in ts.options => \A p, q \in Pkgs : a[p] = a[q]}

------------------------------------------------------------------------------
(* What the code asks of a file. *)

Has(p, f) == file[p][f] # NoFile
IsConfig(p, f) == "config" \in flags[p][f]
NoReplace(p, f) == "noreplace" \in flags[p][f]
ConfigExists(p, f) == IsConfig(p, f) /\ "exists" \in flags[p][f]
WhatIs(c) == IF c \in Links THEN "link" ELSE "reg"
\* dodigest opens the path, so it reads what a link leads to.
Digest(c) == IF c \in Links THEN LeadsTo[c] ELSE c
Differs(p, q, f) == file[p][f] # file[q][f]
Skipped(a) == a \in {"skip", "skipnstate", "skipcolor"}
Colored(p, f) == Color(p, f) \cap TsColor
Preferred(p, f) == Colored(p, f) \cap PrefColor # {}

TypeOK ==
    /\ ts \in Transactions /\ file \in Manifests /\ flags \in Attributes
    /\ Range(order) = Elems /\ Len(order) = Cardinality(Elems)
    /\ Range(headers) \subseteq Installed
    /\ state \in [Pkgs -> [Paths -> States]]
    /\ act \in [Elems -> [Paths -> Actions]]
    /\ recs \subseteq Elems \X Paths
    /\ probs \in BOOLEAN /\ half \in BOOLEAN
    /\ db \subseteq Pkgs /\ failed \subseteq Elems
    /\ {disk, disk0} \subseteq [Paths -> Contents \cup {NoFile}]
    /\ saved \in [Paths -> [FileSuffixes -> Contents \cup {NoFile}]]
    /\ pc \in {"skip", "fingerprint", "check", "overlap", "verdict", "element", "files", "post", "done", "problems"}
    /\ pc \in {"element", "files", "post"} => at \in DOMAIN order
    /\ at \in 1..Len(order) + 1 /\ fx \in 0..Len(PathSeq) + 1

\* The packages whose file at f the disk can be expected to hold.
Owners(f) == {p \in Installed : Has(p, f) /\ state[p][f] = "normal"}

\* What may be at f before the transaction: a package's file, one of the
\* preferred colour if there is one, or what the user made of it when it is a
\* configuration file.
Possible(f) ==
    LET owners == Owners(f)
        preferred == {p \in owners : Preferred(p, f)}
    IN  {file[p][f] : p \in IF preferred # {} THEN preferred ELSE owners}
        \cup (IF \E p \in owners : IsConfig(p, f) THEN UserContents \cup {NoFile} ELSE {})
        \cup (IF owners = {} THEN ts.strays \cup {NoFile} ELSE {})

\* rpmtsOrder: an erasure comes after the element that replaces its package.
Ordered(s) == \A i, j \in DOMAIN s : s[i] \in Old /\ s[j] = Replaces[s[i]] => j < i

Init ==
    /\ ts \in Transactions /\ file \in Manifests /\ flags \in Attributes
    /\ \E s \in [Installed -> [Paths -> ts.states]] :
          state = [p \in Pkgs |-> IF p \in Installed THEN s[p] ELSE [f \in Paths |-> "normal"]]
    /\ order \in {s \in SetToSeqs(Elems) : Ordered(s)}
    /\ headers \in SetToSeqs(Installed)
    /\ disk \in [Paths -> Contents \cup {NoFile}]
    /\ \A f \in Paths : disk[f] \in Possible(f)
    /\ disk0 = disk
    /\ saved = [f \in Paths |-> [s \in FileSuffixes |-> NoFile]]
    /\ act = [p \in Elems |-> [f \in Paths |-> "unknown"]]
    /\ recs = {} /\ probs = FALSE /\ db = Installed /\ failed = {}
    /\ pc = "skip" /\ at = 1 /\ fx = 0 /\ half = FALSE

------------------------------------------------------------------------------
(* rpmtsPrepare: what to do with each file. *)

\* rpmtsSkipFiles for one file of an added element.
SkipFate(p, f) ==
    LET colors == Color(p, f)
    IN  CASE TsColor # {} /\ colors # {} /\ TsColor \cap colors = {} -> "skipcolor"
          [] NoDocs /\ "doc" \in flags[p][f] -> "skipnstate"
          [] OTHER -> "unknown"

SkipFiles ==
    /\ pc = "skip" /\ pc' = "fingerprint"
    /\ act' = [p \in Elems |-> [f \in Paths |->
                  IF p \in New /\ Has(p, f) THEN SkipFate(p, f) ELSE "unknown"]]
    /\ UNCHANGED <<input, headers, recs, probs, run>>

\* rpmtsAddFingerprints: the files that are not skipped get a record.
AddFingerprints ==
    /\ pc = "fingerprint" /\ pc' = "check"
    /\ recs' = {r \in Elems \X Paths : Has(r[1], r[2]) /\ ~Skipped(act[r[1]][r[2]])}
    /\ UNCHANGED <<input, headers, act, probs, run>>

\* rpmfiDecideFate: the fate of p's configuration file f over h's.
DecideFate(h, p, f) ==
    LET save == IF NoReplace(p, f) THEN "altname" ELSE "save"
        old == file[h][f]  new == file[p][f]  now == disk[f]
    IN  CASE now = NoFile -> IF "missingok" \in flags[p][f] THEN "skip" ELSE "create"
          [] now # NoFile /\ WhatIs(new) # WhatIs(old) ->
                IF WhatIs(now) # WhatIs(old) THEN save ELSE "create"
          [] now # NoFile /\ WhatIs(new) = WhatIs(old) ->
                IF now = old THEN "create" ELSE IF old = new THEN "skip" ELSE save

\* handleInstInstalledFile: do the colours of two different files decide?
ColorsDecide(h, p, f) ==
    /\ Differs(h, p, f)
    /\ TsColor # {} /\ Colored(p, f) # {} /\ Colored(p, f) # Colored(h, f)
    /\ Preferred(h, f) \/ Preferred(p, f)

\* handleInstInstalledFile: the action of added p's file f, which h has too.
InstFate(h, p, f) ==
    CASE Skipped(act[p][f]) -> act[p][f]
      [] ~Skipped(act[p][f]) /\ (IsConfig(h, f) \/ IsConfig(p, f)) -> DecideFate(h, p, f)
      [] OTHER -> IF ColorsDecide(h, p, f)
                  THEN IF Preferred(h, f) THEN "skipcolor" ELSE "create"
                  ELSE act[p][f]

InstConflict(h, p, f) ==
    /\ ~Skipped(act[p][f]) /\ Differs(h, p, f)
    /\ h \notin Old /\ ~ReplaceOld /\ ~ColorsDecide(h, p, f)

\* rpmtsCheckInstalledFiles: the action of removed p's file f, which h has too.
KeepFate(h, p, f) ==
    IF h \notin Old /\ state[h][f] = "normal" THEN "skip" ELSE act[p][f]

\* rpmtsCheckInstalledFiles reads the next database header.
CheckHeader ==
    /\ pc = "check" /\ headers # <<>>
    /\ LET h == Head(headers)
           Both(p, f) == <<p, f>> \in recs /\ Has(h, f)
       IN  /\ act' = [p \in Elems |-> [f \in Paths |->
                        CASE ~Both(p, f) -> act[p][f]
                          [] Both(p, f) /\ p \in New -> InstFate(h, p, f)
                          [] Both(p, f) /\ p \in Old -> KeepFate(h, p, f)]]
           /\ probs' = (probs \/ \E p \in New, f \in Paths : Both(p, f) /\ InstConflict(h, p, f))
    /\ headers' = Tail(headers)
    /\ UNCHANGED <<input, recs, run, pc>>

Checked ==
    /\ pc = "check" /\ headers = <<>>
    /\ pc' = "overlap"
    /\ UNCHANGED <<input, prep, run>>

\* handleOverlappedFiles: the earlier record of file f of the element at i that
\* counts: additions look at additions only, and at records with an action.
Others(i, f) ==
    {j \in 1..i - 1 : /\ <<order[j], f>> \in recs
                      /\ order[i] \in New => order[j] \in New
                      /\ act[order[j]][f] # "unknown"}

\* Two added elements with different files at f: how their colours settle it.
Verdict(p, q, f) ==
    CASE TsColor # {} /\ Preferred(p, f) -> "mine"
      [] TsColor # {} /\ ~Preferred(p, f) /\ Preferred(q, f) -> "other"
      [] TsColor # {} /\ Colored(p, f) = {} /\ Colored(q, f) = {} -> "both"
      [] TsColor # {} /\ ~Preferred(p, f) /\ ~Preferred(q, f)
                      /\ (Colored(p, f) # {} \/ Colored(q, f) # {}) -> "neither"
      [] TsColor = {} -> "conflict"

\* Mutant: the first addition wins.
AddedFateFirst(p, q, f) == IF act[q][f] = "create" THEN "skip" ELSE "create"

\* The action of the added element p, and of q, the previous with file f.
AddedFate(p, q, f) ==
    LET v == Verdict(p, q, f)
    IN  CASE ConfigExists(p, f) -> IF NoReplace(p, f) THEN "altname" ELSE "skip"
          [] ~ConfigExists(p, f) /\ Differs(q, p, f) /\ v = "other" -> "skipcolor"
          [] ~ConfigExists(p, f) /\ Differs(q, p, f) /\ v = "neither" -> act[p][f]
          [] OTHER -> "create"
PreviousFate(p, q, f) ==
    LET v == Verdict(p, q, f)
    IN  CASE Differs(q, p, f) /\ v = "mine" -> "skipcolor"
          [] Differs(q, p, f) /\ v = "both" -> "create"
          [] OTHER -> act[q][f]

\* The action of an added element nobody before it shares file f with.
FirstFate(p, f) ==
    CASE act[p][f] # "unknown" -> act[p][f]
      [] act[p][f] = "unknown" /\ ConfigExists(p, f) ->
            IF NoReplace(p, f) THEN "altname" ELSE "backup"
      [] OTHER -> "create"

\* Mutant: modified configuration files are not looked for.
EraseFateAlways(p, f) == IF state[p][f] = "normal" THEN "erase" ELSE act[p][f]

\* The action of a removed element whose file nobody before it needs.  A digest
\* that cannot be made counts as that of an unmodified file.
EraseFate(p, f) ==
    CASE state[p][f] # "normal" -> act[p][f]
      [] state[p][f] = "normal" /\ WhatIs(file[p][f]) = "reg" /\ IsConfig(p, f)
            /\ Digest(disk[f]) \notin {NoFile, file[p][f]} -> "backup"
      [] OTHER -> "erase"

\* What the element at i does to the actions of the records of f.
OverlapFile(i, f) ==
    LET p == order[i]
        others == Others(i, f)
        q == order[Max(others)]
    IN  CASE <<p, f>> \notin recs \/ Skipped(act[p][f]) -> << >>
          [] p \in New /\ others = {} -> p :> FirstFate(p, f)
          [] p \in New /\ others # {} -> p :> AddedFate(p, q, f) @@ q :> PreviousFate(p, q, f)
          [] p \in Old /\ others = {} -> p :> EraseFate(p, f)
          [] p \in Old /\ others # {} ->
                IF act[q][f] # "erase" THEN p :> "skip"
                ELSE p :> EraseFate(p, f) @@ q :> "skip"

OverlapConflict(i, f) ==
    LET p == order[i]  others == Others(i, f)
    IN  /\ <<p, f>> \in recs /\ ~Skipped(act[p][f]) /\ p \in New /\ others # {}
        /\ LET q == order[Max(others)]
           IN  Differs(q, p, f) /\ ~ReplaceNew /\ Verdict(p, q, f) \in {"neither", "conflict"}

\* handleOverlappedFiles for the next element.
Overlap ==
    /\ pc = "overlap" /\ at <= Len(order)
    /\ LET todo == [f \in Paths |-> OverlapFile(at, f)]
       IN  act' = [p \in Elems |-> [f \in Paths |->
                      IF p \in DOMAIN todo[f] THEN todo[f][p] ELSE act[p][f]]]
    /\ probs' = (probs \/ \E f \in Paths : OverlapConflict(at, f))
    /\ at' = at + 1
    /\ UNCHANGED <<input, headers, recs, state, db, disk, saved, failed, fx, half, pc>>

\* Mutant: the element index is not reset.
JudgeNoReset ==
    /\ pc = "overlap" /\ at > Len(order)
    /\ pc' = IF probs THEN "problems" ELSE "element"
    /\ UNCHANGED <<input, prep, run>>

\* _rpmtsRun: problems end the transaction before it touches anything.
Judge ==
    /\ pc = "overlap" /\ at > Len(order)
    /\ pc' = IF probs THEN "problems" ELSE "element"
    /\ at' = 1
    /\ UNCHANGED <<input, prep, state, db, disk, saved, failed, fx, half>>

------------------------------------------------------------------------------
(* rpmtsProcess: one element after the other. *)

Current == order[at]
NextElement ==
    /\ at' = at + 1
    /\ pc' = IF at = Len(order) THEN "done" ELSE "element"

\* An element marked by an earlier failure is left out.
SkipElement ==
    /\ pc = "element" /\ Current \in failed
    /\ NextElement
    /\ UNCHANGED <<input, prep, state, db, disk, saved, failed, fx, half>>

\* Mutant: linked erasures go on.
LinkedNone(p) == {}

\* rpmtsMarkLinkedFailed: so are the erasures linked to an addition that failed.
Linked(p) == {q \in Old : Replaces[q] = p}
FailCurrent ==
    /\ failed' = failed \cup {Current} \cup Linked(Current)
    /\ NextElement
    /\ fx' = 0 /\ half' = FALSE

\* The %pre or %preun script succeeds: the payload is read forwards, the files
\* of an erasure backwards.
PreScript ==
    /\ pc = "element" /\ Current \notin failed
    /\ pc' = "files"
    /\ fx' = IF Current \in New THEN 1 ELSE Len(PathSeq)
    /\ UNCHANGED <<input, prep, state, db, disk, saved, failed, at, half>>

PreScriptFails ==
    /\ pc = "element" /\ Current \notin failed
    /\ IF Current \in New THEN "pre" \in Fails ELSE "preun" \in Fails
    /\ FailCurrent
    /\ UNCHANGED <<input, prep, state, db, disk, saved>>

Path == PathSeq[fx]
Action == act[Current][Path]
AtFile == pc = "files" /\ fx \in DOMAIN PathSeq
NextFile == fx' = IF Current \in New THEN fx + 1 ELSE fx - 1

\* mapNextIterator, and payloads, only know the files of the package.
NotInPackage ==
    /\ AtFile /\ ~Has(Current, Path)
    /\ NextFile
    /\ UNCHANGED <<input, prep, state, db, disk, saved, failed, at, half, pc>>

\* fsmMapPath: a skipped file of an added package gets its state.
StateAfter(a, s) ==
    CASE a = "skipnstate" -> "notinstalled"
      [] a = "skipcolor" -> "wrongcolor"
      [] OTHER -> s

SkipFile ==
    /\ AtFile /\ Has(Current, Path) /\ ~half
    /\ Skipped(Action) \/ (Current \in Old /\ Action = "unknown")
    /\ state' = IF Current \in New
                THEN [state EXCEPT ![Current][Path] = StateAfter(Action, @)] ELSE state
    /\ NextFile
    /\ UNCHANGED <<input, prep, db, disk, saved, failed, at, half, pc>>

\* fsmMapPath: the suffix the old file (osuffix), or the new one (nsuffix), gets.
OldSuffix(p, a) ==
    CASE a = "save" -> {"rpmsave"}
      [] a = "backup" -> IF p \in New THEN {"rpmorig"} ELSE {"rpmsave"}
      [] OTHER -> {}

\* Renaming a file that is not there fails, and the failure is forgotten.
RenamedAway(s, f) ==
    /\ saved' = [saved EXCEPT ![f][s] = IF disk[f] = NoFile THEN @ ELSE disk[f]]
    /\ disk' = [disk EXCEPT ![f] = NoFile]

\* The first rename of IOSM_COMMIT.  An installed file is looked up under its
\* temporary name, which leaves fsm->exists false: regular files are renamed
\* whatever it says, symbolic links are not.
RenameOld ==
    /\ AtFile /\ Has(Current, Path) /\ ~half
    /\ Current \in New /\ WhatIs(file[Current][Path]) = "reg"
    /\ \E s \in OldSuffix(Current, Action) : RenamedAway(s, Path)
    /\ half' = TRUE
    /\ UNCHANGED <<input, prep, state, db, failed, at, fx, pc>>

\* Extraction and the second rename, from the temporary to the final name.
Placed ==
    /\ AtFile /\ Has(Current, Path) /\ Current \in New /\ ~Skipped(Action)
    /\ half \/ OldSuffix(Current, Action) = {} \/ WhatIs(file[Current][Path]) = "link"
    /\ IF Action = "altname"
       THEN /\ saved' = [saved EXCEPT ![Path]["rpmnew"] = file[Current][Path]]
            /\ UNCHANGED disk
       ELSE /\ disk' = [disk EXCEPT ![Path] = file[Current][Path]]
            /\ UNCHANGED saved

Install ==
    /\ Placed
    /\ NextFile /\ half' = FALSE
    /\ UNCHANGED <<input, prep, state, db, failed, at, pc>>

\* The extraction fails before anything is renamed, or the second rename does and
\* the temporary file is removed.  The files the package has already installed
\* stay, and an old file that was renamed stays where it was put.
InstallFails ==
    /\ AtFile /\ Has(Current, Path) /\ Current \in New /\ ~Skipped(Action)
    /\ "file" \in Fails
    /\ FailCurrent
    /\ UNCHANGED <<input, prep, state, db, disk, saved>>

\* Owner, mode or times of the file in its place cannot be set.
AttributesFail ==
    /\ "file" \in Fails /\ Placed
    /\ FailCurrent
    /\ UNCHANGED <<input, prep, state, db>>

\* IOSM_PKGERASE: unlink or rename; nothing that goes wrong here is a failure.
Erase ==
    /\ AtFile /\ Has(Current, Path) /\ Current \in Old
    /\ \/ /\ Action = "erase"
          /\ disk' = [disk EXCEPT ![Path] = NoFile]
          /\ UNCHANGED saved
       \/ \E s \in OldSuffix(Current, Action) : RenamedAway(s, Path)
    /\ NextFile
    /\ UNCHANGED <<input, prep, state, db, failed, at, half, pc>>

FilesDone ==
    /\ pc = "files" /\ fx \notin DOMAIN PathSeq
    /\ pc' = "post"
    /\ UNCHANGED <<input, prep, run>>

\* PSM_POST: the scripts, then the database.
Post ==
    /\ pc = "post"
    /\ db' = IF Current \in New THEN db \cup {Current} ELSE db \ {Current}
    /\ NextElement /\ fx' = 0
    /\ UNCHANGED <<input, prep, state, disk, saved, failed, half>>

\* A %post or %postun that fails ends PSM_POST before the database is written.
PostFails ==
    /\ pc = "post"
    /\ IF Current \in New THEN "post" \in Fails ELSE "postun" \in Fails
    /\ FailCurrent
    /\ UNCHANGED <<input, prep, state, db, disk, saved>>

Finished == pc \in {"done", "problems"} /\ UNCHANGED vars

Next ==
    \/ SkipFiles \/ AddFingerprints \/ CheckHeader \/ Checked \/ Overlap \/ Judge
    \/ SkipElement \/ PreScript \/ PreScriptFails
    \/ NotInPackage \/ SkipFile \/ RenameOld \/ Install \/ InstallFails \/ AttributesFail
    \/ Erase \/ FilesDone
    \/ Post \/ PostFails
    \/ Finished

Spec == Init /\ [][Next]_vars

------------------------------------------------------------------------------
(* What the files are promised. *)

Done == pc = "done"
Succeeded == Done /\ failed = {}
Present(p, f) == p \in db /\ Has(p, f) /\ state[p][f] = "normal"

\* The file at f is beside its place: an installation failed between its renames.
MovedAside(f) ==
    disk0[f] \in Range(saved[f]) /\ \E q \in New \cap failed : OldSuffix(q, act[q][f]) # {}

\* When the transaction is over, whatever failed in it, every file a package
\* of the database says it installed is on the disk, unless its own element
\* failed: dispositions are decided before anything runs, from a disk that later
\* elements see changed.  Files the user had removed, and %missingok ones, are
\* the exception, as is a configuration file whose new version failed to replace
\* it.
NothingMissing ==
    Done => \A p \in Pkgs \ failed, f \in Paths :
        Present(p, f) /\ "missingok" \notin flags[p][f] /\ (p \in New \/ disk0[f] # NoFile)
            => disk[f] # NoFile \/ MovedAside(f)

\* An upgrade that fails, wherever it does, leaves the package it replaces in
\* the database, with all the files it had on the disk, old or new, but
\* for a configuration file whose new version failed to replace it.
FailedUpgradeStays ==
    Done => \A o \in Old : Replaces[o] \in failed =>
        /\ o \in db
        /\ \A f \in Paths : Present(o, f) /\ disk0[f] # NoFile
               => disk[f] # NoFile \/ MovedAside(f)

\* The last of the added packages that install a file which is no configuration
\* file has its content on the disk, whatever the removed packages did to it.
LastWins ==
    Succeeded => \A i \in DOMAIN order, f \in Paths :
        LET p == order[i]
            later == {order[j] : j \in i + 1..Len(order)}
            unconfigured == \A q \in Pkgs : Has(q, f) => ~IsConfig(q, f)
        IN  p \in New /\ Present(p, f) /\ unconfigured
                /\ ~(\E q \in later \cap New : Present(q, f))
            => disk[f] = file[p][f]

\* A file only removed packages had, and that nobody changed, is gone, where
\* files have no colours.
NoOrphans ==
    Succeeded /\ TsColor = {} => \A o \in Old, f \in Paths :
        /\ Has(o, f) /\ state[o][f] = "normal" /\ disk0[f] = file[o][f]
        /\ disk[f] = disk0[f]
        => \E p \in Pkgs : Present(p, f)

UserFile(f) == disk0[f] \in {disk[f]} \cup Range(saved[f])
Edited(f) == disk0[f] \in UserContents /\ \E p \in Owners(f) : IsConfig(p, f)

\* A link in the place of a regular configuration file that is erased, of which
\* the digest is that of the packaged file, or none.
SeenThrough(f) ==
    /\ disk0[f] \in Links
    /\ \E o \in Old : /\ Has(o, f) /\ state[o][f] = "normal" /\ IsConfig(o, f)
                      /\ WhatIs(file[o][f]) = "reg" /\ Digest(disk0[f]) \in {NoFile, file[o][f]}
    /\ \A p \in New \cup Kept : ~(Has(p, f) /\ state[p][f] = "normal")

\* At every moment, so after a crash too, what the user had made of a
\* configuration file is on the disk: in its place or beside it.
UserConfigKept == \A f \in Paths : Edited(f) /\ ~SeenThrough(f) => UserFile(f)

\* "Save (by renaming) locally modified config files.", where the modification is
\* a link (lib/transaction.c:440, as handleOverlappedFiles digests through it).
LinksKept == \A f \in Paths : Edited(f) /\ SeenThrough(f) => UserFile(f)

\* The same of a file no package had installed, where an added package has a
\* configuration file.
StrayConfigKept ==
    \A f \in Paths :
        disk0[f] \in UserContents /\ Owners(f) = {} /\ (\E p \in New : Has(p, f))
            /\ (\A p \in New : Has(p, f) => IsConfig(p, f))
            => UserFile(f)

\* What packages outside the transaction have on the disk stays as it is
\* throughout, unless it is a configuration file.
KeptIntact ==
    \A p \in Kept, f \in Paths :
        /\ Present(p, f) /\ disk0[f] = file[p][f]
        /\ \A q \in Pkgs : Has(q, f) => ~IsConfig(q, f)
        => disk[f] = disk0[f]

\* Multilib: where the database ends up with a file of the preferred colour, a
\* file of that colour is what lies on the disk, whichever came first.
PreferredWins ==
    Succeeded => \A f \in Paths :
        LET preferred == {p \in Pkgs : Present(p, f) /\ Preferred(p, f)}
        IN  preferred # {} => \E p \in preferred : disk[f] = file[p][f]

\* Every path that a package of the database has is there, and holds the content
\* of the package it should be of: of a package that stays, of the last one
\* added, or of the preferred colour, although fates are decided one file list at
\* a time; and no file stays of packages that are gone.
RightContent == NothingMissing /\ KeptIntact /\ LastWins /\ PreferredWins /\ NoOrphans
=============================================================================
