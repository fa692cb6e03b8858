---------------------------- MODULE RpmRollback ----------------------------
(***************************************************************************)
(* lib/rpmrollback.c and the parts of lib/transaction.c and lib/psm.c it   *)
(* relies on: transactions that repackage what they erase and mark headers *)
(* with transaction identifiers and with the links of the upgrade chain,   *)
(* and the loop that walks back through them, either for --rollback or for *)
(* a transaction that failed (rpmtsRollback).                              *)
(*                                                                         *)
(* A package is its NEVRA.  Identifiers are the seconds of the clock.  The *)
(* transaction of a rollback is assumed not to repackage (no --repackage   *)
(* beside --rollback), and nothing is installed after a rollback.          *)
(***************************************************************************)
EXTENDS Naturals, FiniteSets, SequencesExt

CONSTANTS
    Pkgs,           \* the packages: names and versions
    NoPkg,          \* no package
    NameOf,         \* the name of each package
    Obsoletes,      \* the names each package obsoletes
    MaxTid,         \* bound: the last second
    MaxElems,       \* bound: the packages a transaction adds
    MaxErases,      \* bound: the packages a transaction erases for themselves
    Options         \* how rpm is configured and called, records

Tids == 1..MaxTid

ASSUME PackagesNamed ==
    /\ IsFiniteSet(Pkgs) /\ NoPkg \notin Pkgs
    /\ \A p \in Pkgs : NameOf[p] \notin Obsoletes[p]
ASSUME BoundsTyped ==
    /\ MaxTid \in Nat \ {0} /\ MaxElems \in Nat /\ MaxErases \in Nat
    /\ Options \subseteq [auto : BOOLEAN, asserts : BOOLEAN, second : BOOLEAN, unsafe : Nat,
                          excluded : SUBSET Tids, repackage : SUBSET BOOLEAN,
                          fails : SUBSET {"save", "element", "rollback"}]

\* Installed headers, with RPMTAG_INSTALLTID and RPMTAG_BLINKNEVRA (empty for
\* RPMTE_CHAIN_END), and repackaged ones, with RPMTAG_REMOVETID too.
Headers == [pkg : Pkgs, tid : Tids, blink : SUBSET Pkgs]
Archives == [pkg : Pkgs, tid : Tids, blink : SUBSET Pkgs, removed : Tids]

VARIABLES
    opt,        \* the options
    now,        \* the clock
    db,         \* the headers of the database
    vault,      \* the packages of %_repackage_dir
    adds,       \* the TR_ADDED elements still to run
    erases,     \* the TR_REMOVED elements still to run
    link,       \* flink: the added package an erasure is linked to
    repackage,  \* RPMTRANS_FLAG_REPACKAGE of the transaction
    gone,       \* an erasure of the transaction has run
    failed,     \* an element of the transaction has failed
    goal,       \* ia->rbtid
    level,      \* thistid
    ip, rp,     \* what is left of itids and rtids
    unlinked,   \* the headers of this level findErases did not add
    auto,       \* called from rpmtsRollback
    pc,
    snap        \* the packages installed before each transaction (history)

AutoRollback == opt.auto        \* %_rollback_transaction_on_failure
UnsafeRollbacks == opt.unsafe   \* %_unsafe_rollbacks
Excluded == opt.excluded        \* --rbexclude
Repackages == opt.repackage     \* the values RPMTRANS_FLAG_REPACKAGE may have
Asserts == opt.asserts          \* built without NDEBUG
SameSecond == opt.second        \* a transaction may begin in the second of the last one
Fails == opt.fails              \* what may fail

ts == <<adds, erases, link, repackage, gone, failed>>
rb == <<opt, goal, level, ip, rp, unlinked, auto>>
vars == <<now, db, vault, ts, rb, pc, snap>>

Installed == {h.pkg : h \in db}
Archived == {v.pkg : v \in vault}
NoLinks == [p \in Pkgs |-> NoPkg]
Never == MaxTid + 1

TypeOK ==
    /\ opt \in Options
    /\ now \in 1..Never
    /\ db \subseteq Headers /\ \A g, h \in db : g.pkg = h.pkg => g = h
    /\ vault \subseteq Archives
    /\ adds \subseteq Headers /\ erases \subseteq db
    /\ link \in [Pkgs -> Pkgs \cup {NoPkg}]
    /\ repackage \in BOOLEAN /\ gone \in BOOLEAN /\ failed \in BOOLEAN /\ auto \in BOOLEAN
    /\ goal \in 1..Never /\ level \in 1..Never
    /\ ip \subseteq Headers /\ rp \subseteq Archives /\ unlinked \subseteq db
    /\ pc \in {"idle", "save", "run", "next", "built", "rolled", "stopped", "aborted"}
    /\ DOMAIN snap \subseteq 1..now /\ Range(snap) \subseteq SUBSET Pkgs

Init ==
    /\ opt \in Options
    /\ now = 1 /\ db = {} /\ vault = {} /\ adds = {} /\ erases = {} /\ link = NoLinks
    /\ repackage = FALSE /\ gone = FALSE /\ failed = FALSE /\ auto = FALSE
    /\ goal = Never /\ level = Never /\ ip = {} /\ rp = {} /\ unlinked = {}
    /\ pc = "idle" /\ snap = << >>

------------------------------------------------------------------------------
(* An ordinary transaction. *)

Remember == snap' = [t \in DOMAIN snap \cup {now} |-> IF t \in DOMAIN snap THEN snap[t] ELSE Installed]

\* What an upgrade to p erases: rpmtsAddUpgrades, rpmtsAddObsoletes.
Replaced(p) == {h \in db : NameOf[h.pkg] = NameOf[p] \/ NameOf[h.pkg] \in Obsoletes[p]}

\* rpm -U or -i of the packages new, and -e of the headers old.  rpmteChain
\* links an addition and its erasures; hSaveBlinks puts the links in its header.
Begin(new, upgrade, old) ==
    LET erased(p) == IF upgrade THEN Replaced(p) ELSE {}
        all == UNION {erased(p) : p \in new}
    IN  /\ pc = "idle" /\ now \in Tids
        /\ new \cup old # {} /\ old \cap all = {}
        /\ \A p, q \in new : p # q => erased(p) \cap erased(q) = {}
        /\ adds' = {[pkg |-> p, tid |-> now, blink |-> {h.pkg : h \in erased(p)}] : p \in new}
        /\ erases' = old \cup all
        /\ link' = [x \in Pkgs |->
                      IF \E p \in new : \E h \in erased(p) : h.pkg = x
                      THEN CHOOSE p \in new : \E h \in erased(p) : h.pkg = x ELSE NoPkg]
        /\ repackage' \in Repackages /\ gone' = FALSE /\ failed' = FALSE
        /\ pc' = "save" /\ Remember
        /\ UNCHANGED <<now, db, vault, rb>>

Transaction ==
    \E new \in SUBSET (Pkgs \ Installed), upgrade \in BOOLEAN, old \in SUBSET db :
        /\ Cardinality(new) <= MaxElems /\ Cardinality(old) <= MaxErases
        /\ Begin(new, upgrade, old)

\* PSM_PKGSAVE: the repackaged header keeps its install identifier and links.
Archive(h) == [pkg |-> h.pkg, tid |-> h.tid, blink |-> h.blink, removed |-> now]

\* rpmtsRepackage, before any element runs.  That a package could not be
\* written is not looked at.
Save ==
    /\ pc = "save" /\ pc' = "run"
    /\ \E lost \in SUBSET erases :
          LET new == {Archive(h) : h \in erases \ lost}
          IN  /\ "save" \notin Fails \/ ~repackage => lost = {}
              /\ vault' = IF ~repackage THEN vault
                          ELSE {v \in vault : \A w \in new : v.pkg # w.pkg \/ v.removed # w.removed} \cup new
    /\ UNCHANGED <<now, db, ts, rb, snap>>

\* Mutant: a transaction that is rolled back gives headers its own identifier.
InstalledTidNow(h) == [h EXCEPT !.tid = now]

\* PSM_RPMDB_ADD: headers of a rollback keep their identifier.
InstalledTid(h) == h

RollingBack == goal # Never

\* The addition of h succeeds.  A header read from a repackaged package has
\* RPMTAG_REMOVETID, which rpmdbAdd asserts it has not.
InstallElement(h) ==
    /\ pc = "run" /\ h \in adds
    /\ ~(RollingBack /\ Asserts)
    /\ db' = {x \in db : x.pkg # h.pkg} \cup {InstalledTid(h)}
    /\ adds' = adds \ {h}
    /\ UNCHANGED <<now, vault, erases, link, repackage, gone, failed, rb, pc, snap>>

AddAsserts(h) ==
    /\ pc = "run" /\ h \in adds
    /\ RollingBack /\ Asserts
    /\ pc' = "aborted"
    /\ UNCHANGED <<now, db, vault, ts, rb, snap>>

\* An erasure runs after the addition it is linked to (rpmtsOrder).
Ready(h) == h \in erases /\ \A x \in adds : x.pkg # link[h.pkg]
\* Mutant: the header is removed again for the same element.
EraseElementAgain(h) ==
    /\ pc = "run" /\ Ready(h)
    /\ db' = db \ {h} /\ gone' = TRUE
    /\ UNCHANGED <<now, vault, adds, erases, link, repackage, failed, rb, pc, snap>>

EraseElement(h) ==
    /\ pc = "run" /\ Ready(h)
    /\ db' = db \ {h} /\ erases' = erases \ {h} /\ gone' = TRUE
    /\ UNCHANGED <<now, vault, adds, link, repackage, failed, rb, pc, snap>>

\* rpmtsMarkLinkedFailed: a failed addition takes its erasures with it.
Linked(h) == {h} \cup {x \in erases : link[x.pkg] = h.pkg /\ h \in adds}

MayFail == IF RollingBack THEN "rollback" \in Fails ELSE "element" \in Fails
RollsBackFailures == AutoRollback /\ repackage /\ ~RollingBack

\* An element fails: the transaction goes on with the others.
ElementFails(h) ==
    /\ pc = "run" /\ (h \in adds \/ Ready(h))
    /\ MayFail /\ ~RollsBackFailures
    /\ adds' = adds \ Linked(h) /\ erases' = erases \ Linked(h)
    /\ failed' = TRUE
    /\ UNCHANGED <<now, db, vault, link, repackage, gone, rb, pc, snap>>

\* The next transaction begins in a later second, or in the same.
Tick == now' = now + 1 \/ (SameSecond /\ now' = now)

EndTransaction ==
    /\ pc = "run" /\ adds = {} /\ erases = {} /\ ~RollingBack
    /\ pc' = "idle" /\ Tick
    /\ UNCHANGED <<db, vault, ts, rb, snap>>

------------------------------------------------------------------------------
(* rpmRollback *)

TopTid(headers) == Max({h.tid : h \in headers} \cup {0})
TopRemoved(archives) == Max({v.removed : v \in archives} \cup {0})

\* IDTXload and IDTXglob: sorted by identifier, latest first.
IdtxLoad(d, g) == {h \in d : h.tid >= g}
IdtxGlob(g) == {v \in vault : v.removed >= g}

\* Walking the list past the headers of a level, if it begins with them.
Past(headers, t) == IF TopTid(headers) = t THEN {h \in headers : h.tid # t} ELSE headers

ThisTid == Max({TopTid(ip), TopRemoved(rp)})

\* rpm --rollback.
RollbackTo(g) ==
    /\ pc = "idle" /\ now > 1 /\ g < now
    /\ goal' = g /\ level' = Never /\ auto' = FALSE
    /\ ip' = IdtxLoad(db, g) /\ rp' = IdtxGlob(g) /\ unlinked' = {}
    /\ pc' = "next" /\ Remember
    /\ UNCHANGED <<opt, now, db, vault, ts>>

GoalReached ==
    /\ pc = "next"
    /\ ThisTid < goal \/ (UnsafeRollbacks # 0 /\ ThisTid <= UnsafeRollbacks)
    /\ pc' = "rolled"
    /\ UNCHANGED <<now, db, vault, ts, rb, snap>>

AtLevel == pc = "next" /\ ThisTid >= goal /\ (UnsafeRollbacks # 0 => ThisTid > UnsafeRollbacks)

\* Mutant: the next transaction is looked for before the lists are walked.
SkipExcludedStays ==
    /\ AtLevel /\ ThisTid \in Excluded /\ ~auto
    /\ UNCHANGED vars

SkipExcluded ==
    /\ AtLevel /\ ThisTid \in Excluded /\ ~auto
    /\ ip' = Past(ip, ThisTid) /\ rp' = {v \in rp : v.removed # ThisTid}
    /\ UNCHANGED <<opt, now, db, vault, ts, goal, level, unlinked, auto, pc, snap>>

\* findErases: h is erased with p if p is one of the packages h had replaced,
\* or if h had not replaced any.
Links(h, p) == p.pkg \in h.blink \/ h.blink = {}

\* The header of a repackaged package.
Unpacked(v) == [pkg |-> v.pkg, tid |-> v.tid, blink |-> v.blink]

\* The packages this level erased are installed again, in the order s of the
\* list, each followed by the erasures that are linked to it.
BuildLevel(s) ==
    LET t == ThisTid
        candidates == IF TopTid(ip) = t THEN {h \in ip : h.tid = t} ELSE {}
        with(h) == {i \in DOMAIN s : Links(h, s[i])}
        erased == {h \in candidates : with(h) # {} \/ h.blink = {}}
    IN  /\ AtLevel /\ (t \notin Excluded \/ auto)
        /\ ToSet(s) = {v \in rp : v.removed = t}
        /\ level' = t
        /\ adds' = {Unpacked(v) : v \in ToSet(s)}
        /\ erases' = erased
        /\ link' = [x \in Pkgs |->
                      IF \E h \in erased : h.pkg = x /\ with(h) # {}
                      THEN s[Min(with(CHOOSE h \in erased : h.pkg = x))].pkg ELSE NoPkg]
        /\ unlinked' = candidates \ erased
        /\ ip' = ip \ candidates /\ rp' = rp \ ToSet(s)
        /\ repackage' = FALSE /\ gone' = FALSE /\ failed' = FALSE
        /\ pc' = "built"
        /\ UNCHANGED <<opt, now, db, vault, goal, auto, snap>>

\* rpmcliPackagesTotal: the additions, and with %_unsafe_rollbacks the headers
\* that were not added as erasures.
Total == Cardinality(adds) + (IF UnsafeRollbacks # 0 /\ ~auto THEN Cardinality(unlinked) ELSE 0)

NothingToDo ==
    /\ pc = "built" /\ Total = 0
    /\ pc' = "rolled" /\ adds' = {} /\ erases' = {}
    /\ UNCHANGED <<now, db, vault, link, repackage, gone, failed, rb, snap>>

\* _rpmtsRun turns down a transaction without elements, and one of which
\* rpmtsSanityCheck finds a package that is installed already.
NoElements == adds \cup erases = {}
AlreadyInstalled == \E h \in adds : h.pkg \in Installed
Refused ==
    /\ pc = "built" /\ Total # 0 /\ ~auto /\ (NoElements \/ AlreadyInstalled)
    /\ pc' = "stopped" /\ adds' = {} /\ erases' = {}
    /\ UNCHANGED <<now, db, vault, link, repackage, gone, failed, rb, snap>>

Run ==
    /\ pc = "built" /\ Total # 0 /\ ~auto /\ ~NoElements /\ ~AlreadyInstalled
    /\ pc' = "run"
    /\ UNCHANGED <<now, db, vault, ts, rb, snap>>

\* Mutant: every repackaged package goes.
CleanedAll == {}

\* The repackaged packages of the level are unlinked.
Cleaned == {v \in vault : v.removed # level}

\* The chains are loaded again, and left at the next level.
Reload ==
    /\ vault' = Cleaned
    /\ ip' = Past(IdtxLoad(db, goal), level)
    /\ unlinked' = {}
    /\ pc' = "next"

EndLevel ==
    /\ pc = "run" /\ adds = {} /\ erases = {} /\ RollingBack
    /\ IF failed THEN pc' = "stopped" /\ UNCHANGED <<vault, ip, unlinked>> ELSE Reload
    /\ UNCHANGED <<opt, now, db, ts, goal, level, rp, auto, snap>>

------------------------------------------------------------------------------
(* rpmtsRollback, when an element of a transaction fails. *)

\* The headers of all erasures are removed from the database, and that of the
\* addition that failed is added: unless an erasure has run, whose header
\* cannot be removed again.
AutoStart(h) ==
    LET d == (db \ erases) \cup ({h} \cap adds)
    IN  /\ pc = "run" /\ (h \in adds \/ Ready(h))
        /\ MayFail /\ RollsBackFailures /\ ~gone
        /\ db' = d
        /\ goal' = now /\ level' = Never /\ auto' = TRUE
        /\ ip' = IdtxLoad(d, now) /\ rp' = IdtxGlob(now) /\ unlinked' = {}
        /\ adds' = {} /\ erases' = {} /\ failed' = TRUE
        /\ pc' = "next"
        /\ UNCHANGED <<opt, now, vault, link, repackage, gone, snap>>

AutoGivesUp(h) ==
    /\ pc = "run" /\ (h \in adds \/ Ready(h))
    /\ MayFail /\ RollsBackFailures /\ gone
    /\ adds' = {} /\ erases' = {} /\ failed' = TRUE
    /\ pc' = "idle" /\ Tick
    /\ UNCHANGED <<db, vault, link, repackage, gone, rb, snap>>

\* ia->rbRun is not set: the transaction is not run.
NotRun ==
    /\ pc = "built" /\ Total # 0 /\ auto
    /\ adds' = {} /\ erases' = {}
    /\ Reload
    /\ UNCHANGED <<opt, now, db, link, repackage, gone, failed, goal, level, rp, auto, snap>>

Finished == pc \in {"rolled", "stopped", "aborted"} /\ UNCHANGED vars
Idle == pc = "idle" /\ now = Never /\ UNCHANGED vars

Next ==
    \/ Transaction \/ Save \/ EndTransaction
    \/ \E h \in adds : InstallElement(h) \/ AddAsserts(h)
    \/ \E h \in erases : EraseElement(h)
    \/ \E h \in adds \cup erases : ElementFails(h) \/ AutoStart(h) \/ AutoGivesUp(h)
    \/ \E g \in Tids : RollbackTo(g)
    \/ GoalReached \/ SkipExcluded
    \/ \E s \in SetToSeqs({v \in rp : v.removed = ThisTid}) : BuildLevel(s)
    \/ NothingToDo \/ Refused \/ Run \/ EndLevel \/ NotRun
    \/ Finished \/ Idle

Spec == Init /\ [][Next]_vars

\* rpm goes on once it has been started.
LiveSpec == Spec /\ WF_vars(pc # "idle" /\ Next)

------------------------------------------------------------------------------
(* What a rollback is for. *)

\* Every erasure was repackaged, no transaction is left out, and what fails are
\* at most elements of the rollback.
Undoable == Repackages = {TRUE} /\ Excluded = {} /\ Fails \subseteq {"rollback"}

\* After the transaction of every level, exactly the packages that were there
\* before the transaction it undoes are installed: upgrades, obsoleted and
\* erased packages, and whatever the levels before it have put back.
StepwiseRestored ==
    Undoable /\ pc = "next" /\ level # Never => Installed = snap[level]

\* A rollback that ends well has restored its goal; or it has stopped short
\* where the next transaction to undo had only installed packages.
GoalRestored ==
    LET after == {t \in DOMAIN snap : t >= goal /\ t > UnsafeRollbacks}
    IN  \/ after = {}
        \/ Installed = snap[Min(after)]
        \/ \E t, u \in after : /\ t < u /\ ~(\E x \in after : t < x /\ x < u)
                               /\ snap[t] \subseteq snap[u] /\ Installed = snap[u]
Achieved == Undoable /\ pc = "rolled" => GoalRestored

\* A rollback of which nothing fails is never turned away: a package it is to
\* install again is not installed already.
NeverRefused == Undoable /\ pc = "stopped" => failed

\* A rollback of which nothing fails does what it is for, at every level and at
\* its end.
Restores == StepwiseRestored /\ Achieved /\ NeverRefused

------------------------------------------------------------------------------
(* Why: the inductive invariant. *)

\* What rpm does is told by pc; an element to be added is not installed.
Shape ==
    /\ pc \in {"idle", "save"} => ~RollingBack
    /\ pc \notin {"idle", "save", "run"} => RollingBack
    /\ ~RollingBack => ~auto /\ level = Never /\ unlinked = {}
    /\ pc \in {"save", "run"} /\ ~RollingBack => now \in Tids
    /\ pc \in {"save", "run"} => \A h \in adds : h.pkg \notin Installed
    /\ \A g, h \in adds : g.pkg = h.pkg => g = h
    /\ \A v, w \in vault : v.pkg = w.pkg /\ v.removed = w.removed => v = w
    /\ \A v, w \in rp : v.pkg = w.pkg /\ v.removed = w.removed => v = w
    /\ unlinked \cap erases = {}
    /\ pc = "next" => ip \subseteq db

\* Which packages were installed before transaction t, told by the headers that
\* are installed and those that were repackaged since.
Before(t) == {h.pkg : h \in {x \in db : x.tid < t}}
             \cup {v.pkg : v \in {x \in vault : x.tid < t /\ t <= x.removed}}
Remembered(top) == \A t \in DOMAIN snap : t <= top => snap[t] = Before(t)

\* Every erasure is repackaged.
Saved == Repackages = {TRUE} /\ "save" \notin Fails

\* A transaction is under way that is not the one of a rollback.
Under == pc = "run" /\ ~RollingBack
LevelUnder == pc = "built" \/ (pc = "run" /\ RollingBack)

Clock ==
    /\ DOMAIN snap = IF pc = "idle" THEN 1..(now - 1) ELSE 1..now
    /\ RollingBack => goal < now
    /\ \A h \in db : h.tid <= now /\ (~Under => h.tid < now)
    /\ \A v \in vault : v.tid < v.removed /\ v.removed <= now /\ (~Under => v.removed < now)
    /\ pc = "save" \/ Under => (\A h \in adds : h.tid = now) /\ (\A h \in erases : h.tid < now)

\* The repackaged packages of a level stay until all of them are back.
LevelSaved ==
    /\ pc = "next" \/ LevelUnder =>
          /\ rp \subseteq vault /\ \A v \in rp : v.removed >= goal
          /\ \A v \in vault : v.removed >= goal =>
                v \in rp \/ v.removed \in Excluded \/ (LevelUnder /\ v.removed = level)
    /\ LevelUnder =>
          /\ level # Never /\ level >= goal
          /\ \A v \in rp : v.removed # level
          /\ \A h \in adds : \E v \in vault : v.removed = level /\ h = Unpacked(v)
          /\ \A h \in erases : h.tid = level
          /\ ~failed => \A v \in vault : v.removed = level => Unpacked(v) \in adds \cup db

\* What is still to be erased has been repackaged.
ErasedSaved ==
    /\ pc = "save" => repackage
    /\ Under => \A h \in erases : Archive(h) \in vault

\* How far the history is told by the vault.
Top == IF RollingBack THEN goal ELSE now

VaultInv ==
    ~SameSecond /\ ~auto => /\ Clock /\ LevelSaved
                            /\ Saved => ErasedSaved /\ Remembered(Top)

\* The transaction before which the system is.
Here == IF level = Never THEN now ELSE level

\* Between the transactions everything is older.
Between == pc \in {"idle", "save", "next"}
Older ==
    /\ level # Never => goal <= level /\ level < now /\ UnsafeRollbacks < level
    /\ \A h \in db : h.tid <= Here /\ (Between => h.tid < Here)
    /\ \A v \in vault : v.removed <= Here /\ (Between => v.removed < Here)

\* The packages a header replaced were repackaged by its transaction.
Followed(h) == \A p \in h.blink : \E v \in vault : v.pkg = p /\ v.removed = h.tid
Chained ==
    /\ \A h \in db \cup vault : Followed(h)
    /\ pc \in {"run", "built"} => \A h \in adds : Followed(h)
    /\ pc = "save" => \A h \in adds : \A p \in h.blink : \E x \in erases : x.pkg = p

\* A package is repackaged and removed before it is installed again, but for the
\* ones that the transaction of this moment moves.
Moving(v, h) ==
    /\ v.removed = Here /\ h = Unpacked(v)
    /\ IF RollingBack THEN pc \in {"run", "stopped", "aborted"} ELSE pc = "run" /\ h \in erases
Apart ==
    /\ \A v, w \in vault : v.pkg = w.pkg /\ v # w => v.removed < w.tid \/ w.removed < v.tid
    /\ \A v \in vault, h \in db : v.pkg = h.pkg => v.removed < h.tid \/ Moving(v, h)
    /\ Under => \A v \in vault, h \in adds : v.pkg = h.pkg => v.removed < now

\* No transaction was empty.
Used(t) == (\E h \in db \cup vault : h.tid = t) \/ (\E v \in vault : v.removed = t)
NoneEmpty ==
    /\ \A t \in 1..(Here - 1) : Used(t)
    /\ pc = "save" => adds # {} \/ erases # {}
    /\ Under => adds # {} \/ Used(now)

\* The lists of a rollback are those of its level, and nothing is left out.
Lists ==
    /\ pc = "next" => ip = {h \in db : h.tid >= goal}
    /\ pc = "built" => /\ adds = {Unpacked(v) : v \in {x \in vault : x.removed = level}}
                       /\ unlinked = {} /\ Installed = snap[level + 1]
    /\ LevelUnder => (~failed => \A h \in db : h.tid = level => h \in erases)
    /\ pc = "stopped" => failed

LevelInv ==
    Undoable /\ ~SameSecond =>
        /\ ~auto /\ Older /\ Remembered(Here) /\ Chained /\ Apart /\ NoneEmpty /\ Lists
        /\ Achieved

RollbackInv == TypeOK /\ Shape /\ VaultInv /\ LevelInv

\* Levels are visited from the latest to the earliest, each once; a level of
\* which a package stays installed breaks this (RollbackUnsaved.cfg).
LevelsDescend == pc = "next" => ThisTid < level \/ ThisTid \in Excluded

\* Whatever fails, a package that was installed once is installed, or in a
\* repackaged package; while rolling back, this is true of the goal.
NothingForgotten ==
    Repackages = {TRUE} /\ ~auto =>
        \A t \in DOMAIN snap :
            (RollingBack => \A u \in DOMAIN snap : u >= goal => t <= u)
                => snap[t] \subseteq Installed \cup Archived

\* A repackaged package is only removed when it is installed again, or when the
\* same package is written in its place.
DeletedWhenBack ==
    auto \/ \A v \in vault \ vault' : v.pkg \in Installed \cup {w.pkg : w \in vault' \ vault}

\* Whatever happens, the vault can still undo what the system did: nothing that
\* was installed is forgotten, and nothing leaves the vault before it is back.
VaultKept == [][NothingForgotten' /\ DeletedWhenBack]_vars

\* "Rollback a failed transaction." (lib/rpmts.h:404), and "Remove repackaged
\* packages after successful reinstall." (lib/rpmrollback.c:645): what a failed
\* transaction had erased is installed again when it has been rolled back, or at
\* least still in its repackaged package.
FailureUndone == auto /\ pc = "rolled" => snap[goal] \subseteq Installed \cup Archived

\* Installing what a transaction had repackaged is no programming error: the
\* assertion of rpmdbAdd holds.
NeverAborts == pc # "aborted"

\* A rollback comes to an end.
RollbackEnds == [](RollingBack => <>(pc \in {"rolled", "stopped", "aborted"}))
=============================================================================
