------------------------------ MODULE RpmLock ------------------------------
(***************************************************************************)
(* rpm commands that run at the same time and the transaction lock of      *)
(* lib/rpmlock.c that is to keep them apart.                               *)
(*                                                                         *)
(* A command reads the database to find what it erases and to check its    *)
(* dependencies (lib/rpminstall.c); only then does _rpmtsRun take the      *)
(* lock, look at the database once more (rpmtsSanityCheck), and change it. *)
(* The lock is an fcntl lock: it belongs to a process, and goes when the   *)
(* process closes any descriptor of the file or ends.  Of the packages,    *)
(* only names, versions and the names they require matter here; TransSet   *)
(* has the rest of the check.                                              *)
(***************************************************************************)
EXTENDS Integers, FiniteSets, SequencesExt

CONSTANTS Sets,        \* transaction sets, one command each
          Process,     \* [Sets -> processes]
          Packages,    \* [name, evr, needs : a set of names]
          Commands,    \* [Sets -> what may be asked of each: [op, pkg]]
          LockFiles,   \* what the lock file may be
          MayFail,     \* whether waits, elements and processes may fail
          Threads,     \* whether the sets of one process may run at once
          Nested,      \* <<s, t>>: a scriptlet of s runs the command t
          NoProcess

ASSUME LockAssumption ==
    /\ IsFiniteSet(Packages)
    /\ \A s \in Sets : \A c \in Commands[s] :
          c.op \in {"upgrade", "erase", "rebuild"} /\ c.pkg \in Packages
    /\ LockFiles \subseteq {"writable", "readonly", "none"}
    /\ Nested \subseteq Sets \X Sets
    /\ \A s \in Sets : Process[s] # NoProcess

VARIABLES db,       \* the headers: [num, pkg]
          last,     \* the highest number a header was given
          file,     \* %{_rpmlock_path}: writable, readonly, or not there
          holder,   \* the process that has the fcntl lock
          cmd,      \* [op, pkg] of each set
          pc, erase, locked,   \* of each set: place, erasures, lock # NULL
          sound,    \* auxiliary: read a consistent db, nobody wrote since
          bare      \* auxiliary: some set went on without the lock

setVars == <<pc, erase, locked>>
vars == <<db, last, file, holder, cmd, setVars, sound, bare>>

-----------------------------------------------------------------------------
Installed(d) == {i.pkg : i \in d}
Satisfied(p, S) == \A n \in p.needs : \E q \in S : q.name = n
Consistent(d) == \A p \in Installed(d) : Satisfied(p, Installed(d))

(* rpm --rebuilddb only takes the lock.                                     *)
Added(s) == IF cmd[s].op = "upgrade" THEN {cmd[s].pkg} ELSE {}

Init ==
    /\ \E S \in SUBSET Packages :
          /\ \A p, q \in S : p.name = q.name => p = q
          /\ \A p \in S : Satisfied(p, S)
          /\ LET q == SetToSeq(S) IN
                /\ db = {[num |-> i, pkg |-> q[i]] : i \in DOMAIN q}
                /\ last = Len(q)
    /\ file \in LockFiles
    /\ holder = NoProcess
    /\ cmd \in [Sets -> UNION {Commands[s] : s \in Sets}]
    /\ \A s \in Sets : cmd[s] \in Commands[s]
    /\ pc = [s \in Sets |-> "idle"]
    /\ erase = [s \in Sets |-> {}]
    /\ locked = [s \in Sets |-> FALSE]
    /\ sound = [s \in Sets |-> FALSE]
    /\ bare = FALSE

-----------------------------------------------------------------------------
At(s, place) == pc[s] = place
Go(s, place) == pc' = [pc EXCEPT ![s] = place]
Over(s) == At(s, "idle") \/ At(s, "done")

(* Auxiliary: s changes the database under everybody else.                  *)
Disturbs(s) == sound' = [t \in Sets |-> sound[t] /\ t = s]

(* A user or a scriptlet starts the command; a process has one at a time,   *)
(* unless it is a program with threads of its own.                          *)
MayStart(s) ==
    /\ Threads \/ \A t \in Sets : Process[t] = Process[s] => Over(t)
    /\ \A t \in Sets : <<t, s>> \in Nested => At(t, "running")

(* rpmInstall and rpmErase: the instances the set will erase.               *)
Erasures(s) ==
    LET p == cmd[s].pkg IN
    CASE cmd[s].op = "upgrade" -> {i \in db : i.pkg.name = p.name /\ i.pkg # p}
      [] cmd[s].op = "erase"   -> {i \in db : i.pkg = p}
      [] OTHER -> {}

Collect(s) ==
    /\ At(s, "idle") /\ MayStart(s)
    /\ erase' = [erase EXCEPT ![s] = Erasures(s)]
    /\ Go(s, CASE cmd[s].op = "rebuild" -> "open"
               [] cmd[s].op = "erase" /\ Erasures(s) = {} -> "done"
               [] OTHER -> "check")
    /\ sound' = [sound EXCEPT ![s] = Consistent(db)]
    /\ UNCHANGED <<db, last, file, holder, cmd, locked, bare>>

(* Mutant: only what is added is checked.                                   *)
AffectedAdded(s) == Added(s)

(* rpmtsCheck: what is added has what it needs, and what stays does not     *)
(* lose what is erased.                                                     *)
Affected(s) ==
    Added(s) \cup {p \in Installed(db \ erase[s]) :
                     \E i \in erase[s] : i.pkg.name \in p.needs}

Check(s) ==
    /\ At(s, "check")
    /\ LET after == Installed(db \ erase[s]) \cup Added(s)
       IN  Go(s, IF \A p \in Affected(s) : Satisfied(p, after) THEN "open" ELSE "done")
    /\ UNCHANGED <<db, last, file, holder, cmd, erase, locked, sound, bare>>

-----------------------------------------------------------------------------
(* Mutant: F_RDLCK, which other readers share.                              *)
LockableShared(s) == TRUE

(* Mutant: the lock stays with the process.                               *)
DropNothing(s) == UNCHANGED holder

(* fcntl: the lock of the process goes with F_UNLCK, with any descriptor of *)
(* the file it closes, and with the process.                                *)
Lockable(s) == holder \in {Process[s], NoProcess}

Drop(s) == holder' = IF holder = Process[s] THEN NoProcess ELSE holder

(* rpmlock_new.  Without a file that can be written rpmlock_acquire fails   *)
(* on lock->omode, twice: the lock is NULL and its descriptor closed.       *)
OpenLock(s) ==
    /\ At(s, "open")
    /\ \/ file = "writable" /\ Go(s, "try") /\ UNCHANGED <<holder, bare>>
       \/ file = "readonly" /\ Go(s, "setup") /\ Drop(s) /\ bare' = TRUE
       \/ file = "none" /\ Go(s, "setup") /\ UNCHANGED holder /\ bare' = TRUE
    /\ UNCHANGED <<db, last, file, cmd, erase, locked, sound>>

Acquire(s) ==
    /\ Lockable(s)
    /\ holder' = Process[s]
    /\ locked' = [locked EXCEPT ![s] = TRUE]
    /\ Go(s, "setup")
    /\ UNCHANGED <<db, last, file, cmd, erase, sound, bare>>

(* F_SETLK, then F_SETLKW; an error of the latter (a signal) is not fatal.  *)
TryLock(s) == At(s, "try") /\ Acquire(s)
TryFails(s) ==
    /\ At(s, "try") /\ ~Lockable(s)
    /\ Go(s, "wait")
    /\ UNCHANGED <<db, last, file, holder, cmd, erase, locked, sound, bare>>
WaitLock(s) == At(s, "wait") /\ Acquire(s)
WaitFails(s) ==
    /\ At(s, "wait") /\ MayFail
    /\ Go(s, "setup") /\ Drop(s) /\ bare' = TRUE
    /\ UNCHANGED <<db, last, file, cmd, erase, locked, sound>>

-----------------------------------------------------------------------------
(* rpmtsSanityCheck, now that the lock is there (or is not).                *)
Problem(s) ==
    \E p \in Added(s) : \E q \in Installed(db) :
       q = p \/ (q.name = p.name /\ q.evr > p.evr)

(* Mutant of what follows a problem: the lock is kept.                      *)
RefusedPlaceKept == "done"
RefusedPlace == "free"

Sanity(s) ==
    /\ At(s, "setup")
    /\ Go(s, IF Problem(s) THEN RefusedPlace ELSE "running")
    /\ UNCHANGED <<db, last, file, holder, cmd, erase, locked, sound, bare>>

SetupFails(s) ==
    /\ At(s, "setup") /\ MayFail
    /\ Go(s, "free")
    /\ UNCHANGED <<db, last, file, holder, cmd, erase, locked, sound, bare>>

(* A scriptlet ends when the commands it runs have ended.                   *)
ScriptletsEnd(s) == \A t \in Sets : <<s, t>> \in Nested => At(t, "done")

(* PSM_RPMDB_ADD of the added package; nothing to add for the others.       *)
Install(s) ==
    /\ At(s, "running") /\ ScriptletsEnd(s)
    /\ db' = db \cup {[num |-> last + 1, pkg |-> p] : p \in Added(s)}
    /\ last' = last + Cardinality(Added(s))
    /\ Go(s, "erasing")
    /\ IF Added(s) = {} THEN UNCHANGED sound ELSE Disturbs(s)
    /\ UNCHANGED <<file, holder, cmd, erase, locked, bare>>

(* The package is not installed: the erasures linked to it are skipped.     *)
InstallFails(s) ==
    /\ At(s, "running") /\ MayFail /\ Added(s) # {} /\ ScriptletsEnd(s)
    /\ erase' = [erase EXCEPT ![s] = {}]
    /\ Go(s, "erasing")
    /\ UNCHANGED <<db, last, file, holder, cmd, locked, sound, bare>>

(* An erasure; it fails at PSM_RPMDB_LOAD if the header is not there.       *)
Erase(s) ==
    /\ At(s, "erasing")
    /\ \E i \in erase[s] :
          /\ erase' = [erase EXCEPT ![s] = @ \ {i}]
          /\ \/ db' = db \ {i} /\ IF i \in db THEN Disturbs(s) ELSE UNCHANGED sound
             \/ MayFail /\ UNCHANGED <<db, sound>>
    /\ UNCHANGED <<last, file, holder, cmd, pc, locked, bare>>

Finish(s) ==
    /\ At(s, "erasing") /\ erase[s] = {}
    /\ Go(s, "free")
    /\ UNCHANGED <<db, last, file, holder, cmd, erase, locked, sound, bare>>

(* rpmtsFreeLock: F_UNLCK and close, one after the other; a lock that is    *)
(* NULL is neither.                                                         *)
Release(s) ==
    /\ At(s, "free") /\ locked[s]
    /\ Drop(s)
    /\ Go(s, "close")
    /\ UNCHANGED <<db, last, file, cmd, erase, locked, sound, bare>>
CloseLock(s) ==
    /\ At(s, "close")
    /\ Drop(s)
    /\ locked' = [locked EXCEPT ![s] = FALSE]
    /\ Go(s, "done")
    /\ UNCHANGED <<db, last, file, cmd, erase, sound, bare>>
NoLock(s) ==
    /\ At(s, "free") /\ ~locked[s]
    /\ Go(s, "done")
    /\ UNCHANGED <<db, last, file, holder, cmd, erase, locked, sound, bare>>

(* The process is killed, or rpmdbCheckSignals ends it, between two steps.  *)
Die(s) ==
    /\ MayFail /\ ~Over(s)
    /\ LET mine == {t \in Sets : Process[t] = Process[s]} IN
          /\ pc' = [t \in Sets |-> IF t \in mine THEN "done" ELSE pc[t]]
          /\ locked' = [t \in Sets |-> locked[t] /\ t \notin mine]
    /\ Drop(s)
    /\ UNCHANGED <<db, last, file, cmd, erase, sound, bare>>

-----------------------------------------------------------------------------
Step(s) ==
    \/ Check(s) \/ OpenLock(s) \/ TryLock(s) \/ TryFails(s) \/ WaitLock(s)
    \/ Sanity(s) \/ Install(s) \/ Erase(s) \/ Finish(s)
    \/ Release(s) \/ CloseLock(s) \/ NoLock(s)
Fault(s) == WaitFails(s) \/ SetupFails(s) \/ InstallFails(s) \/ Die(s)

Ended == (\A s \in Sets : At(s, "done")) /\ UNCHANGED vars
Next == (\E s \in Sets : Collect(s) \/ Step(s) \/ Fault(s)) \/ Ended
Spec == Init /\ [][Next]_vars

(* A command that was started goes on; nobody need start one.               *)
FairSpec == Spec /\ \A s \in Sets : WF_vars(Step(s))

-----------------------------------------------------------------------------
(* Types.  The lock is with the process of a set that will free it, and a  *)
(* set that is done has freed its lock, on every path out of _rpmtsRun.     *)
TypeOK ==
    /\ db \subseteq [num : 1..last, pkg : Packages]
    /\ last \in Nat /\ file \in LockFiles /\ (\A s \in Sets : cmd[s] \in Commands[s])
    /\ pc \in [Sets -> {"idle", "check", "open", "try", "wait", "setup", "running",
                        "erasing", "free", "close", "done"}]
    /\ locked \in [Sets -> BOOLEAN] /\ sound \in [Sets -> BOOLEAN] /\ bare \in BOOLEAN
    /\ erase \in [Sets -> SUBSET [num : 1..last, pkg : Packages]]
    /\ \A s \in Sets : locked[s] => ~Over(s)
    /\ holder # NoProcess => \E s \in Sets : locked[s] /\ Process[s] = holder

(* While every transaction that runs got the lock, rpmtsSanityCheck means   *)
(* what it says, however the commands interleave: no package is installed   *)
(* twice, although two commands may have found it missing.                  *)
NothingTwice ==
    ~bare => \A i, j \in db : i.pkg = j.pkg => i = j

(* A command that read a consistent database nobody else has changed since  *)
(* leaves it consistent: rpmtsCheck asks about everything it touches, and   *)
(* an upgrade that fails does not erase what it was to replace.             *)
SoundRunsKeep ==
    \A s \in Sets : At(s, "free") /\ sound[s] => Consistent(db)

-----------------------------------------------------------------------------
(* The inductive invariant.  First the lock: where a set has it, and, as    *)
(* long as a process has one command at a time and all of them got the lock *)
(* they asked for, that nobody else has it there.                           *)
Held(s) == pc[s] \in {"setup", "running", "erasing", "free"}

LockPlaces == \A s \in Sets : locked[s] => Held(s) \/ At(s, "close")

OneAtATime ==
    ~Threads => \A s, t \in Sets :
        s # t /\ Process[s] = Process[t] => Over(s) \/ Over(t)

HeldAlone ==
    ~Threads /\ ~bare => \A s \in Sets :
        /\ Held(s) => locked[s] /\ holder = Process[s]
        /\ At(s, "close") => holder # Process[s]

(* What rpmtsSanityCheck found missing is missing until it is installed.    *)
StillMissing ==
    ~Threads /\ ~bare => \A s \in Sets :
        At(s, "running") => Added(s) \cap Installed(db) = {}

Once == ~Threads => NothingTwice

(* What a set knows of a database it read and nobody else wrote since.      *)
SoundAt(s) ==
    /\ pc[s] \in {"check", "open", "try", "wait", "setup", "running"} =>
          Consistent(db) /\ erase[s] = Erasures(s)
    /\ pc[s] \in {"open", "try", "wait", "setup", "running"} =>
          \A p \in Affected(s) : Satisfied(p, Installed(db \ erase[s]) \cup Added(s))
    /\ At(s, "erasing") => \A X \in SUBSET erase[s] : Consistent(db \ X)
    /\ At(s, "free") => Consistent(db)

SoundPlaces == \A s \in Sets : sound[s] => SoundAt(s)

LockInv ==
    /\ TypeOK /\ LockPlaces /\ OneAtATime /\ HeldAlone /\ StillMissing /\ Once
    /\ SoundPlaces

-----------------------------------------------------------------------------
(* rpm ensures that dependencies are satisfied (doc/manual/dependencies:5): *)
(* when nothing runs, every package has what it needs.                      *)
DependenciesKept == (\A s \in Sets : Over(s)) => Consistent(db)

(* A command that was started ends, whoever has the lock and whether or not *)
(* its process ends before it is freed.                                     *)
EveryRunEnds == \A s \in Sets : ~Over(s) ~> At(s, "done")
=============================================================================
