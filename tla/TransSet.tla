------------------------------ MODULE TransSet ------------------------------
(***************************************************************************)
(* The transaction set: what lib/depends.c puts in it and what rpmtsCheck  *)
(* then asks, with the added packages of lib/rpmal.c and the suggestions   *)
(* of rpmtsSolve (lib/rpmts.c).                                            *)
(*                                                                         *)
(* A caller adds packages (to install or to upgrade to) and erasures in an *)
(* order of its own; each call may erase more: what the package upgrades   *)
(* or obsoletes, or a -debuginfo package nobody needs any more.  The check *)
(* goes over the elements with one question at a time; an answer may come  *)
(* from the cache, and a question nobody answers may add a package.        *)
(*                                                                         *)
(* Left out: colours, platforms, source packages, and the false positives  *)
(* of the Bloom filters.  A file is a name that its package provides.      *)
(***************************************************************************)
EXTENDS Integers, Sequences, FiniteSets, SequencesExt

CONSTANTS Catalogue,  \* the packages there are
          Suggested,  \* those of the database rpmtsSolve looks at
          MaxCalls    \* calls before the check: bounds the run

(* A dependency: Requires or Conflicts, its name and the least version.     *)
Deps == [type : {"R", "C"}, name : STRING, evr : Nat]

(* A package: num is its instance in the database, if it is installed.      *)
Packages == [num : Nat, name : STRING, evr : Nat,
             provides : [STRING -> Nat] \cup {<<>>}, deps : Seq(Deps),
             obsoletes : Seq(STRING), sourcerpm : STRING, debuginfo : BOOLEAN]

VARIABLES db,       \* the installed packages
          upgrade,  \* -U rather than -i
          ts,       \* order, removedPackages, addedPackages
          offered,  \* packages rpmtsAddInstallElement was called for
          calls,
          phase, pos, agenda,   \* rpmtsCheck: element and questions ahead
          cache, probs,         \* RPMDBI_DEPCACHE and ts->probs
          solved                \* packages rpmtsSolve added

buildVars == <<db, upgrade, offered, calls>>
checkVars == <<pos, agenda, cache, probs, solved>>
vars == <<buildVars, ts, phase, checkVars>>

-----------------------------------------------------------------------------
Satisfies(p, dep) == dep.name \in DOMAIN p.provides /\ p.provides[dep.name] >= dep.evr
Named(n) == [type |-> "R", name |-> n, evr |-> 0]

(* rpmmiInit and rpmmiNext: the instances in ascending order.               *)
ByInstance(S) == SetToSortSeq(S, LAMBDA p, q : p.num < q.num)

(* rpmmiPrune: iterators of the check and of Obsoletes skip what is erased. *)
Remaining(t) == db \ t.removed

Added(t) == {i \in DOMAIN t.order : t.order[i].type = "added"}
Erased(t) == {i \in DOMAIN t.order : t.order[i].type = "removed"}

Element(type, p, key) ==
    [type |-> type, pkg |-> p, key |-> key, flink |-> {}, blink |-> {}]
NoMatch == 0

EmptySet == [order |-> <<>>, removed |-> {}, added |-> <<>>]

-----------------------------------------------------------------------------
(* Erasures.                                                                *)

(* The place of an instance in the sorted array removedPackages.            *)
Rank(S, p) == Cardinality({q \in S : q.num <= p.num})

(* removePackage: a duplicate is answered with its place in the array.      *)
RemovePackage(t, oh) ==
    IF oh \in t.removed THEN [ts |-> t, index |-> Rank(t.removed, oh)]
    ELSE [ts |-> [t EXCEPT !.order = Append(@, Element("removed", oh, NoMatch)),
                           !.removed = @ \cup {oh}],
          index |-> Len(t.order) + 1]

(* rpmteChain.                                                              *)
Chain(t, at, j, oh) ==
    [t EXCEPT !.order[j].flink = @ \cup {t.order[at].pkg},
              !.order[at].blink = @ \cup {oh}]

Replace(t, at, oh) ==
    LET r == RemovePackage(t, oh) IN Chain(r.ts, at, r.index, oh)

ReplaceEach(t, at, S) == FoldLeft(LAMBDA s, oh : Replace(s, at, oh), t, ByInstance(S))

(* rpmtsAddUpgrades: identical packages are skipped, erased ones are not.   *)
AddUpgrades(t, at) ==
    LET p == t.order[at].pkg
    IN  ReplaceEach(t, at, {oh \in db \ {p} : Satisfies(oh, Named(p.name))})

(* rpmtsAddObsoletes: a package does not obsolete its own name.             *)
AddObsoletes(t, at) ==
    LET p == t.order[at].pkg
        Obsolete(s, n) == ReplaceEach(s, at, {oh \in Remaining(s) : Satisfies(oh, Named(n))})
    IN  FoldLeft(Obsolete, t, SelectSeq(p.obsoletes, LAMBDA n : n # p.name))

(* rpmtsEraseDebuginfo: the other packages of the build set still installed *)
(* and the -debuginfo package the last of them takes along.                 *)
BuildSet(t, at, h) ==
    {oh \in Remaining(t) \ {h} : oh.sourcerpm = t.order[at].pkg.sourcerpm}
Refs(t, at, h) == Cardinality({oh \in BuildSet(t, at, h) : ~oh.debuginfo})
Unreferenced(t, at, h) ==
    IF Refs(t, at, h) > 0 THEN {} ELSE {oh \in BuildSet(t, at, h) : oh.debuginfo}

EraseDebuginfo(t, at, h) ==
    IF Unreferenced(t, at, h) = {} THEN t
    ELSE RemovePackage(t, Last(ByInstance(Unreferenced(t, at, h)))).ts

-----------------------------------------------------------------------------
(* rpmtsAddInstallElement.                                                  *)

(* The added element of the name, if there is one: elements of another name *)
(* compare neither as newer nor as older.                                   *)
SameName(t, p) == {i \in Added(t) : t.order[i].pkg.name = p.name}
FirstSame(t, p) == Min(SameName(t, p))

Skipped(t, p, up) ==
    up /\ SameName(t, p) # {} /\ t.order[FirstSame(t, p)].pkg.evr >= p.evr

Duplicate(t, p, up) == up /\ SameName(t, p) # {}

Place(t, p, up) ==
    IF Duplicate(t, p, up) THEN FirstSame(t, p) ELSE Len(t.order) + 1

Put(s, i, e) == IF i > Len(s) THEN Append(s, e) ELSE [s EXCEPT ![i] = e]

(* Mutant: the new package goes to the end of the list.                     *)
InsertFresh(t, p, up) ==
    LET at  == Place(t, p, up)
        key == Len(t.added) + 1
    IN  [t EXCEPT !.order = Put(@, at, Element("added", p, key)),
                  !.added = Append(@, p)]

(* rpmalAdd: a replaced element leaves its key to the new one.              *)
Insert(t, p, up) ==
    LET at  == Place(t, p, up)
        key == IF Duplicate(t, p, up) THEN t.order[at].key ELSE Len(t.added) + 1
    IN  [t EXCEPT !.order = Put(@, at, Element("added", p, key)),
                  !.added = Put(@, key, p)]

(* rpmteChain has no header to chain a -debuginfo package with, and asserts *)
(* that it has.                                                             *)
Aborts(t, p, up) == up /\ Unreferenced(Insert(t, p, up), Place(t, p, up), p) # {}

(* Mutant: a package that replaces an added one upgrades nothing.           *)
UpgradedOnce(t, p, at) == IF at < Len(t.order) THEN t ELSE AddUpgrades(t, at)

(* A -debuginfo package upgrades none while its build set has members.      *)
Upgraded(t, p, at) == IF p.debuginfo /\ Refs(t, at, p) > 0 THEN t ELSE AddUpgrades(t, at)

AddInstall(t, p, up) ==
    LET at == Place(t, p, up)
        t1 == Insert(t, p, up)
    IN  IF ~up THEN t1 ELSE AddObsoletes(Upgraded(t1, p, at), at)

-----------------------------------------------------------------------------
Consistent(S) ==
    \A p \in S : \A i \in DOMAIN p.deps :
        LET dep == p.deps[i]
        IN  (dep.type = "R") <=> \E q \in S : Satisfies(q, dep)

OneOfEachName(S) == \A p, q \in S : p.name = q.name => p = q

Init == /\ db \in {S \in SUBSET Catalogue : Consistent(S) /\ OneOfEachName(S)}
        /\ upgrade \in BOOLEAN
        /\ ts = EmptySet /\ offered = {} /\ calls = 0
        /\ phase = "build" /\ pos = 1 /\ agenda = <<>>
        /\ cache = <<>> /\ probs = {} /\ solved = {}

Calling == phase = "build" /\ calls < MaxCalls /\ calls' = calls + 1

PutIn(p, up) ==
    \/ Aborts(ts, p, up) /\ phase' = "aborted" /\ ts' = ts
    \/ ~Aborts(ts, p, up) /\ phase' = phase /\ ts' = AddInstall(ts, p, up)

(* rpmtsAddInstallElement called by rpmcliInstall.                          *)
Install(p) ==
    /\ Calling
    /\ offered' = offered \cup {p}
    /\ \/ Skipped(ts, p, upgrade) /\ UNCHANGED <<ts, phase>>
       \/ ~Skipped(ts, p, upgrade) /\ PutIn(p, upgrade)
    /\ UNCHANGED <<db, upgrade, checkVars>>

(* rpmtsAddEraseElement: the index says whose build set is looked at.       *)
Erase(oh) ==
    LET r == RemovePackage(ts, oh)
    IN  /\ Calling
        /\ oh \in db
        /\ ts' = EraseDebuginfo(r.ts, r.index, oh)
        /\ UNCHANGED <<db, upgrade, offered, phase, checkVars>>

-----------------------------------------------------------------------------
(* rpmtsCheck.  A question is a dependency asked of the added and the       *)
(* remaining packages; before that, a name may stand for the questions of   *)
(* the installed packages that depend on it.                                *)
Ask(dep, adding) == [kind |-> "dep", dep |-> dep, adding |-> adding]
Scan(type, n) == [kind |-> type, name |-> n]

Scans(type, p) == SetToSeq({Scan(type, n) : n \in DOMAIN p.provides})

StartCheck ==
    /\ phase = "build" /\ ts.order # <<>>
    /\ phase' = "added" /\ pos' = 1
    /\ UNCHANGED <<buildVars, ts, agenda, cache, probs, solved>>

(* The next added element: its own dependencies, then its provides against  *)
(* the installed conflicts.  rpmtsiNext goes on to what was added meanwhile.*)
VisitAdded ==
    /\ phase = "added" /\ agenda = <<>> /\ pos <= Len(ts.order)
    /\ pos' = pos + 1
    /\ LET p == ts.order[pos].pkg
       IN  agenda' = IF pos \notin Added(ts) THEN <<>>
                     ELSE [i \in DOMAIN p.deps |-> Ask(p.deps[i], TRUE)] \o Scans("C", p)
    /\ UNCHANGED <<buildVars, ts, phase, cache, probs, solved>>

(* Mutant: what is erased is not asked about.                               *)
VisitErasedNot ==
    /\ phase = "removed" /\ agenda = <<>> /\ pos <= Len(ts.order)
    /\ pos' = pos + 1
    /\ UNCHANGED <<buildVars, ts, phase, agenda, cache, probs, solved>>

(* The next erased element: its provides against the installed requires.    *)
VisitErased ==
    /\ phase = "removed" /\ agenda = <<>> /\ pos <= Len(ts.order)
    /\ pos' = pos + 1
    /\ agenda' = IF pos \notin Erased(ts) THEN <<>> ELSE Scans("R", ts.order[pos].pkg)
    /\ UNCHANGED <<buildVars, ts, phase, cache, probs, solved>>

VisitedAll ==
    /\ phase \in {"added", "removed"} /\ agenda = <<>> /\ pos > Len(ts.order)
    /\ phase' = IF phase = "added" THEN "removed" ELSE "checked"
    /\ pos' = 1
    /\ cache' = IF phase = "added" THEN cache ELSE <<>>
    /\ UNCHANGED <<buildVars, ts, agenda, probs, solved>>

(* checkPackageSet: the dependencies of that name of the packages that have *)
(* one of the type looked up; all types are asked about.                    *)
AsksOn(p, n, adding) ==
    [i \in DOMAIN SelectSeq(p.deps, LAMBDA d : d.name = n)
       |-> Ask(SelectSeq(p.deps, LAMBDA d : d.name = n)[i], adding)]
Dependents(type, n) ==
    {p \in Remaining(ts) : \E i \in DOMAIN p.deps :
                              p.deps[i].type = type /\ p.deps[i].name = n}

ScanDependents ==
    /\ agenda # <<>> /\ Head(agenda).kind # "dep"
    /\ LET q == Head(agenda)
           asks == [i \in DOMAIN ByInstance(Dependents(q.kind, q.name)) |->
                      AsksOn(ByInstance(Dependents(q.kind, q.name))[i], q.name, q.kind = "C")]
       IN  agenda' = FlattenSeq(asks) \o Tail(agenda)
    /\ UNCHANGED <<buildVars, ts, phase, pos, cache, probs, solved>>

ByAdded(dep) == \E i \in DOMAIN ts.added : Satisfies(ts.added[i], dep)
ByInstalled(dep) == \E oh \in Remaining(ts) : Satisfies(oh, dep)

(* rpmtsSolve: the newest of the packages suggested for a Requires.         *)
Suggestions(q) ==
    IF q.adding /\ q.dep.type = "R" THEN {p \in Suggested : Satisfies(p, q.dep)} ELSE {}
Suggestion(q) == CHOOSE p \in Suggestions(q) : \A o \in Suggestions(q) : o.evr <= p.evr
Solvable(q) ==
    Suggestions(q) # {} /\ ~Skipped(ts, Suggestion(q), TRUE)

Asking == agenda # <<>> /\ Head(agenda).kind = "dep"
Cached == Head(agenda).dep \in DOMAIN cache

(* unsatisfiedDepend: an answer found among the added packages is not kept. *)
Answer(yes, keep) ==
    LET dep == Head(agenda).dep
    IN  /\ agenda' = Tail(agenda)
        /\ probs' = IF yes <=> (dep.type = "R") THEN probs ELSE probs \cup {dep}
        /\ cache' = IF keep THEN [d \in DOMAIN cache \cup {dep} |->
                                    IF d = dep THEN yes ELSE cache[d]] ELSE cache
        /\ UNCHANGED <<buildVars, ts, phase, pos, solved>>

FromCache == Asking /\ Cached /\ Answer(cache[Head(agenda).dep], FALSE)

FromPackages ==
    /\ Asking /\ ~Cached
    /\ \/ ByAdded(Head(agenda).dep) /\ Answer(TRUE, FALSE)
       \/ ~ByAdded(Head(agenda).dep) /\ ByInstalled(Head(agenda).dep) /\ Answer(TRUE, TRUE)

Unanswered ==
    Asking /\ ~Cached /\ ~ByAdded(Head(agenda).dep) /\ ~ByInstalled(Head(agenda).dep)

NotFound == Unanswered /\ ~Solvable(Head(agenda)) /\ Answer(FALSE, TRUE)

(* The suggested package is added and the question asked again.             *)
Solve ==
    LET p == Suggestion(Head(agenda))
    IN  /\ Unanswered /\ Solvable(Head(agenda))
        /\ offered' = offered \cup {p} /\ solved' = solved \cup {p}
        /\ PutIn(p, TRUE)
        /\ UNCHANGED <<db, upgrade, calls, pos, agenda, cache, probs>>

-----------------------------------------------------------------------------
(* rpmtsRun refuses what the sanity check objects to (--force: nothing),    *)
(* and rpmcliInstall runs nothing when the check found problems.            *)
Sane == \A i \in Added(ts) : \A oh \in db :
            oh.name = ts.order[i].pkg.name => oh.evr < ts.order[i].pkg.evr

After == Remaining(ts) \cup {ts.order[i].pkg : i \in Added(ts)}

Run(force) ==
    /\ phase = "checked"
    /\ \/ probs = {} /\ (force \/ Sane) /\ db' = After /\ phase' = "done"
       \/ (probs # {} \/ ~(force \/ Sane)) /\ db' = db /\ phase' = "refused"
    /\ UNCHANGED <<upgrade, offered, calls, ts, checkVars>>

Next == \/ \E p \in Catalogue : Install(p) \/ Erase(p)
        \/ StartCheck \/ VisitAdded \/ VisitErased \/ VisitedAll
        \/ ScanDependents \/ FromCache \/ FromPackages \/ NotFound \/ Solve
        \/ \E force \in BOOLEAN : Run(force)

Spec == Init /\ [][Next]_vars

-----------------------------------------------------------------------------
(* The lists of the transaction set stay those of its elements, however     *)
(* often one is replaced or erased twice: removedPackages has each erased   *)
(* package once, and each added element has an entry of addedPackages of    *)
(* its own.                                                                 *)
ListsAgree ==
    /\ Cardinality(Erased(ts)) = Cardinality(ts.removed)
    /\ {ts.order[i].pkg : i \in Erased(ts)} = ts.removed
    /\ Cardinality(Added(ts)) = Len(ts.added)
    /\ \A i \in Added(ts) : /\ ts.added[ts.order[i].key] = ts.order[i].pkg
                            /\ \A j \in Added(ts) \ {i} : ts.order[i].key # ts.order[j].key

(* Every variable is in its range, and the lists agree.                     *)
TypeOK ==
    /\ db \subseteq Catalogue /\ ts.removed \subseteq Catalogue
    /\ \A i \in DOMAIN ts.order :
          /\ ts.order[i].flink \subseteq Catalogue /\ ts.order[i].blink \subseteq Catalogue
          /\ (i \in Added(ts)) <=> ts.order[i].key # NoMatch
    /\ pos \in 1 .. Len(ts.order) + 1
    /\ \A dep \in DOMAIN cache : cache[dep] \in BOOLEAN
    /\ ListsAgree
    /\ phase \notin {"added", "removed", "aborted"} => cache = <<>> /\ agenda = <<>>

(* With -U, of all packages of one name the callers offered, in whatever    *)
(* order and from whatever source, only the newest is in the set.           *)
NewestWins ==
    (upgrade /\ phase # "aborted") =>
        \A p \in offered : \E i \in Added(ts) :
            /\ SameName(ts, p) = {i}
            /\ ts.order[i].pkg.evr >= p.evr

(* A database that has one version of each name keeps it so under -U, with  *)
(* --force too (-debuginfo packages wait for their build set).              *)
OneVersion ==
    (upgrade /\ phase = "done") => OneOfEachName({p \in db : ~p.debuginfo})

(* So -U leaves the newest of what there was and what was offered.          *)
Newest == NewestWins /\ OneVersion

(* A check that finds no problem lets through only a transaction that       *)
(* leaves every dependency of every package as it has to be.                *)
CheckSound == (phase = "checked" /\ probs = {}) => Consistent(After)

(* ... for the sets that rpmtsSolve does not add to.                        *)
CheckSoundAlone == solved = {} => CheckSound

(* A check reports a problem only if there would be one.                    *)
CheckExact == (phase = "checked" /\ solved = {} /\ probs # {}) => ~Consistent(After)

(* A check reports problems exactly if the transaction would break one.     *)
CheckRight == CheckSoundAlone /\ CheckExact

(* Links are mutual: what an added element says it replaces is erased by an *)
(* element that says so.                                                    *)
LinksMutual ==
    \A i \in Added(ts) : \A oh \in ts.order[i].blink :
        \E j \in Erased(ts) : /\ ts.order[j].pkg = oh
                              /\ ts.order[i].pkg \in ts.order[j].flink
=============================================================================
