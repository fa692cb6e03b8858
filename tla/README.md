# A formal model of rpm 5

TLA+ modules that model the parts of rpm (`lib/`, `rpmdb/`, `rpmio/`) whose correctness depends
on the order of steps, the TLC configurations that check them on small instances, and proofs for
instances of any size of the object pools, the transaction lock, the child processes, the parallel
compression, the open databases, the payloads and hard links of a package, the levels of a rollback, and the overlap of
version ranges. Paths are relative to the repository.

Contents: [the system](#the-system) - [modules and code](#modules-and-code) -
[runs](#runs) - [proofs](#proofs) - [disagreements](#disagreements-with-what-the-repository-says) -
[not modelled](#not-modelled) - [plan](#plan).

## The system

rpm installs, upgrades and erases packages. A command builds a *transaction set* of added and
removed packages, checks its dependencies, orders it, decides for every file of every package
what is to happen with it, and then runs the *package state machine* of each element in turn,
which runs scriptlets in child processes, unpacks or removes files with the *file state machine*,
and writes the header of the package to the database or deletes it. Every object (headers,
elements, file sets, iterators, databases) comes from a reference counted *pool*.

| Component | Source | State | Operations | Hard behaviour | What makes it correct |
|---|---|---|---|---|---|
| Object pools | `rpmio/rpmmalloc.c` | list of available items, count, limit; per item a lock whose value is the reference count | get, link, unlink, free, put, exit | every object of every thread; a test of the count and the destruction are two steps; an item is listed before its count is reset | the count is the number of pointers; no use after destruction; nothing is handed out twice or lost; bounded pools keep their bound and wake sleepers |
| Locks | `rpmio/yarn.c` | mutex, value, waiters | possess, release, twist, wait for | broadcast, waits on a value | as above |
| Threads | `rpmio/yarn.c` | list of threads, number done | launch, join, join all, reenter | join racing join all | each thread joined once |
| Parallel compression | `rpmio/rpmzq.c`, `rpmio/rpmpbzip2.c` | bounded pools of spaces, jobs to compress, jobs to write | get and put spaces, queue, compress, write, launch and join | workers, writer and reader wait for one another at a full pool | blocks in order, all spaces back, files finish |
| Child processes | `rpmio/rpmsq.c` | queue of elements, pipes, signal table, mask | insert, fork, wait, execve, handler | a signal handler between any two steps; descriptors that are reused; a fork that fails | the right status to the right caller, no lost wakeup, nothing leaks |
| Open databases and iterators | `rpmdb/rpmdb.c` | two global chains, reference counts, trapped signals | open, link, close, iterate, free, check for signals | termination signals; destructors that call each other | everything on its chain; cursors inside open databases; signals trapped while one is open and never forgotten |
| Database contents | `rpmdb/rpmdb.c`, `rpmdb/db3.c` | headers and secondary indices | add, remove, query | partial failure of an update | indices agree with headers |
| Transaction set | `lib/depends.c`, `lib/rpmal.c` | elements, removed instances, links, cached answers | add install, add erase, add upgrades, obsoletes, check, solve | duplicates, chains of obsoletes, answers that age | every element once, links to the right element, the newest version wins, a check means what it says |
| Ordering | `lib/order.c` | relations between elements, counts of predecessors | record, sort, break loops | loops that share elements | only relations of loops are given up, every element is ordered |
| Versions | `rpmdb/rpmevr.c`, `lib/rpmds.c` | none | compare, overlap | segments compared as strings, ranges that touch | an order; overlap means a common version |
| Files of a transaction | `lib/transaction.c`, `lib/rpmfi.c`, `lib/fsm.c` | fingerprints, an action and a state per file, the disk | prepare, process | many packages with one path, configuration files the user changed, colours, failures in the middle | every file of an installed package is there, no file is left, the edits of the user survive |
| File state machine | `lib/fsm.c` | sets of hard links, temporary names | build, extract, link, commit | names that arrive one by one, some of them skipped, steps that fail | every name is installed with the content, nothing temporary is left |
| Package state machine | `lib/psm.c` | the stage of an element | install, erase, save, scripts, triggers | failure of any step | a failed upgrade leaves the old package |
| Rollback | `lib/rpmrollback.c`, `lib/transaction.c` | headers by install tid, repackaged packages by remove tid, the level | roll back to a goal, roll back a failure | a sequence of transactions each of which may fail, two lists only one of which is reloaded | each level restores exactly what was installed before it |
| Transaction lock | `lib/rpmlock.c` | an fcntl lock | acquire, free | two processes, two sets in one process, scriptlets that run rpm | one writer, what was checked still holds, no wait for ever |

Interaction: rpmtsRun (`lib/transaction.c`) reads installed packages through iterators
(`rpmmiInit`, `rpmmiNext`), which hold a reference to their database; PSM runs scriptlets with
`rpmsqFork` and `rpmsqWait`, whose SIGCHLD handler and the termination handlers of the database
are entries of one table (`rpmsigTbl`); all of them take their objects from pools. rpmRollback
builds one transaction per level from the headers the database has and the packages
`rpmtsRepackage` saved, and calls rpmtsRun; rpmtsRun calls rpmRollback when a transaction fails.
A command checks and orders its set before rpmtsRun takes the transaction lock, so what it read may
have changed. The comparison of versions decides what is newer for all of them.

## Modules and code

`PROJECT.json` maps every definition to its lines. In all modules an action is one stretch of code
between two points at which another actor can see or change something. MC modules give the
constants their values, often a set of records, so that one run looks at many settings.

**YarnLock** has the operations of a `yarnLock` as functions from one lock record to the next
(owner, value, sleeping threads); RpmPool is made of them. A wait possesses the lock again when
it was woken and its condition holds (`yarnWaitFor` loops around `pthread_cond_wait`).

**RpmPool** models a pool and its callers. `have` and `use` are the locks of the pool and of the
items, `head`, `tail` and `pool` the linked list as the code keeps it (`item->pool` is the link of
a listed item and the back pointer of one in use), `avail` the sequence the list stands for,
`live` that the contents of the item were not destroyed. A thread runs one call at a time
(`pc`); its pointers are `Handles`. A handle is used by one thread at a time: that is what
code that shares objects must see to, and all the model assumes of callers. The text between
`yarnPossess` and `yarnTwist` is split where the other lock is taken. `rpmioFreePool` runs when
every thread has returned, from `rpmioClean`, and only then. The inductive invariant and the refinement
mapping are at the end of the module, the proofs in **RpmPoolProofs**.

**RpmLockProofs**, **RpmSqProofs**, **RpmZqProofs**, **RpmdbRockProofs**, **FsmProofs**, **RpmRollbackProofs** and **RpmEvrProofs** have
the proofs of the modules they are named after; the inductive invariants are towards the end of those.

**ObjectPool** is what a pool promises: pointers to objects, obtained, shared and given up, and an object
destroyed under its last pointer, once, while no other can be made. It knows no lists, locks or counts. RpmPool implements
it (`ImplementsObjects` of RpmPool, proved): `refs` are the pointers, and a pointer is `dying` from
the call of `fini` until the item is put back. All steps of locking, listing and counting stutter.

**RpmZq** models the compression of files one after the other (`rpmpbzip2.c` with the queues of
`rpmzq.c` and the threads of `yarn.c`): the main thread, which reads blocks into input spaces, queues jobs and launches workers;
workers, which compress into output spaces; the writer, which takes the jobs in turn. `fifo` and
`seq` are the two queues, their locks' values beside them, `inp` and `outp` the bounded pools, of which only the limit and the number
of spaces matter here (RpmPool has the rest). `threads` and `exited` are the list of yarn, as a set, and the value of its lock:
the order of the list only decides which of several ended threads is joined first.

**RpmSq** models one process that runs scriptlets (`rpmsqFork`, `rpmsqWait`) or build scripts
(`rpmsqExecve`) one after the other: `pc` is the thread, `hpc` the signal handler, which starts
between any two steps when SIGCHLD is pending and not held, and interrupts the thread until it
returns; `rpmsqInsert` and a failed fork release it and `rpmsqExecve` restores the mask it found (`oldMask`), whatever
held it; with `PsmThreads` there is a second thread that does not hold it. `fd` is the table of
descriptors, the lowest free number is handed out, so that a stale `close` would hit another
file. A child closes its end, reads the pipe, is interrupted or not, executes and ends; children of
others end too, and the handler reaps them. `Kids` bounds the scripts run.

**RpmdbRock** models the chains `rpmdbRock` and `rpmmiRock`. Destructors call each other and
`rpmdbCheckSignals`, which may call them all over again: `calls` is the stack of what the active
functions still have to do. A chain is the sequence of what is on it; `Without` is the walk that unlinks. A signal sets `caught`, or stays `pending` while `blocked`.

**TransSet** models a transaction set that is built by calls of `rpmtsAddInstallElement` and `rpmtsAddEraseElement`,
checked by `rpmtsCheck` and run. `ts` has `order`, `removedPackages` and `addedPackages` of the
code. A call is one action, with the upgrades, obsoletions and debuginfo erasures it makes. The check is one question at a time:
`agenda` are the questions of the element at `pos`, `cache` the answers kept by dependency, and `Solve` is
`rpmtsSolve`, which may add a package in the middle of it.

**TransOrder** models `_rpmtsOrder`: the relations are recorded, elements without predecessors are
queued (`Scan`), put out (`Output`), and if some remain, relations of their loops are eliminated (`BreakLoops`) and the
scan starts again. A round of `BreakLoops` is one action; `markLoop` and `zapRelation` are operators on the
chain pointers. Which element answers a requirement is an input.

**RpmEvr** has `rpmEVRcmp` and `rpmdsCompare` as operators. A string is a sequence of character codes,
so that `strncmp` compares as in C; a range has numbers for its fields, or `Missing`. The state
machine takes two arguments and records the answer.

**TransFiles** models one transaction from `rpmtsPrepare` to its end, seen through the files. A
transaction (`ts`) says which packages are added, removed and kept, what their files may be, and
what may fail; Init chooses any manifests, flags and states these allow, any order that
puts an erasure after the element it is linked to, and any state of the disk. `act` are the
dispositions, decided in the order of the code; then each element runs its scriptlet, its files
one by one and its database update. A file is its content, and that of a symbolic link has something it leads to
(`LeadsTo`), which is what a digest of its path reads (`Digest`). `saved` are the files with suffixes. A file is
renamed twice at most, the old one beside its place and the new one to it; any of its steps may fail
(`InstallFails` before the second rename, `AttributesFail` in what follows it).

**Fsm** models the regular files of one package, written to a payload by rpmbuild or by a transaction that
repackages (`goal`), and installed from it: the sets of hard links (`links`, with the places `filex` and the count `left` that goes
down at build and up at install), the names that are put off until their content comes, the temporary names,
the links and the renames, any of which may fail. `payload` is the archive, in its order. The old file goes to its
`.rpmorig` only where the header of the new one has a type: that of a file a repackaged payload misses has none, and the
`lstat` that would see the old one is of the temporary name (`lib/fsm.c:2074`), so that the old one stays (`Commit`).

**RpmLock** models rpm commands that run at the same time. A command collects what it erases and checks
its dependencies (`Collect`, `Check`: consistent reads of the database), opens and acquires the lock, looks at the database again
(`Sanity`), installs and erases one element at a time, and frees the lock, on every path out; any process may end at any point (`Die`). `holder` is the
process that fcntl gave the lock to, `locked` that the set has one to free. Two auxiliary variables say
that a command went on without a lock and that nobody wrote since it checked.

**RpmRollback** models a history of transactions and a rollback. The database is a set of headers
with install tid and the names they replaced (`blink`), the vault the set of repackaged packages
with their remove tid. A transaction is chosen (`Begin`), repackages (`Save`), installs and erases its
elements in an order `Ready` allows, any of which may fail. A transaction that has no element left, or would install what is installed,
is turned away (`Refused`). `RollbackTo` starts the loop of
`rpmRollback`: `ip` and `rp` are the chains of tids, `level` the one being undone. Of a transaction
that fails with `%_rollback_transaction_on_failure`, `AutoStart` and `AutoGivesUp` model
`rpmtsRollback`. `opt` has the settings, chosen in Init from `Options`.

How they fit together: RpmZq takes a pool to be what ObjectPool and `LimitKept` say. TransFiles and RpmRollback take as
given that an erasure is after the element it is linked to, which `OnlyLoopsBroken` of TransOrder says of relations
outside of loops, and the links TransSet makes. RpmLock has a smaller check than
TransSet, of names only, and adds the other commands. TransFiles takes a file as one step, Fsm
looks into it.

## Runs

| Run | Configuration | States | What it shows |
|---|---|---|---|
| `pool` | `RpmPool.cfg` | 74 429 | a pool bounded to two items: bound kept, no use after destruction, the inductive invariant, the abstract objects implemented, calls return |
| `sq` | `RpmSq.cfg` | 73 463 | right status to the right script, no leak, no foreign descriptor closed, scripts start when their parent waits, every wait returns |
| `rock` | `RpmdbRock.cfg` | 7 193 | two databases, two iterators, a signal at any point: the inductive invariant, chains complete, databases closed last, no signal forgotten |
| `files` | `TransFiles.cfg` | 344 749 | the right content at every path, the edits of the user kept, a failed upgrade leaves the old package |
| `rollback` | `RpmRollback.cfg` | 133 009 | the inductive invariant, each level restored, nothing removed from the vault that is not back, the rollback ends |
| `zq` | `RpmZq.cfg` | 22 087 | the inductive invariant, blocks written in order, every space and thread back, files with room finish |
| `set` | `TransSet.cfg` | 1 554 378 | lists agree, the newest version wins, a check reports a problem exactly if there is one |
| `order` | `TransOrder.cfg` | 126 652 | counts of predecessors exact, only relations of loops given up, every round breaks a loop |
| `lock` | `RpmLock.cfg` | 332 008 | the inductive invariant, nothing installed twice, a check nobody overtook holds, commands end |
| `evr` | `RpmEvr.cfg` | 84 050 | versions are ordered, overlapping ranges have a common version |
| `fsm` | `Fsm.cfg` | 1 120 254 | the inductive invariant, the payload is complete and in the order the install needs, names are installed right |
| `rollback_auto` | `RollbackAuto.cfg` | violation | [below](#disagreements-with-what-the-repository-says) |

**Pools.** Three threads are enough for two that race on one item while a third has just taken
it from the list, and three handles for one thread to have two pointers to an item while another has one. With a limit of two all three threads may want one of two
items, so one sleeps while the others put and get. Deadlock is not checked, because callers that each keep an
item while they ask for another wait for ever, which is what a limit means. The proof below removes
the bounds.

**Child processes.** Two children, of which one may fail to fork, and one of somebody else, whose ends come in any order;
two pipes are the most one script has at a time; `MaxFd = 3` makes the system reuse
numbers at once. Reads are interrupted and forks fail. Deadlock is not checked: after a failed fork the handler may be
in a ring for ever (below), which `GivenBack` and `WaitReturns` exempt.

**Chains.** Two databases and two iterators show every order of closing, `MaxLinks = 2` references
that are not the last. `NoSignalForgotten` says that the bit of a caught signal is never cleared while
the process goes on.

**Parallel compression.** Three threads, of which at most two compress at once beside the writer, files of one
to four blocks, with the last block full or short, blocks that do not fit a space, blocks that outgrow the output space they find, pooled or new (`Fits`), a seek that
fails, and two files in a row, so that what one leaves behind meets the next. `RoomyFilesFinish` is about files
with a space for every block; for others the threads may wait for one another (below), which is also why deadlock
is not checked.

**Transaction set.** Eight packages of six names: two versions of two of them, an obsoletion, a package
that provides the name of another, a debuginfo package, requirements and conflicts in
both directions. Every consistent database of them, every three calls with `-U` or `-i`: the third can
meet what the first two made of each other. Deadlock is not checked: a set that was run is done.

**Ordering.** Every graph of three elements with the installer flag on and off, and of four without it, installed or erased, with every
replacement: four elements have two loops that share one. The hundred rescans are as in the code.

**Transaction lock.** Three commands, two of them of one process one after the other, one of which may be a rebuild of the
database; three packages, one of which needs another that has two versions; a lock file that can be
written, read, or is missing; any wait, element or process may fail. More commands only repeat the interleavings of
two that write and one that reads.

**Versions.** Strings of up to three characters, of a digit, zero, a letter, a separator and other punctuation; transitivity is
checked against every third string. Ranges have end points at two values each of epoch, version
and release, and versions below, between and above these. Three characters are a segment, a separator and another segment,
or a segment of two classes.

**Files.** All transactions have one path, with every manifest, or two paths where an element may
fail between them. They are: an upgrade, an erasure and an installation with three contents, one of
them a link, and `--replacefiles` between added packages; an upgrade and an erasure beside a
package that stays, with configuration files of all flags which the user may have changed, removed or replaced by
a link, to what a package has or to nothing; the same without configuration files;
an upgrade of two files where any step fails, and one of a configuration file where any step fails;
`--excludedocs`; two upgrades with two colours. Files of two packages are compared in pairs, and
each pair is either of an added, a removed or a kept package, so three packages with two roles
give every verdict a predecessor it may overwrite.

**Hard links.** Four files are two sets of two, or a set of three and a single file, in every order of names, one file
removed or one set with a name outside of the package, one set without content. Each file is skipped, put
with a backup of the old one (what a plain creation does and one rename more), or put beside the old one. The header,
the extraction or a link may fail at any file. A package that was installed, or not, is done: deadlock is not checked.

**Rollback.** Versions `a1` and `a2` of one package and `c1`, which obsoletes it: installing,
upgrading, downgrading, obsoleting and erasing. Three transactions give a level before and
a level after each. The settings are the usual one (everything repackaged, elements of the rollback
may fail); elements of the history may fail too; a tid is excluded and `%_unsafe_rollbacks`
is set, also in a history some of which was not repackaged, so that a level may be empty; some transactions do not repackage; failures are rolled back automatically.

**Fairness.** `RpmPool`: strong fairness of the steps of each thread inside a call, as one that waits for
a mutex gets it eventually when it is released again and again (the pthread implementations rpm
is built on do so); a caller need not ever call again. `RpmSq`: weak fairness of the thread, of the handler and of
each step of a child: a script that was started ends. Nothing is assumed about scripts that were
not, nor about signals. `RpmZq`: weak fairness of the main thread, the writer and each worker; none of them
competes for a step that is enabled only now and then, as every wait is ended by a change of a value all see.
`RpmLock`: weak fairness of each command that was started; none of faults, and none of a start. fcntl wakes a
process that waits when the lock is free, and each of the others takes it once. `RpmRollback`: weak fairness of rpm once it has been started, none of the next
command of the user.

## Proofs

The theorems hold for every value of the constants the `ASSUME` of the module allows. Each safety theorem
is proved the same way: the invariant `XInv` of the module holds initially, each action keeps each of its
conjuncts (one lemma per action or per conjunct), and it implies the property. Lemmas on sequences, chains
and cardinalities come first in each module.

| Theorem | Module | States | Where |
|---|---|---|---|
| `PoolInvariant`, `TypeCorrect` | RpmPoolProofs | `Spec => []PoolInv`, `TypeOK` | |
| `RefCountCorrect` | RpmPoolProofs | `RefCount`: the count is the number of pointers | |
| `CountsAndDeaths` | RpmPoolProofs | the count of every item, also of one being destroyed, whose pointer is the last | |
| `NoUseAfterFreeCorrect`, `NoDoubleGetCorrect`, `NothingLostCorrect` | RpmPoolProofs | the properties of these names | |
| `ListRepCorrect` | RpmPoolProofs | `head`, `tail`, `item->pool` are the list | |
| `LimitKeptCorrect`, `NoLostWakeupCorrect` | RpmPoolProofs | `LimitKept`, with the assertion of rpmioGetPool, and `NoLostWakeup` | |
| `PoolImplementsObjects` | RpmPoolProofs | `Spec => ImplementsObjects`: RpmPool implements ObjectPool | |
| `LockInvariant`, `TypeCorrect` | RpmLockProofs | `LockInv`, `TypeOK`: the lock is with a process that will free it | |
| `NothingTwiceCorrect` | RpmLockProofs | `NothingTwice` | `~Threads` |
| `SoundRunsKeepCorrect` | RpmLockProofs | `SoundRunsKeep` | |
| `SqInvariant` | RpmSqProofs | `Spec => []SqInv` | `~PsmThreads` |
| `OwnStatusCorrect`, `ScriptAfterWaitCorrect`, `GivenBackCorrect` | RpmSqProofs | the properties of these names | `~PsmThreads` |
| `ReapedProtectedCorrect` | RpmSqProofs | `ReapedProtected`, an action property | `~PsmThreads` |
| `QueueEndsCorrect` | RpmSqProofs | `QueueEnds` | `~PsmThreads`, `~ForkMayFail` |
| `ZqInvariant` | RpmZqProofs | `Spec => []ZqInv` | |
| `WrittenInOrderCorrect`, `AllReturnedCorrect` | RpmZqProofs | the properties of these names | |
| `RockInvariant`, `TypeCorrect` | RpmdbRockProofs | `RockInv`, `TypeOK` | |
| `ChainsCompleteCorrect`, `ClosedLastCorrect` | RpmdbRockProofs | the properties of these names | |
| `NoSignalForgottenCorrect` | RpmdbRockProofs | `NoSignalForgotten`, an action property | |
| `FsmInvariant`, `TypeCorrect` | FsmProofs | `FsmInv`, `TypeOK` | |
| `ArchiveWholeCorrect` | FsmProofs | `ArchiveWhole`: the payload is what the install relies on | |
| `LinksInstalledCorrect` | FsmProofs | `LinksInstalled`: sets are installed whole and right | `"rename" \notin Faults` |
| `InvariantHolds`, `TypeCorrect` | RpmRollbackProofs | `RollbackInv`, `TypeOK` | |
| `RollbackCorrect` | RpmRollbackProofs | `Restores`: each level, the goal, and no rollback refused | `~second` |
| `VaultIsKept` | RpmRollbackProofs | `VaultKept`, an action property | `~second`, `"save" \notin fails` |
| `OverlapMeansCorrect` | RpmEvrProofs | `OverlapMeans` | |

The hypotheses in the last column are settings the run of the property has too, and without each of them the
property is false: `Threads` is two sets in threads of one process (`LockThreads.cfg`), `PsmThreads` the
option `--psmthreads` (`RpmSqThreads.cfg`), `ForkMayFail` a fork that fails (`RpmSqOpen.cfg`), "rename" a
rename that fails (`FsmRename.cfg`), `second` two transactions in one second (`RollbackOpen.cfg`), "save" a package
that cannot be repackaged (`RollbackUnsaved.cfg`).

**Pools.** Any set of threads, any finite set of handles, any finite set of items that has one for each handle, any limit.
None of the properties is inductive by itself. The count is only known to be the number of pointers when
a thread between `yarnPossess` and `yarnTwist` is known to own the lock of its item (`OwnsUse`) and its
local variables are known to stand for the pointer they were read from (`Places`,
`PrivateHandles`). That the last reference can be destroyed needs that an item is in one of three places only,
listed, pointed to or just handed out (`Disjoint`), that a thread about to list it has the last
pointer (`LastPointer`), and that none of it is freed memory (`Allocated`). `Alive`
and `Accounted` carry NoUseAfterFree and NothingLost, `Counted` LimitKept, `Sleepers`
NoLostWakeup. Assumed is `PoolAssumption` of RpmPool: there is a thread, the handles and the items are
finite (a cardinality of them is taken), there are enough items for the handles (memory does not run out, as
xcalloc would end the program), and the null values are in none of the sets. The refinement maps initial states to initial
states and each action of RpmPool, taken in a state of `PoolInv` to one of `PoolInv`, to an action of ObjectPool or a
stutter: the interesting steps are the read of the count under the lock, after which `fini` may be called only if no
other pointer exists (`CountsAndDeaths`), and the return of a pointer.

**Transaction lock.** Any number of commands, processes and packages. `Once` cannot be kept by a step without `StillMissing`:
between `rpmtsSanityCheck` and the last installation nobody else installs, as a set that runs has the lock of its process
(`HeldAlone`) and its process has one command at a time (`OneAtATime`). `SoundAt` says at each stage what a
command knows of a database it read and nobody has written since; after the installations it is that any part of what
is left to erase may be gone.

**Child processes.** Any number of scripts and of children of others, any size of the table of descriptors. The hard part is who owns what between two steps of
the thread, with the handler anywhere between them: `FdsKnown` has the open descriptors by place, and at which of them
the handler has closed the write end; `ChildKnown` that the element is about one child and that its status is
written once; `SignalHeld` where the handler cannot run; `KidsKnown` that only the child forked last can be
running. `CountsExact` has the mask, the signal table and the queue, and is about runs in which no fork has failed.

**Parallel compression.** Any number of workers, blocks and files. `WrittenInOrder` needs that the job the writer takes is the
next one and that all were queued before it ends (`WriterKnown`, `MainKnown`); `JobsKnown` counts the jobs under way, of
which there are never more than were queued and not written, so that none is written after the last. `AllReturned` adds up the spaces: all
that were made are in the pool or in use by a job or the main thread (`InputsKnown`, `OutputsKnown`), and when the file is done there are no jobs. For the
threads, the workers launched are at work or were joined (`WorkersKnown`), the list of yarn has those that were launched and not
joined, and none between two files (`ThreadsKnown`). An assertion of `rpmzqVerify` or an unlock of a lock that is not there ends the
program, and all threads with it; a seek that fails leaves a writer that never ends, and the main thread joins for ever.

**Open databases.** Any number of databases, iterators and references. Destructors nest, so the invariant says what can be under what on the
stack (`Stacked`): a destructor is only on top, a cleanup is above the exit it ends in. The count of a database is its handles, its iterators and the
close that is due (`RefsKnown`), until a cleanup takes references that are not its own; from then on what matters is that no iterator
is left and each database is closed once (`ClosingKnown`). `ChainsKnown` has the chains, without repetitions, at any depth of calls.
For signals: the handlers are installed exactly while a database is on its chain, and a signal that was caught is
looked at at once when they are gone (`SignalsKnown`).

**Hard links.** Any number of files, with any sets of names, any of them removed or with names outside of the package, and any
dispositions. While the payload is made, a set has exactly the names of its inode seen so far, and the payload what was seen and is
in no set that waits (`BuildSets`, `PayloadKnown`): a set that rpmbuild or a repackaging transaction writes out is one block of headers,
counted, with the content last (`Block`), however the sets interleave. The walk of `writeLinkedFile` from the end of the set needs that it
enumerates every member once and the member of place 0 last (`FromTheEnd`: a descending enumeration exists, and an injection between
finite sets of one size is onto). At install a set has the names that came so far, in the order of its block (`InstallSets`), so it
is complete exactly when the content comes, and the file then extracted is one of its names (`AtSet`). `FilesKnown` says what is
under each of the four names of each file before its set, while it is linked and renamed, and after; that is only so while
no rename fails, as the loop of `fsmCommitLinks` goes on after one that does. `ErrorsKnown` has which stage may have failed.

**Rollback.** Any packages with any names and obsoletions, any number of transactions of any size, any settings. The property speaks of a
history the code does not keep; the invariant says where it is kept all the same. What was installed before transaction *t* is
`Before(t)`: the headers with an install tid below *t*, and the repackaged packages installed before *t* and removed since
(`Remembered`). A step moves packages between the two without changing `Before`, as what is erased was saved (`ErasedSaved`) and what
leaves the vault is back (`LevelSaved`); that is `VaultKept`, whatever fails but the saving. For the levels, `Before(t)` must be all
that is installed when level *t* has been undone: nothing is as late as the level any more (`Older`). That no level is missed
needs that every transaction left a trace in one of the two lists (`NoneEmpty`, `Lists`); that its headers are all found by
`findErases`, which looks for the links of a header among the packages of the level, needs that what a header replaced was repackaged by
its own transaction (`Chained`); and that what a level puts back is not installed already needs that of one package no
two stays in the system overlap (`Apart`), but for the packages that are just being moved (`Moving`). `Restores` and `LevelInv` are about histories that can be
undone (`Undoable`): when a transaction is left out with `--rbexclude`, a rollback may be turned away although nothing failed, which takes four
transactions to see. Assumed is that there are finitely many packages.

**Ranges.** `OverlapMeans` has no state to keep: it is a case analysis over the comparisons of two end points, for
every finite or infinite set of versions that leaves room between two of them (`EvrAssumption`).

Model-checked only: TransFiles (no proof yet), `FailureUndone` and the other open configurations, TransSet and TransOrder (which have recursive operators
the provers cannot use), and `VersionsOrdered` of RpmEvr (an induction over strings). Out of the
prover's reach are the liveness properties (`CallsReturn`, `WaitReturns`, `RollbackEnds`, `RoomyFilesFinish`, `EveryRunEnds`).

## Disagreements with what the repository says

`rollback_auto` is a run: the automatic rollback of a failed transaction unlinks the repackaged packages
without installing them (`lib/rpmrollback.c:639`); `PROJECT.json` quotes both sides. In its trace `a1` is installed,
its upgrade to `a2` repackages it and fails, `rpmtsRollback` deletes its header, and the loop, which has
no transaction to run, unlinks the repackaged package: `a1` is in neither the database nor the vault. `FailureUndone` asks for
no more than that it be in one of them.

The other configurations show more. Each names the property or properties TLC
finds violated; where it names two, TLC stops at the first, and shows both with `-continue` unless the entry says otherwise.

- `RpmSqIgnored.cfg`, `WaitReturns`: started with SIGCHLD ignored, `rpmsqWait` never returns, as the handler that
  would wake it is not installed (`rpmio/rpmsq.c:457`).
- `RpmSqOpen.cfg`, `NeverEarly`: a signal that interrupts the read of the child ends the
  pause of `rpmio/rpmsq.c:522` ("Block to permit parent time to wait"). `QueueEnds`: after a failed fork the element
  is in the queue twice, and the walk of the handler (`rpmio/rpmsq.c:413`) does not end.
- `RpmSqThreads.cfg`, `ReapedProtected`: with `--psmthreads` the main thread takes the signal the waiting
  thread holds (`rpmio/rpmsq.c:566`, "Protect sq->reaped from handler changes").
- `RpmdbTerminate.cfg`, `TerminationCleansUp`: the cleanup on a termination signal drops one reference of each database, so one
  that has two stays open (`rpmdb/rpmdb.c:504`).
- `ZqStarves.cfg`, `EveryFileFinishes`: there are half as many output spaces as blocks
  (`rpmio/rpmpbzip2.c:1305`); workers of later blocks take them all, and the worker of the next block
  and the writer wait for one another.
- `SetOpen.cfg`, `LinksMutual`: a duplicate erasure answers an index of another array
  (`lib/depends.c:91`), and an element it has nothing to do with is linked. `CheckSound`: an answer cached before `rpmtsSolve` added a package
  is used after it (`lib/depends.c:932`).
- `OrderOpen.cfg`, `PrereqsFirst`: of two packages that require one another the prerequisite may come last
  (`doc/manual/dependencies:119`; `zapRelation` does not tell requirements apart). `RemovedLast`: without loops the queue is relinked in
  presentation order, and an erasure may come before an installation (`lib/order.c:2238`, `lib/rpmts.h:362`).
- `LockStale.cfg`, `DependenciesKept`: dependencies are checked before the lock is taken
  (`lib/transaction.c:2071`): one command installs what needs a package another erases.
- `LockThreads.cfg`, `NothingTwice`: two sets of one process, in two threads, share its fcntl lock
  (`lib/rpmlock.c:88`).
- `LockNested.cfg`, `EveryRunEnds`: a scriptlet that runs rpm waits for the lock of its own parent
  (`lib/transaction.c:2112`).
- `EvrOpen.cfg`, `VersionsOrdered`: punctuation that sorts between "." and the digits ("/") makes a circle of three
  versions (`rpmdb/rpmevr.c:126`). `OverlapExact`: ranges one of which has no release, or is "!=", may not overlap
  where a version is in both (`lib/rpmds.c:4085`).
- `FilesOpen.cfg` (one set of transactions for each, named here), `UserConfigKept` (Shared): of a `%config(noreplace)` file two added packages share, the version the user edited
  is overwritten (`lib/transaction.c:407`).
  `StrayConfigKept` (Stray): a file of the user where a package installs a configuration file is
  overwritten. RPMFILE_EXISTS (`lib/rpmfi.h:63`), which `lib/transaction.c:330` tests, is never set.
  `UserConfigKept` (SymLinks): a configuration file that is a symbolic link is saved neither by an
  erasure (`lib/transaction.c:429` wants a regular file) nor by the renames of `lib/fsm.c:2075`.
  `LinksKept` (LinkedTo): a link the user put in the place of a regular configuration file is unlinked by an erasure
  when it dangles or leads to what the package had, as `lib/transaction.c:443` digests what it leads to, and a digest that cannot be
  made leaves the file to be erased ("Save (by renaming) locally modified config files.", `lib/transaction.c:440`).
  `UserConfigKept` leaves out these links (`SeenThrough`), and no other change of the user.
  `NothingMissing` (Moved): a configuration file that moves to another package than the one
  that replaces its own is taken for "identical file, don't bother" (`lib/rpmfi.c:731`) and then erased.
  `FailedUpgradeStays` (AfterErase): a file of an erased package, of the package that is upgraded and of its
  upgrade is erased when the erasure comes first, as the upgrade will put it back (`lib/transaction.c:412` looks at
  preceding elements only); when the upgrade then fails, the package that stays has lost it.
  `FailedUpgradeStays`, in the run `files` too, and `NothingMissing` leave out what `MovedAside` says: an installation that fails between its two renames
  leaves the old file beside its place, and nothing moves it back.
- `FsmRename.cfg`, `SucceededWhole`: `fsmCommitLinks` returns what its last name returned, so an install succeeds
  without a file whose rename failed (`lib/fsm.c:1364`).
- `FsmRepackaged.cfg`, `MissingInstalled`: a repackaged package of which the user had removed a file cannot be installed, although "Repackaged
  payloads may be missing files" (`lib/fsm.c:2007`): its header has no type and its rename fails (`lib/fsm.c:2154`). `NoneMissing`: a set with a name
  outside of the package is silently not archived, as `lib/psm.c:2715` ignores what IOSM_DESTROY says.
- `RollbackOpen.cfg`, `NeverAborts`: `rpmdbAdd` asserts that a header has no remove tid; the headers a rollback
  installs all have one (`rpmdb/rpmdb.c:2676`).
- `RollbackUnsaved.cfg`, `NothingForgotten`: the result of PSM_PKGSAVE is ignored (`lib/transaction.c:1871`).
  `LevelsDescend` (found with the other one taken out of the configuration): a package that could not be repackaged is left at its level,
  and takes the chain back to it (`lib/rpmrollback.c:672`).
- `RollbackOpen.cfg`, `StepwiseRestored`: two transactions of one second have one tid
  (`lib/transaction.c:1406`) and are undone as one.

After an upgrade that failed, `Restores` makes an exception for the same kind of reason: the old package
was repackaged and is still installed, and every later rollback is turned away because it is
(`lib/transaction.c:1157`).

## Not modelled

The map covers a small share of the repository. Most of the repository is vendored or generated code, bindings, tools, tests and
sequential encoders and decoders, about which a state machine says nothing that a reading of the code does not. Left out on purpose:

- Database contents, Berkeley DB and its transactions, log records: a model of them would be of the library.
  The consistency of indices after a failed update is in the plan.
- In TransSet: colours, platforms, source packages, relocations, the false positives of Bloom filters, and dependencies
  other than requirements and conflicts (namespaces, parent directories, symbolic links). In TransOrder: the search for the element that answers a requirement, colours
  and the dependency whiteout; the code under REFERENCE, which no build compiles.
- In RpmEvr: the wildcard, the regular expression of rpmEVRparse, `%evr_tuple_order`, and the merging of dependency sets.
- In TransFiles: directories, %ghost files, relocations, disk space, network shares, SELinux contexts: each
  multiplies the states of a file. In Fsm: directories, links and devices, attributes, tar payloads, RPMTRANS_FLAG_PKGCOMMIT, failures while a payload is written.
- In RpmZq: the compression itself, and rpmpigz.c, which has a copy of the queues of its own. In yarn.c: yarnDestruct and joins of
  one thread by two others, which have no caller.
- In RpmSq: rpmsqThread and rpmsqJoin but for the thread that holds no signal, and the waits of a build without threads.
- Triggers, database transactions around an element, problem sets, fingerprints: in the plan or in their callers.
- Headers, packages, signatures, macros, I/O, verification, queries, spec files, bindings:
  sequential, without state that outlives a call.
- Everything vendored or external (beecrypt, neon, popt, syck, interpreters).

## Plan

Done: YarnLock, ObjectPool, RpmPool, RpmZq, RpmSq, RpmdbRock, RpmLock, Fsm, RpmRollback and RpmEvr with their proofs; TransSet, TransOrder, TransFiles.

1. Proofs: `RightContent` and `UserConfigKept` of TransFiles.
2. `Psm` (`lib/psm.c`, `rpmdb/rpmtxn.c`): the stages of an element with nested stages, triggers, database transactions; abstract
   specification: an element is installed, erased or unchanged. TransFiles refines it.
3. Directories of `lib/fsm.c`: fsmMkdirs and fsmRmdirs of packages that share them, with failures.
4. Indices of the database (`rpmdbAdd`, `rpmdbRemove`): what queries see between two puts and after one that failed.

Bounds stay at the smallest instance in which each hazard happens; a run answers one question of one module,
and settings are members of a set of records rather than runs of their own.
