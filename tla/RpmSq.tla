-------------------------------- MODULE RpmSq --------------------------------
(***************************************************************************)
(* Child processes of rpmio/rpmsq.c: rpmsqFork, rpmsqWait and the SIGCHLD  *)
(* handler rpmsqAction, by which lib/psm.c runs package scriptlets, and    *)
(* rpmsqExecve, by which build/build.c runs the build scripts.             *)
(*                                                                         *)
(* The parent and the child interlock with a pipe: the child reads the     *)
(* pipe of rpmsqFork until the parent, ready to wait, closes the write     *)
(* end; the parent reads a second pipe until the signal handler, which     *)
(* reaped the child, closes its write end.  Descriptors are numbers of a   *)
(* table, as in the code: close() closes what the number stands for now.   *)
(***************************************************************************)
EXTENDS Integers, FiniteSets

CONSTANTS
    Kids,          \* calls of fork, bounds the scripts run
    Others,        \* children of the process that something else started
    NoPid,         \* 0, what sq->child and sq->reaped hold before the fork
    Failed,        \* (pid_t)-1
    Pipes,         \* pipes the kernel can have open, bounds pipe()
    MaxFd,         \* highest descriptor number
    PsmThreads,    \* --psmthreads: a thread runs the script, the main thread,
                   \* which does not block SIGCHLD, waits in rpmsqJoin
    SigchldIgnored,\* the process was started with SIGCHLD ignored
    ForkMayFail,   \* fork() may fail
    Interrupts     \* a signal may interrupt or kill a child before its exec

ASSUME RpmSqAssumption ==
    /\ Kids \cap Others = {} /\ {NoPid, Failed} \cap (Kids \cup Others) = {}
    /\ NoPid # Failed
    /\ MaxFd \in Nat /\ MaxFd >= 2
    /\ {PsmThreads, SigchldIgnored, ForkMayFail, Interrupts} \subseteq BOOLEAN

VARIABLES
    pc,            \* the place in rpmsqFork, rpmsqWaitUnregister, rpmsqExecve
    hpc,           \* the place in rpmsqAction, "off" when it does not run
    held,          \* the runner's signal mask holds SIGCHLD
    oldMask,       \* the mask rpmsqExecve found: whether it held SIGCHLD
    pending,       \* SIGCHLD is pending (one bit, however many children exit)
    eintr,         \* the handler ran while the runner was in read()
    tbl,           \* rpmsigTbl: [active, inst] of each signal
    sq,            \* the rpmsqElem: child, reaped, status, p0, p1
    forw, back,    \* q_forw and q_back of rpmsqRock ("rock") and of sq ("sq")
    ret,           \* ret of rpmsqWaitUnregister, status of rpmsqExecve
    pid,           \* what fork() returned last
    hpid,          \* the handler's reaped
    fd,            \* descriptor table of the process
    kid            \* the children: st, fds, how

vars == <<pc, hpc, held, oldMask, pending, eintr, tbl, sq, forw, back, ret, pid, hpid, fd, kid>>
hvars == <<hpc, hpid>>
sigvars == <<held, pending, eintr, tbl>>
listvars == <<forw, back>>

Sigs == {"CHLD", "INT"}          \* SIGINT stands for SIGQUIT too
Fds == 1..MaxFd
Ends == Pipes \X {"r", "w"}
Closed == <<>>
Nodes == {"rock", "sq"}
Null == "null"

Init ==
    /\ pc = "idle" /\ hpc = "off" /\ hpid = NoPid
    /\ held = FALSE /\ oldMask = FALSE /\ pending = FALSE /\ eintr = FALSE
    /\ tbl = [s \in Sigs |-> [active |-> 0, inst |-> FALSE]]
    /\ sq = [child |-> NoPid, reaped |-> NoPid, status |-> 0, p0 |-> -1, p1 |-> -1]
    /\ forw = [n \in Nodes |-> IF n = "rock" THEN "rock" ELSE Null]
    /\ back = [n \in Nodes |-> Null]
    /\ ret = 0 /\ pid = NoPid
    /\ fd = [n \in Fds |-> Closed]
    /\ kid = [k \in Kids \cup Others |->
                [st  |-> IF k \in Others THEN "script" ELSE "none",
                 fds |-> {}, pipe |-> 0, how |-> -1, early |-> FALSE]]

-----------------------------------------------------------------------------
(* The kernel: descriptors, pipes and child processes.                     *)

OpenIn(table) == {table[n] : n \in Fds} \ {Closed}

HeldByKids == UNION {kid[k].fds : k \in DOMAIN kid}

(* The two lowest free numbers get the ends of a pipe nobody has open.     *)
MakePipe(n0, n1) ==
    /\ n0 < n1
    /\ \A n \in 1..n1 : fd[n] = Closed <=> n \in {n0, n1}
    /\ \E p \in Pipes :
        /\ \A e \in OpenIn(fd) \cup HeldByKids : e[1] # p
        /\ \A q \in Pipes : q < p => \E e \in OpenIn(fd) \cup HeldByKids : e[1] = q
        /\ fd' = [fd EXCEPT ![n0] = <<p, "r">>, ![n1] = <<p, "w">>]

CloseFds(table, ns) == [n \in Fds |-> IF n \in ns THEN Closed ELSE table[n]]

(* read() returns 0: nobody has the write end of the pipe open.            *)
AtEof(end) ==
    end # Closed /\ <<end[1], "w">> \notin OpenIn(fd) \cup HeldByKids

Zombies == {k \in DOMAIN kid : kid[k].st = "zombie"}

(* A child ends.  With SIGCHLD ignored the kernel reaps it and signals     *)
(* nothing; otherwise it stays a zombie for waitpid.                       *)
KidEnds(k, how) ==
    /\ kid' = [kid EXCEPT ![k] =
                 [@ EXCEPT !.st = IF SigchldIgnored THEN "reaped" ELSE "zombie",
                           !.fds = {}, !.how = how]]
    /\ pending' = (pending \/ tbl["CHLD"].inst)
    /\ UNCHANGED <<pc, hvars, held, eintr, tbl, sq, listvars, oldMask, ret, pid, fd>>

-----------------------------------------------------------------------------
(* rpmsqEnable.  The refcount decides when sigaction is called; an ignored *)
(* signal keeps its disposition.                                           *)

Ignored(s) == s = "CHLD" /\ SigchldIgnored

Enabled(s) ==
    LET e == tbl[s] IN
    IF e.active > 0 \/ Ignored(s)
    THEN [e EXCEPT !.active = @ + 1]
    ELSE [active |-> 1, inst |-> TRUE]

Disabled(s) ==
    LET e == tbl[s] IN
    IF e.active > 1 THEN [e EXCEPT !.active = @ - 1]
    ELSE [active |-> 0, inst |-> FALSE]

(* The runner does not step while the handler interrupts it, unless the    *)
(* handler runs on another thread.                                         *)
Run(from, to) ==
    /\ pc = from /\ pc' = to
    /\ PsmThreads \/ hpc = "off"

-----------------------------------------------------------------------------
(* rpmsqFork                                                               *)

(* rpmsqInsert: insque(3) after the rock, between sighold and sigrelse.    *)
Insert ==
    /\ Run("idle", "enable")
    /\ held' = FALSE
    /\ \E k \in Kids : kid[k].st = "none"
    /\ sq' = [child |-> NoPid, reaped |-> NoPid, status |-> 0, p0 |-> -1, p1 |-> -1]
    /\ LET next == forw["rock"] IN
        /\ forw' = [n \in Nodes |-> IF n = "rock" THEN "sq" ELSE next]
        /\ back' = [n \in Nodes |-> IF n = "sq" THEN "rock"
                                    ELSE IF n = next THEN "sq" ELSE back[n]]
    /\ UNCHANGED <<hvars, oldMask, pending, eintr, tbl, ret, pid, fd, kid>>

EnableChld ==
    /\ Run("enable", "pipe")
    /\ tbl' = [tbl EXCEPT !["CHLD"] = Enabled("CHLD")]
    /\ UNCHANGED <<hvars, held, pending, eintr, sq, listvars, oldMask, ret, pid, fd, kid>>

(* pipe(sq->pipes), of rpmsqFork and of rpmsqWaitUnregister.               *)
PipeTo(from, to) ==
    /\ Run(from, to)
    /\ \E n0, n1 \in Fds :
        /\ MakePipe(n0, n1)
        /\ sq' = [sq EXCEPT !.p0 = n0, !.p1 = n1]
    /\ UNCHANGED <<hvars, sigvars, listvars, oldMask, ret, pid, kid>>

ForkPipe == PipeTo("pipe", "fork")

(* sighold(SIGCHLD); fork().  The child has copies of all descriptors.     *)
Fork ==
    /\ Run("fork", "setchild")
    /\ held' = TRUE
    /\ \E k \in Kids :
        /\ kid[k].st = "none"
        /\ pid' = k
        /\ kid' = [kid EXCEPT ![k] = [st |-> "close1", fds |-> OpenIn(fd),
                                      pipe |-> fd[sq.p0][1], how |-> -1, early |-> FALSE]]
    /\ UNCHANGED <<hvars, pending, eintr, tbl, sq, listvars, oldMask, ret, fd>>

(* A fork that makes no process takes one of the Kids out of the bound.    *)
UseUp == \E k \in Kids :
    kid[k].st = "none" /\ kid' = [kid EXCEPT ![k].st = "failed"]

(* fork() fails and SIGCHLD is released; runScript gives up, and nobody    *)
(* waits for the element.                                                  *)
ForkFails ==
    /\ Run("fork", "idle")
    /\ ForkMayFail /\ UseUp
    /\ held' = FALSE
    /\ sq' = [sq EXCEPT !.child = Failed, !.p0 = -1, !.p1 = -1]
    /\ fd' = CloseFds(fd, {sq.p0, sq.p1})
    /\ UNCHANGED <<hvars, pending, eintr, tbl, listvars, oldMask, ret, pid>>

SetChild ==
    /\ Run("setchild", "forked")
    /\ sq' = [sq EXCEPT !.child = pid]
    /\ UNCHANGED <<hvars, sigvars, listvars, oldMask, ret, pid, fd, kid>>

Hold(from, to, b) ==
    /\ Run(from, to)
    /\ held' = b
    /\ UNCHANGED <<hvars, pending, eintr, tbl, sq, listvars, oldMask, ret, pid, fd, kid>>

ForkReleases == Hold("forked", "wait", FALSE)

-----------------------------------------------------------------------------
(* rpmsqWaitUnregister                                                     *)

(* Mutant: the parent starts the child without blocking SIGCHLD.           *)
WaitHoldsNothing ==
    /\ Run("wait", "close0")
    /\ ret' = 0
    /\ UNCHANGED <<hvars, sigvars, sq, listvars, oldMask, pid, fd, kid>>

WaitHolds ==
    /\ Run("wait", "close0")
    /\ held' = TRUE /\ ret' = 0
    /\ UNCHANGED <<hvars, pending, eintr, tbl, sq, listvars, oldMask, pid, fd, kid>>

(* Start the child: close both ends, but not the numbers in sq->pipes.     *)
CloseEnd(from, to, n) ==
    /\ Run(from, to)
    /\ fd' = CloseFds(fd, {n})
    /\ UNCHANGED <<hvars, sigvars, sq, listvars, oldMask, ret, pid, kid>>

WaitClose0 == CloseEnd("close0", "close1", sq.p0)
WaitClose1 == CloseEnd("close1", "repipe", sq.p1)

(* The second pipe, to receive the receipt of SIGCHLD.                     *)
WaitPipe == PipeTo("repipe", "loop")

MustWait == ret = 0 /\ sq.reaped # sq.child

WaitReleases == Hold("loop", "read", FALSE) /\ MustWait
WaitHoldsAgain == Hold("relock", "loop", TRUE)
WaitEnds == Hold("loop", "remove", FALSE) /\ ~MustWait

(* read(sq->pipes[0]) sees the end of file.                                *)
WaitReads ==
    /\ Run("read", "relock")
    /\ sq.p0 \in Fds /\ AtEof(fd[sq.p0])
    /\ fd' = CloseFds(fd, {sq.p0})
    /\ sq' = [sq EXCEPT !.p0 = -1]
    /\ ret' = 1 /\ eintr' = FALSE
    /\ UNCHANGED <<hvars, held, pending, tbl, listvars, oldMask, pid, kid>>

(* Mutant: a read that fails counts as the end of file.                    *)
WaitInterruptedEnds ==
    /\ Run("read", "relock")
    /\ eintr /\ eintr' = FALSE
    /\ ret' = 1
    /\ UNCHANGED <<hvars, held, pending, tbl, sq, listvars, oldMask, pid, fd, kid>>

(* read() fails with EINTR after a signal handler ran.                     *)
WaitInterrupted ==
    /\ Run("read", "relock")
    /\ eintr /\ eintr' = FALSE
    /\ UNCHANGED <<hvars, held, pending, tbl, sq, listvars, oldMask, ret, pid, fd, kid>>

(* rpmsqRemove: remque(3), and close what is left of the pipe.             *)
Remove ==
    /\ Run("remove", "disable")
    /\ LET next == forw["sq"]
           prev == back["sq"]
       IN /\ forw' = IF prev = Null THEN forw ELSE [forw EXCEPT ![prev] = next]
          /\ back' = IF next = Null THEN back ELSE [back EXCEPT ![next] = prev]
    /\ fd' = CloseFds(fd, {sq.p0, sq.p1})
    /\ sq' = [sq EXCEPT !.p0 = -1, !.p1 = -1]
    /\ UNCHANGED <<hvars, oldMask, sigvars, ret, pid, kid>>

(* rpmsqEnable(-SIGCHLD); a signal still pending meets the old disposition. *)
Disable ==
    /\ Run("disable", "idle")
    /\ tbl' = [tbl EXCEPT !["CHLD"] = Disabled("CHLD")]
    /\ pending' = (pending /\ tbl'["CHLD"].inst)
    /\ eintr' = FALSE
    /\ UNCHANGED <<hvars, held, sq, listvars, oldMask, ret, pid, fd, kid>>

-----------------------------------------------------------------------------
(* rpmsqExecve: no queue element; waitpid of its own child with SIGCHLD    *)
(* blocked.  Its own reference counts the users of SIGINT and SIGQUIT.     *)

(* Mutant: SIGCHLD is not blocked around fork and waitpid.                 *)
ExecEnableOpen ==
    /\ Run("idle", "execfork")
    /\ \E k \in Kids : kid[k].st = "none"
    /\ tbl' = [tbl EXCEPT !["CHLD"].active = @ + 1,
                          !["INT"] = IF tbl["CHLD"].active = 0 THEN Enabled("INT") ELSE @]
    /\ oldMask' = held
    /\ UNCHANGED <<hvars, held, pending, eintr, sq, listvars, ret, pid, fd, kid>>

ExecEnable ==
    /\ Run("idle", "execfork")
    /\ \E k \in Kids : kid[k].st = "none"
    /\ tbl' = [tbl EXCEPT !["CHLD"].active = @ + 1,
                          !["INT"] = IF tbl["CHLD"].active = 0 THEN Enabled("INT") ELSE @]
    /\ held' = TRUE /\ oldMask' = held
    /\ UNCHANGED <<hvars, pending, eintr, sq, listvars, ret, pid, fd, kid>>

ExecFork ==
    /\ Run("execfork", "execwait")
    /\ \E k \in Kids :
        /\ kid[k].st = "none"
        /\ pid' = k
        /\ kid' = [kid EXCEPT ![k].st = "script"]
    /\ UNCHANGED <<hvars, sigvars, sq, listvars, oldMask, ret, fd>>

(* fork() fails: goto out, past every SUB_REF and sigprocmask.             *)
ExecForkFails ==
    /\ Run("execfork", "idle")
    /\ ForkMayFail /\ UseUp
    /\ UNCHANGED <<hvars, sigvars, sq, listvars, oldMask, ret, pid, fd>>

(* waitpid(pid) returns; with SIGCHLD ignored it fails with ECHILD.        *)
ExecWait ==
    /\ Run("execwait", "execdone")
    /\ kid[pid].st \in {"zombie", "reaped"}
    /\ kid' = [kid EXCEPT ![pid].st = "reaped"]
    /\ ret' = IF kid[pid].st = "zombie" THEN kid[pid].how ELSE -1
    /\ UNCHANGED <<hvars, sigvars, sq, listvars, oldMask, pid, fd>>

ExecDone ==
    /\ Run("execdone", "idle")
    /\ LET a == tbl["CHLD"].active - 1 IN
        tbl' = [tbl EXCEPT !["CHLD"].active = a,
                           !["INT"] = IF a = 0 THEN Disabled("INT") ELSE @]
    /\ held' = oldMask /\ ret' = 0
    /\ UNCHANGED <<hvars, pending, eintr, sq, listvars, oldMask, pid, fd, kid>>

-----------------------------------------------------------------------------
(* rpmsqAction for SIGCHLD                                                 *)

Handler(from, to) == hpc = from /\ hpc' = to

HandlerStarts ==
    /\ Handler("off", "reap")
    /\ pending /\ tbl["CHLD"].inst
    /\ ~held \/ PsmThreads
    /\ pending' = FALSE
    /\ UNCHANGED <<pc, hpid, held, eintr, tbl, sq, listvars, oldMask, ret, pid, fd, kid>>

(* waitpid(0, &status, WNOHANG) takes any child that has ended.            *)
HandlerReaps ==
    /\ Handler("reap", "scan")
    /\ \E k \in Zombies :
        /\ hpid' = k
        /\ kid' = [kid EXCEPT ![k].st = "reaped"]
    /\ UNCHANGED <<pc, sigvars, sq, listvars, oldMask, ret, pid, fd>>

HandlerReturns ==
    /\ Handler("reap", "off")
    /\ Zombies = {}
    /\ hpid' = NoPid
    /\ eintr' = (eintr \/ pc = "read")
    /\ UNCHANGED <<pc, held, pending, tbl, sq, listvars, oldMask, ret, pid, fd, kid>>

(* The loop over the queue ends at NULL or at the rock, or it finds the    *)
(* element of the child, or a circle without the rock keeps it for ever.   *)
QueueHas == forw["rock"] = "sq"
QueueCircular == QueueHas /\ forw["sq"] = "sq"

HandlerFinds ==
    /\ Handler("scan", "close")
    /\ QueueHas /\ sq.child = hpid
    /\ sq' = [sq EXCEPT !.reaped = hpid, !.status = kid[hpid].how]
    /\ UNCHANGED <<pc, hpid, sigvars, listvars, oldMask, ret, pid, fd, kid>>

(* Mutant: one waitpid for each signal, although signals do not queue.     *)
HandlerMissesOnce ==
    /\ Handler("scan", "off")
    /\ ~QueueCircular
    /\ ~(QueueHas /\ sq.child = hpid)
    /\ UNCHANGED <<pc, hpid, sigvars, sq, listvars, oldMask, ret, pid, fd, kid>>

HandlerMisses ==
    /\ Handler("scan", "reap")
    /\ ~QueueCircular
    /\ ~(QueueHas /\ sq.child = hpid)
    /\ UNCHANGED <<pc, hpid, sigvars, sq, listvars, oldMask, ret, pid, fd, kid>>

(* close(sq->pipes[1]) gives the waiting parent its end of file.           *)
HandlerCloses ==
    /\ Handler("close", "unset")
    /\ fd' = CloseFds(fd, {sq.p1})
    /\ UNCHANGED <<pc, hpid, sigvars, sq, listvars, oldMask, ret, pid, kid>>

HandlerUnsets ==
    /\ Handler("unset", "reap")
    /\ sq' = [sq EXCEPT !.p1 = -1]
    /\ UNCHANGED <<pc, hpid, sigvars, listvars, oldMask, ret, pid, fd, kid>>

-----------------------------------------------------------------------------
(* The child of rpmsqFork, until the exec of runScript, which closes every *)
(* descriptor above stderr; and any child at its end.                      *)

KidMoves(k, from, to, drop, early) ==
    /\ kid[k].st = from
    /\ kid' = [kid EXCEPT ![k].st = to, ![k].fds = @ \ drop, ![k].early = early]
    /\ UNCHANGED <<pc, hvars, sigvars, sq, listvars, oldMask, ret, pid, fd>>

KidGoes(k, from, to, drop) == KidMoves(k, from, to, drop, kid[k].early)

KidClose1(k) == KidGoes(k, "close1", "read", {<<kid[k].pipe, "w">>})

(* Mutant: the child does not wait for its parent.                         *)
KidReadsNothing(k) == KidGoes(k, "read", "close0", {})

KidReads(k) ==
    /\ AtEof(<<kid[k].pipe, "r">>)
    /\ KidGoes(k, "read", "close0", {})

(* A signal handler inherited from the parent runs: read() fails, EINTR.   *)
(* The auxiliary field early remembers it.                                 *)
KidInterrupted(k) == Interrupts /\ KidMoves(k, "read", "close0", {}, TRUE)

KidClose0(k) == KidGoes(k, "close0", "exec", {<<kid[k].pipe, "r">>})

KidExecs(k) == KidGoes(k, "exec", "script", Ends)

KidExits(k) == kid[k].st = "script" /\ \E how \in {0, 1} : KidEnds(k, how)

KidKilled(k) ==
    /\ Interrupts
    /\ kid[k].st \in {"close1", "read", "close0", "exec"}
    /\ KidEnds(k, 9)

-----------------------------------------------------------------------------
Runner ==
    \/ EnableChld \/ ForkPipe \/ Fork \/ ForkFails \/ SetChild \/ ForkReleases
    \/ WaitHolds \/ WaitClose0 \/ WaitClose1 \/ WaitPipe \/ WaitReleases
    \/ WaitReads \/ WaitInterrupted \/ WaitHoldsAgain \/ WaitEnds
    \/ Remove \/ Disable
    \/ ExecFork \/ ExecForkFails \/ ExecWait \/ ExecDone

SignalHandler ==
    \/ HandlerStarts \/ HandlerReaps \/ HandlerReturns \/ HandlerFinds
    \/ HandlerMisses \/ HandlerCloses \/ HandlerUnsets

KidStep(k) == KidClose1(k) \/ KidReads(k) \/ KidClose0(k) \/ KidExecs(k) \/ KidExits(k)

(* Every child process was used: the bound on the scripts run.             *)
Finished ==
    /\ pc = "idle" /\ hpc = "off"
    /\ \A k \in Kids : kid[k].st # "none"
    /\ UNCHANGED vars

Next ==
    \/ Insert \/ ExecEnable
    \/ Runner
    \/ SignalHandler
    \/ \E k \in DOMAIN kid : KidStep(k)
    \/ \E k \in Kids : KidInterrupted(k) \/ KidKilled(k)
    \/ Finished

Spec == Init /\ [][Next]_vars

(* The process and its handler are scheduled, and every child that got its *)
(* end of file comes to its exec and ends.                                 *)
FairSpec ==
    /\ Spec
    /\ WF_vars(Runner)
    /\ WF_vars(SignalHandler)
    /\ \A k \in Kids \cup Others : WF_vars(KidStep(k))

-----------------------------------------------------------------------------
(* What the table of signals, the element and the record of a child hold.   *)
SigEntry == [active : Nat, inst : BOOLEAN]

Element == [child : Kids \cup {NoPid, Failed}, reaped : Kids \cup {NoPid},
            status : Int, p0 : Fds \cup {-1}, p1 : Fds \cup {-1}]

Child == [st : {"none", "failed", "close1", "read", "close0", "exec", "script", "zombie",
                "reaped"},
          fds : SUBSET Ends, pipe : Pipes \cup {0}, how : Int, early : BOOLEAN]

(* Every variable is in its range, and the numbers in sq->pipes are        *)
(* descriptors or -1.                                                      *)
TypeOK ==
    /\ pc \in {"idle", "enable", "pipe", "fork", "setchild", "forked", "wait",
               "close0", "close1", "repipe", "loop", "read", "relock", "remove",
               "disable", "execfork", "execwait", "execdone"}
    /\ hpc \in {"off", "reap", "scan", "close", "unset"}
    /\ held \in BOOLEAN /\ oldMask \in BOOLEAN /\ pending \in BOOLEAN /\ eintr \in BOOLEAN
    /\ ret \in Int
    /\ pid \in Kids \cup {NoPid} /\ hpid \in Kids \cup Others \cup {NoPid}
    /\ tbl \in [Sigs -> SigEntry]
    /\ sq \in Element
    /\ forw \in [Nodes -> Nodes \cup {Null}] /\ back \in [Nodes -> Nodes \cup {Null}]
    /\ fd \in [Fds -> Ends \cup {Closed}]
    /\ kid \in [Kids \cup Others -> Child]

(* When rpmsqWait comes back, the child it waited for has been reaped and  *)
(* its exit status, nobody else's, is in the element (psmWait uses both).  *)
StatusOfTheScript ==
    pc = "remove" =>
        /\ sq.reaped = sq.child /\ sq.child = pid
        /\ kid[pid].st = "reaped"
        /\ sq.status = kid[pid].how

(* rpmsqExecve returns the status of its own child, although the handler   *)
(* may be installed and waitpid(0) would take any child.                   *)
StatusOfTheBuild ==
    pc = "execdone" /\ ~SigchldIgnored => ret = kid[pid].how

(* A script's status is its own, on both ways to run one.                   *)
OwnStatus == StatusOfTheScript /\ StatusOfTheBuild

(* A script runs although its parent is not in rpmsqWait yet.              *)
TooEarly(k) ==
    /\ pid = k /\ sq.child # Failed /\ kid[k].st \in {"exec", "script"}
    /\ pc \in {"setchild", "forked", "wait", "close0"}

(* "Block to permit parent time to wait": no script starts before the      *)
(* parent is in rpmsqWait with SIGCHLD held, unless a signal interrupted   *)
(* the child's read of the pipe (RpmSqOpen.cfg).                           *)
ScriptAfterWait == \A k \in Kids : TooEarly(k) => kid[k].early
NeverEarly == \A k \in Kids : ~TooEarly(k)

(* A fork that failed leaves its element in the queue, and the count of    *)
(* the handler's users too high (RpmSqOpen.cfg).                           *)
ForkFailed == \E k \in Kids : kid[k].st = "failed"

(* Between two scripts the process has no descriptor of a pipe left, no    *)
(* element in the queue, the handler removed and SIGCHLD released, as long *)
(* as no fork has failed.                                                  *)
NothingLeft ==
    pc = "idle" /\ ~ForkFailed =>
        /\ OpenIn(fd) = {} /\ sq.p0 = -1 /\ sq.p1 = -1
        /\ ~QueueHas
        /\ ~held
        /\ \A s \in Sigs : tbl[s] = [active |-> 0, inst |-> FALSE]

(* The handler never closes a descriptor that is not the write end of the  *)
(* pipe of the child it reaped.                                            *)
ClosesItsOwn ==
    hpc = "close" /\ sq.p1 # -1 => fd[sq.p1] # Closed /\ fd[sq.p1][2] = "w"

(* What a script was given is given back, once, by whoever runs first: the *)
(* handler, which interrupts the parent anywhere, or the parent; and the   *)
(* counts and descriptors stay in range.                                   *)
GivenBack == TypeOK /\ NothingLeft /\ ClosesItsOwn

-----------------------------------------------------------------------------
(* The inductive invariant, where scripts run in the main thread.  First    *)
(* the signal: it is held between sighold and sigrelse, the handler does    *)
(* not run then, and never does where SIGCHLD is ignored.                   *)
HeldPlaces == {"setchild", "forked", "close0", "close1", "repipe", "loop",
               "execfork", "execwait", "execdone"}

SignalHeld ==
    /\ pc \in HeldPlaces => held
    /\ held => hpc = "off"
    /\ SigchldIgnored => ~tbl["CHLD"].inst /\ ~pending /\ hpc = "off"
    /\ pc \in {"execfork", "execwait", "execdone"} => tbl["CHLD"].active > 0

(* What a child has open, and that only the one that was forked last can be *)
(* running, between its fork and its reaping.                               *)
KidsKnown ==
    /\ \A k \in Kids \cup Others :
        /\ kid[k].st = "close1" => kid[k].fds = {<<kid[k].pipe, "r">>, <<kid[k].pipe, "w">>}
        /\ kid[k].st \in {"read", "close0"} => kid[k].fds = {<<kid[k].pipe, "r">>}
        /\ kid[k].st \notin {"close1", "read", "close0"} => kid[k].fds = {}
    /\ \A k \in Others : kid[k].st \in {"script", "zombie", "reaped"}
    /\ \A k \in Kids : kid[k].st \notin {"none", "failed", "reaped"} =>
          k = pid /\ pc \in {"setchild", "forked", "wait", "close0", "close1", "repipe",
                            "loop", "read", "relock", "execwait"}

(* Whom the element is about, and that its status is recorded once, by the  *)
(* handler that reaped the child.                                           *)
Recorded ==
    /\ sq.child \in Kids /\ sq.reaped = sq.child
    /\ kid[sq.child].st = "reaped" /\ sq.status = kid[sq.child].how

ChildKnown ==
    /\ pc \in {"enable", "pipe", "fork", "setchild"} => sq.child = NoPid /\ sq.reaped = NoPid
    /\ pc \in {"setchild", "forked", "wait", "close0", "close1", "repipe", "loop", "read",
               "relock", "remove", "execwait", "execdone"} => pid \in Kids
    /\ pc \in {"forked", "wait", "close0", "close1", "repipe", "loop", "read", "relock",
               "remove"} => sq.child = pid
    /\ sq.reaped = NoPid \/ Recorded
    /\ pc \in {"idle", "remove", "disable", "execfork", "execwait", "execdone"} =>
          sq.child \in {NoPid, Failed} \/ Recorded
    /\ hpc \in {"scan", "close", "unset"} =>
          hpid \in Kids \cup Others /\ kid[hpid].st = "reaped"
    /\ hpc = "scan" /\ hpid = sq.child => sq.reaped = NoPid
    /\ hpc \in {"close", "unset"} =>
          hpid = sq.child /\ Recorded /\ pc \in {"wait", "read", "relock"}

(* Which descriptors are open: none outside of n, and at p1 the write end   *)
(* of pipe p until the handler has closed it.                               *)
OnlyOpen(ns) == \A n \in Fds \ ns : fd[n] = Closed

WriteEnd(p) ==
    /\ sq.p1 # -1 => /\ sq.p1 # sq.p0
                     /\ fd[sq.p1] = IF hpc = "unset" THEN Closed ELSE <<p, "w">>
    /\ sq.p1 = -1 => Recorded /\ hpc \notin {"close", "unset"}

BothEnds(p) == sq.p0 # -1 /\ fd[sq.p0] = <<p, "r">> /\ WriteEnd(p)

FdsKnown ==
    /\ pc \in {"idle", "enable", "pipe", "disable", "execfork", "execwait", "execdone"} =>
          OnlyOpen({}) /\ sq.p0 = -1 /\ sq.p1 = -1
    /\ pc \in {"fork", "setchild", "forked"} => sq.p1 # -1
    /\ pc = "fork" => \E p \in Pipes : BothEnds(p)
    /\ pc \in {"setchild", "forked", "wait", "close0"} => BothEnds(kid[pid].pipe)
    /\ pc = "close1" => WriteEnd(kid[pid].pipe) /\ OnlyOpen({sq.p1})
    /\ pc = "repipe" => OnlyOpen({})
    /\ pc \in {"close0", "close1", "repipe"} => ret = 0
    /\ pc \in {"loop", "read", "relock", "remove"} =>
          \/ ret = 0 /\ \E p \in Pipes : BothEnds(p)
          \/ /\ ret = 1 /\ Recorded /\ hpc \notin {"close", "unset"}
             /\ OnlyOpen({}) /\ sq.p0 = -1 /\ sq.p1 = -1
    /\ OnlyOpen({sq.p0, sq.p1})

(* The parent has the write end of the child's pipe until it waits.         *)
ChildWaits ==
    pc \in {"setchild", "forked", "wait", "close0", "close1"} /\ ~kid[pid].early
        => kid[pid].st \in {"close1", "read", "zombie", "reaped"}

(* rpmsqExecve's own waitpid reaps its child.                               *)
BuildKnown ==
    ~SigchldIgnored =>
        /\ pc = "execwait" => kid[pid].st \in {"script", "zombie"}
        /\ pc = "execdone" => kid[pid].st = "reaped" /\ ret = kid[pid].how

Building == {"execfork", "execwait", "execdone"}

(* Without failed forks the counts, the mask and the queue are exact.       *)
CountsExact ==
    ~ForkFailed =>
        /\ ~oldMask /\ (pc \notin HeldPlaces => ~held)
        /\ tbl["CHLD"].active = IF pc \in {"idle", "enable"} THEN 0 ELSE 1
        /\ tbl["CHLD"].inst <=> ~SigchldIgnored /\ pc \notin {"idle", "enable"} \cup Building
        /\ tbl["INT"].active = IF pc \in Building THEN 1 ELSE 0
        /\ tbl["INT"].inst <=> pc \in Building
        /\ IF pc \in {"idle", "disable"} \cup Building
           THEN forw["rock"] = "rock"
           ELSE forw["rock"] = "sq" /\ forw["sq"] = "rock" /\ back["sq"] = "rock"

SqInv ==
    TypeOK /\ SignalHeld /\ KidsKnown /\ ChildKnown /\ FdsKnown /\ ChildWaits
    /\ BuildKnown /\ CountsExact

-----------------------------------------------------------------------------
(* "insque(3)/remque(3) are dequeue, not ring": the walk over the queue in *)
(* rpmsqAction ends, also after a fork that failed.                        *)
QueueEnds == ~QueueCircular

(* "Protect sq->reaped from handler changes": nothing reaps the child      *)
(* while rpmsqWaitUnregister holds SIGCHLD.                                *)
ReapedProtected == [][held /\ sq.child = sq'.child => sq'.reaped = sq.reaped]_vars

(* rpmsqWait comes back once the script has ended: the wakeup by the       *)
(* handler's close is never lost, unless a fork has failed before.         *)
WaitReturns == pc = "wait" /\ ~ForkFailed ~> pc = "idle"
=============================================================================
