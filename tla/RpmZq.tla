------------------------------- MODULE RpmZq --------------------------------
(***************************************************************************)
(* Parallel compression: the queues of rpmio/rpmzq.c, the threads of       *)
(* rpmio/yarn.c and the main and write threads of rpmio/rpmpbzip2.c.       *)
(*                                                                         *)
(* The main thread reads blocks into input spaces and queues jobs (FIFO);  *)
(* workers take a job, get an output space, compress and put the job on    *)
(* the write list (SEQ), sorted by number; the write thread takes the jobs *)
(* in order, writes them and gives both spaces back.  Both pools of spaces *)
(* are bounded.  When a file is done the workers are told to return and    *)
(* joined, and the pools are freed.                                        *)
(*                                                                         *)
(* Everything between yarnPossess and yarnTwist of one lock is one step;   *)
(* a yarnWaitFor is a guard, as every change of a value is broadcast.      *)
(***************************************************************************)
EXTENDS Integers, Sequences, FiniteSets

CONSTANTS Workers,    \* compress threads: zq->threads of them may run
          Writer,     \* the write thread
          NoJob,
          FileKinds,  \* the files a run may meet
          MaxFiles    \* files on the command line: bounds the run

(* A file: what is done with it, NumBlocks, the blocks of a compressed file *)
(* that do not fit an input space, and those whose contents, six times as   *)
(* long or more, do not fit an output space; whether the last block fills   *)
(* its space, and the block lseek fails at (blocks, if it does not).        *)
Files == [op : {"compress", "decompress"}, blocks : Nat \ {0}, big : SUBSET Nat,
          grows : SUBSET Nat, full : BOOLEAN, seekfail : Nat]

ASSUME ZqAssumption ==
    /\ FileKinds \subseteq Files /\ IsFiniteSet(Workers) /\ Workers # {}
    /\ Writer \notin Workers /\ "main" \notin Workers \cup {Writer} /\ MaxFiles \in Nat
    /\ \A f \in FileKinds : /\ f.big \subseteq f.grows
                            /\ IF f.op = "compress" THEN f.grows = {} ELSE f.blocks >= 2

VARIABLES file, nfile,        \* the file and its place on the command line
          inp, outp,          \* zq->_zc.pool and zq->_zw.pool
          fifo, fifoHave,     \* zq->_zc.q: the jobs, the value of its lock
          seq, seqFirst,      \* zq->_zw.q: the jobs, the value of its lock
          threads, done,      \* yarn: the threads listed, those marked done
          exited,             \* yarn: the value of threads_lock
          pc,                 \* [thread -> where it is], main thread: "main"
          mseq, more, cthreads, caught,   \* main thread
          wseq, wjob, written,            \* write thread, the output file
          job                             \* [Workers -> its job]

queueVars == <<fifo, fifoHave, seq, seqFirst>>
yarnVars == <<threads, done, exited>>
mainVars == <<file, nfile, mseq, more, cthreads, caught>>
writeVars == <<wseq, wjob, written>>
vars == <<inp, outp, queueVars, yarnVars, mainVars, writeVars, pc, job>>

Stop == -1      \* the sequence number that tells workers to return

(* A job: its number, whether its input and its output came from a pool.    *)
Job(n, pooled) == [seq |-> n, in |-> pooled, out |-> FALSE]

At(t, place) == pc[t] = place
Go(t, from, to) == pc[t] = from /\ pc' = [pc EXCEPT ![t] = to]

-----------------------------------------------------------------------------
(* Pools of spaces: rpmzqNewPool, rpmzqNewSpace, rpmzqDropSpace.  A space   *)
(* has one user in this program.                                            *)
NewPool(n) == [have |-> 0, limit |-> n, made |-> 0]

CanGet(p) == p.limit # 0 \/ p.have # 0

GetSpace(p) ==
    IF p.have > 0 THEN [p EXCEPT !.have = @ - 1]
    ELSE [p EXCEPT !.limit = IF @ > 0 THEN @ - 1 ELSE @, !.made = @ + 1]

(* Mutant: the space is given back only when it is the last one.            *)
PutSpaceLost(p) == IF p.have = 0 THEN [p EXCEPT !.have = 1] ELSE p

PutSpace(p) == [p EXCEPT !.have = @ + 1]

InLimit(f) == IF f.op = "compress" THEN f.blocks ELSE f.blocks \div 2
OutLimit(f) == IF f.op = "compress" THEN f.blocks \div 2 + 1 ELSE f.blocks

-----------------------------------------------------------------------------
(* Threads: yarnLaunch, yarnReenter, yarnJoin, yarnJoinAll.  The order of   *)
(* the list decides only which thread of several that are done is joined    *)
(* first; here any may be.                                                  *)
Launched(t) == threads \cup {t}

(* yarnReenter: mark the thread as done, and tell yarnJoinAll.              *)
Reenter(t) ==
    /\ Go(t, "reenter", "gone")
    /\ done' = done \cup {t} /\ threads' = threads
    /\ exited' = exited + 1

ThreadExits(t) ==
    /\ Reenter(t)
    /\ UNCHANGED <<inp, outp, queueVars, mainVars, writeVars, job>>

(* Mutant: yarnJoin does not count down.                                    *)
JoinedKeptCount(t) == exited

(* if (match->done) threads_lock.value--;                                   *)
Joined(t) == IF t \in done THEN exited - 1 ELSE exited

-----------------------------------------------------------------------------
(* The job queues: rpmzqAddCJob, rpmzqDelCJob, rpmzqAddWJob, rpmzqDelWJob.  *)
AddCJob(j) == fifo' = Append(fifo, j) /\ fifoHave' = fifoHave + 1

(* Mutant: jobs are written in the order they are finished.                 *)
InsertedLast(list, j) == Append(list, j)

(* The place before the first job with a higher number.                     *)
Inserted(list, j) ==
    LET higher == {n \in DOMAIN list : list[n].seq > j.seq}
        place == CHOOSE n \in 1..Len(list) + 1 :
                    IF higher = {} THEN n = Len(list) + 1
                    ELSE n \in higher /\ \A m \in higher : n <= m
    IN [n \in 1..Len(list) + 1 |->
          IF n < place THEN list[n] ELSE IF n = place THEN j ELSE list[n - 1]]

AddWJob(j) == seq' = Inserted(seq, j) /\ seqFirst' = Inserted(seq, j)[1].seq

(* What yarnTwist sets the lock to when the head has been taken.             *)
FirstAfter(list) == IF list = <<>> THEN -1 ELSE list[1].seq

-----------------------------------------------------------------------------
(* The main thread: rpmzProcess, rpmzParallelCompress,                      *)
(* rpmzParallelDecompress.                                                  *)
NoFile == [op |-> "none"]

Init ==
    /\ file = NoFile /\ nfile = 0
    /\ inp = NewPool(0) /\ outp = NewPool(0)
    /\ fifo = <<>> /\ fifoHave = 0 /\ seq = <<>> /\ seqFirst = -1
    /\ threads = {} /\ done = {} /\ exited = 0
    /\ pc = [t \in Workers \cup {Writer, "main"} |-> IF t = "main" THEN "file" ELSE "none"]
    /\ mseq = 0 /\ more = TRUE /\ cthreads = 0 /\ caught = 0
    /\ wseq = 0 /\ wjob = NoJob /\ written = <<>>
    /\ job = [w \in Workers |-> NoJob]

(* rpmzqInit with the limits of the file, and the write thread is started.  *)
Begin(f) ==
    /\ At("main", "file") /\ nfile < MaxFiles
    /\ file' = f /\ nfile' = nfile + 1
    /\ inp' = NewPool(InLimit(f)) /\ outp' = NewPool(OutLimit(f))
    /\ fifo' = <<>> /\ fifoHave' = 0 /\ seq' = <<>> /\ seqFirst' = -1
    /\ threads' = Launched(Writer)
    /\ pc' = [pc EXCEPT !["main"] = "space", ![Writer] = "take"]
    /\ mseq' = 0 /\ more' = TRUE /\ caught' = 0
    /\ wseq' = 0 /\ wjob' = NoJob /\ written' = <<>>
    /\ UNCHANGED <<done, exited, cthreads, job>>

(* lseek fails: the loop is left, with the threads running.                 *)
SeekFails ==
    /\ At("main", "space") /\ file.op = "decompress" /\ mseq = file.seekfail
    /\ Go("main", "space", "fini")
    /\ UNCHANGED <<inp, outp, queueVars, yarnVars, mainVars, writeVars, job>>

(* rpmzqNewSpace of the input pool, and the block is read into it.          *)
ReadBlock ==
    /\ At("main", "space") /\ (file.op = "decompress" => mseq # file.seekfail)
    /\ CanGet(inp) /\ inp' = GetSpace(inp)
    /\ Go("main", "space", IF file.op = "compress" THEN "more"
                           ELSE IF mseq \in file.big THEN "toobig" ELSE "launch")
    /\ more' = (mseq + 1 < file.blocks)
    /\ UNCHANGED <<outp, queueVars, yarnVars, writeVars, job, file, nfile, mseq, cthreads, caught>>

(* The block does not fit: its space is dropped for one outside the pool.   *)
DropSmall ==
    /\ Go("main", "toobig", "launch")
    /\ inp' = PutSpace(inp)
    /\ UNCHANGED <<outp, queueVars, yarnVars, mainVars, writeVars, job>>

(* Compression knows that a block is the last when it does not fill its     *)
(* space; otherwise it reads ahead, which takes another space.              *)
LastIsShort ==
    /\ At("main", "more") /\ mseq + 1 = file.blocks /\ ~file.full
    /\ Go("main", "more", "launch")
    /\ UNCHANGED <<inp, outp, queueVars, yarnVars, mainVars, writeVars, job>>

ReadAhead ==
    /\ At("main", "more") /\ (mseq + 1 < file.blocks \/ file.full)
    /\ CanGet(inp) /\ inp' = GetSpace(inp)
    /\ Go("main", "more", IF more THEN "launch" ELSE "unread")
    /\ UNCHANGED <<outp, queueVars, yarnVars, mainVars, writeVars, job>>

(* End of file: "won't be using it".                                        *)
DropUnread ==
    /\ Go("main", "unread", "launch")
    /\ inp' = PutSpace(inp)
    /\ UNCHANGED <<outp, queueVars, yarnVars, mainVars, writeVars, job>>

Idle == {w \in Workers : At(w, "none")}

(* rpmzqLaunch: another worker, while there are fewer than jobs and than    *)
(* zq->threads.  mseq has already counted this block.                       *)
Launch ==
    /\ At("main", "launch")
    /\ mseq' = mseq + 1
    /\ IF cthreads < mseq' /\ cthreads < Cardinality(Workers)
       THEN \E w \in Idle :
               /\ threads' = Launched(w) /\ cthreads' = cthreads + 1
               /\ pc' = [pc EXCEPT !["main"] = "add", ![w] = "get"]
       ELSE Go("main", "launch", "add") /\ UNCHANGED <<threads, cthreads>>
    /\ UNCHANGED <<inp, outp, queueVars, done, exited, writeVars, job, file, nfile, more, caught>>

AddJob ==
    /\ At("main", "add")
    /\ AddCJob(Job(mseq - 1, mseq - 1 \notin file.big))
    /\ Go("main", "add", IF ~more THEN "join"
                         ELSE IF file.op = "compress" THEN "more" ELSE "space")
    /\ more' = IF file.op = "compress" THEN mseq + 1 < file.blocks ELSE more
    /\ UNCHANGED <<inp, outp, seq, seqFirst, yarnVars, writeVars, job, file, nfile, mseq, cthreads, caught>>

(* yarnJoin of the write thread.                                            *)
JoinWriter ==
    /\ At("main", "join") /\ At(Writer, "gone")
    /\ pc' = [pc EXCEPT !["main"] = "fini", ![Writer] = "none"]
    /\ exited' = Joined(Writer) /\ threads' = threads \ {Writer} /\ done' = done \ {Writer}
    /\ UNCHANGED <<inp, outp, queueVars, mainVars, writeVars, job>>

(* rpmzqFini: the job that stops the workers takes the place of the list.   *)
StopWorkers ==
    /\ Go("main", "fini", "joinall")
    /\ fifo' = <<Job(Stop, TRUE)>> /\ fifoHave' = fifoHave + 1
    /\ UNCHANGED <<inp, outp, seq, seqFirst, yarnVars, mainVars, writeVars, job>>

(* One turn of yarnJoinAll: a thread marked done; fail(EINVAL) without one. *)
JoinOne ==
    /\ At("main", "joinall") /\ exited # 0
    /\ \E t \in done :
        /\ pc' = [pc EXCEPT ![t] = "none"]
        /\ threads' = threads \ {t} /\ done' = done \ {t}
    /\ exited' = exited - 1 /\ caught' = caught + 1
    /\ UNCHANGED <<inp, outp, queueVars, writeVars, job, file, nfile, mseq, more, cthreads>>

AllJoined ==
    /\ threads = {}
    /\ Go("main", "joinall", "free")
    /\ UNCHANGED <<inp, outp, queueVars, yarnVars, mainVars, writeVars, job>>

(* rpmzqFreePool of both pools, and the queues are freed.                   *)
FreePools ==
    /\ Go("main", "free", "file")
    /\ cthreads' = 0
    /\ UNCHANGED <<inp, outp, queueVars, yarnVars, writeVars, job, file, nfile, mseq, more, caught>>

-----------------------------------------------------------------------------
(* A worker: rpmzqCompressThread, rpmzqDecompressThread.                    *)
GetJob(w) ==
    /\ At(w, "get") /\ fifoHave # 0
    /\ fifo # <<>>                   \* assert(job != NULL)
    /\ IF fifo[1].seq = Stop
       THEN Go(w, "get", "reenter") /\ UNCHANGED <<fifo, fifoHave, job>>
       ELSE /\ Go(w, "get", "out")
            /\ job' = [job EXCEPT ![w] = fifo[1]]
            /\ fifo' = Tail(fifo) /\ fifoHave' = fifoHave - 1
    /\ UNCHANGED <<inp, outp, seq, seqFirst, yarnVars, mainVars, writeVars>>

(* rpmzqFillOut: a space of the output pool, which the block fits or not.   *)
Fits(j) == j.seq \notin file.grows

GetOut(w) ==
    /\ At(w, "out") /\ CanGet(outp)
    /\ outp' = GetSpace(outp)
    /\ Go(w, "out", IF Fits(job[w]) THEN "put" ELSE "grow")
    /\ job' = [job EXCEPT ![w].out = TRUE]
    /\ UNCHANGED <<inp, queueVars, yarnVars, mainVars, writeVars>>

(* The space is smaller than six times the input, or BZ2 finds it full: it  *)
(* is dropped for one from xcalloc, which has no lock, and which is freed   *)
(* for a larger one until the contents fit.                                 *)
Grow(w) ==
    /\ Go(w, "grow", "put")
    /\ outp' = PutSpace(outp)
    /\ job' = [job EXCEPT ![w].out = FALSE]
    /\ UNCHANGED <<inp, queueVars, yarnVars, mainVars, writeVars>>

PutJob(w) ==
    /\ Go(w, "put", "get")
    /\ AddWJob(job[w])
    /\ job' = [job EXCEPT ![w] = NoJob]
    /\ UNCHANGED <<inp, outp, fifo, fifoHave, yarnVars, mainVars, writeVars>>

-----------------------------------------------------------------------------
(* The write thread: write_thread.                                          *)

(* Mutant: any job will do.                                                 *)
MyTurnAny == seqFirst # -1

(* yarnWaitFor(first, TO_BE, seq)                                           *)
MyTurn == seqFirst = wseq

TakeJob ==
    /\ At(Writer, "take") /\ MyTurn
    /\ seq # <<>>                    \* assert(job != NULL)
    /\ Go(Writer, "take", "dropin")
    /\ wjob' = seq[1]
    /\ seq' = Tail(seq) /\ seqFirst' = FirstAfter(Tail(seq))
    /\ UNCHANGED <<inp, outp, fifo, fifoHave, yarnVars, mainVars, wseq, written, job>>

DropIn ==
    /\ Go(Writer, "dropin", "write")
    /\ inp' = IF wjob.in THEN PutSpace(inp) ELSE inp
    /\ UNCHANGED <<outp, queueVars, yarnVars, mainVars, writeVars, job>>

MoreToWrite == wseq + 1 < file.blocks

(* The block is written and rpmzqDropSpace possesses the lock of the space. *)
WriteBlock ==
    /\ At(Writer, "write") /\ wjob.out
    /\ Go(Writer, "write", IF MoreToWrite THEN "take" ELSE "verify")
    /\ written' = Append(written, wjob.seq)
    /\ outp' = PutSpace(outp)
    /\ wseq' = wseq + 1 /\ wjob' = NoJob
    /\ UNCHANGED <<inp, queueVars, yarnVars, mainVars, job>>

(* A space from xcalloc has no lock: yarnPossess(NULL) ends the program.    *)
DropNull ==
    /\ At(Writer, "write") /\ ~wjob.out
    /\ written' = Append(written, wjob.seq)
    /\ pc' = [t \in DOMAIN pc |-> "crashed"]
    /\ UNCHANGED <<inp, outp, queueVars, yarnVars, mainVars, wseq, wjob, job>>

(* rpmzqVerify: an assertion that fails ends the program as well.           *)
QueuesEmpty == fifo = <<>> /\ fifoHave = 0 /\ seq = <<>> /\ seqFirst = -1

Verify ==
    /\ At(Writer, "verify")
    /\ pc' = IF QueuesEmpty THEN [pc EXCEPT ![Writer] = "reenter"]
             ELSE [t \in DOMAIN pc |-> "crashed"]
    /\ UNCHANGED <<inp, outp, queueVars, yarnVars, mainVars, writeVars, job>>

-----------------------------------------------------------------------------
Main ==
    \/ SeekFails \/ ReadBlock \/ DropSmall \/ LastIsShort \/ ReadAhead
    \/ DropUnread \/ Launch \/ AddJob \/ JoinWriter
    \/ StopWorkers \/ JoinOne \/ AllJoined \/ FreePools

Work(w) == GetJob(w) \/ GetOut(w) \/ Grow(w) \/ PutJob(w) \/ ThreadExits(w)

Write == TakeJob \/ DropIn \/ WriteBlock \/ DropNull \/ Verify \/ ThreadExits(Writer)

Finished == At("main", "file") /\ nfile = MaxFiles /\ UNCHANGED vars

Next ==
    \/ \E f \in FileKinds : Begin(f)
    \/ Main \/ Write \/ Finished
    \/ \E w \in Workers : Work(w)

Spec == Init /\ [][Next]_vars

(* The system runs every thread that can run.                               *)
FairSpec ==
    Spec /\ WF_vars(Main) /\ WF_vars(Write) /\ \A w \in Workers : WF_vars(Work(w))

-----------------------------------------------------------------------------
Places == {"file", "space", "toobig", "more", "unread", "launch", "add", "join",
           "fini", "joinall", "free", "none", "get", "out", "grow", "put", "take",
           "dropin", "write", "verify", "reenter", "gone", "crashed"}

Jobs == [seq : Int, in : BOOLEAN, out : BOOLEAN]

Pools == [have : Nat, limit : Nat, made : Nat]

(* Counts stay counts: no pool or lock goes below zero, and yarnJoinAll     *)
(* never finds fewer threads done than the lock says (fail(EINVAL)).        *)
TypeOK ==
    /\ file \in FileKinds \cup {NoFile} /\ nfile \in 0..MaxFiles
    /\ inp \in Pools /\ outp \in Pools
    /\ fifo \in Seq(Jobs) /\ fifoHave \in Nat /\ seq \in Seq(Jobs) /\ seqFirst \in Int
    /\ pc \in [Workers \cup {Writer, "main"} -> Places]
    /\ done \subseteq threads /\ threads \subseteq Workers \cup {Writer}
    /\ exited = Cardinality(done)
    /\ mseq \in Nat /\ more \in BOOLEAN
    /\ cthreads \in Nat /\ caught \in Nat /\ wseq \in Nat
    /\ job \in [Workers -> Jobs \cup {NoJob}] /\ wjob \in Jobs \cup {NoJob}
    /\ written \in Seq(Int)

(* "collect the write jobs off of the list in sequence order and write out  *)
(* the compressed data until the last chunk is written" (write_thread): the *)
(* output is always a beginning of the file, and the whole file when the    *)
(* main thread has joined the write thread.                                 *)
WrittenInOrder ==
    /\ \A n \in 1..Len(written) : written[n] = n - 1
    /\ At("main", "fini") /\ Writer \notin threads => Len(written) = file.blocks

(* rpmzqFini: every worker that was launched came back, once ("verify they  *)
(* all came back"), and every space is back in its pool (count == made).    *)
AllReturned ==
    At("main", "free") =>
        /\ caught = cthreads
        /\ inp.have = inp.made /\ outp.have = outp.made

-----------------------------------------------------------------------------
(* The inductive invariant.  First where the threads are: in the list until *)
(* they are joined, done when they have marked themselves, unless the       *)
(* program has ended.                                                       *)
Crashed == pc["main"] = "crashed"
Working == pc["main"] \notin {"file", "crashed"}

ThreadsKnown ==
    IF Crashed THEN \A t \in DOMAIN pc : pc[t] = "crashed"
    ELSE /\ pc["main"] \in {"file", "space", "toobig", "more", "unread", "launch", "add",
                            "join", "fini", "joinall", "free"}
         /\ \A w \in Workers :
               pc[w] \in {"none", "get", "out", "grow", "put", "reenter", "gone"}
         /\ pc[Writer] \in {"none", "take", "dropin", "write", "verify", "reenter", "gone"}
         /\ threads = {t \in Workers \cup {Writer} : pc[t] # "none"}
         /\ done = {t \in Workers \cup {Writer} : pc[t] = "gone"}
         /\ pc["main"] \in {"file", "free"} => threads = {}

(* The main thread has read a beginning of the file, and joins the writer   *)
(* when that is all of it.                                                  *)
MainKnown ==
    Working =>
        /\ file \in FileKinds /\ mseq <= file.blocks
        /\ pc["main"] \in {"space", "toobig", "more", "unread", "launch"} => mseq < file.blocks
        /\ pc["main"] \in {"toobig", "more", "unread", "launch"} =>
              (more <=> mseq + 1 < file.blocks)
        /\ pc["main"] = "space" /\ file.op = "compress" => mseq = 0
        /\ pc["main"] \in {"more", "unread"} => file.op = "compress"
        /\ pc["main"] = "unread" => ~more
        /\ pc["main"] = "toobig" => file.op = "decompress" /\ mseq \in file.big
        /\ pc["main"] = "add" => mseq > 0 /\ (more <=> mseq < file.blocks)
        /\ pc["main"] = "join" => mseq = file.blocks
        /\ IF pc["main"] \in {"fini", "joinall", "free"} /\ pc[Writer] = "none"
           THEN wseq = file.blocks /\ mseq = file.blocks
           ELSE pc[Writer] # "none"
                  /\ (pc["main"] \in {"fini", "joinall", "free"} => mseq < file.blocks)

(* The writer has written a beginning of the file, and then takes the next  *)
(* block, whose job says truly whether its space came from the pool.        *)
Truly(j) == j \in Jobs /\ (j.in <=> j.seq \notin file.big)

WriterHas == pc[Writer] \in {"dropin", "write"}

WriterKnown ==
    /\ \A n \in 1..Len(written) : written[n] = n - 1
    /\ Working =>
        /\ Len(written) = wseq /\ seqFirst = FirstAfter(seq)
        /\ pc[Writer] \in {"take", "dropin", "write"} => wseq < file.blocks
        /\ pc[Writer] \in {"verify", "reenter", "gone"} => wseq = file.blocks
        /\ WriterHas => Truly(wjob) /\ wjob.seq = wseq

(* The jobs: as many are under way as blocks were queued and not written,   *)
(* or fewer where the list was replaced by the job that stops the workers.  *)
HasJob(w) == pc[w] \in {"out", "grow", "put"}

Holders == {w \in Workers : HasJob(w)}

Stopping == pc["main"] \in {"joinall", "free"}

Queued == IF pc["main"] = "add" THEN mseq - 1 ELSE mseq

Count(b) == IF b THEN 1 ELSE 0

JobsKnown ==
    Working =>
        /\ \A n \in DOMAIN fifo : Truly(fifo[n]) /\ ~fifo[n].out
        /\ Stopping => \A n \in DOMAIN fifo : fifo[n].seq = Stop
        /\ \A n \in DOMAIN seq : Truly(seq[n])
        /\ \A w \in Workers : HasJob(w) =>
              /\ Truly(job[w]) /\ (pc[w] = "grow" => ~Fits(job[w]))
              /\ job[w].out <=> pc[w] # "out" /\ (pc[w] = "put" => Fits(job[w]))
        /\ (IF Stopping THEN 0 ELSE Len(fifo)) + Cardinality(Holders)
             + Len(seq) + Count(WriterHas) <= Queued - wseq

(* The spaces made are in the pool or in use: input spaces by the main      *)
(* thread and the blocks not yet dropped by the writer, output spaces by    *)
(* the jobs that have one.                                                  *)
MainHolds ==
    IF pc["main"] = "more" THEN 1
    ELSE IF pc["main"] = "unread" THEN 2
    ELSE IF pc["main"] = "toobig" THEN 1
    ELSE IF pc["main"] \in {"launch", "add"}
         THEN IF file.op = "compress" THEN IF more THEN 2 ELSE 1
              ELSE Count(Queued \notin file.big)
    ELSE 0

Undropped ==
    {n \in wseq + Count(pc[Writer] = "write")..Queued - 1 : n \notin file.big}

InputsKnown == Working => inp.made = inp.have + MainHolds + Cardinality(Undropped)

OutHolders == {w \in Holders : job[w].out}

WithOut(list) == {n \in DOMAIN list : list[n].out}

OutputsKnown ==
    Working =>
        outp.made = outp.have + Cardinality(OutHolders) + Cardinality(WithOut(seq))
                     + Count(WriterHas /\ wjob.out)

(* The workers launched for a file are at work or were joined.              *)
AtWork == {w \in Workers : pc[w] # "none"}

WorkersKnown ==
    IF Working THEN cthreads = caught + Cardinality(AtWork)
    ELSE ~Crashed => cthreads = 0

ZqInv ==
    TypeOK /\ ThreadsKnown /\ MainKnown /\ WriterKnown /\ JobsKnown /\ InputsKnown
    /\ OutputsKnown /\ WorkersKnown

-----------------------------------------------------------------------------
(* The spaces suffice: a compressed file of one block leaves room to read   *)
(* ahead, and the blocks finished early do not take every output space.     *)
Roomy(f) ==
    /\ f.grows = {} /\ f.seekfail >= f.blocks
    /\ f.op = "compress" =>
          /\ f.blocks = 1 => ~f.full
          /\ Cardinality(Workers) > 1 => f.blocks - 1 < OutLimit(f)

(* Every file whose blocks find room is compressed or decompressed, and its *)
(* threads are joined.                                                      *)
RoomyFilesFinish ==
    \A f \in FileKinds : Roomy(f) =>
        (At("main", "space") /\ file = f ~> At("main", "file"))

(* Every file is.                                                           *)
EveryFileFinishes == At("main", "space") ~> At("main", "file")
=============================================================================
