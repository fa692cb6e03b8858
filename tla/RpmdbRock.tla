------------------------------ MODULE RpmdbRock ------------------------------
(***************************************************************************)
(* Open databases, iterators and termination signals of rpmdb/rpmdb.c.     *)
(*                                                                         *)
(* Every open rpmdb is chained on rpmdbRock and every iterator on          *)
(* rpmmiRock, so that an exit on a signal can close them.  The first open  *)
(* installs the signal handlers and the last close removes them; a caught  *)
(* signal only sets a bit, which rpmdbCheckSignals looks at.  That check   *)
(* is called from the destructors that the cleanup itself calls, so calls  *)
(* nest: calls is the stack of what the running functions still have to    *)
(* do, its first element next.                                             *)
(***************************************************************************)
EXTENDS Integers, Sequences, FiniteSets

CONSTANTS Dbs, Mis,   \* rpmdb and rpmmi objects of the pools
          NoDb,       \* NULL
          MaxLinks    \* bound: references a program has to one database

ASSUME RockAssumption ==
    /\ NoDb \notin Dbs /\ IsFiniteSet(Mis)
    /\ MaxLinks \in Nat /\ MaxLinks >= 1

VARIABLES
    rpmdbRock,   \* chain of databases, the newest first
    rpmmiRock,   \* chain of iterators
    refs,        \* [Dbs -> value of db->_item.use]
    open,        \* [Dbs -> the database has open indices (db->_dbi)]
    handles,     \* [Dbs -> references the program itself has]
    miDb,        \* [Mis -> mi->mi_db]
    live,        \* iterators that exist
    cursor,      \* iterators with an open cursor (mi->mi_dbc)
    active,      \* rpmsigTbl active count of the five termination signals
    caught,      \* a termination signal is in rpmsqCaught
    pending,     \* one is pending, because it is blocked
    blocked,     \* the signal mask blocks all signals
    terminating, \* the static flag of rpmdbCheckTerminate
    calls,       \* what the active functions still have to do
    exited       \* exit() was called

chains  == <<rpmdbRock, rpmmiRock>>
dbVars  == <<refs, open, handles>>
miVars  == <<miDb, live, cursor>>
sigVars == <<active, caught, pending, blocked>>
vars == <<chains, dbVars, miVars, sigVars, terminating, calls, exited>>

Init ==
    /\ rpmdbRock = <<>> /\ rpmmiRock = <<>>
    /\ refs = [d \in Dbs |-> 0]
    /\ open = [d \in Dbs |-> FALSE]
    /\ handles = [d \in Dbs |-> 0]
    /\ miDb = [m \in Mis |-> NoDb]
    /\ live = {} /\ cursor = {}
    /\ active = 0
    /\ caught = FALSE /\ pending = FALSE /\ blocked = FALSE
    /\ terminating = FALSE
    /\ calls = <<>>
    /\ exited = FALSE

(* Mutant: the element stays on the chain.                                 *)
WithoutNothing(chain, x) == chain

InChain(chain) == {chain[n] : n \in 1..Len(chain)}

(* The loops that unlink an element from its chain, if it is there.        *)
Without(chain, x) ==
    IF x \in InChain(chain)
    THEN LET at == CHOOSE n \in 1..Len(chain) : chain[n] = x
         IN  [n \in 1..(Len(chain) - 1) |-> IF n < at THEN chain[n] ELSE chain[n + 1]]
    ELSE chain

(* Mutant: the iterator uses the caller's reference.                       *)
LinkedNot(d) == refs

(* rpmdbLink, which is rpmioLinkPoolItem.                                  *)
Linked(d) == [refs EXCEPT ![d] = @ + 1]

(* if (yarnPeekLock(db->_item.use) <= 1L)                                  *)
LastRef(d) == refs[d] <= 1

(* Mutant: every open, every close.                                        *)
NobodyOnEvery(dbs) == TRUE

(* if (rpmdbRock == NULL && rpmmiRock == NULL)                             *)
NobodyOn(dbs) == dbs = <<>> /\ rpmmiRock = <<>>

-----------------------------------------------------------------------------
(* A termination signal arrives: the handler sets its bit in rpmsqCaught,  *)
(* unless signals are blocked or the handler is not installed, when the    *)
(* process dies without a cleanup (that is the kernel's doing).            *)
SignalArrives ==
    /\ ~exited /\ active > 0
    /\ pending' = (pending \/ blocked)
    /\ caught' = (caught \/ ~blocked)
    /\ UNCHANGED <<chains, dbVars, miVars, active, blocked, terminating, calls, exited>>

(* sigprocmask with the old mask delivers what is pending.                 *)
RestoreMask ==
    /\ blocked' = FALSE /\ pending' = FALSE
    /\ caught' = (caught \/ pending)

-----------------------------------------------------------------------------
(* Calls of the program.                                                   *)

Idle == calls = <<>> /\ ~exited

(* rpmdbOpenDatabase: the first open installs the handlers, and rpmsqEnable *)
(* forgets what was caught before.  ok: the Packages index could be opened. *)
Open(d, ok) ==
    /\ Idle
    /\ refs[d] = 0 /\ ~open[d]
    /\ IF NobodyOn(rpmdbRock)
       THEN active' = active + 1 /\ caught' = (caught /\ active > 0)
       ELSE UNCHANGED <<active, caught>>
    /\ rpmdbRock' = <<d>> \o rpmdbRock
    /\ refs' = [refs EXCEPT ![d] = 1]
    /\ open' = [open EXCEPT ![d] = ok]
    /\ handles' = [handles EXCEPT ![d] = IF ok THEN 1 ELSE 0]
    /\ calls' = IF ok THEN <<>> ELSE << <<"rpmdbClose", d>> >>
    /\ UNCHANGED <<rpmmiRock, miVars, pending, blocked, terminating, exited>>

LinkDb(d) ==
    /\ Idle
    /\ handles[d] \in 1..(MaxLinks - 1)
    /\ handles' = [handles EXCEPT ![d] = @ + 1]
    /\ refs' = Linked(d)
    /\ UNCHANGED <<chains, open, miVars, sigVars, terminating, calls, exited>>

CloseDb(d) ==
    /\ Idle
    /\ handles[d] > 0
    /\ handles' = [handles EXCEPT ![d] = @ - 1]
    /\ calls' = << <<"rpmdbClose", d>> >>
    /\ UNCHANGED <<chains, refs, open, miVars, sigVars, terminating, exited>>

(* rpmmiInit checks for signals before it makes the iterator.              *)
InitMi(m, d, matches) ==
    /\ Idle
    /\ handles[d] > 0 /\ m \notin live
    /\ calls' = << <<"rpmdbCheckSignals">>, <<"rpmmiInit", m, d, matches>> >>
    /\ UNCHANGED <<chains, dbVars, miVars, sigVars, terminating, exited>>

(* rpmmiNext opens the cursor of the iterator.                             *)
NextMi(m) ==
    /\ Idle
    /\ m \in live \ cursor
    /\ cursor' = cursor \cup {m}
    /\ UNCHANGED <<chains, dbVars, miDb, live, sigVars, terminating, calls, exited>>

FreeMi(m) ==
    /\ Idle
    /\ m \in live
    /\ calls' = << <<"rpmmiFini", m>> >>
    /\ UNCHANGED <<chains, dbVars, miVars, sigVars, terminating, exited>>

(* rpmdbAdd, rpmdbRemove: blockSignals, the puts, unblockSignals.          *)
Update(d) ==
    /\ Idle
    /\ handles[d] > 0
    /\ blocked' = TRUE
    /\ calls' = << <<"rpmdbCheckSignals">>, <<"restoreMask">> >>
    /\ UNCHANGED <<chains, dbVars, miVars, active, caught, pending, terminating, exited>>

(* rpmdbCheckTerminate(1), from the exit hook and rpmts_Die of python.     *)
Terminate ==
    /\ Idle
    /\ ~terminating
    /\ blocked' = TRUE /\ terminating' = TRUE
    /\ calls' = << <<"freeIterators">>, <<"restoreMask">> >>
    /\ UNCHANGED <<chains, dbVars, miVars, active, caught, pending, exited>>

-----------------------------------------------------------------------------
(* The functions of rpmdb.c, one call at a time.                           *)

Op == calls[1][1]
Arg == calls[1][2]
Pending(op) == ~exited /\ calls # <<>> /\ Op = op

Continue(more) == calls' = more \o Tail(calls)

(* rpmdbCheckSignals: rpmdbCheckTerminate(0), and exit if it returns 1.    *)
CheckSignals ==
    /\ Pending("rpmdbCheckSignals")
    /\ exited' = terminating
    /\ terminating' = (terminating \/ caught)
    /\ blocked' = (blocked \/ (caught /\ ~terminating))
    /\ IF caught /\ ~terminating
       THEN Continue(<< <<"freeIterators">>, <<"exit">> >>)
       ELSE Continue(<<>>)
    /\ UNCHANGED <<chains, dbVars, miVars, active, caught, pending>>

(* The loops of rpmdbCheckTerminate take each element off its chain first. *)
FreeIterators ==
    /\ Pending("freeIterators")
    /\ rpmmiRock # <<>>
    /\ rpmmiRock' = Tail(rpmmiRock)
    /\ Continue(<< <<"rpmmiFini", rpmmiRock[1]>>, <<"freeIterators">> >>)
    /\ UNCHANGED <<rpmdbRock, dbVars, miVars, sigVars, terminating, exited>>

IteratorsFreed ==
    /\ Pending("freeIterators")
    /\ rpmmiRock = <<>>
    /\ Continue(<< <<"closeDatabases">> >>)
    /\ UNCHANGED <<chains, dbVars, miVars, sigVars, terminating, exited>>

CloseDatabases ==
    /\ Pending("closeDatabases")
    /\ rpmdbRock # <<>>
    /\ rpmdbRock' = Tail(rpmdbRock)
    /\ Continue(<< <<"rpmdbClose", rpmdbRock[1]>>, <<"closeDatabases">> >>)
    /\ UNCHANGED <<rpmmiRock, dbVars, miVars, sigVars, terminating, exited>>

DatabasesClosed ==
    /\ Pending("closeDatabases")
    /\ rpmdbRock = <<>>
    /\ Continue(<<>>)
    /\ UNCHANGED <<chains, dbVars, miVars, sigVars, terminating, exited>>

Exit ==
    /\ Pending("exit")
    /\ exited' = TRUE
    /\ UNCHANGED <<chains, dbVars, miVars, sigVars, terminating, calls>>

(* The end of unblockSignals and of rpmdbCheckTerminate.                   *)
MaskRestored ==
    /\ Pending("restoreMask")
    /\ RestoreMask
    /\ Continue(<<>>)
    /\ UNCHANGED <<chains, dbVars, miVars, active, terminating, exited>>

(* rpmmiInit proper: chain the iterator, then either it gets a reference   *)
(* to the database, or nothing matches a pattern (special case #4) and it  *)
(* is taken off the chain and freed with mi_db still NULL.                 *)
RpmmiInit ==
    /\ Pending("rpmmiInit")
    /\ LET m == Arg
           d == calls[1][3]
       IN IF calls[1][4]
          THEN /\ rpmmiRock' = <<m>> \o rpmmiRock
               /\ miDb' = [miDb EXCEPT ![m] = d]
               /\ live' = live \cup {m}
               /\ refs' = Linked(d)
               /\ Continue(<<>>)
          ELSE /\ Continue(<< <<"rpmmiFini", m>> >>)
               /\ UNCHANGED <<rpmmiRock, miDb, live, refs>>
    /\ UNCHANGED <<rpmdbRock, open, handles, cursor, sigVars, terminating, exited>>

(* rpmmiFini, the destructor of an iterator.                               *)
RpmmiFini ==
    /\ Pending("rpmmiFini")
    /\ rpmmiRock' = Without(rpmmiRock, Arg)
    /\ cursor' = cursor \ {Arg}
    /\ live' = live \ {Arg}
    /\ miDb' = [miDb EXCEPT ![Arg] = NoDb]
    /\ Continue((IF miDb[Arg] = NoDb THEN <<>> ELSE << <<"rpmdbClose", miDb[Arg]>> >>)
                \o << <<"rpmdbCheckSignals">> >>)
    /\ UNCHANGED <<rpmdbRock, dbVars, sigVars, terminating, exited>>

(* rpmdbClose of a reference that is not the last one.                     *)
DropRef ==
    /\ Pending("rpmdbClose")
    /\ ~LastRef(Arg)
    /\ refs' = [refs EXCEPT ![Arg] = @ - 1]
    /\ Continue(<<>>)
    /\ UNCHANGED <<chains, open, handles, miVars, sigVars, terminating, exited>>

(* Mutant: the last close does not look at the signals.                    *)
LastCloseQuiet == <<>>

(* rpmdbClose of the last reference; the last close removes the handlers,  *)
(* and "pending signals strike here".                                      *)
LastClose == << <<"rpmdbCheckSignals">> >>

CloseLast ==
    /\ Pending("rpmdbClose")
    /\ LastRef(Arg)
    /\ open' = [open EXCEPT ![Arg] = FALSE]
    /\ refs' = [refs EXCEPT ![Arg] = 0]
    /\ rpmdbRock' = Without(rpmdbRock, Arg)
    /\ IF NobodyOn(Without(rpmdbRock, Arg))
       THEN active' = active - 1 /\ Continue(LastClose)
       ELSE active' = active /\ Continue(<<>>)
    /\ UNCHANGED <<rpmmiRock, handles, miVars, caught, pending, blocked, terminating, exited>>

Call ==
    \/ CheckSignals \/ FreeIterators \/ IteratorsFreed \/ CloseDatabases
    \/ DatabasesClosed \/ Exit \/ MaskRestored \/ RpmmiInit \/ RpmmiFini
    \/ DropRef \/ CloseLast

(* After rpmdbCheckTerminate returned 1 the program may not use what it    *)
(* had; after exit() nothing happens.                                      *)
Over == (exited \/ (terminating /\ calls = <<>>)) /\ UNCHANGED vars

Program ==
    /\ ~terminating
    /\ \/ \E d \in Dbs, ok \in BOOLEAN : Open(d, ok)
       \/ \E d \in Dbs : LinkDb(d) \/ CloseDb(d) \/ Update(d)
       \/ \E m \in Mis, d \in Dbs, ok \in BOOLEAN : InitMi(m, d, ok)
       \/ \E m \in Mis : NextMi(m) \/ FreeMi(m)
       \/ Terminate

Next == Program \/ Call \/ SignalArrives \/ Over

Spec == Init /\ [][Next]_vars

-----------------------------------------------------------------------------
TypeOK ==
    /\ rpmdbRock \in Seq(Dbs) /\ rpmmiRock \in Seq(Mis)
    /\ refs \in [Dbs -> Nat] /\ handles \in [Dbs -> 0..MaxLinks]
    /\ open \in [Dbs -> BOOLEAN]
    /\ miDb \in [Mis -> Dbs \cup {NoDb}]
    /\ live \in SUBSET Mis /\ cursor \in SUBSET live
    /\ active \in {0, 1}
    /\ caught \in BOOLEAN /\ pending \in BOOLEAN /\ blocked \in BOOLEAN
    /\ terminating \in BOOLEAN /\ exited \in BOOLEAN

(* Between the calls of the program, the count of a database is its own    *)
(* handles and one for each iterator, and exactly the open databases and   *)
(* the existing iterators are on their chains, each once.                  *)
ChainsComplete ==
    calls = <<>> /\ ~terminating =>
        /\ \A d \in Dbs :
              refs[d] = handles[d] + Cardinality({m \in live : miDb[m] = d})
        /\ InChain(rpmdbRock) = {d \in Dbs : open[d]}
        /\ InChain(rpmmiRock) = live
        /\ Len(rpmdbRock) = Cardinality(InChain(rpmdbRock))
        /\ Len(rpmmiRock) = Cardinality(live)

(* No cursor outlives its database, also not in the middle of the nested   *)
(* cleanup: an iterator has a reference to a database that is open.        *)
CursorsInOpenDbs ==
    ~exited => \A m \in live : open[miDb[m]] /\ refs[miDb[m]] > 0

(* No call closes a database whose last reference is gone already, whether *)
(* the program, an iterator or rpmdbCheckTerminate drops it.               *)
NoDoubleClose ==
    ~exited /\ calls # <<>> /\ Op = "rpmdbClose" => refs[Arg] >= 1

(* A database is closed once, after the last of its iterators and cursors. *)
ClosedLast == CursorsInOpenDbs /\ NoDoubleClose

(* A termination signal that was caught is not forgotten: the next open    *)
(* clears rpmsqCaught, but the last close exits on it before.              *)
NoSignalForgotten == [][caught => caught']_vars

(* "Clean up any open iterators and databases on termination condition":   *)
(* when the process exits on a signal, or rpmdbCheckTerminate(1) is done,  *)
(* no database is left open.                                               *)
TerminationCleansUp ==
    exited \/ (terminating /\ calls = <<>>) =>
        live = {} /\ \A d \in Dbs : ~open[d]

-----------------------------------------------------------------------------
(* The inductive invariant, in parts.                                      *)

Frames ==
    {<<op>> : op \in {"rpmdbCheckSignals", "freeIterators", "closeDatabases", "exit", "restoreMask"}}
    \cup {<<"rpmdbClose", d>> : d \in Dbs} \cup {<<"rpmmiFini", m>> : m \in Mis}
    \cup {<<"rpmmiInit", m, d, ok>> : m \in Mis, d \in Dbs, ok \in BOOLEAN}

Under(op) == Len(calls) >= 2 /\ calls[2][1] = op

(* What can be under what: destructors are on top, a cleanup ends in exit  *)
(* or in the end of rpmdbCheckTerminate(1).                                *)
Stacked ==
    /\ calls \in Seq(Frames)
    /\ \A n \in 2..Len(calls) : calls[n][1] \notin {"rpmdbClose", "rpmmiFini"}
    /\ \A n \in 1..Len(calls) :
         /\ calls[n][1] \in {"rpmmiInit", "restoreMask"} => n = Len(calls)
         /\ calls[n][1] \in {"freeIterators", "closeDatabases"} =>
                n < Len(calls) /\ calls[n + 1][1] \in {"exit", "restoreMask"}
         /\ calls[n][1] \in {"freeIterators", "closeDatabases", "exit"} => terminating

(* The two halves of the cleanup, with the destructors they call.          *)
Freeing ==
    /\ calls # <<>>
    /\ \/ Op = "freeIterators"
       \/ Op = "rpmmiFini" /\ Under("freeIterators")
       \/ Op = "rpmdbClose" /\ Under("rpmdbCheckSignals")

Closing ==
    /\ calls # <<>>
    /\ \/ Op = "closeDatabases"
       \/ Op = "rpmdbClose" /\ Under("closeDatabases")

CleanupKnown ==
    /\ exited => terminating
    /\ terminating /\ ~exited /\ calls # <<>> =>
          Op \in {"rpmdbCheckSignals", "exit", "restoreMask"} \/ Freeing \/ Closing

(* Until the cleanup drops the references that others have, the count of a *)
(* database is its handles, its iterators and the close that is due.       *)
Counted == ~exited /\ (~terminating \/ Freeing)

Holding(d) == {m \in live : miDb[m] = d}

Due(d) == IF calls # <<>> /\ calls[1] = <<"rpmdbClose", d>> THEN 1 ELSE 0

RefsKnown ==
    Counted =>
        /\ \A d \in Dbs :
              /\ refs[d] = handles[d] + Cardinality(Holding(d)) + Due(d)
              /\ refs[d] > 0 => d \in InChain(rpmdbRock)
              /\ handles[d] > 0 => open[d]
              /\ open[d] => refs[d] > 0
              /\ refs[d] > 0 /\ ~open[d] => calls = << <<"rpmdbClose", d>> >>
        /\ active = 1 <=> rpmdbRock # <<>>

(* The second half of the cleanup: no iterator is left, and it closes each *)
(* database once, the handlers being installed until the last one.         *)
ClosingKnown ==
    terminating /\ ~exited /\ Closing =>
        /\ live = {}
        /\ rpmdbRock # <<>> \/ Op = "rpmdbClose" => active = 1
        /\ Op = "rpmdbClose" => refs[Arg] > 0 /\ Arg \notin InChain(rpmdbRock)

NoRepeats(chain) ==
    \A i, j \in 1..Len(chain) : chain[i] = chain[j] => i = j

ChainsKnown ==
    /\ NoRepeats(rpmdbRock) /\ NoRepeats(rpmmiRock)
    /\ \A d \in InChain(rpmdbRock) : refs[d] > 0
    /\ InChain(rpmmiRock) \subseteq live
    /\ \A m \in live \ InChain(rpmmiRock) : calls # <<>> /\ calls[1] = <<"rpmmiFini", m>>

MisKnown ==
    /\ \A m \in Mis : m \in live <=> miDb[m] # NoDb
    /\ ~terminating =>
          \A n \in 1..Len(calls) : calls[n][1] = "rpmmiInit" =>
              calls[n][2] \notin live /\ handles[calls[n][3]] > 0

(* When the handlers are gone, what they caught is looked at at once; only *)
(* rpmdbAdd and rpmdbRemove hold signals back.                             *)
SignalsKnown ==
    ~terminating =>
        /\ caught /\ active = 0 => calls # <<>> /\ Op = "rpmdbCheckSignals"
        /\ pending => blocked /\ active = 1
        /\ blocked =>
              /\ calls # <<>>
              /\ Op = "restoreMask" \/ (Op = "rpmdbCheckSignals" /\ Under("restoreMask"))

(* The chains, the references and the signals together: no count is wrong, *)
(* nothing is chained twice or not at all, at any depth of nested calls.   *)
RockInv ==
    /\ TypeOK /\ Stacked /\ CleanupKnown /\ RefsKnown /\ ClosingKnown
    /\ ChainsKnown /\ MisKnown /\ SignalsKnown /\ CursorsInOpenDbs
=============================================================================
