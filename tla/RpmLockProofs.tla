---------------------------- MODULE RpmLockProofs ----------------------------
(***************************************************************************)
(* Proofs about RpmLock, for any transaction sets, processes, packages and *)
(* commands: LockInv is inductive; the lock keeps a package from being     *)
(* installed twice, and what was checked in a consistent database leaves   *)
(* it consistent.                                                          *)
(***************************************************************************)
EXTENDS RpmLock, FiniteSetTheorems, TLAPS

-----------------------------------------------------------------------------
(* Lemmas about the first database and the packages of a command.           *)

(* The elements of a finite set, each once, as a sequence.                  *)
LEMMA SetAsSeq ==
  ASSUME NEW S, IsFiniteSet(S)
  PROVE  /\ Cardinality(S) \in Nat
         /\ SetToSeq(S) \in [1..Cardinality(S) -> S]
         /\ IsInjective(SetToSeq(S))
<1>1. Cardinality(S) \in Nat /\ ExistsBijection(1..Cardinality(S), S)
  BY FS_CardinalityType
<1>2. \E f \in [1..Cardinality(S) -> S] : IsInjective(f)
  BY <1>1 DEF ExistsBijection, Bijection, Injection
<1> QED
  BY <1>1, <1>2 DEF SetToSeq

(* The database a run starts from numbers its headers from one, and has no  *)
(* package twice.                                                           *)
LEMMA FirstDatabase ==
  ASSUME Init
  PROVE  /\ last \in Nat
         /\ db \subseteq [num : 1..last, pkg : Packages]
         /\ \A i, j \in db : i.pkg = j.pkg => i = j
<1>1. PICK S \in SUBSET Packages :
        LET q == SetToSeq(S) IN
           /\ db = {[num |-> i, pkg |-> q[i]] : i \in DOMAIN q}
           /\ last = Len(q)
  BY DEF Init
<1> DEFINE q == SetToSeq(S)
<1>2. IsFiniteSet(S)
  BY LockAssumption, FS_Subset
<1>3. PICK n \in Nat : q \in [1..n -> S] /\ IsInjective(q)
  BY <1>2, SetAsSeq
<1>4. DOMAIN q = 1..n /\ Len(q) = n
  BY <1>3
<1>5. db = {[num |-> i, pkg |-> q[i]] : i \in 1..n} /\ last = n
  BY <1>1, <1>4
<1>6. \A i \in 1..n : q[i] \in Packages
  BY <1>3
<1>7. \A i, j \in 1..n : q[i] = q[j] => i = j
  BY <1>3, <1>4 DEF IsInjective
<1> QED
  BY <1>5, <1>6, <1>7

(* A command adds its package or nothing.                                   *)
LEMMA AddedOne ==
  ASSUME TypeOK, NEW s \in Sets
  PROVE  /\ Added(s) \subseteq Packages
         /\ Added(s) = {} \/ Added(s) = {cmd[s].pkg}
         /\ Cardinality(Added(s)) \in {0, 1}
         /\ Added(s) # {} => Cardinality(Added(s)) = 1
<1>1. cmd[s].pkg \in Packages
  BY LockAssumption DEF TypeOK
<1>2. Added(s) = {} \/ Added(s) = {cmd[s].pkg}
  BY DEF Added
<1>3. Cardinality({}) = 0 /\ Cardinality({cmd[s].pkg}) = 1
  BY FS_EmptySet, FS_Singleton
<1> QED
  BY <1>1, <1>2, <1>3

(* What a command is to erase are headers of the database.                  *)
LEMMA ErasuresInDb ==
  ASSUME NEW s \in Sets
  PROVE  Erasures(s) \subseteq db
  BY DEF Erasures

-----------------------------------------------------------------------------
(* One lemma for each part of the invariant.                                *)

(* Every step keeps the types, and the lock with a set that will free it.   *)
LEMMA TypeStep == LockInv /\ [Next]_vars => TypeOK'
<1> SUFFICES ASSUME LockInv, [Next]_vars PROVE TypeOK'
  OBVIOUS
<1> USE LockAssumption
    DEF LockInv, TypeOK, LockPlaces, Held, At, Go, Over, Drop
<1>1. CASE UNCHANGED vars
  BY <1>1 DEF vars, setVars
<1>2. ASSUME NEW s \in Sets, Collect(s) PROVE TypeOK'
  <2>1. Erasures(s) \subseteq [num : 1..last, pkg : Packages]
    BY ErasuresInDb
  <2>2. PICK place \in {"open", "done", "check"} : pc' = [pc EXCEPT ![s] = place]
    BY <1>2 DEF Collect
  <2>3. sound' \in [Sets -> BOOLEAN]
    BY <1>2 DEF Collect, Consistent, Satisfied
  <2>4. /\ UNCHANGED <<db, last, file, holder, cmd, locked, bare>> /\ pc[s] = "idle"
        /\ erase' = [erase EXCEPT ![s] = Erasures(s)]
    BY <1>2 DEF Collect
  <2>5. erase' \in [Sets -> SUBSET [num : 1..last, pkg : Packages]]
    BY <2>1, <2>4
  <2>6. \A t \in Sets : locked[t] => pc'[t] \notin {"idle", "done"}
    BY <2>2, <2>4
  <2> QED
    BY <2>2, <2>3, <2>4, <2>5, <2>6
<1>3. ASSUME NEW s \in Sets, Step(s) PROVE TypeOK'
  <2>1. CASE Check(s)
    BY <2>1 DEF Check
  <2>2. CASE OpenLock(s)
    BY <2>2 DEF OpenLock
  <2>3. CASE TryLock(s)
    BY <2>3 DEF TryLock, Acquire
  <2>4. CASE TryFails(s)
    BY <2>4 DEF TryFails
  <2>5. CASE WaitLock(s)
    BY <2>5 DEF WaitLock, Acquire
  <2>6. CASE Sanity(s)
    BY <2>6 DEF Sanity, RefusedPlace
  <2>7. CASE Install(s)
    <3>1. Added(s) \subseteq Packages /\ Cardinality(Added(s)) \in {0, 1}
          /\ (Added(s) # {} => Cardinality(Added(s)) = 1)
      BY AddedOne
    <3>2. last' \in Nat /\ 1..last \subseteq 1..last'
      BY <2>7, <3>1 DEF Install
    <3>3. {[num |-> last + 1, pkg |-> p] : p \in Added(s)}
            \subseteq [num : 1..last', pkg : Packages]
      BY <2>7, <3>1, <3>2 DEF Install
    <3>4. db' \subseteq [num : 1..last', pkg : Packages]
      BY <2>7, <3>2, <3>3 DEF Install
    <3>5. erase' \in [Sets -> SUBSET [num : 1..last', pkg : Packages]]
      BY <2>7, <3>2 DEF Install
    <3>6. sound' \in [Sets -> BOOLEAN]
      BY <2>7 DEF Install, Disturbs
    <3> QED
      BY <2>7, <3>2, <3>4, <3>5, <3>6 DEF Install
  <2>8. CASE Erase(s)
    <3>1. PICK i \in erase[s] :
            /\ erase' = [erase EXCEPT ![s] = @ \ {i}]
            /\ \/ db' = db \ {i} /\ IF i \in db THEN Disturbs(s) ELSE UNCHANGED sound
               \/ MayFail /\ UNCHANGED <<db, sound>>
      BY <2>8 DEF Erase
    <3>2. sound' \in [Sets -> BOOLEAN]
      BY <3>1 DEF Disturbs
    <3>3. db' \subseteq db
      BY <3>1
    <3>4. erase' \in [Sets -> SUBSET [num : 1..last, pkg : Packages]]
      BY <3>1
    <3> QED
      BY <2>8, <3>2, <3>3, <3>4 DEF Erase
  <2>9. CASE Finish(s)
    BY <2>9 DEF Finish
  <2>10. CASE Release(s)
    BY <2>10 DEF Release
  <2>11. CASE CloseLock(s)
    BY <2>11 DEF CloseLock
  <2>12. CASE NoLock(s)
    BY <2>12 DEF NoLock
  <2> QED
    BY <1>3, <2>1, <2>2, <2>3, <2>4, <2>5, <2>6, <2>7, <2>8, <2>9, <2>10,
       <2>11, <2>12 DEF Step
<1>4. ASSUME NEW s \in Sets, Fault(s) PROVE TypeOK'
  <2>1. CASE WaitFails(s)
    BY <2>1 DEF WaitFails
  <2>2. CASE SetupFails(s)
    BY <2>2 DEF SetupFails
  <2>3. CASE InstallFails(s)
    BY <2>3 DEF InstallFails
  <2>4. CASE Die(s)
    BY <2>4 DEF Die
  <2> QED
    BY <1>4, <2>1, <2>2, <2>3, <2>4 DEF Fault
<1> QED
  BY <1>1, <1>2, <1>3, <1>4 DEF Next, Ended

(* A set has a lock only between rpmlock_acquire and rpmlock_free.          *)
LEMMA PlacesStep == LockInv /\ [Next]_vars => LockPlaces'
<1> SUFFICES ASSUME LockInv, [Next]_vars PROVE LockPlaces'
  OBVIOUS
<1> USE DEF LockInv, TypeOK, LockPlaces, Held, At, Go, Over
<1>1. CASE UNCHANGED vars
  BY <1>1 DEF vars, setVars
<1>2. ASSUME NEW s \in Sets, Collect(s) PROVE LockPlaces'
  BY <1>2 DEF Collect
<1>3. ASSUME NEW s \in Sets, Step(s) PROVE LockPlaces'
  BY <1>3 DEF Step, Check, OpenLock, TryLock, TryFails, WaitLock, Acquire, Sanity,
              RefusedPlace, Install, Erase, Finish, Release, CloseLock, NoLock
<1>4. ASSUME NEW s \in Sets, Fault(s) PROVE LockPlaces'
  BY <1>4 DEF Fault, WaitFails, SetupFails, InstallFails, Die
<1> QED
  BY <1>1, <1>2, <1>3, <1>4 DEF Next, Ended

(* A process without threads has one command at a time.                     *)
LEMMA AloneStep == LockInv /\ [Next]_vars => OneAtATime'
<1> SUFFICES ASSUME LockInv, [Next]_vars PROVE OneAtATime'
  OBVIOUS
<1> USE DEF LockInv, TypeOK, OneAtATime, At, Go, Over
<1>1. CASE UNCHANGED vars
  BY <1>1 DEF vars, setVars
<1>2. ASSUME NEW s \in Sets, Collect(s) PROVE OneAtATime'
  BY <1>2 DEF Collect, MayStart
<1>3. ASSUME NEW s \in Sets, Step(s) PROVE OneAtATime'
  <2>1. ~Over(s) /\ \A t \in Sets : t # s => pc'[t] = pc[t]
    BY <1>3 DEF Step, Check, OpenLock, TryLock, TryFails, WaitLock, Acquire, Sanity,
                RefusedPlace, Install, Erase, Finish, Release, CloseLock, NoLock
  <2> QED
    BY <2>1
<1>4. ASSUME NEW s \in Sets, Fault(s) PROVE OneAtATime'
  BY <1>4 DEF Fault, WaitFails, SetupFails, InstallFails, Die
<1> QED
  BY <1>1, <1>2, <1>3, <1>4 DEF Next, Ended

(* A set that runs under the lock has it, and no other process.             *)
LEMMA HeldStep == LockInv /\ [Next]_vars => HeldAlone'
<1> SUFFICES ASSUME LockInv, [Next]_vars PROVE HeldAlone'
  OBVIOUS
<1> USE LockAssumption
    DEF LockInv, TypeOK, LockPlaces, OneAtATime, HeldAlone, Held, At, Go, Over, Drop
<1>1. CASE UNCHANGED vars
  BY <1>1 DEF vars, setVars
<1>2. ASSUME NEW s \in Sets, Collect(s) PROVE HeldAlone'
  BY <1>2 DEF Collect
<1>3. ASSUME NEW s \in Sets, Step(s) PROVE HeldAlone'
  <2>1. CASE Check(s)
    BY <2>1 DEF Check
  <2>2. CASE OpenLock(s)
    BY <2>2 DEF OpenLock
  <2>3. CASE TryLock(s)
    BY <2>3 DEF TryLock, Acquire, Lockable
  <2>4. CASE TryFails(s)
    BY <2>4 DEF TryFails
  <2>5. CASE WaitLock(s)
    BY <2>5 DEF WaitLock, Acquire, Lockable
  <2>6. CASE Sanity(s)
    BY <2>6 DEF Sanity, RefusedPlace
  <2>7. CASE Install(s)
    BY <2>7 DEF Install
  <2>8. CASE Erase(s)
    BY <2>8 DEF Erase
  <2>9. CASE Finish(s)
    BY <2>9 DEF Finish
  <2>10. CASE Release(s)
    BY <2>10 DEF Release
  <2>11. CASE CloseLock(s)
    BY <2>11 DEF CloseLock
  <2>12. CASE NoLock(s)
    BY <2>12 DEF NoLock
  <2> QED
    BY <1>3, <2>1, <2>2, <2>3, <2>4, <2>5, <2>6, <2>7, <2>8, <2>9, <2>10,
       <2>11, <2>12 DEF Step
<1>4. ASSUME NEW s \in Sets, Fault(s) PROVE HeldAlone'
  BY <1>4 DEF Fault, WaitFails, SetupFails, InstallFails, Die
<1> QED
  BY <1>1, <1>2, <1>3, <1>4 DEF Next, Ended

(* Nobody else adds a package while a set runs under the lock.              *)
LEMMA MissingStep == LockInv /\ [Next]_vars => StillMissing'
<1> SUFFICES ASSUME LockInv, [Next]_vars PROVE StillMissing'
  OBVIOUS
<1> USE DEF LockInv, TypeOK, OneAtATime, HeldAlone, StillMissing, Held, At, Go, Over,
            Added, Installed
<1>1. CASE UNCHANGED vars
  BY <1>1 DEF vars, setVars
<1>2. ASSUME NEW s \in Sets, Collect(s) PROVE StillMissing'
  BY <1>2 DEF Collect
<1>3. ASSUME NEW s \in Sets, Step(s) PROVE StillMissing'
  <2>1. CASE Check(s)
    BY <2>1 DEF Check
  <2>2. CASE OpenLock(s)
    BY <2>2 DEF OpenLock
  <2>3. CASE TryLock(s)
    BY <2>3 DEF TryLock, Acquire
  <2>4. CASE TryFails(s)
    BY <2>4 DEF TryFails
  <2>5. CASE WaitLock(s)
    BY <2>5 DEF WaitLock, Acquire
  <2>6. CASE Sanity(s)
    BY <2>6 DEF Sanity, RefusedPlace, Problem
  <2>7. CASE Install(s)
    BY <2>7 DEF Install
  <2>8. CASE Erase(s)
    <3>1. db' \subseteq db /\ cmd' = cmd /\ pc' = pc /\ bare' = bare
      BY <2>8 DEF Erase
    <3> QED
      BY <3>1
  <2>9. CASE Finish(s)
    BY <2>9 DEF Finish
  <2>10. CASE Release(s)
    BY <2>10 DEF Release
  <2>11. CASE CloseLock(s)
    BY <2>11 DEF CloseLock
  <2>12. CASE NoLock(s)
    BY <2>12 DEF NoLock
  <2> QED
    BY <1>3, <2>1, <2>2, <2>3, <2>4, <2>5, <2>6, <2>7, <2>8, <2>9, <2>10,
       <2>11, <2>12 DEF Step
<1>4. ASSUME NEW s \in Sets, Fault(s) PROVE StillMissing'
  BY <1>4 DEF Fault, WaitFails, SetupFails, InstallFails, Die
<1> QED
  BY <1>1, <1>2, <1>3, <1>4 DEF Next, Ended

(* What is added is not there yet.                                          *)
LEMMA OnceStep == LockInv /\ [Next]_vars => Once'
<1> SUFFICES ASSUME LockInv, [Next]_vars, ~Threads, ~bare',
                    NEW i \in db', NEW j \in db', i.pkg = j.pkg
             PROVE  i = j
  BY DEF Once, NothingTwice
<1>1. ~bare
  BY DEF Next, Step, Fault, Ended, vars, Collect, Check, OpenLock, TryLock, TryFails,
         WaitLock, Acquire, Sanity, Install, Erase, Finish, Release, CloseLock, NoLock,
         WaitFails, SetupFails, InstallFails, Die
<1>2. CASE db' \subseteq db
  BY <1>1, <1>2 DEF LockInv, Once, NothingTwice
<1>3. ASSUME NEW s \in Sets, Install(s) PROVE i = j
  <2>1. db' = db \cup {[num |-> last + 1, pkg |-> p] : p \in Added(s)}
    BY <1>3 DEF Install
  <2>2. Added(s) \cap Installed(db) = {}
    BY <1>1, <1>3 DEF LockInv, StillMissing, Install
  <2>3. \A k \in db' : k \in db \/ (k.pkg \in Added(s) /\ k = [num |-> last + 1, pkg |-> k.pkg])
    BY <2>1
  <2>4. \A k \in db : k.pkg \notin Added(s)
    BY <2>2 DEF Installed
  <2> QED
    BY <1>1, <2>3, <2>4 DEF LockInv, Once, NothingTwice
<1>4. db' \subseteq db \/ \E s \in Sets : Install(s)
  BY DEF Next, Step, Fault, Ended, vars, Collect, Check, OpenLock, TryLock, TryFails,
         WaitLock, Acquire, Sanity, Erase, Finish, Release, CloseLock, NoLock,
         WaitFails, SetupFails, InstallFails, Die
<1> QED
  BY <1>2, <1>3, <1>4

-----------------------------------------------------------------------------
(* What a transaction does to a consistent database it has checked.         *)

(* An upgrade leaves the database consistent, whichever of its erasures     *)
(* were made: what needed the old version finds the new one.                *)
LEMMA UpgradeKeeps ==
  ASSUME TypeOK, NEW s \in Sets, Consistent(db), erase[s] = Erasures(s),
         \A p \in Affected(s) : Satisfied(p, Installed(db \ erase[s]) \cup Added(s)),
         Added(s) # {}, NEW X \in SUBSET erase[s]
  PROVE  Consistent((db \cup {[num |-> last + 1, pkg |-> p] : p \in Added(s)}) \ X)
<1> DEFINE p == cmd[s].pkg
           new == [num |-> last + 1, pkg |-> p]
           after == (db \cup {new}) \ X
<1>1. Added(s) = {p} /\ cmd[s].op = "upgrade"
  BY DEF Added
<1>2. X \subseteq db /\ \A i \in X : i.pkg.name = p.name
  BY <1>1 DEF Erasures
<1>3. new \notin X
  <2>1. \A i \in db : i.num \in 1..last
    BY DEF TypeOK
  <2>2. last + 1 \notin 1..last /\ new.num = last + 1
    BY DEF TypeOK
  <2> QED
    BY <1>2, <2>1, <2>2
<1>4. p \in Installed(after)
  BY <1>3 DEF Installed
<1>5. ASSUME NEW r \in Installed(after), NEW n \in r.needs
      PROVE  \E q \in Installed(after) : q.name = n
  <2>1. CASE r = p
    <3>1. Satisfied(p, Installed(db \ erase[s]) \cup Added(s))
      BY <1>1 DEF Affected
    <3>2. Installed(db \ erase[s]) \subseteq Installed(after)
      BY DEF Installed
    <3> QED
      BY <1>1, <1>4, <1>5, <2>1, <3>1, <3>2 DEF Satisfied
  <2>2. CASE r # p
    <3>1. r \in Installed(db)
      BY <1>5, <2>2 DEF Installed
    <3>2. PICK j \in db : j.pkg.name = n
      BY <1>5, <3>1 DEF Consistent, Satisfied, Installed
    <3>3. CASE j \in X
      BY <1>2, <1>4, <3>2, <3>3
    <3>4. CASE j \notin X
      BY <3>2, <3>4 DEF Installed
    <3> QED
      BY <3>3, <3>4
  <2> QED
    BY <2>1, <2>2
<1>6. {[num |-> last + 1, pkg |-> r] : r \in Added(s)} = {new}
  BY <1>1
<1>7. Consistent(after)
  BY <1>5 DEF Consistent, Satisfied
<1> QED
  BY <1>6, <1>7

(* So does an erasure, as nothing that stays needs what is erased, nor does *)
(* what could not be erased miss anything.                                  *)
LEMMA ErasureKeeps ==
  ASSUME TypeOK, NEW s \in Sets, Consistent(db), erase[s] = Erasures(s),
         \A p \in Affected(s) : Satisfied(p, Installed(db \ erase[s]) \cup Added(s)),
         Added(s) = {}, NEW X \in SUBSET erase[s]
  PROVE  Consistent(db \ X)
<1> DEFINE p == cmd[s].pkg
           after == db \ X
<1>1. X \subseteq db /\ \A i \in X : i.pkg = p
  BY DEF Erasures, Added
<1>2. Installed(db \ erase[s]) \subseteq Installed(after)
  BY DEF Installed
<1>3. ASSUME NEW r \in Installed(after), NEW n \in r.needs
      PROVE  \E q \in Installed(after) : q.name = n
  <2>1. PICK i \in after : i.pkg = r
    BY <1>3 DEF Installed
  <2>2. PICK j \in db : j.pkg.name = n
    BY <1>3, <2>1 DEF Consistent, Satisfied, Installed
  <2>3. CASE j \notin X
    BY <2>2, <2>3 DEF Installed
  <2>4. CASE j \in X
    <3>1. j.pkg = p /\ n = p.name /\ j \in erase[s]
      BY <1>1, <2>2, <2>4
    <3>2. CASE r = p
      BY <1>3, <3>1, <3>2
    <3>3. CASE r # p
      <4>1. r \in Installed(db \ erase[s])
        <5>1. i \notin erase[s]
          BY <2>1, <3>1, <3>3 DEF Erasures, Added
        <5> QED
          BY <2>1, <5>1 DEF Installed
      <4>2. r \in Affected(s)
        BY <1>3, <3>1, <4>1 DEF Affected
      <4>3. Satisfied(r, Installed(db \ erase[s]))
        BY <4>2
      <4> QED
        BY <1>2, <1>3, <4>3 DEF Satisfied
    <3> QED
      BY <3>2, <3>3
  <2> QED
    BY <2>3, <2>4
<1> QED
  BY <1>3 DEF Consistent, Satisfied

(* What a set knows is not touched by steps that change none of it.         *)
LEMMA SoundUntouched ==
  ASSUME NEW s \in Sets, SoundAt(s), UNCHANGED <<db, cmd>>,
         pc'[s] = pc[s], erase'[s] = erase[s]
  PROVE  SoundAt(s)'
  BY DEF SoundAt, At, Consistent, Satisfied, Installed, Affected, Added, Erasures

(* A set that is done need not know anything.                               *)
LEMMA SoundDone ==
  ASSUME NEW s \in Sets, pc'[s] = "done"
  PROVE  SoundAt(s)'
  BY DEF SoundAt, At

(* A set that was sound and still is knows at its new place what it should. *)
LEMMA SoundStep == LockInv /\ [Next]_vars => SoundPlaces'
<1> SUFFICES ASSUME LockInv, [Next]_vars, NEW t \in Sets, sound'[t]
             PROVE  SoundAt(t)'
  BY DEF SoundPlaces
<1> USE DEF At, Go
<1>0. TypeOK /\ (sound[t] => SoundAt(t))
  BY DEF LockInv, SoundPlaces
<1>1. CASE UNCHANGED vars
  BY <1>0, <1>1, SoundUntouched DEF vars, setVars
<1>2. ASSUME NEW s \in Sets, Collect(s) PROVE SoundAt(t)'
  <2>1. CASE t # s
    BY <1>0, <1>2, <2>1, SoundUntouched DEF Collect, TypeOK
  <2>2. CASE t = s
    <3>1. PICK place \in {"open", "done", "check"} :
            /\ pc' = [pc EXCEPT ![s] = place]
            /\ place = "open" => cmd[s].op = "rebuild"
      BY <1>2 DEF Collect
    <3>2. /\ UNCHANGED <<db, cmd>> /\ erase' = [erase EXCEPT ![s] = Erasures(s)]
          /\ sound' = [sound EXCEPT ![s] = Consistent(db)]
      BY <1>2 DEF Collect
    <3>3. pc'[s] = place /\ Consistent(db)
      BY <1>0, <2>2, <3>1, <3>2 DEF TypeOK
    <3>4. erase'[s] = Erasures(s)
      BY <1>0, <3>2 DEF TypeOK
    <3>5. Consistent(db)' /\ Erasures(s)' = Erasures(s) /\ Added(s)' = Added(s)
      BY <3>2, <3>3 DEF Consistent, Installed, Satisfied, Erasures, Added
    <3>6. place = "open" => Erasures(s) = {} /\ Added(s) = {}
      BY <3>1 DEF Erasures, Added
    <3>7. place = "open" => Affected(s)' = {}
      BY <3>4, <3>5, <3>6 DEF Affected
    <3> QED
      BY <2>2, <3>3, <3>4, <3>5, <3>7 DEF SoundAt
  <2> QED
    BY <2>1, <2>2
<1>3. ASSUME NEW s \in Sets, Step(s) PROVE SoundAt(t)'
  <2>1. CASE Check(s) \/ OpenLock(s) \/ TryLock(s) \/ TryFails(s) \/ WaitLock(s)
             \/ Sanity(s) \/ Finish(s) \/ Release(s) \/ CloseLock(s) \/ NoLock(s)
    <3> USE DEF Check, OpenLock, TryLock, TryFails, WaitLock, Acquire, Sanity, Finish,
                Release, CloseLock, NoLock
    <3>1. UNCHANGED <<db, cmd, erase, sound>>
      BY <2>1
    <3>2. CASE t # s
      <4>1. pc'[t] = pc[t]
        BY <1>0, <2>1, <3>2 DEF TypeOK
      <4> QED
        BY <1>0, <3>1, <4>1, SoundUntouched
    <3>3. CASE t = s
      <4>1. SoundAt(s)
        BY <1>0, <3>1, <3>3
      <4>2. /\ Consistent(db)' = Consistent(db) /\ Erasures(s)' = Erasures(s)
            /\ Affected(s)' = Affected(s) /\ Added(s)' = Added(s)
            /\ Installed(db \ erase[s])' = Installed(db \ erase[s])
        BY <3>1 DEF Consistent, Installed, Satisfied, Erasures, Added, Affected
      <4>3. CASE Check(s)
        <5>1. pc'[s] \in {"open", "done"} /\ Consistent(db) /\ erase[s] = Erasures(s)
          BY <1>0, <4>1, <4>3 DEF TypeOK, SoundAt
        <5>2. pc'[s] = "open" =>
                \A p \in Affected(s) : Satisfied(p, Installed(db \ erase[s]) \cup Added(s))
          BY <1>0, <4>3 DEF TypeOK
        <5> QED
          BY <3>1, <3>3, <4>2, <5>1, <5>2 DEF SoundAt, Satisfied
      <4>4. CASE OpenLock(s) \/ TryLock(s) \/ TryFails(s) \/ WaitLock(s) \/ Sanity(s)
        <5>1. /\ pc[s] \in {"open", "try", "wait", "setup"}
              /\ pc'[s] \in {"try", "wait", "setup", "running", "free"}
          BY <1>0, <4>4 DEF TypeOK, RefusedPlace
        <5>2. /\ Consistent(db) /\ erase[s] = Erasures(s)
              /\ \A p \in Affected(s) : Satisfied(p, Installed(db \ erase[s]) \cup Added(s))
          BY <4>1, <5>1 DEF SoundAt
        <5> QED
          BY <3>1, <3>3, <4>2, <5>1, <5>2 DEF SoundAt, Satisfied
      <4>5. CASE Finish(s)
        <5>1. pc'[s] = "free" /\ pc[s] = "erasing" /\ erase[s] = {}
          BY <1>0, <4>5 DEF TypeOK
        <5>2. Consistent(db \ {})
          BY <4>1, <5>1 DEF SoundAt
        <5>3. db \ {} = db
          OBVIOUS
        <5> QED
          BY <3>3, <4>2, <5>1, <5>2, <5>3 DEF SoundAt
      <4>6. CASE Release(s) \/ CloseLock(s) \/ NoLock(s)
        <5>1. pc'[s] \in {"close", "done"}
          BY <1>0, <4>6 DEF TypeOK
        <5> QED
          BY <3>3, <5>1 DEF SoundAt
      <4> QED
        BY <2>1, <4>3, <4>4, <4>5, <4>6
    <3> QED
      BY <3>2, <3>3
  <2>2. CASE Install(s)
    <3>1. /\ db' = db \cup {[num |-> last + 1, pkg |-> p] : p \in Added(s)}
          /\ cmd' = cmd /\ erase' = erase /\ pc[s] = "running"
          /\ pc' = [pc EXCEPT ![s] = "erasing"]
          /\ IF Added(s) = {} THEN UNCHANGED sound ELSE Disturbs(s)
      BY <2>2 DEF Install
    <3>2. CASE t # s
      <4>1. Added(s) = {} /\ db' = db /\ sound' = sound
        BY <3>1, <3>2 DEF Disturbs
      <4>2. pc'[t] = pc[t]
        BY <1>0, <3>1, <3>2 DEF TypeOK
      <4> QED
        BY <1>0, <3>1, <4>1, <4>2, SoundUntouched
    <3>3. CASE t = s
      <4>1. sound[s]
        BY <3>1, <3>3 DEF Disturbs
      <4>2. /\ Consistent(db) /\ erase[s] = Erasures(s)
            /\ \A p \in Affected(s) : Satisfied(p, Installed(db \ erase[s]) \cup Added(s))
        BY <1>0, <3>1, <3>3, <4>1 DEF SoundAt
      <4>3. ASSUME NEW X \in SUBSET erase[s] PROVE Consistent(db \ X)'
        <5>1. CASE Added(s) = {}
          <6>1. db' = db /\ Consistent(db \ X)
            BY <1>0, <3>1, <4>2, <5>1, ErasureKeeps
          <6> QED
            BY <6>1 DEF Consistent, Installed, Satisfied
        <5>2. CASE Added(s) # {}
          <6>1. Consistent((db \cup {[num |-> last + 1, pkg |-> p] : p \in Added(s)}) \ X)
            BY <1>0, <4>2, <5>2, UpgradeKeeps
          <6> QED
            BY <3>1, <6>1 DEF Consistent, Installed, Satisfied
        <5> QED
          BY <5>1, <5>2
      <4>4. pc'[s] = "erasing"
        BY <1>0, <3>1 DEF TypeOK
      <4> QED
        BY <3>1, <3>3, <4>3, <4>4 DEF SoundAt
    <3> QED
      BY <3>2, <3>3
  <2>3. CASE Erase(s)
    <3>1. PICK i \in erase[s] :
            /\ erase' = [erase EXCEPT ![s] = @ \ {i}]
            /\ \/ db' = db \ {i} /\ IF i \in db THEN Disturbs(s) ELSE UNCHANGED sound
               \/ MayFail /\ UNCHANGED <<db, sound>>
      BY <2>3 DEF Erase
    <3>2. pc' = pc /\ cmd' = cmd /\ pc[s] = "erasing"
      BY <2>3 DEF Erase
    <3>3. CASE t # s
      <4>1. db' = db /\ sound[t] /\ erase'[t] = erase[t]
        BY <1>0, <3>1, <3>3 DEF Disturbs, TypeOK
      <4> QED
        BY <1>0, <3>2, <4>1, SoundUntouched
    <3>4. CASE t = s
      <4>1. \A X \in SUBSET erase[s] : Consistent(db \ X)
        <5>1. sound[s]
          BY <3>1, <3>4 DEF Disturbs
        <5> QED
          BY <1>0, <3>2, <3>4, <5>1 DEF SoundAt
      <4>2. ASSUME NEW X \in SUBSET erase'[s] PROVE Consistent(db \ X)'
        <5>1. erase'[s] \subseteq erase[s]
          BY <3>1
        <5>2. X \in SUBSET erase[s] /\ X \cup {i} \in SUBSET erase[s]
          BY <3>1, <5>1
        <5>3. Consistent(db \ X) /\ Consistent(db \ (X \cup {i}))
          BY <4>1, <5>2
        <5>4. db' \ X = db \ X \/ db' \ X = db \ (X \cup {i})
          BY <3>1
        <5>5. Consistent(db' \ X)
          BY <5>3, <5>4
        <5> QED
          BY <5>5 DEF Consistent, Installed, Satisfied
      <4> QED
        BY <3>2, <3>4, <4>2 DEF SoundAt
    <3> QED
      BY <3>3, <3>4
  <2> QED
    BY <1>3, <2>1, <2>2, <2>3 DEF Step
<1>4. ASSUME NEW s \in Sets, Fault(s) PROVE SoundAt(t)'
  <2>1. UNCHANGED <<db, cmd, sound>>
    BY <1>4 DEF Fault, WaitFails, SetupFails, InstallFails, Die
  <2>2. SoundAt(t)
    BY <1>0, <2>1
  <2>3. CASE pc'[t] = "done"
    BY <2>3, SoundDone
  <2>4. CASE pc'[t] = pc[t] /\ erase'[t] = erase[t]
    BY <2>1, <2>2, <2>4, SoundUntouched
  <2>5. CASE t = s /\ ~Die(s)
    <3>1. /\ Consistent(db)' = Consistent(db) /\ Consistent(db \ {})' = Consistent(db)
      <4>1. db \ {} = db
        OBVIOUS
      <4> QED
        BY <2>1, <4>1 DEF Consistent, Installed, Satisfied
    <3>2. CASE WaitFails(s)
      <4>1. pc[s] = "wait" /\ pc'[s] = "setup" /\ erase' = erase
        BY <1>0, <3>2 DEF WaitFails, TypeOK
      <4> QED
        BY <2>1, <2>2, <2>5, <4>1
           DEF SoundAt, Consistent, Satisfied, Installed, Affected, Added, Erasures
    <3>3. CASE SetupFails(s)
      <4>1. pc[s] = "setup" /\ pc'[s] = "free"
        BY <1>0, <3>3 DEF SetupFails, TypeOK
      <4> QED
        BY <2>2, <2>5, <3>1, <4>1 DEF SoundAt
    <3>4. CASE InstallFails(s)
      <4>1. pc[s] = "running" /\ pc'[s] = "erasing"
            /\ erase' = [erase EXCEPT ![s] = {}]
        BY <1>0, <3>4 DEF InstallFails, TypeOK
      <4>2. Consistent(db)
        BY <2>2, <2>5, <4>1 DEF SoundAt
      <4>3. \A X \in SUBSET erase'[s] : X = {}
        BY <1>0, <4>1 DEF TypeOK
      <4>4. \A X \in SUBSET erase'[s] : Consistent(db \ X)'
        BY <3>1, <4>2, <4>3
      <4> QED
        BY <2>5, <4>1, <4>4 DEF SoundAt
    <3> QED
      BY <1>4, <2>5, <3>2, <3>3, <3>4 DEF Fault
  <2>6. pc'[t] = "done" \/ (pc'[t] = pc[t] /\ erase'[t] = erase[t]) \/ (t = s /\ ~Die(s))
    BY <1>0, <1>4 DEF Fault, WaitFails, SetupFails, InstallFails, Die, TypeOK
  <2> QED
    BY <2>3, <2>4, <2>5, <2>6
<1> QED
  BY <1>0, <1>1, <1>2, <1>3, <1>4, SoundUntouched DEF Next, Ended, vars, setVars

-----------------------------------------------------------------------------
(* The theorems.                                                            *)

(* The first state satisfies the invariant.                                 *)
LEMMA InitInv == Init => LockInv
<1> SUFFICES ASSUME Init PROVE LockInv
  OBVIOUS
<1>1. TypeOK
  BY FirstDatabase DEF Init, TypeOK
<1>2. NothingTwice
  BY FirstDatabase DEF NothingTwice
<1> QED
  BY <1>1, <1>2 DEF Init, LockInv, LockPlaces, OneAtATime, HeldAlone, StillMissing,
                    Once, SoundPlaces, Held, At, Over

(* The inductive invariant holds in every state of every execution.         *)
THEOREM LockInvariant == Spec => []LockInv
<1>1. LockInv /\ [Next]_vars => LockInv'
  BY TypeStep, PlacesStep, AloneStep, HeldStep, MissingStep, OnceStep, SoundStep
     DEF LockInv
<1> QED
  BY InitInv, <1>1, PTL DEF Spec

(* Every variable keeps its type, the lock is with the process of a set     *)
(* that will free it, and a set that is done has freed its lock.            *)
THEOREM TypeCorrect == Spec => []TypeOK
<1>1. LockInv => TypeOK
  BY DEF LockInv
<1> QED
  BY LockInvariant, <1>1, PTL

(* Where a process runs one command at a time and every transaction gets    *)
(* the lock it asks for, no package is installed twice.                     *)
THEOREM NothingTwiceCorrect == ASSUME ~Threads PROVE Spec => []NothingTwice
<1>1. LockInv => NothingTwice
  BY DEF LockInv, Once
<1> QED
  BY LockInvariant, <1>1, PTL

(* A command that read a consistent database nobody else has changed since  *)
(* leaves it consistent, also where sets of one process run at once, a lock *)
(* was not to be had and elements or processes failed.                      *)
THEOREM SoundRunsKeepCorrect == Spec => []SoundRunsKeep
<1>1. LockInv => SoundRunsKeep
  BY DEF LockInv, SoundPlaces, SoundAt, SoundRunsKeep
<1> QED
  BY LockInvariant, <1>1, PTL
=============================================================================
