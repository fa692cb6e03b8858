----------------------------- MODULE RpmZqProofs -----------------------------
(***************************************************************************)
(* Parallel compression is safe for any number of workers, files and       *)
(* blocks: the inductive invariant ZqInv of RpmZq, one lemma for each of   *)
(* its parts, and the properties that follow from it.                      *)
(*                                                                         *)
(* The first lemmas count what lists and sets of jobs hold; an end of the  *)
(* program (Crashed) is the end of every thread, and the lemmas about      *)
(* steps speak of the others.                                              *)
(***************************************************************************)
EXTENDS RpmZq, FiniteSetTheorems, SequenceTheorems, WellFoundedInduction, TLAPS

(* A set of natural numbers has a least element.                            *)
LEMMA Least ==
  ASSUME NEW T \in SUBSET Nat, T # {}
  PROVE  \E x \in T : \A y \in T : x <= y
<1>1. PICK x \in T : \A y \in T : <<y, x>> \notin OpToRel(<, Nat)
  BY NatLessThanWellFounded, WFMin
<1>2. \A y \in T : ~(y < x)
  BY <1>1 DEF OpToRel
<1> QED
  BY <1>2

(* The numbers from p on move up by one, to make room for p.                *)
Shifted(S, p) == {IF n < p THEN n ELSE n + 1 : n \in S}

(* That keeps their count, and p itself may be counted too.                 *)
LEMMA ShiftCount ==
  ASSUME NEW S \in SUBSET Nat, IsFiniteSet(S), NEW p \in Nat
  PROVE  /\ Cardinality(Shifted(S, p)) = Cardinality(S)
         /\ Cardinality(Shifted(S, p) \cup {p}) = Cardinality(S) + 1
<1> DEFINE T == Shifted(S, p)
           f == [n \in S |-> IF n < p THEN n ELSE n + 1]
<1>1. f \in [S -> T] /\ \A t \in T : \E n \in S : f[n] = t
  BY DEF Shifted
<1>2. \A m, n \in S : f[m] = f[n] => m = n
  OBVIOUS
<1>3. ExistsBijection(S, T)
  BY <1>1, <1>2 DEF ExistsBijection, Bijection, Injection, Surjection, IsInjective
<1>4. p \notin T
  BY DEF Shifted
<1>5. IsFiniteSet(T) /\ Cardinality(T) = Cardinality(S)
  BY <1>3, FS_Bijection
<1> QED
  BY <1>4, <1>5, FS_AddElement

(* A list of jobs and what is in it are finite.                             *)
LEMMA ListFinite ==
  ASSUME NEW list \in Seq(Jobs)
  PROVE  /\ Len(list) \in Nat /\ DOMAIN list = 1..Len(list)
         /\ WithOut(list) \subseteq Nat /\ IsFiniteSet(WithOut(list))
         /\ Cardinality(WithOut(list)) \in Nat
<1>1. Len(list) \in Nat /\ DOMAIN list = 1..Len(list)
  OBVIOUS
<1>2. IsFiniteSet(1..Len(list)) /\ WithOut(list) \subseteq 1..Len(list)
  BY <1>1, FS_Interval DEF WithOut
<1> QED
  BY <1>1, <1>2, FS_Subset, FS_CardinalityType

(* Taking the head of a list takes its output space off the count.          *)
LEMMA CountTail ==
  ASSUME NEW list \in Seq(Jobs), list # <<>>
  PROVE  /\ Tail(list) \in Seq(Jobs) /\ Len(Tail(list)) = Len(list) - 1 /\ Len(list) >= 1
         /\ list[1] \in Jobs
         /\ \A n \in DOMAIN Tail(list) : n + 1 \in DOMAIN list /\ Tail(list)[n] = list[n + 1]
         /\ Cardinality(WithOut(list)) = Cardinality(WithOut(Tail(list))) + Count(list[1].out)
<1> DEFINE rest == Tail(list)
           T == Shifted(WithOut(rest), 1)
<1>1. /\ rest \in Seq(Jobs) /\ Len(rest) = Len(list) - 1
      /\ \A n \in 1..Len(rest) : rest[n] = list[n + 1]
  BY HeadTailProperties
<1>2. Len(list) >= 1 /\ DOMAIN list = 1..Len(list) /\ DOMAIN rest = 1..Len(rest)
      /\ Len(list) \in Nat
  BY <1>1
<1>3. list[1] \in Jobs
  BY <1>2
<1>4. /\ Cardinality(T) = Cardinality(WithOut(rest))
      /\ Cardinality(T \cup {1}) = Cardinality(WithOut(rest)) + 1
  BY <1>1, ShiftCount, ListFinite
<1>5. T = {n \in 2..Len(list) : list[n].out}
  <2>1. \A n \in WithOut(rest) : n \in 1..Len(rest) /\ list[n + 1].out
    BY <1>1, <1>2 DEF WithOut
  <2>2. ASSUME NEW n \in 2..Len(list), list[n].out PROVE n \in T
    <3>1. n - 1 \in WithOut(rest)
      BY <1>1, <1>2, <2>2 DEF WithOut
    <3> QED
      BY <3>1 DEF Shifted
  <2> QED
    BY <1>1, <1>2, <2>1, <2>2 DEF Shifted
<1>6. WithOut(list) = IF list[1].out THEN T \cup {1} ELSE T
  BY <1>2, <1>5 DEF WithOut
<1>7. Cardinality(WithOut(list)) = Cardinality(WithOut(rest)) + Count(list[1].out)
  BY <1>1, <1>4, <1>6, ListFinite DEF Count
<1> QED
  BY <1>1, <1>2, <1>3, <1>7

(* A job put into the list stands between those before and after its place. *)
LEMMA InsertedIs ==
  ASSUME NEW list \in Seq(Jobs), NEW j \in Jobs
  PROVE  /\ Inserted(list, j) \in Seq(Jobs) /\ Len(Inserted(list, j)) = Len(list) + 1
         /\ \E p \in 1..Len(list) + 1 :
               Inserted(list, j) = [n \in 1..Len(list) + 1 |->
                  IF n < p THEN list[n] ELSE IF n = p THEN j ELSE list[n - 1]]
<1> DEFINE higher == {n \in DOMAIN list : list[n].seq > j.seq}
           P(n) == IF higher = {} THEN n = Len(list) + 1
                   ELSE n \in higher /\ \A m \in higher : n <= m
           place == CHOOSE n \in 1..Len(list) + 1 : P(n)
<1>1. DOMAIN list = 1..Len(list) /\ Len(list) \in Nat
  OBVIOUS
<1>2. \E n \in 1..Len(list) + 1 : P(n)
  <2>1. CASE higher = {}
    BY <1>1, <2>1
  <2>2. CASE higher # {}
    <3>1. higher \in SUBSET Nat
      BY <1>1
    <3>2. PICK n \in higher : \A m \in higher : n <= m
      BY <2>2, <3>1, Least
    <3> QED
      BY <1>1, <2>2, <3>2
  <2> QED
    BY <2>1, <2>2
<1>3. place \in 1..Len(list) + 1
  BY <1>2
<1> DEFINE new == [n \in 1..Len(list) + 1 |->
                     IF n < place THEN list[n] ELSE IF n = place THEN j ELSE list[n - 1]]
<1>4. Inserted(list, j) = new
  BY DEF Inserted
<1> HIDE DEF place
<1>5. new \in [1..Len(list) + 1 -> Jobs]
  BY <1>1, <1>3
<1>6. new \in Seq(Jobs) /\ Len(new) = Len(list) + 1
  BY <1>1, <1>5
<1> QED
  BY <1>3, <1>4, <1>6

(* Putting a job into the list adds its output space to the count.          *)
LEMMA CountInserted ==
  ASSUME NEW list \in Seq(Jobs), NEW j \in Jobs
  PROVE  Cardinality(WithOut(Inserted(list, j))) = Cardinality(WithOut(list)) + Count(j.out)
<1> DEFINE new == Inserted(list, j)
<1>1. PICK p \in 1..Len(list) + 1 :
        new = [n \in 1..Len(list) + 1 |->
                 IF n < p THEN list[n] ELSE IF n = p THEN j ELSE list[n - 1]]
  BY InsertedIs
<1> HIDE DEF new
<1> DEFINE T == Shifted(WithOut(list), p)
<1>2. DOMAIN list = 1..Len(list) /\ Len(list) \in Nat /\ p \in Nat
  BY <1>1
<1>3. /\ Cardinality(T) = Cardinality(WithOut(list))
      /\ Cardinality(T \cup {p}) = Cardinality(WithOut(list)) + 1
  BY <1>2, ShiftCount, ListFinite
<1>4. T = {n \in 1..Len(list) + 1 : n # p /\ new[n].out}
  <2>1. \A n \in WithOut(list) : n \in 1..Len(list) /\ list[n].out
    BY <1>2 DEF WithOut
  <2>2. ASSUME NEW n \in 1..Len(list) + 1, n # p, new[n].out PROVE n \in T
    <3>1. CASE n < p
      <4>1. n \in WithOut(list)
        BY <1>1, <1>2, <2>2, <3>1 DEF WithOut
      <4> QED
        BY <3>1, <4>1 DEF Shifted
    <3>2. CASE n > p
      <4>1. n - 1 \in WithOut(list) /\ ~(n - 1 < p)
        BY <1>1, <1>2, <2>2, <3>2 DEF WithOut
      <4> QED
        BY <3>2, <4>1 DEF Shifted
    <3> QED
      BY <1>2, <2>2, <3>1, <3>2
  <2>3. ASSUME NEW m \in WithOut(list),
               NEW n, n = IF m < p THEN m ELSE m + 1
        PROVE  n \in 1..Len(list) + 1 /\ n # p /\ new[n].out
    BY <1>1, <1>2, <2>1, <2>3
  <2> QED
    BY <2>2, <2>3 DEF Shifted
<1>5. DOMAIN new = 1..Len(list) + 1 /\ new[p] = j
  BY <1>1, <1>2
<1>6. WithOut(new) = IF j.out THEN T \cup {p} ELSE T
  BY <1>1, <1>4, <1>5 DEF WithOut
<1>7. Cardinality(WithOut(new)) = Cardinality(WithOut(list)) + Count(j.out)
  BY <1>3, <1>6, ListFinite DEF Count
<1> QED
  BY <1>7 DEF new

(* A space got from a pool and one put back: one more, one less in use.     *)
LEMMA PoolsCount ==
  ASSUME NEW p \in Pools
  PROVE  /\ CanGet(p) => /\ GetSpace(p) \in Pools
                         /\ GetSpace(p).made - GetSpace(p).have = p.made - p.have + 1
         /\ PutSpace(p) \in Pools
         /\ PutSpace(p).made - PutSpace(p).have = p.made - p.have - 1
<1>1. p.have \in Nat /\ p.limit \in Nat /\ p.made \in Nat
  BY DEF Pools
<1>2. PutSpace(p) \in Pools /\ PutSpace(p).made = p.made /\ PutSpace(p).have = p.have + 1
  BY <1>1 DEF PutSpace, Pools
<1>3. CASE p.have > 0
  <2>1. GetSpace(p) = [p EXCEPT !.have = @ - 1]
    BY <1>3 DEF GetSpace
  <2>2. GetSpace(p) \in Pools /\ GetSpace(p).made = p.made /\ GetSpace(p).have = p.have - 1
    BY <1>1, <1>3, <2>1 DEF Pools
  <2> QED
    BY <1>1, <1>2, <2>2
<1>4. CASE p.have = 0
  <2>1. GetSpace(p) = [p EXCEPT !.limit = IF @ > 0 THEN @ - 1 ELSE @, !.made = @ + 1]
    BY <1>1, <1>4 DEF GetSpace
  <2>2. PICK l \in Nat : l = IF p.limit > 0 THEN p.limit - 1 ELSE p.limit
    BY <1>1
  <2>3. GetSpace(p) = [p EXCEPT !.limit = l, !.made = p.made + 1]
    BY <2>1, <2>2
  <2>4. GetSpace(p) = [have |-> p.have, limit |-> l, made |-> p.made + 1]
    BY <2>3 DEF Pools
  <2>5. GetSpace(p) \in Pools /\ GetSpace(p).made = p.made + 1 /\ GetSpace(p).have = p.have
    BY <1>1, <2>4 DEF Pools
  <2> QED
    BY <1>1, <1>2, <2>5
<1> QED
  BY <1>1, <1>3, <1>4

(* A worker more or less in a set of them.                                  *)
LEMMA WorkersCount ==
  ASSUME NEW H \in SUBSET Workers
  PROVE  /\ Cardinality(H) \in Nat
         /\ Cardinality(H) = 0 => H = {}
         /\ \A w \in Workers : /\ w \notin H => Cardinality(H \cup {w}) = Cardinality(H) + 1
                               /\ w \in H => Cardinality(H \ {w}) = Cardinality(H) - 1
<1>1. IsFiniteSet(H)
  BY ZqAssumption, FS_Subset
<1> QED
  BY <1>1, FS_CardinalityType, FS_EmptySet, FS_AddElement, FS_RemoveElement

(* The blocks from a up to b whose spaces came from the pool.               *)
Outside(a, b, B) == {n \in a..b - 1 : n \notin B}

(* Their count when one is queued and when one is dropped.                  *)
LEMMA RangeCount ==
  ASSUME NEW a \in Nat, NEW b \in Nat, a <= b, NEW B
  PROVE  /\ Cardinality(Outside(a, b, B)) \in Nat
         /\ Cardinality(Outside(a, b + 1, B)) = Cardinality(Outside(a, b, B)) + Count(b \notin B)
         /\ a < b => Cardinality(Outside(a, b, B))
                        = Cardinality(Outside(a + 1, b, B)) + Count(a \notin B)
<1> DEFINE Mid == {n \in a..b - 1 : n \notin B}
           Last == {n \in a..b : n \notin B}
           First == {n \in a + 1..b - 1 : n \notin B}
<1>0. /\ Outside(a, b, B) = Mid /\ Outside(a, b + 1, B) = Last /\ Outside(a + 1, b, B) = First
  BY DEF Outside
<1>1. IsFiniteSet(Mid) /\ IsFiniteSet(First)
  <2>1. IsFiniteSet(a..b - 1) /\ Mid \subseteq a..b - 1 /\ First \subseteq a..b - 1
    BY FS_Interval
  <2> QED
    BY <2>1, FS_Subset
<1>2. Cardinality(Mid) \in Nat /\ Cardinality(First) \in Nat
  BY <1>1, FS_CardinalityType
<1>3. Cardinality(Last) = Cardinality(Mid) + Count(b \notin B)
  <2>1. CASE b \in B
    <3>1. Last = Mid
      BY <2>1
    <3> QED
      BY <1>2, <2>1, <3>1 DEF Count
  <2>2. CASE b \notin B
    <3>1. Last = Mid \cup {b} /\ b \notin Mid
      BY <2>2
    <3>2. Cardinality(Mid \cup {b}) = Cardinality(Mid) + 1
      BY <1>1, <3>1, FS_AddElement
    <3> QED
      BY <2>2, <3>1, <3>2 DEF Count
  <2> QED
    BY <2>1, <2>2
<1>4. ASSUME a < b PROVE Cardinality(Mid) = Cardinality(First) + Count(a \notin B)
  <2>1. CASE a \in B
    <3>1. First = Mid
      BY <2>1
    <3> QED
      BY <1>2, <2>1, <3>1 DEF Count
  <2>2. CASE a \notin B
    <3>1. Mid = First \cup {a} /\ a \notin First
      BY <1>4, <2>2
    <3>2. Cardinality(First \cup {a}) = Cardinality(First) + 1
      BY <1>1, <3>1, FS_AddElement
    <3> QED
      BY <2>2, <3>1, <3>2 DEF Count
  <2> QED
    BY <2>1, <2>2
<1> HIDE DEF Mid, Last, First
<1> QED
  BY <1>0, <1>2, <1>3, <1>4

-----------------------------------------------------------------------------
(* An end of the program is the end: no thread takes a step.                *)
LEMMA CrashedStays ==
  ASSUME ZqInv, Crashed, [Next]_vars
  PROVE  UNCHANGED vars
<1>1. \A t \in Workers \cup {Writer, "main"} : pc[t] = "crashed"
  BY DEF ZqInv, TypeOK, ThreadsKnown, Crashed
<1>2. /\ ~(\E f \in FileKinds : Begin(f)) /\ ~SeekFails /\ ~ReadBlock /\ ~DropSmall
      /\ ~LastIsShort /\ ~ReadAhead /\ ~DropUnread
  BY <1>1 DEF Begin, SeekFails, ReadBlock, DropSmall, LastIsShort, ReadAhead, DropUnread, At, Go
<1>3. /\ ~Launch /\ ~AddJob /\ ~JoinWriter /\ ~StopWorkers /\ ~JoinOne /\ ~AllJoined
      /\ ~FreePools /\ ~Finished
  BY <1>1 DEF Launch, AddJob, JoinWriter, StopWorkers, JoinOne, AllJoined, FreePools, Finished,
     At, Go
<1>4. ~Write
  BY <1>1 DEF Write, TakeJob, DropIn, WriteBlock, DropNull, Verify, ThreadExits, Reenter, At, Go
<1>5. \A w \in Workers : ~Work(w)
  BY <1>1 DEF Work, GetJob, GetOut, Grow, PutJob, ThreadExits, Reenter, At, Go
<1> QED
  BY <1>2, <1>3, <1>4, <1>5 DEF Next, Main

(* What every step may use: where the threads are, and that the files are   *)
(* such as the assumption says.                                             *)
LEMMA Known ==
  ASSUME ZqInv, ~Crashed
  PROVE  /\ pc \in [Workers \cup {Writer, "main"} -> Places]
         /\ "main" \notin Workers /\ "main" # Writer /\ Writer \notin Workers
         /\ IsFiniteSet(done)
         /\ \A t \in Workers \cup {Writer} : /\ t \in threads <=> pc[t] # "none"
                                             /\ t \in done <=> pc[t] = "gone"
         /\ (\E t \in Workers \cup {Writer} : pc[t] # "none") => Working
         /\ Working => /\ file \in FileKinds /\ file \in Files /\ file.blocks \in Nat \ {0}
                       /\ file.op \in {"compress", "decompress"}
                       /\ file.op = "compress" => file.big = {}
<1>1. IsFiniteSet(Workers \cup {Writer})
  BY ZqAssumption, FS_AddElement
<1>2. done \subseteq Workers \cup {Writer}
  BY DEF ZqInv, TypeOK
<1>3. IsFiniteSet(done)
  BY <1>1, <1>2, FS_Subset
<1>4. \A f \in FileKinds : /\ f \in Files /\ f.blocks \in Nat \ {0}
                           /\ f.op \in {"compress", "decompress"}
                           /\ f.op = "compress" => f.big = {}
  BY ZqAssumption DEF Files
<1>5. Working => file \in FileKinds
  BY DEF ZqInv, MainKnown
<1>6. pc \in [Workers \cup {Writer, "main"} -> Places]
  BY DEF ZqInv, TypeOK
<1>7. /\ "main" \notin Workers /\ "main" # Writer /\ Writer \notin Workers
  BY ZqAssumption
<1>8. /\ threads = {t \in Workers \cup {Writer} : pc[t] # "none"}
      /\ done = {t \in Workers \cup {Writer} : pc[t] = "gone"}
      /\ pc["main"] = "file" => threads = {}
  BY DEF ZqInv, ThreadsKnown, Crashed
<1>9. (\E t \in Workers \cup {Writer} : pc[t] # "none") => Working
  BY <1>8 DEF Crashed, Working
<1>10. \A t \in Workers \cup {Writer} : /\ t \in threads <=> pc[t] # "none"
                                        /\ t \in done <=> pc[t] = "gone"
  BY <1>8
<1>11. Working => /\ file \in FileKinds /\ file \in Files /\ file.blocks \in Nat \ {0}
                  /\ file.op \in {"compress", "decompress"}
                  /\ file.op = "compress" => file.big = {}
  BY <1>4, <1>5, Zenon
<1> QED
  BY <1>3, <1>6, <1>7, <1>9, <1>10, <1>11

(* The types are kept: the count of exited threads goes with the set of     *)
(* those marked done, and no pool or lock goes below zero.                  *)
LEMMA TypeStep ==
  ASSUME ZqInv, ~Crashed, Next
  PROVE  TypeOK'
<1> DEFINE All == Workers \cup {Writer, "main"}
<1>1. TypeOK
  BY DEF ZqInv
<1>2. /\ pc \in [All -> Places]
      /\ "main" \notin Workers /\ "main" # Writer /\ Writer \notin Workers
      /\ IsFiniteSet(done)
      /\ \A t \in Workers \cup {Writer} : /\ t \in threads <=> pc[t] # "none"
                                          /\ t \in done <=> pc[t] = "gone"
      /\ (\E t \in Workers \cup {Writer} : pc[t] # "none") => Working
      /\ Working => file.blocks \in Nat \ {0}
  BY Known
<1>3. \A t, p : p \in Places => [pc EXCEPT ![t] = p] \in [All -> Places]
  BY <1>2
<1>4. \A t, u, p, q : p \in Places /\ q \in Places =>
        [pc EXCEPT ![t] = p, ![u] = q] \in [All -> Places]
  BY <1>2
<1>5. /\ \A p \in Pools : PutSpace(p) \in Pools /\ (CanGet(p) => GetSpace(p) \in Pools)
      /\ \A n \in Nat : NewPool(n) \in Pools
  BY PoolsCount DEF NewPool, Pools
<1>6. \A t : t \in done => done \ {t} \subseteq threads \ {t}
                           /\ Cardinality(done \ {t}) = Cardinality(done) - 1
  BY <1>1, <1>2, FS_RemoveElement DEF TypeOK
<1>7. ASSUME NEW t \in Workers \cup {Writer}, Reenter(t)
      PROVE  /\ pc' \in [All -> Places] /\ threads' = threads
             /\ done' \subseteq threads' /\ exited' = Cardinality(done')
  <2>1. pc' \in [All -> Places] /\ done' = done \cup {t} /\ threads' = threads
        /\ exited' = exited + 1 /\ pc[t] = "reenter"
    BY <1>3, <1>7 DEF Reenter, Go, Places
  <2>2. t \notin done /\ t \in threads
    BY <1>2, <2>1
  <2>3. Cardinality(done \cup {t}) = Cardinality(done) + 1
    BY <1>2, <2>2, FS_AddElement
  <2>4. done \cup {t} \subseteq threads /\ exited = Cardinality(done)
    BY <1>1, <2>2 DEF TypeOK
  <2> QED
    BY <2>1, <2>3, <2>4
<1>8. ASSUME NEW f \in FileKinds, Begin(f) PROVE TypeOK'
  <2>1. f \in Files /\ InLimit(f) \in Nat /\ OutLimit(f) \in Nat
    BY ZqAssumption DEF Files, InLimit, OutLimit
  <2>2. inp' \in Pools /\ outp' \in Pools
    BY <1>5, <1>8, <2>1 DEF Begin
  <2>3. pc' \in [All -> Places]
    BY <1>4, <1>8 DEF Begin, Places
  <2>4. /\ fifo' = <<>> /\ fifoHave' = 0 /\ seq' = <<>> /\ seqFirst' = -1
        /\ mseq' = 0 /\ caught' = 0 /\ wseq' = 0 /\ wjob' = NoJob /\ written' = <<>>
        /\ nfile' \in 0..MaxFiles /\ file' \in FileKinds
        /\ done' \subseteq threads' /\ threads' \subseteq Workers \cup {Writer}
        /\ exited' = Cardinality(done') /\ cthreads' \in Nat
        /\ job' \in [Workers -> Jobs \cup {NoJob}]
    BY <1>1, <1>8, ZqAssumption DEF Begin, TypeOK, Launched
  <2>5. more' \in BOOLEAN
    BY <1>8, Zenon DEF Begin
  <2> QED
    BY <2>2, <2>3, <2>4, <2>5 DEF TypeOK
<1>9. CASE SeekFails \/ LastIsShort \/ AllJoined
  <2>1. pc' \in [All -> Places]
    BY <1>3, <1>9 DEF SeekFails, LastIsShort, AllJoined, Go, Places
  <2>2. UNCHANGED <<inp, outp, queueVars, yarnVars, mainVars, writeVars, job>>
    BY <1>9 DEF SeekFails, LastIsShort, AllJoined
  <2> QED
    BY <1>1, <2>1, <2>2 DEF TypeOK, queueVars, yarnVars, mainVars, writeVars
<1>10. CASE DropSmall \/ DropUnread \/ ReadAhead
  <2>1. pc' \in [All -> Places] /\ inp' \in Pools
    BY <1>1, <1>3, <1>5, <1>10 DEF DropSmall, DropUnread, ReadAhead, Go, Places, TypeOK
  <2>2. UNCHANGED <<outp, queueVars, yarnVars, mainVars, writeVars, job>>
    BY <1>10 DEF DropSmall, DropUnread, ReadAhead
  <2> QED
    BY <1>1, <2>1, <2>2 DEF TypeOK, queueVars, yarnVars, mainVars, writeVars
<1>11. CASE ReadBlock
  <2>1. pc' \in [All -> Places] /\ inp' \in Pools
    BY <1>1, <1>3, <1>5, <1>11 DEF ReadBlock, Go, Places, TypeOK
  <2>2. more' \in BOOLEAN
    BY <1>11 DEF ReadBlock
  <2>3. UNCHANGED <<outp, queueVars, yarnVars, writeVars, job, file, nfile, mseq, cthreads, caught>>
    BY <1>11 DEF ReadBlock
  <2> QED
    BY <1>1, <2>1, <2>2, <2>3 DEF TypeOK, queueVars, yarnVars, writeVars
<1>12. CASE Launch
  <2>1. /\ pc' \in [All -> Places] /\ mseq' \in Nat /\ cthreads' \in Nat
        /\ done \subseteq threads' /\ threads' \subseteq Workers \cup {Writer}
    <3>1. CASE Go("main", "launch", "add") /\ UNCHANGED <<threads, cthreads>>
      BY <1>1, <1>3, <1>12, <3>1 DEF Launch, Go, Places, TypeOK
    <3>2. CASE \E w \in Idle : /\ threads' = Launched(w) /\ cthreads' = cthreads + 1
                               /\ pc' = [pc EXCEPT !["main"] = "add", ![w] = "get"]
      BY <1>1, <1>4, <1>12, <3>2 DEF Launch, Launched, Idle, Places, TypeOK
    <3> QED
      BY <1>12, <3>1, <3>2 DEF Launch
  <2>2. UNCHANGED <<inp, outp, queueVars, done, exited, writeVars, job, file, nfile, more, caught>>
    BY <1>12 DEF Launch
  <2> QED
    BY <1>1, <2>1, <2>2 DEF TypeOK, queueVars, writeVars
<1>13. CASE AddJob
  <2>1. pc' \in [All -> Places]
    BY <1>3, <1>13 DEF AddJob, Go, Places
  <2>2. more' \in BOOLEAN
    <3>1. CASE file.op = "compress"
      <4>1. more' = (mseq + 1 < file.blocks)
        BY <1>13, <3>1 DEF AddJob
      <4> QED
        BY <4>1
    <3>2. CASE file.op # "compress"
      BY <1>1, <1>13, <3>2, Zenon DEF AddJob, TypeOK
    <3> QED
      BY <3>1, <3>2
  <2>3. Job(mseq - 1, mseq - 1 \notin file.big) \in Jobs
    BY <1>1 DEF Job, Jobs, TypeOK
  <2>4. fifo' \in Seq(Jobs) /\ fifoHave' \in Nat
    BY <1>1, <1>13, <2>3 DEF AddJob, AddCJob, TypeOK
  <2>5. UNCHANGED <<inp, outp, seq, seqFirst, yarnVars, writeVars, job, file, nfile, mseq, cthreads, caught>>
    BY <1>13 DEF AddJob
  <2> QED
    BY <1>1, <2>1, <2>2, <2>4, <2>5 DEF TypeOK, yarnVars, writeVars
<1>14. CASE JoinWriter
  <2>1. pc' \in [All -> Places]
    BY <1>4, <1>14 DEF JoinWriter, Places
  <2>2. Writer \in done
    BY <1>2, <1>14 DEF JoinWriter, At
  <2>3. /\ exited' = Cardinality(done') /\ done' \subseteq threads'
        /\ threads' \subseteq Workers \cup {Writer}
    BY <1>1, <1>6, <1>14, <2>2 DEF JoinWriter, Joined, TypeOK
  <2>4. UNCHANGED <<inp, outp, queueVars, mainVars, writeVars, job>>
    BY <1>14 DEF JoinWriter
  <2> QED
    BY <1>1, <2>1, <2>3, <2>4 DEF TypeOK, queueVars, mainVars, writeVars
<1>15. CASE StopWorkers
  <2>1. pc' \in [All -> Places]
    BY <1>3, <1>15 DEF StopWorkers, Go, Places
  <2>2. Job(Stop, TRUE) \in Jobs
    BY DEF Job, Jobs, Stop
  <2>3. \A j \in Jobs : <<j>> \in Seq(Jobs)
    OBVIOUS
  <2>4. fifo' = <<Job(Stop, TRUE)>> /\ fifoHave' \in Nat
    BY <1>1, <1>15 DEF StopWorkers, TypeOK
  <2>5. UNCHANGED <<inp, outp, seq, seqFirst, yarnVars, mainVars, writeVars, job>>
    BY <1>15 DEF StopWorkers
  <2> QED
    BY <1>1, <2>1, <2>2, <2>3, <2>4, <2>5 DEF TypeOK, yarnVars, mainVars, writeVars
<1>16. CASE JoinOne
  <2>1. PICK t \in done : /\ pc' = [pc EXCEPT ![t] = "none"]
                          /\ threads' = threads \ {t} /\ done' = done \ {t}
    BY <1>16 DEF JoinOne
  <2>2. pc' \in [All -> Places]
    BY <1>3, <2>1 DEF Places
  <2>3. /\ exited' = Cardinality(done') /\ done' \subseteq threads'
        /\ threads' \subseteq Workers \cup {Writer} /\ caught' \in Nat
    BY <1>1, <1>6, <1>16, <2>1 DEF JoinOne, TypeOK
  <2>4. UNCHANGED <<inp, outp, queueVars, writeVars, job, file, nfile, mseq, more, cthreads>>
    BY <1>16 DEF JoinOne
  <2> QED
    BY <1>1, <2>2, <2>3, <2>4 DEF TypeOK, queueVars, writeVars
<1>17. CASE FreePools
  <2>1. pc' \in [All -> Places] /\ cthreads' = 0
    BY <1>3, <1>17 DEF FreePools, Go, Places
  <2>2. UNCHANGED <<inp, outp, queueVars, yarnVars, writeVars, job, file, nfile, mseq, more, caught>>
    BY <1>17 DEF FreePools
  <2> QED
    BY <1>1, <2>1, <2>2 DEF TypeOK, queueVars, yarnVars, writeVars
<1>18. CASE TakeJob
  <2>1. pc' \in [All -> Places] /\ Working
    BY <1>2, <1>3, <1>18 DEF TakeJob, Go, Places
  <2>2. Tail(seq) \in Seq(Jobs) /\ seq[1] \in Jobs
    BY <1>1, <1>18, CountTail DEF TakeJob, TypeOK
  <2>3. FirstAfter(Tail(seq)) \in Int
    <3>1. Tail(seq) # <<>> => Tail(seq)[1] \in Jobs
      BY <2>2
    <3> QED
      BY <3>1 DEF FirstAfter, Jobs
  <2>4. wjob' = seq[1] /\ seq' = Tail(seq) /\ seqFirst' = FirstAfter(Tail(seq))
    BY <1>18 DEF TakeJob
  <2>5. UNCHANGED <<inp, outp, fifo, fifoHave, yarnVars, mainVars, wseq, written, job>>
    BY <1>18 DEF TakeJob
  <2> QED
    BY <1>1, <2>1, <2>2, <2>3, <2>4, <2>5 DEF TypeOK, yarnVars, mainVars
<1>19. CASE DropIn
  <2>1. pc' \in [All -> Places] /\ inp' \in Pools
    BY <1>1, <1>3, <1>5, <1>19 DEF DropIn, Go, Places, TypeOK
  <2>2. UNCHANGED <<outp, queueVars, yarnVars, mainVars, writeVars, job>>
    BY <1>19 DEF DropIn
  <2> QED
    BY <1>1, <2>1, <2>2 DEF TypeOK, queueVars, yarnVars, mainVars, writeVars
<1>20. CASE WriteBlock
  <2>1. pc' \in [All -> Places] /\ outp' \in Pools /\ Working /\ wseq' \in Nat /\ wjob' = NoJob
    BY <1>1, <1>2, <1>3, <1>5, <1>20 DEF WriteBlock, Go, Places, TypeOK
  <2>2. wjob.seq \in Int
    BY <1>20, <2>1 DEF WriteBlock, Go, ZqInv, WriterKnown, WriterHas, Truly, Jobs
  <2>3. written' \in Seq(Int)
    BY <1>1, <1>20, <2>2 DEF WriteBlock, TypeOK
  <2>4. UNCHANGED <<inp, queueVars, yarnVars, mainVars, job>>
    BY <1>20 DEF WriteBlock
  <2> QED
    BY <1>1, <2>1, <2>3, <2>4 DEF TypeOK, queueVars, yarnVars, mainVars
<1>21. CASE DropNull
  <2>1. pc' \in [All -> Places] /\ Working /\ pc[Writer] = "write"
    BY <1>2, <1>21 DEF DropNull, At, Places
  <2>2. wjob.seq \in Int
    BY <2>1 DEF ZqInv, WriterKnown, WriterHas, Truly, Jobs
  <2>3. written' \in Seq(Int)
    BY <1>1, <1>21, <2>2 DEF DropNull, TypeOK
  <2>4. UNCHANGED <<inp, outp, queueVars, yarnVars, mainVars, wseq, wjob, job>>
    BY <1>21 DEF DropNull
  <2> QED
    BY <1>1, <2>1, <2>3, <2>4 DEF TypeOK, queueVars, yarnVars, mainVars
<1>22. CASE Verify
  <2>1. pc' \in [All -> Places]
    BY <1>2, <1>22 DEF Verify, Places
  <2>2. UNCHANGED <<inp, outp, queueVars, yarnVars, mainVars, writeVars, job>>
    BY <1>22 DEF Verify
  <2> QED
    BY <1>1, <2>1, <2>2 DEF TypeOK, queueVars, yarnVars, mainVars, writeVars
<1>23. ASSUME NEW t \in Workers \cup {Writer}, ThreadExits(t) PROVE TypeOK'
  <2>1. UNCHANGED <<inp, outp, queueVars, mainVars, writeVars, job>> /\ Reenter(t)
    BY <1>23 DEF ThreadExits
  <2> QED
    BY <1>1, <1>7, <2>1 DEF TypeOK, queueVars, mainVars, writeVars
<1>24. ASSUME NEW w \in Workers, GetJob(w) PROVE TypeOK'
  <2>1. UNCHANGED <<inp, outp, seq, seqFirst, yarnVars, mainVars, writeVars>>
    BY <1>24 DEF GetJob
  <2>2. fifo[1] \in Jobs /\ Tail(fifo) \in Seq(Jobs)
    BY <1>1, <1>24, CountTail DEF GetJob, TypeOK
  <2>3. /\ pc' \in [All -> Places] /\ fifo' \in Seq(Jobs) /\ fifoHave' \in Nat
        /\ job' \in [Workers -> Jobs \cup {NoJob}]
    <3>1. CASE fifo[1].seq = Stop
      <4>1. pc' = [pc EXCEPT ![w] = "reenter"] /\ UNCHANGED <<fifo, fifoHave, job>>
        BY <1>24, <3>1 DEF GetJob, Go
      <4> QED
        BY <1>1, <1>3, <4>1 DEF TypeOK, Places
    <3>2. CASE fifo[1].seq # Stop
      <4>1. /\ pc' = [pc EXCEPT ![w] = "out"] /\ job' = [job EXCEPT ![w] = fifo[1]]
            /\ fifo' = Tail(fifo) /\ fifoHave' = fifoHave - 1 /\ fifoHave # 0
        BY <1>24, <3>2 DEF GetJob, Go
      <4>2. pc' \in [All -> Places]
        BY <1>3, <4>1 DEF Places
      <4>3. job' \in [Workers -> Jobs \cup {NoJob}]
        BY <1>1, <2>2, <4>1 DEF TypeOK
      <4>4. fifoHave' \in Nat
        BY <1>1, <4>1 DEF TypeOK
      <4> QED
        BY <2>2, <4>1, <4>2, <4>3, <4>4
    <3> QED
      BY <3>1, <3>2
  <2> QED
    BY <1>1, <2>1, <2>3 DEF TypeOK, yarnVars, mainVars, writeVars
<1>25. ASSUME NEW w \in Workers, HasJob(w) PROVE Working /\ job[w] \in Jobs
  <2>1. Working
    BY <1>2, <1>25 DEF HasJob
  <2> QED
    BY <1>25, <2>1 DEF ZqInv, JobsKnown, Truly
<1>26. ASSUME NEW w \in Workers, NEW b \in BOOLEAN, HasJob(w)
       PROVE  [job EXCEPT ![w].out = b] \in [Workers -> Jobs \cup {NoJob}]
  <2>1. [job[w] EXCEPT !.out = b] \in Jobs
    BY <1>25, <1>26 DEF Jobs
  <2> QED
    BY <1>1, <2>1 DEF TypeOK
<1>27. ASSUME NEW w \in Workers, GetOut(w) \/ Grow(w) PROVE TypeOK'
  <2>1. UNCHANGED <<inp, queueVars, yarnVars, mainVars, writeVars>> /\ HasJob(w)
    BY <1>27 DEF GetOut, Grow, HasJob, Go
  <2>2. pc' \in [All -> Places] /\ outp' \in Pools
    BY <1>1, <1>3, <1>5, <1>27 DEF GetOut, Grow, Go, Places, TypeOK
  <2>3. job' \in [Workers -> Jobs \cup {NoJob}]
    <3>1. CASE GetOut(w)
      BY <1>26, <2>1, <3>1 DEF GetOut
    <3>2. CASE Grow(w)
      BY <1>26, <2>1, <3>2 DEF Grow
    <3> QED
      BY <1>27, <3>1, <3>2
  <2> QED
    BY <1>1, <2>1, <2>2, <2>3 DEF TypeOK, queueVars, yarnVars, mainVars, writeVars
<1>28. ASSUME NEW w \in Workers, PutJob(w) PROVE TypeOK'
  <2>1. UNCHANGED <<inp, outp, fifo, fifoHave, yarnVars, mainVars, writeVars>>
    BY <1>28 DEF PutJob
  <2>2. pc' \in [All -> Places] /\ HasJob(w)
    BY <1>3, <1>28 DEF PutJob, Go, HasJob, Places
  <2>3. seq \in Seq(Jobs) /\ job[w] \in Jobs
    BY <1>1, <1>25, <2>2 DEF TypeOK
  <2>4. /\ Inserted(seq, job[w]) \in Seq(Jobs)
        /\ Len(Inserted(seq, job[w])) = Len(seq) + 1
    BY <2>3, InsertedIs
  <2>5. Inserted(seq, job[w])[1] \in Jobs
    BY <2>3, <2>4
  <2>6. seq' \in Seq(Jobs) /\ seqFirst' \in Int
    BY <1>28, <2>4, <2>5 DEF PutJob, AddWJob, Jobs
  <2>7. job' \in [Workers -> Jobs \cup {NoJob}]
    BY <1>1, <1>28 DEF PutJob, TypeOK
  <2> QED
    BY <1>1, <2>1, <2>2, <2>6, <2>7 DEF TypeOK, yarnVars, mainVars, writeVars
<1>29. CASE Finished
  BY <1>1, <1>29 DEF Finished, vars, TypeOK, queueVars, yarnVars, mainVars, writeVars
<1>30. CASE Main
  BY <1>9, <1>10, <1>11, <1>12, <1>13, <1>14, <1>15, <1>16, <1>17, <1>30 DEF Main
<1>31. CASE Write
  BY <1>18, <1>19, <1>20, <1>21, <1>22, <1>23, <1>31 DEF Write
<1>32. CASE \E w \in Workers : Work(w)
  BY <1>23, <1>24, <1>27, <1>28, <1>32 DEF Work
<1> QED
  BY <1>8, <1>29, <1>30, <1>31, <1>32 DEF Next

(* The places of the threads that are running.                              *)
MainPlaces == {"space", "toobig", "more", "unread", "launch", "add", "join", "fini", "joinall"}
WorkerPlaces == {"get", "out", "grow", "put", "reenter"}
WriterPlaces == {"take", "dropin", "write", "verify", "reenter"}

(* The lists of threads say where the threads are.                          *)
LEMMA ThreadsStep ==
  ASSUME ZqInv, ~Crashed, Next
  PROVE  ThreadsKnown'
<1> DEFINE All == Workers \cup {Writer, "main"}
           List == {t \in Workers \cup {Writer} : pc[t] # "none"}
           Gone == {t \in Workers \cup {Writer} : pc[t] = "gone"}
<1>1. /\ pc \in [All -> Places]
      /\ "main" \notin Workers /\ "main" # Writer /\ Writer \notin Workers
      /\ pc["main"] \in MainPlaces \cup {"file", "free"}
      /\ \A w \in Workers : pc[w] \in WorkerPlaces \cup {"none", "gone"}
      /\ pc[Writer] \in WriterPlaces \cup {"none", "gone"}
      /\ threads = List /\ done = Gone
      /\ pc["main"] \in {"file", "free"} => threads = {}
  BY Known DEF ZqInv, ThreadsKnown, Crashed, MainPlaces, WorkerPlaces, WriterPlaces
<1>2. ASSUME /\ pc' \in [All -> Places]
             /\ pc'["main"] \in MainPlaces \cup {"file", "free"}
             /\ \A w \in Workers : pc'[w] \in WorkerPlaces \cup {"none", "gone"}
             /\ pc'[Writer] \in WriterPlaces \cup {"none", "gone"}
             /\ threads' = {t \in Workers \cup {Writer} : pc'[t] # "none"}
             /\ done' = {t \in Workers \cup {Writer} : pc'[t] = "gone"}
             /\ pc'["main"] \in {"file", "free"} => threads' = {}
      PROVE  ThreadsKnown'
  BY <1>2 DEF ThreadsKnown, Crashed, MainPlaces, WorkerPlaces, WriterPlaces
<1>3. ASSUME NEW p \in MainPlaces, pc' = [pc EXCEPT !["main"] = p], UNCHANGED <<threads, done>>
      PROVE  ThreadsKnown'
  <2>1. /\ pc' \in [All -> Places] /\ pc'["main"] = p
        /\ \A t \in Workers \cup {Writer} : pc'[t] = pc[t]
    BY <1>1, <1>3 DEF MainPlaces, Places
  <2> QED
    BY <1>1, <1>2, <1>3, <2>1 DEF MainPlaces
<1>4. ASSUME NEW t \in Workers \cup {Writer}, pc[t] \notin {"none", "gone"},
             NEW p, p \in (IF t = Writer THEN WriterPlaces ELSE WorkerPlaces),
             pc' = [pc EXCEPT ![t] = p], UNCHANGED <<threads, done>>
      PROVE  ThreadsKnown'
  <2>1. /\ pc' \in [All -> Places] /\ pc'[t] = p /\ \A u \in All \ {t} : pc'[u] = pc[u]
        /\ p \notin {"none", "gone"}
    BY <1>1, <1>4 DEF WriterPlaces, WorkerPlaces, Places
  <2>2. pc'["main"] = pc["main"]
    BY <1>1, <2>1
  <2>3. List = {u \in Workers \cup {Writer} : pc'[u] # "none"}
        /\ Gone = {u \in Workers \cup {Writer} : pc'[u] = "gone"}
    BY <1>4, <2>1
  <2>4. /\ \A w \in Workers : pc'[w] \in WorkerPlaces \cup {"none", "gone"}
        /\ pc'[Writer] \in WriterPlaces \cup {"none", "gone"}
    BY <1>1, <1>4, <2>1
  <2> QED
    BY <1>1, <1>2, <1>4, <2>1, <2>2, <2>3, <2>4
<1>5. ASSUME NEW t \in Workers \cup {Writer}, pc[t] = "none", NEW p \in MainPlaces,
             NEW q, q \in (IF t = Writer THEN WriterPlaces ELSE WorkerPlaces),
             pc' = [pc EXCEPT !["main"] = p, ![t] = q], threads' = threads \cup {t}, done' = done
      PROVE  ThreadsKnown'
  <2>1. /\ pc' \in [All -> Places] /\ pc'[t] = q /\ pc'["main"] = p
        /\ \A u \in Workers \cup {Writer} : u # t => pc'[u] = pc[u]
        /\ q \notin {"none", "gone"}
    BY <1>1, <1>5 DEF MainPlaces, WriterPlaces, WorkerPlaces, Places
  <2>2. List \cup {t} = {u \in Workers \cup {Writer} : pc'[u] # "none"}
        /\ Gone = {u \in Workers \cup {Writer} : pc'[u] = "gone"}
    BY <1>5, <2>1
  <2>3. /\ \A w \in Workers : pc'[w] \in WorkerPlaces \cup {"none", "gone"}
        /\ pc'[Writer] \in WriterPlaces \cup {"none", "gone"}
    BY <1>1, <1>5, <2>1
  <2> QED
    BY <1>1, <1>2, <1>5, <2>1, <2>2, <2>3 DEF MainPlaces
<1>6. ASSUME NEW t \in Workers \cup {Writer}, pc[t] = "gone", NEW p \in MainPlaces,
             pc' = [pc EXCEPT !["main"] = p, ![t] = "none"],
             threads' = threads \ {t}, done' = done \ {t}
      PROVE  ThreadsKnown'
  <2>1. /\ pc' \in [All -> Places] /\ pc'[t] = "none" /\ pc'["main"] = p
        /\ \A u \in Workers \cup {Writer} : u # t => pc'[u] = pc[u]
    BY <1>1, <1>6 DEF MainPlaces, Places
  <2>2. List \ {t} = {u \in Workers \cup {Writer} : pc'[u] # "none"}
        /\ Gone \ {t} = {u \in Workers \cup {Writer} : pc'[u] = "gone"}
    BY <1>6, <2>1
  <2>3. /\ \A w \in Workers : pc'[w] \in WorkerPlaces \cup {"none", "gone"}
        /\ pc'[Writer] \in WriterPlaces \cup {"none", "gone"}
    BY <1>1, <1>6, <2>1
  <2> QED
    BY <1>1, <1>2, <1>6, <2>1, <2>2, <2>3 DEF MainPlaces
<1>7. ASSUME NEW t \in Workers \cup {Writer}, ThreadExits(t)
      PROVE  ThreadsKnown'
  <2>1. /\ pc[t] = "reenter" /\ pc' = [pc EXCEPT ![t] = "gone"]
        /\ threads' = threads /\ done' = done \cup {t}
    BY <1>7 DEF ThreadExits, Reenter, Go
  <2>2. /\ pc' \in [All -> Places] /\ pc'[t] = "gone" /\ \A u \in All \ {t} : pc'[u] = pc[u]
    BY <1>1, <2>1 DEF Places
  <2>3. pc'["main"] = pc["main"]
    BY <1>1, <2>2
  <2>4. List = {u \in Workers \cup {Writer} : pc'[u] # "none"}
        /\ Gone \cup {t} = {u \in Workers \cup {Writer} : pc'[u] = "gone"}
    BY <2>1, <2>2
  <2>5. /\ \A w \in Workers : pc'[w] \in WorkerPlaces \cup {"none", "gone"}
        /\ pc'[Writer] \in WriterPlaces \cup {"none", "gone"}
    BY <1>1, <2>2
  <2> QED
    BY <1>1, <1>2, <2>1, <2>2, <2>3, <2>4, <2>5
<1>8. ASSUME pc' = [t \in DOMAIN pc |-> "crashed"] PROVE ThreadsKnown'
  BY <1>1, <1>8 DEF ThreadsKnown, Crashed
<1>9. ASSUME NEW f \in FileKinds, Begin(f) PROVE ThreadsKnown'
  <2>1. /\ pc' = [pc EXCEPT !["main"] = "space", ![Writer] = "take"]
        /\ threads' = threads \cup {Writer} /\ done' = done /\ pc[Writer] = "none"
    BY <1>1, <1>9 DEF Begin, Launched, At
  <2> QED
    BY <1>5, <2>1 DEF MainPlaces, WriterPlaces
<1>10. CASE SeekFails \/ ReadBlock \/ DropSmall \/ LastIsShort \/ ReadAhead \/ DropUnread
  <2>1. \E p \in MainPlaces : pc' = [pc EXCEPT !["main"] = p]
    BY <1>10 DEF SeekFails, ReadBlock, DropSmall, LastIsShort, ReadAhead, DropUnread, Go,
       MainPlaces
  <2>2. UNCHANGED <<threads, done>>
    BY <1>10 DEF SeekFails, ReadBlock, DropSmall, LastIsShort, ReadAhead, DropUnread, yarnVars
  <2> QED
    BY <1>3, <2>1, <2>2
<1>11. CASE AddJob \/ StopWorkers
  <2>1. \E p \in MainPlaces : pc' = [pc EXCEPT !["main"] = p]
    BY <1>11 DEF AddJob, StopWorkers, Go, MainPlaces
  <2>2. UNCHANGED <<threads, done>>
    BY <1>11 DEF AddJob, StopWorkers, yarnVars
  <2> QED
    BY <1>3, <2>1, <2>2
<1>12. CASE Launch
  <2>1. CASE Go("main", "launch", "add") /\ UNCHANGED <<threads, cthreads>>
    BY <1>3, <1>12, <2>1 DEF Launch, Go, MainPlaces
  <2>2. CASE \E w \in Idle : /\ threads' = Launched(w) /\ cthreads' = cthreads + 1
                             /\ pc' = [pc EXCEPT !["main"] = "add", ![w] = "get"]
    <3>1. PICK w \in Idle : /\ threads' = threads \cup {w}
                            /\ pc' = [pc EXCEPT !["main"] = "add", ![w] = "get"]
      BY <2>2 DEF Launched
    <3>2. w \in Workers /\ pc[w] = "none" /\ w # Writer /\ done' = done
      BY <1>1, <1>12 DEF Idle, At, Launch
    <3> QED
      BY <1>5, <3>1, <3>2 DEF MainPlaces, WorkerPlaces
  <2> QED
    BY <1>12, <2>1, <2>2 DEF Launch
<1>13. CASE JoinWriter
  BY <1>6, <1>13 DEF JoinWriter, At, MainPlaces
<1>14. CASE JoinOne
  <2>1. PICK t \in done : /\ pc' = [pc EXCEPT ![t] = "none"]
                          /\ threads' = threads \ {t} /\ done' = done \ {t}
    BY <1>14 DEF JoinOne
  <2>2. t \in Workers \cup {Writer} /\ pc[t] = "gone"
    BY <1>1
  <2>3. pc' = [pc EXCEPT !["main"] = "joinall", ![t] = "none"]
    BY <1>1, <1>14, <2>1 DEF JoinOne, At
  <2> QED
    BY <1>6, <2>1, <2>2, <2>3 DEF MainPlaces
<1>15. CASE AllJoined \/ FreePools
  <2>1. \E p \in {"file", "free"} : pc' = [pc EXCEPT !["main"] = p]
    BY <1>15 DEF AllJoined, FreePools, Go
  <2>2. UNCHANGED <<threads, done>> /\ threads = {}
    BY <1>1, <1>15 DEF AllJoined, FreePools, Go, yarnVars
  <2>3. /\ pc' \in [All -> Places] /\ pc'["main"] \in {"file", "free"}
        /\ \A t \in Workers \cup {Writer} : pc'[t] = pc[t]
    BY <1>1, <2>1 DEF Places
  <2> QED
    BY <1>1, <1>2, <2>2, <2>3
<1>16. CASE TakeJob \/ DropIn \/ WriteBlock
  <2>1. \E p \in WriterPlaces : pc' = [pc EXCEPT ![Writer] = p]
    BY <1>16 DEF TakeJob, DropIn, WriteBlock, Go, WriterPlaces
  <2>2. UNCHANGED <<threads, done>> /\ pc[Writer] \notin {"none", "gone"}
    BY <1>16 DEF TakeJob, DropIn, WriteBlock, Go, yarnVars
  <2> QED
    BY <1>4, <2>1, <2>2
<1>17. CASE DropNull
  BY <1>8, <1>17 DEF DropNull
<1>18. CASE Verify
  <2>1. CASE pc' = [pc EXCEPT ![Writer] = "reenter"]
    <3>1. UNCHANGED <<threads, done>> /\ pc[Writer] \notin {"none", "gone"}
      BY <1>18 DEF Verify, At, yarnVars
    <3> QED
      BY <1>4, <2>1, <3>1 DEF WriterPlaces
  <2> QED
    BY <1>8, <1>18, <2>1 DEF Verify
<1>19. ASSUME NEW w \in Workers, GetJob(w) \/ GetOut(w) \/ Grow(w) \/ PutJob(w)
       PROVE  ThreadsKnown'
  <2>1. \E p \in WorkerPlaces : pc' = [pc EXCEPT ![w] = p]
    BY <1>19 DEF GetJob, GetOut, Grow, PutJob, Go, WorkerPlaces
  <2>2. UNCHANGED <<threads, done>> /\ pc[w] \notin {"none", "gone"}
    BY <1>19 DEF GetJob, GetOut, Grow, PutJob, Go, yarnVars
  <2> QED
    BY <1>1, <1>4, <2>1, <2>2
<1>20. CASE Finished
  BY <1>1, <1>2, <1>20 DEF Finished, vars, yarnVars
<1>21. CASE Main
  BY <1>10, <1>11, <1>12, <1>13, <1>14, <1>15, <1>21 DEF Main
<1>22. CASE Write
  BY <1>7, <1>16, <1>17, <1>18, <1>22 DEF Write
<1>23. CASE \E w \in Workers : Work(w)
  BY <1>7, <1>19, <1>23 DEF Work
<1> QED
  BY <1>9, <1>20, <1>21, <1>22, <1>23 DEF Next

(* The writer is never ahead of the main thread.                            *)
LEMMA WriterBehind ==
  ASSUME ZqInv, Working
  PROVE  /\ Len(fifo) \in Nat /\ Len(seq) \in Nat /\ Cardinality(Holders) \in Nat
         /\ Count(WriterHas) \in Nat /\ wseq <= Queued /\ Queued <= mseq /\ Queued \in Nat
         /\ wseq \in Nat /\ mseq \in Nat /\ mseq <= file.blocks
<1>1. Len(fifo) \in Nat /\ Len(seq) \in Nat /\ wseq \in Nat /\ mseq \in Nat
  BY DEF ZqInv, TypeOK
<1>2. Cardinality(Holders) \in Nat
  BY WorkersCount DEF Holders
<1>3. Count(WriterHas) \in Nat
  BY DEF Count
<1>4. Queued <= mseq /\ Queued \in Nat /\ mseq <= file.blocks
  BY <1>1 DEF ZqInv, MainKnown, Queued
<1>5. wseq <= Queued
  BY <1>1, <1>2, <1>3, <1>4 DEF ZqInv, JobsKnown
<1> QED
  BY <1>1, <1>2, <1>3, <1>4, <1>5

(* The job the writer has is one of those not written.                      *)
LEMMA WriterHasOne ==
  ASSUME ZqInv, Working, WriterHas
  PROVE  wseq + 1 <= Queued
<1>1. Count(WriterHas) = 1
  BY DEF Count
<1>2. (IF Stopping THEN 0 ELSE Len(fifo)) + Cardinality(Holders) + Len(seq) + Count(WriterHas)
        <= Queued - wseq
  BY DEF ZqInv, JobsKnown
<1>3. /\ Cardinality(Holders) \in Nat /\ Len(seq) \in Nat /\ Len(fifo) \in Nat
      /\ wseq \in Nat /\ Queued \in Nat
  BY WriterBehind
<1>4. ASSUME NEW f \in Nat, NEW h \in Nat, NEW l \in Nat, NEW w \in Nat, NEW q \in Nat,
             f + h + l + 1 <= q - w
      PROVE  w + 1 <= q
  BY <1>4
<1> QED
  BY <1>1, <1>2, <1>3, <1>4

(* yarnJoinAll joins no write thread: that was joined before, or waits for  *)
(* blocks that were never queued.                                           *)
LEMMA OnlyWorkersLeft ==
  ASSUME ZqInv, ~Crashed, pc["main"] = "joinall"
  PROVE  Writer \notin done
<1>1. Working
  BY DEF Working
<1>2. Writer \in done <=> pc[Writer] = "gone"
  BY Known
<1>3. ASSUME pc[Writer] = "gone" PROVE FALSE
  <2>1. wseq = file.blocks /\ mseq < file.blocks /\ file.blocks \in Nat
    BY <1>1, <1>3, Known DEF ZqInv, WriterKnown, MainKnown
  <2> QED
    BY <1>1, <2>1, WriterBehind
<1> QED
  BY <1>2, <1>3

(* What the main thread knows: a file is read to its end, and its writer is *)
(* joined when all of it is written.                                        *)
LEMMA MainStep ==
  ASSUME ZqInv, ~Crashed, Next
  PROVE  MainKnown'
<1> DEFINE All == Workers \cup {Writer, "main"}
<1>1. /\ pc \in [All -> Places]
      /\ "main" \notin Workers /\ "main" # Writer /\ Writer \notin Workers
      /\ \A t \in Workers \cup {Writer} : t \in done <=> pc[t] = "gone"
      /\ (\E t \in Workers \cup {Writer} : pc[t] # "none") => Working
      /\ Working => /\ file \in FileKinds /\ file.blocks \in Nat \ {0}
                    /\ file.op \in {"compress", "decompress"}
      /\ mseq \in Nat /\ more \in BOOLEAN /\ done \subseteq Workers \cup {Writer}
      /\ MainKnown
  BY Known DEF ZqInv, TypeOK
<1>2. Working <=> pc["main"] \notin {"file", "crashed"}
  BY DEF Working
<1>3. ASSUME pc'["main"] = pc["main"] \/ pc'["main"] \in {"file", "crashed"},
             pc'[Writer] = "none" <=> pc[Writer] = "none",
             pc[Writer] = "none" => wseq' = wseq, UNCHANGED <<file, mseq, more>>
      PROVE  MainKnown'
  BY <1>1, <1>3 DEF MainKnown, Working
<1>4. ASSUME NEW p, NEW q, p # "main", pc' = [pc EXCEPT ![p] = q],
             p = Writer => pc[p] # "none" /\ q # "none"
      PROVE  /\ pc'["main"] = pc["main"]
             /\ pc'[Writer] = "none" <=> pc[Writer] = "none"
  BY <1>1, <1>4
<1>5. ASSUME NEW p, pc' = [pc EXCEPT !["main"] = p]
      PROVE  pc'["main"] = p /\ pc'[Writer] = pc[Writer]
  BY <1>1, <1>5
<1>6. ASSUME NEW f \in FileKinds, Begin(f) PROVE MainKnown'
  <2>1. f.blocks \in Nat \ {0}
    BY ZqAssumption DEF Files
  <2>2. /\ pc'["main"] = "space" /\ pc'[Writer] = "take"
        /\ file' = f /\ mseq' = 0
    BY <1>1, <1>6 DEF Begin
  <2> QED
    BY <2>1, <2>2 DEF MainKnown
<1>7. CASE SeekFails
  <2>1. /\ pc["main"] = "space" /\ pc'["main"] = "fini" /\ pc'[Writer] = pc[Writer]
        /\ UNCHANGED <<file, mseq, more, wseq>>
    BY <1>5, <1>7 DEF SeekFails, Go, mainVars, writeVars
  <2> QED
    BY <1>1, <1>2, <2>1 DEF MainKnown
<1>8. CASE ReadBlock
  <2>1. /\ pc["main"] = "space" /\ pc'[Writer] = pc[Writer]
        /\ pc'["main"] = IF file.op = "compress" THEN "more"
                         ELSE IF mseq \in file.big THEN "toobig" ELSE "launch"
    BY <1>5, <1>8 DEF ReadBlock, Go
  <2>2. more' <=> mseq + 1 < file.blocks
    BY <1>8 DEF ReadBlock
  <2>3. UNCHANGED <<file, mseq, wseq>>
    BY <1>8 DEF ReadBlock, writeVars
  <2> QED
    BY <1>1, <1>2, <2>1, <2>2, <2>3 DEF MainKnown
<1>9. CASE DropSmall \/ LastIsShort \/ DropUnread
  <2>1. /\ pc["main"] \in {"toobig", "more", "unread"} /\ pc'["main"] = "launch"
        /\ pc'[Writer] = pc[Writer] /\ UNCHANGED <<file, mseq, more, wseq>>
    BY <1>5, <1>9 DEF DropSmall, LastIsShort, DropUnread, Go, mainVars, writeVars
  <2> QED
    BY <1>1, <1>2, <2>1 DEF MainKnown
<1>10. CASE ReadAhead
  <2>1. /\ pc["main"] = "more" /\ pc'["main"] = (IF more THEN "launch" ELSE "unread")
        /\ pc'[Writer] = pc[Writer]
    BY <1>5, <1>10 DEF ReadAhead, Go
  <2>2. UNCHANGED <<file, mseq, more, wseq>>
    BY <1>10 DEF ReadAhead, mainVars, writeVars
  <2> QED
    BY <1>1, <1>2, <2>1, <2>2 DEF MainKnown
<1>11. CASE Launch
  <2>1. pc["main"] = "launch" /\ mseq' = mseq + 1 /\ UNCHANGED <<file, more, wseq>>
    BY <1>11 DEF Launch, At, writeVars
  <2>2. pc'["main"] = "add" /\ pc'[Writer] = pc[Writer]
    <3>1. CASE Go("main", "launch", "add")
      BY <1>5, <3>1 DEF Go
    <3>2. CASE \E w \in Idle : pc' = [pc EXCEPT !["main"] = "add", ![w] = "get"]
      BY <1>1, <3>2 DEF Idle
    <3> QED
      BY <1>11, <3>1, <3>2 DEF Launch
  <2> QED
    BY <1>1, <1>2, <2>1, <2>2 DEF MainKnown
<1>12. CASE AddJob
  <2>1. /\ pc["main"] = "add" /\ pc'[Writer] = pc[Writer]
        /\ pc'["main"] = IF ~more THEN "join"
                         ELSE IF file.op = "compress" THEN "more" ELSE "space"
    BY <1>5, <1>12 DEF AddJob, Go
  <2>2. file.op = "compress" => (more' <=> mseq + 1 < file.blocks)
    BY <1>12 DEF AddJob
  <2>3. UNCHANGED <<file, mseq, wseq>>
    BY <1>12 DEF AddJob, writeVars
  <2> QED
    BY <1>1, <1>2, <2>1, <2>2, <2>3 DEF MainKnown
<1>13. CASE JoinWriter
  <2>1. /\ pc["main"] = "join" /\ pc[Writer] = "gone" /\ pc'["main"] = "fini"
        /\ pc'[Writer] = "none" /\ UNCHANGED <<file, mseq, more, wseq>>
    BY <1>1, <1>13 DEF JoinWriter, At, mainVars, writeVars
  <2>2. wseq = file.blocks
    BY <1>2, <2>1 DEF ZqInv, WriterKnown
  <2> QED
    BY <1>1, <1>2, <2>1, <2>2 DEF MainKnown
<1>14. CASE StopWorkers \/ AllJoined
  <2>1. /\ pc["main"] \in {"fini", "joinall"} /\ pc'["main"] \in {"joinall", "free"}
        /\ pc'[Writer] = pc[Writer] /\ UNCHANGED <<file, mseq, more, wseq>>
    BY <1>5, <1>14 DEF StopWorkers, AllJoined, Go, mainVars, writeVars
  <2> QED
    BY <1>1, <1>2, <2>1 DEF MainKnown
<1>15. CASE JoinOne
  <2>1. PICK t \in done : pc' = [pc EXCEPT ![t] = "none"]
    BY <1>15 DEF JoinOne
  <2>2. pc["main"] = "joinall" /\ UNCHANGED <<file, mseq, more, wseq>>
    BY <1>15 DEF JoinOne, At, writeVars
  <2>3. t # Writer
    BY <2>2, OnlyWorkersLeft
  <2> QED
    BY <1>1, <1>3, <1>4, <2>1, <2>2, <2>3
<1>16. CASE FreePools
  <2>1. pc'["main"] = "file"
    BY <1>5, <1>16 DEF FreePools, Go
  <2> QED
    BY <2>1 DEF MainKnown, Working
<1>17. CASE TakeJob \/ DropIn \/ WriteBlock
  <2>1. /\ pc[Writer] # "none" /\ \E q : q # "none" /\ pc' = [pc EXCEPT ![Writer] = q]
    BY <1>17 DEF TakeJob, DropIn, WriteBlock, Go
  <2>2. UNCHANGED <<file, mseq, more>>
    BY <1>17 DEF TakeJob, DropIn, WriteBlock, mainVars
  <2> QED
    BY <1>1, <1>3, <1>4, <2>1, <2>2
<1>18. CASE DropNull \/ Verify
  <2>1. \/ pc'["main"] = "crashed"
        \/ pc[Writer] = "verify" /\ pc' = [pc EXCEPT ![Writer] = "reenter"]
    BY <1>1, <1>18 DEF DropNull, Verify, At
  <2>2. UNCHANGED <<file, mseq, more>>
    BY <1>18 DEF DropNull, Verify, mainVars
  <2>3. CASE pc'["main"] = "crashed"
    BY <2>3 DEF MainKnown, Working
  <2> QED
    BY <1>1, <1>3, <1>4, <2>1, <2>2, <2>3
<1>19. ASSUME NEW t \in Workers \cup {Writer}, ThreadExits(t) PROVE MainKnown'
  <2>1. /\ pc[t] # "none" /\ pc' = [pc EXCEPT ![t] = "gone"]
        /\ UNCHANGED <<file, mseq, more, wseq>>
    BY <1>19 DEF ThreadExits, Reenter, Go, mainVars, writeVars
  <2> QED
    BY <1>1, <1>3, <1>4, <2>1
<1>20. ASSUME NEW w \in Workers, GetJob(w) \/ GetOut(w) \/ Grow(w) \/ PutJob(w)
       PROVE  MainKnown'
  <2>1. /\ \E q : pc' = [pc EXCEPT ![w] = q]
        /\ UNCHANGED <<file, mseq, more, wseq>>
    BY <1>20 DEF GetJob, GetOut, Grow, PutJob, Go, mainVars, writeVars
  <2> QED
    BY <1>1, <1>3, <1>4, <2>1
<1>21. CASE Finished
  BY <1>1, <1>3, <1>21 DEF Finished, vars, mainVars, writeVars
<1>22. CASE Main
  BY <1>7, <1>8, <1>9, <1>10, <1>11, <1>12, <1>13, <1>14, <1>15, <1>16, <1>22 DEF Main
<1>23. CASE Write
  BY <1>17, <1>18, <1>19, <1>23 DEF Write
<1>24. CASE \E w \in Workers : Work(w)
  BY <1>19, <1>20, <1>24 DEF Work
<1> QED
  BY <1>6, <1>21, <1>22, <1>23, <1>24 DEF Next

(* What the writer knows: it has written a beginning of the file, and takes *)
(* the block that follows it.                                               *)
LEMMA WriterStep ==
  ASSUME ZqInv, ~Crashed, Next
  PROVE  WriterKnown'
<1> DEFINE All == Workers \cup {Writer, "main"}
           Kept == UNCHANGED <<file, seq, seqFirst, wseq, wjob, written>>
<1>1. /\ pc \in [All -> Places]
      /\ "main" \notin Workers /\ "main" # Writer /\ Writer \notin Workers
      /\ (\E t \in Workers \cup {Writer} : pc[t] # "none") => Working
      /\ Working => file.blocks \in Nat \ {0}
      /\ seq \in Seq(Jobs) /\ written \in Seq(Int) /\ wseq \in Nat /\ wjob \in Jobs \cup {NoJob}
      /\ done \subseteq Workers \cup {Writer}
      /\ WriterKnown
  BY Known DEF ZqInv, TypeOK
<1>2. ASSUME Kept, Working,
             pc'[Writer] = pc[Writer] \/ pc'[Writer] = "none"
      PROVE  WriterKnown'
  BY <1>1, <1>2 DEF WriterKnown, WriterHas, Truly, FirstAfter
<1>3. ASSUME UNCHANGED written, pc'["main"] \in {"file", "crashed"} PROVE WriterKnown'
  BY <1>1, <1>3 DEF WriterKnown, Working
<1>4. ASSUME NEW p, NEW q, p # Writer, pc' = [pc EXCEPT ![p] = q]
      PROVE  pc'[Writer] = pc[Writer]
  BY <1>1, <1>4
<1>5. ASSUME NEW f \in FileKinds, Begin(f) PROVE WriterKnown'
  <2>1. f.blocks \in Nat \ {0}
    BY ZqAssumption DEF Files
  <2>2. /\ pc'[Writer] = "take" /\ file' = f /\ wseq' = 0 /\ written' = <<>>
        /\ seq' = <<>> /\ seqFirst' = -1
    BY <1>1, <1>5 DEF Begin
  <2> QED
    BY <2>1, <2>2 DEF WriterKnown, WriterHas, FirstAfter
<1>6. CASE SeekFails \/ ReadBlock \/ DropSmall \/ LastIsShort \/ ReadAhead \/ DropUnread
  <2>1. pc["main"] \in {"space", "toobig", "more", "unread"} /\ \E q : pc' = [pc EXCEPT !["main"] = q]
    BY <1>6 DEF SeekFails, ReadBlock, DropSmall, LastIsShort, ReadAhead, DropUnread, Go
  <2>2. Kept
    BY <1>6 DEF SeekFails, ReadBlock, DropSmall, LastIsShort, ReadAhead, DropUnread, mainVars,
       writeVars, queueVars
  <2> QED
    BY <1>1, <1>2, <1>4, <2>1, <2>2 DEF Working
<1>7. CASE Launch
  <2>1. pc["main"] = "launch" /\ Kept
    BY <1>7 DEF Launch, At, writeVars, queueVars
  <2>2. pc'[Writer] = pc[Writer]
    <3>1. CASE Go("main", "launch", "add")
      BY <1>1, <1>4, <3>1 DEF Go
    <3>2. CASE \E w \in Idle : pc' = [pc EXCEPT !["main"] = "add", ![w] = "get"]
      BY <1>1, <3>2 DEF Idle
    <3> QED
      BY <1>7, <3>1, <3>2 DEF Launch
  <2> QED
    BY <1>2, <2>1, <2>2 DEF Working
<1>8. CASE AddJob \/ StopWorkers \/ AllJoined
  <2>1. pc["main"] \in {"add", "fini", "joinall"} /\ \E q : pc' = [pc EXCEPT !["main"] = q]
    BY <1>8 DEF AddJob, StopWorkers, AllJoined, Go
  <2>2. Kept
    BY <1>8 DEF AddJob, StopWorkers, AllJoined, mainVars, writeVars, queueVars
  <2> QED
    BY <1>1, <1>2, <1>4, <2>1, <2>2 DEF Working
<1>9. CASE JoinWriter
  BY <1>1, <1>2, <1>9 DEF JoinWriter, At, Working, mainVars, writeVars, queueVars
<1>10. CASE JoinOne
  <2>1. PICK t \in done : pc' = [pc EXCEPT ![t] = "none"]
    BY <1>10 DEF JoinOne
  <2>2. pc'[Writer] = pc[Writer] \/ pc'[Writer] = "none"
    BY <1>1, <2>1
  <2>3. Kept /\ Working
    BY <1>10 DEF JoinOne, At, Working, writeVars, queueVars
  <2> QED
    BY <1>2, <2>2, <2>3
<1>11. CASE FreePools
  <2>1. pc'["main"] = "file"
    BY <1>1, <1>11 DEF FreePools, Go
  <2> QED
    BY <1>3, <1>11, <2>1 DEF FreePools, writeVars
<1>12. CASE TakeJob
  <2>1. /\ Working /\ pc[Writer] = "take" /\ pc'[Writer] = "dropin" /\ seqFirst = wseq
        /\ seq # <<>> /\ wjob' = seq[1] /\ seq' = Tail(seq) /\ seqFirst' = FirstAfter(seq')
    BY <1>1, <1>12 DEF TakeJob, MyTurn, At, Go
  <2>2. UNCHANGED <<file, wseq, written>>
    BY <1>12 DEF TakeJob, mainVars
  <2>3. seq[1].seq = wseq
    BY <1>1, <2>1 DEF WriterKnown, FirstAfter
  <2>4. Truly(seq[1])
    BY <1>1, <2>1, CountTail DEF ZqInv, JobsKnown
  <2> QED
    BY <1>1, <2>1, <2>2, <2>3, <2>4 DEF WriterKnown, WriterHas, Truly
<1>13. CASE DropIn
  <2>1. Working /\ pc[Writer] = "dropin" /\ pc'[Writer] = "write" /\ Kept
    BY <1>1, <1>13 DEF DropIn, Go, mainVars, writeVars, queueVars
  <2> QED
    BY <1>1, <2>1 DEF WriterKnown, WriterHas, Truly, FirstAfter
<1>14. ASSUME pc[Writer] = "write", written' = Append(written, wjob.seq)
       PROVE  Len(written') = wseq + 1 /\ \A n \in 1..Len(written') : written'[n] = n - 1
  BY <1>1, <1>14 DEF WriterKnown, WriterHas
<1>15. CASE WriteBlock
  <2>1. /\ Working /\ pc[Writer] = "write" /\ wseq' = wseq + 1
        /\ written' = Append(written, wjob.seq)
        /\ pc'[Writer] = IF MoreToWrite THEN "take" ELSE "verify"
        /\ UNCHANGED <<file, seq, seqFirst>>
    BY <1>1, <1>15 DEF WriteBlock, Go, At, mainVars, queueVars
  <2> QED
    BY <1>1, <1>14, <2>1 DEF WriterKnown, WriterHas, MoreToWrite, FirstAfter
<1>16. CASE DropNull
  <2>1. pc[Writer] = "write" /\ written' = Append(written, wjob.seq) /\ pc'["main"] = "crashed"
    BY <1>1, <1>16 DEF DropNull, At
  <2> QED
    BY <1>14, <2>1 DEF WriterKnown, Working
<1>17. CASE Verify
  <2>1. pc[Writer] = "verify" /\ Kept
    BY <1>17 DEF Verify, At, mainVars, writeVars, queueVars
  <2>2. CASE pc' = [pc EXCEPT ![Writer] = "reenter"]
    BY <1>1, <2>1, <2>2 DEF WriterKnown, WriterHas, FirstAfter
  <2>3. CASE pc' = [t \in DOMAIN pc |-> "crashed"]
    BY <1>1, <1>3, <2>1, <2>3
  <2> QED
    BY <1>17, <2>2, <2>3 DEF Verify
<1>18. CASE ThreadExits(Writer)
  <2>1. pc[Writer] = "reenter" /\ pc'[Writer] = "gone" /\ Kept
    BY <1>1, <1>18 DEF ThreadExits, Reenter, Go, mainVars, writeVars, queueVars
  <2> QED
    BY <1>1, <2>1 DEF WriterKnown, WriterHas, FirstAfter
<1>19. ASSUME NEW w \in Workers, GetJob(w) \/ GetOut(w) \/ Grow(w) \/ ThreadExits(w)
       PROVE  WriterKnown'
  <2>1. pc[w] # "none" /\ \E q : pc' = [pc EXCEPT ![w] = q]
    BY <1>19 DEF GetJob, GetOut, Grow, ThreadExits, Reenter, Go
  <2>2. Kept
    BY <1>19 DEF GetJob, GetOut, Grow, ThreadExits, mainVars, writeVars, queueVars
  <2> QED
    BY <1>1, <1>2, <1>4, <2>1, <2>2
<1>20. ASSUME NEW w \in Workers, PutJob(w) PROVE WriterKnown'
  <2>1. pc[w] = "put" /\ pc'[Writer] = pc[Writer]
    BY <1>1, <1>4, <1>20 DEF PutJob, Go
  <2>2. Working /\ job[w] \in Jobs
    BY <1>1, <2>1 DEF ZqInv, JobsKnown, HasJob, Truly
  <2>3. seqFirst' = FirstAfter(seq')
    <3>1. /\ seq' = Inserted(seq, job[w]) /\ seqFirst' = Inserted(seq, job[w])[1].seq
      BY <1>20 DEF PutJob, AddWJob
    <3>2. seq \in Seq(Jobs)
      BY <1>1
    <3>3. Inserted(seq, job[w]) # <<>>
      BY <2>2, <3>2, InsertedIs
    <3> QED
      BY <3>1, <3>3 DEF FirstAfter
  <2>4. UNCHANGED <<file, wseq, wjob, written>>
    BY <1>20 DEF PutJob, mainVars, writeVars
  <2> QED
    BY <1>1, <2>1, <2>2, <2>3, <2>4 DEF WriterKnown, WriterHas, Truly
<1>21. CASE Finished
  BY <1>3, <1>21 DEF Finished, vars, writeVars, At
<1>22. CASE Main
  BY <1>6, <1>7, <1>8, <1>9, <1>10, <1>11, <1>22 DEF Main
<1>23. CASE Write
  BY <1>12, <1>13, <1>15, <1>16, <1>17, <1>18, <1>23 DEF Write
<1>24. CASE \E w \in Workers : Work(w)
  BY <1>19, <1>20, <1>24 DEF Work
<1> QED
  BY <1>5, <1>21, <1>22, <1>23, <1>24 DEF Next

(* The jobs under way are no more than the blocks queued and not written,   *)
(* and each says truly where its spaces came from.                          *)
LEMMA JobsStep ==
  ASSUME ZqInv, ~Crashed, Next
  PROVE  JobsKnown'
<1> DEFINE All == Workers \cup {Writer, "main"}
           Kept == UNCHANGED <<file, fifo, seq, job, wseq>>
           Flow == (IF Stopping THEN 0 ELSE Len(fifo)) + Cardinality(Holders)
                     + Len(seq) + Count(WriterHas)
           JobOf(w) == /\ Truly(job[w]) /\ (pc[w] = "grow" => ~Fits(job[w]))
                       /\ job[w].out <=> pc[w] # "out" /\ (pc[w] = "put" => Fits(job[w]))
<1>1. /\ pc \in [All -> Places]
      /\ "main" \notin Workers /\ "main" # Writer /\ Writer \notin Workers
      /\ (\E t \in Workers \cup {Writer} : pc[t] # "none") => Working
      /\ seq \in Seq(Jobs) /\ fifo \in Seq(Jobs)
      /\ wseq \in Nat /\ mseq \in Nat /\ job \in [Workers -> Jobs \cup {NoJob}]
      /\ done \subseteq Workers \cup {Writer} /\ \A t \in done : pc[t] = "gone"
  BY Known DEF ZqInv, TypeOK
<1>2. ASSUME Working
      PROVE  /\ \A n \in DOMAIN fifo : Truly(fifo[n]) /\ ~fifo[n].out
             /\ Stopping => \A n \in DOMAIN fifo : fifo[n].seq = Stop
             /\ \A n \in DOMAIN seq : Truly(seq[n])
             /\ \A w \in Workers : HasJob(w) => JobOf(w)
             /\ Flow <= Queued - wseq
  BY <1>2 DEF ZqInv, JobsKnown
<1>3. ASSUME Working
      PROVE  /\ Len(fifo) \in Nat /\ Len(seq) \in Nat /\ Cardinality(Holders) \in Nat
             /\ Count(WriterHas) \in {0, 1} /\ Queued \in Nat /\ wseq \in Nat
  BY <1>3, WriterBehind DEF Count
<1>4. ASSUME ~Working' PROVE JobsKnown'
  BY <1>4 DEF JobsKnown
<1>5. ASSUME Working, UNCHANGED <<file, fifo>>, Stopping' => Stopping
      PROVE  /\ \A n \in DOMAIN fifo' : Truly(fifo[n])' /\ ~fifo'[n].out
             /\ Stopping' => \A n \in DOMAIN fifo' : fifo'[n].seq = Stop
  BY <1>2, <1>5 DEF Truly
<1>6. ASSUME Working, UNCHANGED <<file, seq>>
      PROVE  \A n \in DOMAIN seq' : Truly(seq[n])'
  BY <1>2, <1>6 DEF Truly
<1>7. ASSUME Working, UNCHANGED <<file, job>>,
             \A w \in Workers : pc'[w] = pc[w] \/ ~HasJob(w)'
      PROVE  \A w \in Workers : HasJob(w)' => JobOf(w)'
  BY <1>2, <1>7 DEF Truly, Fits, HasJob
<1>8. ASSUME \A w \in Workers : HasJob(w)' <=> HasJob(w) PROVE Holders' = Holders
  BY <1>8 DEF Holders
<1>9. ASSUME /\ \A n \in DOMAIN fifo' : Truly(fifo[n])' /\ ~fifo'[n].out
             /\ Stopping' => \A n \in DOMAIN fifo' : fifo'[n].seq = Stop
             /\ \A n \in DOMAIN seq' : Truly(seq[n])'
             /\ \A w \in Workers : HasJob(w)' => JobOf(w)'
             /\ Flow' <= Queued' - wseq'
      PROVE  JobsKnown'
  BY <1>9 DEF JobsKnown
<1>10. ASSUME Working, Kept, Stopping' <=> Stopping, WriterHas' <=> WriterHas, Queued' = Queued,
              \A w \in Workers : pc'[w] = pc[w] \/ (~HasJob(w) /\ ~HasJob(w)')
       PROVE  JobsKnown'
  <2>1. Holders' = Holders
    BY <1>8, <1>10 DEF HasJob
  <2>2. Count(WriterHas)' = Count(WriterHas)
    BY <1>10 DEF Count
  <2>3. Flow' <= Queued' - wseq'
    BY <1>2, <1>10, <2>1, <2>2
  <2> QED
    BY <1>5, <1>6, <1>7, <1>9, <1>10, <2>3
<1>11. ASSUME NEW f \in FileKinds, Begin(f) PROVE JobsKnown'
  <2>1. fifo' = <<>> /\ seq' = <<>> /\ mseq' = 0 /\ wseq' = 0
        /\ pc' = [pc EXCEPT !["main"] = "space", ![Writer] = "take"] /\ pc["main"] = "file"
    BY <1>11 DEF Begin, At
  <2>2. pc'["main"] = "space" /\ pc'[Writer] = "take" /\ \A w \in Workers : pc'[w] = "none"
    BY <1>1, <2>1 DEF Working
  <2>3. Holders' = {} /\ Queued' = 0 /\ ~WriterHas' /\ ~Stopping'
    BY <2>1, <2>2 DEF Holders, HasJob, Queued, WriterHas, Stopping
  <2>4. Flow' <= Queued' - wseq'
    BY <2>1, <2>3, FS_EmptySet DEF Count
  <2>5. \A w \in Workers : ~HasJob(w)'
    BY <2>2 DEF HasJob
  <2> QED
    BY <1>9, <2>1, <2>3, <2>4, <2>5
<1>12. CASE SeekFails \/ ReadBlock \/ DropSmall \/ LastIsShort \/ ReadAhead \/ DropUnread
  <2>1. /\ pc["main"] \in {"space", "toobig", "more", "unread"}
        /\ \E q \in {"fini", "more", "toobig", "launch", "unread"} : pc' = [pc EXCEPT !["main"] = q]
    BY <1>12 DEF SeekFails, ReadBlock, DropSmall, LastIsShort, ReadAhead, DropUnread, Go
  <2>2. Kept /\ mseq' = mseq
    BY <1>12 DEF SeekFails, ReadBlock, DropSmall, LastIsShort, ReadAhead, DropUnread, mainVars,
       writeVars, queueVars
  <2>3. /\ pc'["main"] \in {"fini", "more", "toobig", "launch", "unread"}
        /\ \A t \in Workers \cup {Writer} : pc'[t] = pc[t]
    BY <1>1, <2>1
  <2> QED
    BY <1>1, <1>10, <2>1, <2>2, <2>3 DEF Working, Stopping, WriterHas, Queued
<1>13. CASE Launch
  <2>1. pc["main"] = "launch" /\ Kept /\ mseq' = mseq + 1
    BY <1>13 DEF Launch, At, writeVars, queueVars
  <2>2. /\ pc'["main"] = "add" /\ pc'[Writer] = pc[Writer]
        /\ \A w \in Workers : pc'[w] = pc[w] \/ (pc[w] = "none" /\ pc'[w] = "get")
    <3>1. CASE Go("main", "launch", "add")
      <4>1. pc' = [pc EXCEPT !["main"] = "add"]
        BY <3>1 DEF Go
      <4>2. pc'["main"] = "add" /\ \A t \in Workers \cup {Writer} : pc'[t] = pc[t]
        BY <1>1, <4>1
      <4> QED
        BY <4>2
    <3>2. CASE \E w \in Idle : pc' = [pc EXCEPT !["main"] = "add", ![w] = "get"]
      <4>1. PICK w \in Workers : /\ pc[w] = "none"
                                 /\ pc' = [pc EXCEPT !["main"] = "add", ![w] = "get"]
        BY <3>2 DEF Idle, At
      <4>2. /\ pc'["main"] = "add" /\ pc'[w] = "get"
            /\ \A t \in Workers \cup {Writer} : t # w => pc'[t] = pc[t]
        BY <1>1, <4>1
      <4> QED
        BY <1>1, <4>1, <4>2
    <3> QED
      BY <1>13, <3>1, <3>2 DEF Launch
  <2>3. Queued' = Queued
    BY <1>1, <2>1, <2>2 DEF Queued
  <2> QED
    BY <1>1, <1>10, <2>1, <2>2, <2>3 DEF Working, Stopping, WriterHas, HasJob
<1>14. CASE AddJob
  <2>1. /\ pc["main"] = "add" /\ \E q \in {"join", "more", "space"} : pc' = [pc EXCEPT !["main"] = q]
        /\ fifo' = Append(fifo, Job(mseq - 1, mseq - 1 \notin file.big))
        /\ UNCHANGED <<file, seq, job, wseq, mseq>>
    BY <1>14 DEF AddJob, AddCJob, At, Go, writeVars
  <2>2. /\ pc'["main"] \in {"join", "more", "space"}
        /\ \A t \in Workers \cup {Writer} : pc'[t] = pc[t]
    BY <1>1, <2>1
  <2>3. Working /\ ~Stopping /\ ~Stopping' /\ Queued' = mseq /\ Queued = mseq - 1
    BY <2>1, <2>2 DEF Working, Stopping, Queued
  <2> DEFINE j == Job(mseq - 1, mseq - 1 \notin file.big)
  <2>4. j \in Jobs /\ (j.in <=> j.seq \notin file.big) /\ ~j.out
    <3>1. j \in Jobs /\ j.seq = mseq - 1 /\ ~j.out
      BY <1>1 DEF Job, Jobs
    <3>2. j.in <=> mseq - 1 \notin file.big
      BY DEF Job
    <3> QED
      BY <3>1, <3>2
  <2>5. /\ Len(fifo') = Len(fifo) + 1 /\ DOMAIN fifo' = 1..Len(fifo) + 1
        /\ \A n \in 1..Len(fifo) + 1 : fifo'[n] = IF n = Len(fifo) + 1 THEN j ELSE fifo[n]
    BY <1>1, <2>1, <2>4
  <2>6. \A n \in DOMAIN fifo : Truly(fifo[n])' /\ ~fifo[n].out
    BY <1>2, <2>1, <2>3 DEF Truly
  <2>7. \A n \in DOMAIN fifo' : Truly(fifo[n])' /\ ~fifo'[n].out
    <3>1. DOMAIN fifo = 1..Len(fifo) /\ Len(fifo) \in Nat
      BY <1>1
    <3>2. ASSUME NEW n \in DOMAIN fifo' PROVE Truly(fifo[n])' /\ ~fifo'[n].out
      <4>1. CASE n = Len(fifo) + 1
        BY <2>1, <2>4, <2>5, <3>1, <4>1 DEF Truly
      <4>2. CASE n # Len(fifo) + 1
        BY <2>5, <2>6, <3>1, <4>2 DEF Truly
      <4> QED
        BY <4>1, <4>2
    <3> QED
      BY <3>2
  <2>8. Holders' = Holders /\ Count(WriterHas)' = Count(WriterHas)
    BY <1>8, <2>2 DEF HasJob, WriterHas, Count
  <2>9. Flow' <= Queued' - wseq'
    BY <1>1, <1>2, <1>3, <2>1, <2>3, <2>5, <2>8
  <2> QED
    BY <1>6, <1>7, <1>9, <2>1, <2>2, <2>3, <2>7, <2>9
<1>15. CASE JoinWriter
  <2>1. /\ pc["main"] = "join" /\ pc[Writer] = "gone" /\ pc'["main"] = "fini" /\ Kept
        /\ pc'[Writer] = "none" /\ mseq' = mseq /\ \A w \in Workers : pc'[w] = pc[w]
    BY <1>1, <1>15 DEF JoinWriter, At, mainVars, writeVars, queueVars
  <2> QED
    BY <1>10, <2>1 DEF Working, Stopping, WriterHas, Queued
<1>16. CASE StopWorkers
  <2>1. /\ pc["main"] = "fini" /\ pc' = [pc EXCEPT !["main"] = "joinall"]
        /\ fifo' = <<Job(Stop, TRUE)>> /\ UNCHANGED <<file, seq, job, wseq, mseq>>
    BY <1>16 DEF StopWorkers, Go, mainVars, writeVars
  <2>2. pc'["main"] = "joinall" /\ \A t \in Workers \cup {Writer} : pc'[t] = pc[t]
    BY <1>1, <2>1
  <2>3. Working /\ Stopping' /\ Queued' = Queued /\ ~Stopping
    BY <2>1, <2>2 DEF Working, Stopping, Queued
  <2>4. /\ fifo'[1] \in Jobs /\ fifo'[1].seq = Stop /\ ~fifo'[1].out /\ DOMAIN fifo' = {1}
    BY <2>1 DEF Job, Jobs, Stop
  <2>5. fifo'[1].in /\ Stop \notin file'.big
    <3>1. file.big \subseteq Nat
      BY <2>3, Known DEF Files
    <3> QED
      BY <2>1, <3>1 DEF Job, Stop
  <2>6. Truly(fifo[1])'
    BY <2>4, <2>5 DEF Truly
  <2>7. Holders' = Holders /\ Count(WriterHas)' = Count(WriterHas)
    BY <1>8, <2>2 DEF HasJob, WriterHas, Count
  <2>8. Flow' <= Queued' - wseq'
    BY <1>1, <1>2, <1>3, <2>1, <2>3, <2>7
  <2> QED
    BY <1>6, <1>7, <1>9, <2>1, <2>2, <2>3, <2>4, <2>6, <2>8
<1>17. CASE JoinOne
  <2>1. PICK t \in done : pc' = [pc EXCEPT ![t] = "none"]
    BY <1>17 DEF JoinOne
  <2>2. pc["main"] = "joinall" /\ Kept /\ mseq' = mseq
    BY <1>17 DEF JoinOne, At, writeVars, queueVars
  <2>3. /\ pc'["main"] = pc["main"] /\ (WriterHas' <=> WriterHas)
        /\ \A w \in Workers : pc'[w] = pc[w] \/ (~HasJob(w) /\ ~HasJob(w)')
    BY <1>1, <2>1 DEF HasJob, WriterHas
  <2> QED
    BY <1>10, <2>2, <2>3 DEF Working, Stopping, Queued
<1>18. CASE AllJoined
  <2>1. /\ pc["main"] = "joinall" /\ pc'["main"] = "free" /\ Kept /\ mseq' = mseq
        /\ \A t \in Workers \cup {Writer} : pc'[t] = pc[t]
    BY <1>1, <1>18 DEF AllJoined, Go, mainVars, writeVars, queueVars
  <2> QED
    BY <1>10, <2>1 DEF Working, Stopping, WriterHas, Queued
<1>19. CASE FreePools \/ DropNull \/ Finished
  <2>1. pc'["main"] \in {"file", "crashed"}
    BY <1>1, <1>19 DEF FreePools, Go, DropNull, Finished, At, vars
  <2> QED
    BY <1>4, <2>1 DEF Working
<1>20. CASE TakeJob
  <2>1. /\ pc[Writer] = "take" /\ pc' = [pc EXCEPT ![Writer] = "dropin"] /\ seq # <<>>
        /\ seq' = Tail(seq) /\ UNCHANGED <<file, fifo, job, wseq, mseq>>
    BY <1>20 DEF TakeJob, Go, mainVars
  <2>2. /\ Working /\ pc'[Writer] = "dropin" /\ \A t \in Workers \cup {"main"} : pc'[t] = pc[t]
    BY <1>1, <2>1
  <2>3. /\ Holders' = Holders /\ Count(WriterHas)' = 1 /\ Count(WriterHas) = 0
        /\ Queued' = Queued /\ (Stopping' <=> Stopping)
    BY <1>8, <2>1, <2>2 DEF HasJob, WriterHas, Count, Queued, Stopping
  <2>4. /\ Len(seq') = Len(seq) - 1
        /\ \A n \in DOMAIN seq' : n + 1 \in DOMAIN seq /\ seq'[n] = seq[n + 1]
    BY <1>1, <2>1, CountTail
  <2>5. \A n \in DOMAIN seq' : Truly(seq[n])'
    BY <1>2, <2>1, <2>2, <2>4 DEF Truly
  <2>6. Flow' <= Queued' - wseq'
    BY <1>2, <1>3, <2>1, <2>2, <2>3, <2>4
  <2> QED
    BY <1>5, <1>7, <1>9, <2>1, <2>2, <2>3, <2>5, <2>6
<1>21. CASE DropIn
  <2>1. /\ pc[Writer] = "dropin" /\ pc' = [pc EXCEPT ![Writer] = "write"] /\ Kept /\ mseq' = mseq
    BY <1>21 DEF DropIn, Go, mainVars, writeVars, queueVars
  <2>2. /\ Working /\ pc'[Writer] = "write" /\ \A t \in Workers \cup {"main"} : pc'[t] = pc[t]
    BY <1>1, <2>1
  <2> QED
    BY <1>10, <2>1, <2>2 DEF WriterHas, Stopping, Queued
<1>22. CASE WriteBlock
  <2>1. /\ pc[Writer] = "write" /\ \E q \in {"take", "verify"} : pc' = [pc EXCEPT ![Writer] = q]
        /\ wseq' = wseq + 1 /\ UNCHANGED <<file, fifo, seq, job, mseq>>
    BY <1>22 DEF WriteBlock, Go, mainVars, queueVars
  <2>2. /\ Working /\ pc'[Writer] \in {"take", "verify"}
        /\ \A t \in Workers \cup {"main"} : pc'[t] = pc[t]
    BY <1>1, <2>1
  <2>3. /\ Holders' = Holders /\ Count(WriterHas)' = 0 /\ Count(WriterHas) = 1
        /\ Queued' = Queued /\ (Stopping' <=> Stopping)
    BY <1>8, <2>1, <2>2 DEF HasJob, WriterHas, Count, Queued, Stopping
  <2>4. Flow' <= Queued' - wseq'
    BY <1>2, <1>3, <2>1, <2>2, <2>3
  <2> QED
    BY <1>5, <1>6, <1>7, <1>9, <2>1, <2>2, <2>3, <2>4
<1>23. CASE Verify
  <2>1. /\ pc[Writer] = "verify" /\ Kept /\ mseq' = mseq
    BY <1>23 DEF Verify, At, mainVars, writeVars, queueVars
  <2>2. CASE pc' = [pc EXCEPT ![Writer] = "reenter"]
    <3>1. /\ Working /\ pc'[Writer] = "reenter" /\ \A t \in Workers \cup {"main"} : pc'[t] = pc[t]
      BY <1>1, <2>1, <2>2
    <3> QED
      BY <1>10, <2>1, <3>1 DEF WriterHas, Stopping, Queued
  <2>3. CASE pc' = [t \in DOMAIN pc |-> "crashed"]
    BY <1>1, <1>4, <2>3 DEF Working
  <2> QED
    BY <1>23, <2>2, <2>3 DEF Verify
<1>24. ASSUME NEW t \in Workers \cup {Writer}, ThreadExits(t) PROVE JobsKnown'
  <2>1. /\ pc[t] = "reenter" /\ pc' = [pc EXCEPT ![t] = "gone"] /\ Kept /\ mseq' = mseq
    BY <1>24 DEF ThreadExits, Reenter, Go, mainVars, writeVars, queueVars
  <2>2. /\ Working /\ pc'[t] = "gone" /\ \A u \in All \ {t} : pc'[u] = pc[u]
    BY <1>1, <2>1
  <2>3. pc'["main"] = pc["main"] /\ (WriterHas' <=> WriterHas)
    BY <1>1, <2>1, <2>2 DEF WriterHas
  <2> QED
    BY <1>10, <2>1, <2>2, <2>3 DEF HasJob, Stopping, Queued
<1>25. ASSUME NEW w \in Workers, NEW q, pc[w] # "none", pc' = [pc EXCEPT ![w] = q], mseq' = mseq
       PROVE  /\ Working /\ pc'[w] = q /\ \A u \in Workers : u # w => pc'[u] = pc[u]
              /\ (WriterHas' <=> WriterHas) /\ Queued' = Queued /\ (Stopping' <=> Stopping)
              /\ Count(WriterHas)' = Count(WriterHas)
  <2>1. pc'[w] = q /\ \A u \in All : u # w => pc'[u] = pc[u]
    BY <1>1, <1>25
  <2> QED
    BY <1>1, <1>25, <2>1 DEF WriterHas, Queued, Stopping, Count
<1>26. ASSUME NEW w \in Workers, GetJob(w) PROVE JobsKnown'
  <2>1. /\ pc[w] = "get" /\ fifo # <<>> /\ UNCHANGED <<file, seq, wseq, mseq>>
    BY <1>26 DEF GetJob, At, mainVars, writeVars
  <2>2. CASE fifo[1].seq = Stop
    <3>1. pc' = [pc EXCEPT ![w] = "reenter"] /\ UNCHANGED <<fifo, job>>
      BY <1>26, <2>2 DEF GetJob, Go
    <3> QED
      BY <1>10, <1>25, <2>1, <3>1 DEF HasJob
  <2>3. CASE fifo[1].seq # Stop
    <3>1. /\ pc' = [pc EXCEPT ![w] = "out"] /\ job' = [job EXCEPT ![w] = fifo[1]]
          /\ fifo' = Tail(fifo)
      BY <1>26, <2>3 DEF GetJob, Go
    <3>2. /\ Working /\ pc'[w] = "out" /\ \A u \in Workers : u # w => pc'[u] = pc[u]
          /\ Queued' = Queued /\ (Stopping' <=> Stopping) /\ Count(WriterHas)' = Count(WriterHas)
      BY <1>25, <2>1, <3>1
    <3>3. /\ Len(fifo') = Len(fifo) - 1 /\ 1 \in DOMAIN fifo
          /\ \A n \in DOMAIN fifo' : n + 1 \in DOMAIN fifo /\ fifo'[n] = fifo[n + 1]
      BY <1>1, <2>1, <3>1, CountTail
    <3>4. ~Stopping /\ ~Stopping'
      BY <1>2, <2>3, <3>2, <3>3
    <3>5. \A n \in DOMAIN fifo' : Truly(fifo[n])' /\ ~fifo'[n].out
      BY <1>2, <2>1, <3>2, <3>3 DEF Truly
    <3>6. /\ job'[w] = fifo[1] /\ Truly(fifo[1]) /\ ~fifo[1].out
          /\ \A u \in Workers : u # w => job'[u] = job[u]
      BY <1>1, <1>2, <3>1, <3>2, <3>3
    <3>7. \A u \in Workers : HasJob(u)' => JobOf(u)'
      <4>1. JobOf(w)'
        BY <2>1, <3>2, <3>6 DEF Truly
      <4>2. ASSUME NEW u \in Workers, u # w, HasJob(u)' PROVE JobOf(u)'
        <5>1. JobOf(u)
          BY <1>2, <3>2, <4>2 DEF HasJob
        <5> QED
          BY <2>1, <3>2, <3>6, <4>2, <5>1 DEF Truly, Fits
      <4> QED
        BY <4>1, <4>2
    <3>8. Holders' = Holders \cup {w} /\ w \notin Holders
      BY <2>1, <3>2 DEF Holders, HasJob
    <3>9. Cardinality(Holders') = Cardinality(Holders) + 1
      BY <3>8, WorkersCount DEF Holders
    <3>10. Flow' <= Queued' - wseq'
      BY <1>2, <1>3, <2>1, <3>2, <3>3, <3>4, <3>9
    <3> QED
      BY <1>6, <1>9, <2>1, <3>2, <3>4, <3>5, <3>7, <3>10
  <2> QED
    BY <2>2, <2>3
<1>27. ASSUME NEW w \in Workers, HasJob(w), NEW b \in BOOLEAN, NEW q \in {"grow", "put"},
              pc' = [pc EXCEPT ![w] = q], job' = [job EXCEPT ![w].out = b],
              b <=> q # "put" \/ Fits(job[w]), q = "grow" => ~Fits(job[w]),
              UNCHANGED <<file, fifo, seq, wseq, mseq>>
       PROVE  JobsKnown'
  <2>1. /\ Working /\ pc'[w] = q /\ \A u \in Workers : u # w => pc'[u] = pc[u]
        /\ Queued' = Queued /\ (Stopping' <=> Stopping) /\ Count(WriterHas)' = Count(WriterHas)
    BY <1>25, <1>27 DEF HasJob
  <2>2. job[w] \in Jobs /\ Truly(job[w])
    BY <1>2, <1>27, <2>1 DEF Truly
  <2>3. /\ job'[w] \in Jobs /\ job'[w].seq = job[w].seq /\ (job'[w].in <=> job[w].in)
        /\ \A u \in Workers : u # w => job'[u] = job[u]
    BY <1>1, <1>27, <2>2 DEF Jobs
  <2>4. job'[w].out <=> b
    BY <1>1, <1>27, <2>2 DEF Jobs
  <2>5. JobOf(w)'
    BY <1>27, <2>1, <2>2, <2>3, <2>4 DEF Truly, Fits
  <2>6. \A u \in Workers : HasJob(u)' => JobOf(u)'
    <3>1. ASSUME NEW u \in Workers, u # w, HasJob(u)' PROVE JobOf(u)'
      <4>1. JobOf(u)
        BY <1>2, <2>1, <3>1 DEF HasJob
      <4> QED
        BY <1>27, <2>1, <2>3, <3>1, <4>1 DEF Truly, Fits
    <3> QED
      BY <2>5, <3>1
  <2>7. Holders' = Holders
    BY <1>8, <1>27, <2>1 DEF HasJob
  <2>8. Flow' <= Queued' - wseq'
    BY <1>2, <1>27, <2>1, <2>7
  <2> QED
    BY <1>5, <1>6, <1>9, <1>27, <2>1, <2>6, <2>8
<1>28. ASSUME NEW w \in Workers, GetOut(w) PROVE JobsKnown'
  <2>1. /\ pc[w] = "out" /\ job' = [job EXCEPT ![w].out = TRUE]
        /\ pc' = [pc EXCEPT ![w] = IF Fits(job[w]) THEN "put" ELSE "grow"]
        /\ UNCHANGED <<file, fifo, seq, wseq, mseq>>
    BY <1>28 DEF GetOut, Go, queueVars, mainVars, writeVars
  <2>2. CASE Fits(job[w])
    BY <1>27, <2>1, <2>2 DEF HasJob
  <2>3. CASE ~Fits(job[w])
    BY <1>27, <2>1, <2>3 DEF HasJob
  <2> QED
    BY <2>2, <2>3
<1>29. ASSUME NEW w \in Workers, Grow(w) PROVE JobsKnown'
  <2>1. /\ pc[w] = "grow" /\ job' = [job EXCEPT ![w].out = FALSE]
        /\ pc' = [pc EXCEPT ![w] = "put"]
        /\ UNCHANGED <<file, fifo, seq, wseq, mseq>>
    BY <1>29 DEF Grow, Go, queueVars, mainVars, writeVars
  <2>2. ~Fits(job[w])
    BY <1>1, <1>2, <2>1 DEF HasJob
  <2> QED
    BY <1>27, <2>1, <2>2 DEF HasJob
<1>30. ASSUME NEW w \in Workers, PutJob(w) PROVE JobsKnown'
  <2>1. /\ pc[w] = "put" /\ pc' = [pc EXCEPT ![w] = "get"] /\ seq' = Inserted(seq, job[w])
        /\ job' = [job EXCEPT ![w] = NoJob] /\ UNCHANGED <<file, fifo, wseq, mseq>>
    BY <1>30 DEF PutJob, AddWJob, Go, mainVars, writeVars
  <2>2. /\ Working /\ pc'[w] = "get" /\ \A u \in Workers : u # w => pc'[u] = pc[u]
        /\ Queued' = Queued /\ (Stopping' <=> Stopping) /\ Count(WriterHas)' = Count(WriterHas)
    BY <1>25, <2>1
  <2>3. Truly(job[w]) /\ job[w] \in Jobs
    BY <1>2, <2>1, <2>2 DEF HasJob, Truly
  <2>4. /\ Len(seq') = Len(seq) + 1
        /\ \A n \in DOMAIN seq' : seq'[n] = job[w] \/ \E m \in DOMAIN seq : seq'[n] = seq[m]
    <3>1. seq \in Seq(Jobs)
      BY <1>1
    <3>2. Len(seq') = Len(seq) + 1
      BY <2>1, <2>3, <3>1, InsertedIs
    <3>3. PICK p \in 1..Len(seq) + 1 :
            seq' = [n \in 1..Len(seq) + 1 |->
                      IF n < p THEN seq[n] ELSE IF n = p THEN job[w] ELSE seq[n - 1]]
      BY <2>1, <2>3, <3>1, InsertedIs
    <3>4. Len(seq) \in Nat /\ DOMAIN seq = 1..Len(seq)
      BY <3>1
    <3>5. ASSUME NEW n \in 1..Len(seq) + 1
          PROVE  seq'[n] = job[w] \/ \E m \in DOMAIN seq : seq'[n] = seq[m]
      <4>1. CASE n < p
        BY <3>3, <3>4, <4>1
      <4>2. CASE n = p
        BY <3>3, <3>4, <4>2
      <4>3. CASE n > p
        <5>1. seq'[n] = seq[n - 1] /\ n - 1 \in DOMAIN seq
          BY <3>3, <3>4, <4>3
        <5> QED
          BY <5>1
      <4> QED
        BY <3>4, <4>1, <4>2, <4>3
    <3> QED
      BY <3>2, <3>3, <3>5
  <2>5. \A n \in DOMAIN seq' : Truly(seq[n])'
    BY <1>2, <2>1, <2>2, <2>3, <2>4 DEF Truly
  <2>6. \A u \in Workers : HasJob(u)' => JobOf(u)'
    <3>1. ~HasJob(w)'
      BY <2>2 DEF HasJob
    <3>2. ASSUME NEW u \in Workers, u # w, HasJob(u)' PROVE JobOf(u)'
      <4>1. JobOf(u) /\ job'[u] = job[u]
        BY <1>1, <1>2, <2>1, <2>2, <3>2 DEF HasJob
      <4> QED
        BY <2>1, <2>2, <3>2, <4>1 DEF Truly, Fits
    <3> QED
      BY <3>1, <3>2
  <2>7. Holders' = Holders \ {w} /\ w \in Holders
    BY <2>1, <2>2 DEF Holders, HasJob
  <2>8. Cardinality(Holders') = Cardinality(Holders) - 1
    BY <2>7, WorkersCount DEF Holders
  <2>9. Flow' <= Queued' - wseq'
    BY <1>2, <1>3, <2>1, <2>2, <2>4, <2>8
  <2> QED
    BY <1>5, <1>9, <2>1, <2>2, <2>5, <2>6, <2>9
<1>31. CASE Main
  BY <1>12, <1>13, <1>14, <1>15, <1>16, <1>17, <1>18, <1>19, <1>31 DEF Main
<1>32. CASE Write
  BY <1>19, <1>20, <1>21, <1>22, <1>23, <1>24, <1>32 DEF Write
<1>33. CASE \E w \in Workers : Work(w)
  BY <1>24, <1>26, <1>28, <1>29, <1>30, <1>33 DEF Work
<1> QED
  BY <1>11, <1>19, <1>31, <1>32, <1>33 DEF Next

(* Every input space made is in its pool or in use.                         *)
LEMMA InputsStep ==
  ASSUME ZqInv, ~Crashed, Next
  PROVE  InputsKnown'
<1> DEFINE All == Workers \cup {Writer, "main"}
           Low == wseq + Count(pc[Writer] = "write")
           InUse(p) == p.made - p.have
<1>1. /\ pc \in [All -> Places]
      /\ "main" \notin Workers /\ "main" # Writer /\ Writer \notin Workers
      /\ (\E t \in Workers \cup {Writer} : pc[t] # "none") => Working
      /\ Working => /\ file.op \in {"compress", "decompress"}
                    /\ file.op = "compress" => file.big = {}
      /\ inp \in Pools /\ wseq \in Nat /\ mseq \in Nat
      /\ done \subseteq Workers \cup {Writer}
      /\ \A t \in done : pc[t] = "gone"
  BY Known DEF ZqInv, TypeOK
<1>2. inp.made \in Nat /\ inp.have \in Nat /\ inp' \in Pools
      /\ inp'.made \in Nat /\ inp'.have \in Nat
  <2>1. inp' \in Pools
    BY TypeStep DEF TypeOK
  <2> QED
    BY <1>1, <2>1 DEF Pools
<1>3. ASSUME ~Working' PROVE InputsKnown'
  BY <1>3 DEF InputsKnown
<1>4. ASSUME Working
      PROVE  /\ Cardinality(Undropped) \in Nat /\ Queued \in Nat /\ wseq <= Queued
             /\ InUse(inp) = MainHolds + Cardinality(Undropped)
             /\ MainHolds \in Nat
  <2>1. Low \in Nat /\ Queued \in Nat /\ wseq <= Queued
    BY <1>1, <1>4, WriterBehind DEF Count
  <2>2. Low <= Queued
    <3>1. CASE pc[Writer] = "write"
      <4>1. wseq + 1 <= Queued
        BY <1>4, <3>1, WriterHasOne DEF WriterHas
      <4> QED
        BY <1>1, <2>1, <3>1, <4>1 DEF Count
    <3>2. CASE pc[Writer] # "write"
      BY <1>1, <2>1, <3>2 DEF Count
    <3> QED
      BY <3>1, <3>2
  <2>3. Undropped = Outside(Low, Queued, file.big)
    BY DEF Undropped, Outside
  <2>4. Cardinality(Undropped) \in Nat
    BY <2>1, <2>2, <2>3, RangeCount
  <2>5. MainHolds \in Nat
    BY DEF MainHolds, Count
  <2> QED
    BY <1>2, <1>4, <2>1, <2>4, <2>5 DEF ZqInv, InputsKnown
<1>5. ASSUME Working, NEW k \in Int, InUse(inp)' = InUse(inp) + k,
             MainHolds' + Cardinality(Undropped)' = MainHolds + Cardinality(Undropped) + k,
             MainHolds' \in Nat, Cardinality(Undropped)' \in Nat
      PROVE  InputsKnown'
  BY <1>2, <1>4, <1>5 DEF InputsKnown
<1>6. ASSUME UNCHANGED <<file, wseq>>, Queued' = Queued,
             pc'[Writer] = "write" <=> pc[Writer] = "write"
      PROVE  Undropped' = Undropped
  <2>1. Count(pc[Writer] = "write")' = Count(pc[Writer] = "write")
    BY <1>6 DEF Count
  <2> QED
    BY <1>6, <2>1 DEF Undropped
<1>7. ASSUME Working, Undropped' = Undropped, MainHolds' = MainHolds, inp' = inp PROVE InputsKnown'
  BY <1>2, <1>4, <1>5, <1>7
<1>8. /\ PutSpace(inp).made - PutSpace(inp).have = InUse(inp) - 1
      /\ CanGet(inp) => GetSpace(inp).made - GetSpace(inp).have = InUse(inp) + 1
  BY <1>1, PoolsCount
<1>9. ASSUME NEW p, pc' = [pc EXCEPT !["main"] = p]
      PROVE  pc'["main"] = p /\ pc'[Writer] = pc[Writer]
  BY <1>1, <1>9
<1>10. ASSUME NEW f \in FileKinds, Begin(f) PROVE InputsKnown'
  <2>1. /\ pc'["main"] = "space" /\ pc'[Writer] = "take" /\ mseq' = 0 /\ wseq' = 0
        /\ inp' = NewPool(InLimit(f))
    BY <1>1, <1>10 DEF Begin
  <2>2. inp'.made = 0 /\ inp'.have = 0 /\ MainHolds' = 0 /\ Queued' = 0
    BY <2>1 DEF NewPool, MainHolds, Queued
  <2>3. Undropped' = {}
    BY <2>1, <2>2 DEF Undropped, Count
  <2> QED
    BY <2>2, <2>3, FS_EmptySet DEF InputsKnown
<1>11. CASE SeekFails
  <2>1. /\ pc["main"] = "space" /\ pc'["main"] = "fini" /\ pc'[Writer] = pc[Writer]
        /\ UNCHANGED <<inp, file, mseq, wseq>>
    BY <1>9, <1>11 DEF SeekFails, Go, mainVars, writeVars
  <2>2. Queued' = Queued /\ MainHolds' = MainHolds /\ Working
    BY <2>1 DEF Queued, MainHolds, Working
  <2> QED
    BY <1>6, <1>7, <2>1, <2>2
<1>12. CASE ReadBlock
  <2>1. /\ pc["main"] = "space" /\ pc'[Writer] = pc[Writer] /\ UNCHANGED <<file, mseq, wseq>>
        /\ pc'["main"] = IF file.op = "compress" THEN "more"
                         ELSE IF mseq \in file.big THEN "toobig" ELSE "launch"
        /\ inp' = GetSpace(inp) /\ CanGet(inp)
    BY <1>9, <1>12 DEF ReadBlock, Go, writeVars
  <2>2. Queued' = Queued /\ MainHolds = 0 /\ Working /\ Queued' = mseq
    BY <2>1 DEF Queued, MainHolds, Working
  <2>3. MainHolds' = 1
    BY <2>1, <2>2 DEF MainHolds, Count
  <2>4. Undropped' = Undropped /\ InUse(inp)' = InUse(inp) + 1
    BY <1>6, <1>8, <2>1, <2>2
  <2> QED
    BY <1>4, <1>5, <2>2, <2>3, <2>4
<1>13. CASE DropSmall
  <2>1. /\ pc["main"] = "toobig" /\ pc'[Writer] = pc[Writer] /\ UNCHANGED <<file, mseq, wseq>>
        /\ pc'["main"] = "launch" /\ inp' = PutSpace(inp)
    BY <1>9, <1>13 DEF DropSmall, Go, writeVars, mainVars
  <2>2. Queued' = Queued /\ MainHolds = 1 /\ Working /\ Queued' = mseq
    BY <2>1 DEF Queued, MainHolds, Working
  <2>3. file.op = "decompress" /\ mseq \in file.big
    BY <2>1, <2>2 DEF ZqInv, MainKnown
  <2>4. MainHolds' = 0
    BY <2>1, <2>2, <2>3 DEF MainHolds, Count
  <2>5. Undropped' = Undropped /\ InUse(inp)' = InUse(inp) - 1
    BY <1>6, <1>8, <2>1, <2>2
  <2>6. InUse(inp)' = InUse(inp) + (-1) /\ MainHolds' = MainHolds + (-1) /\ -1 \in Int
    BY <1>2, <2>2, <2>4, <2>5
  <2> QED
    BY <1>4, <1>5, <2>2, <2>4, <2>5, <2>6
<1>14. ASSUME pc["main"] \in {"more", "unread"}
       PROVE  Working /\ file.op = "compress" /\ (more <=> mseq + 1 < file.blocks)
              /\ (pc["main"] = "unread" => ~more)
  BY <1>14 DEF ZqInv, MainKnown, Working
<1>15. CASE LastIsShort
  <2>1. /\ pc["main"] = "more" /\ pc'[Writer] = pc[Writer]
        /\ UNCHANGED <<inp, file, mseq, wseq, more>>
        /\ pc'["main"] = "launch" /\ mseq + 1 = file.blocks
    BY <1>9, <1>15 DEF LastIsShort, Go, writeVars, mainVars
  <2>2. Queued' = Queued /\ MainHolds = 1 /\ Working
    BY <2>1 DEF Queued, MainHolds, Working
  <2>3. MainHolds' = 1
    BY <1>1, <1>14, <2>1, <2>2 DEF MainHolds
  <2> QED
    BY <1>6, <1>7, <2>1, <2>2, <2>3
<1>16. CASE ReadAhead
  <2>1. /\ pc["main"] = "more" /\ pc'[Writer] = pc[Writer]
        /\ UNCHANGED <<file, mseq, wseq, more>>
        /\ pc'["main"] = (IF more THEN "launch" ELSE "unread")
        /\ inp' = GetSpace(inp) /\ CanGet(inp)
    BY <1>9, <1>16 DEF ReadAhead, Go, writeVars, mainVars
  <2>2. Queued' = Queued /\ MainHolds = 1 /\ Working
    BY <2>1 DEF Queued, MainHolds, Working
  <2>3. MainHolds' = 2
    BY <1>1, <1>14, <2>1, <2>2 DEF MainHolds
  <2>4. Undropped' = Undropped /\ InUse(inp)' = InUse(inp) + 1
    BY <1>6, <1>8, <2>1, <2>2
  <2> QED
    BY <1>4, <1>5, <2>2, <2>3, <2>4
<1>17. CASE DropUnread
  <2>1. /\ pc["main"] = "unread" /\ pc'[Writer] = pc[Writer]
        /\ UNCHANGED <<file, mseq, wseq, more>>
        /\ pc'["main"] = "launch" /\ inp' = PutSpace(inp)
    BY <1>9, <1>17 DEF DropUnread, Go, writeVars, mainVars
  <2>2. Queued' = Queued /\ MainHolds = 2 /\ Working
    BY <2>1 DEF Queued, MainHolds, Working
  <2>3. MainHolds' = 1
    BY <1>14, <2>1, <2>2 DEF MainHolds
  <2>4. Undropped' = Undropped /\ InUse(inp)' = InUse(inp) - 1
    BY <1>6, <1>8, <2>1, <2>2
  <2>5. InUse(inp)' = InUse(inp) + (-1) /\ MainHolds' = MainHolds + (-1) /\ -1 \in Int
    BY <1>2, <2>2, <2>3, <2>4
  <2> QED
    BY <1>4, <1>5, <2>2, <2>3, <2>4, <2>5
<1>18. CASE Launch
  <2>1. /\ pc["main"] = "launch" /\ mseq' = mseq + 1 /\ UNCHANGED <<inp, file, wseq, more>>
    BY <1>18 DEF Launch, At, writeVars
  <2>2. pc'["main"] = "add" /\ pc'[Writer] = pc[Writer]
    <3>1. CASE Go("main", "launch", "add")
      BY <1>9, <3>1 DEF Go
    <3>2. CASE \E w \in Idle : pc' = [pc EXCEPT !["main"] = "add", ![w] = "get"]
      BY <1>1, <3>2 DEF Idle
    <3> QED
      BY <1>18, <3>1, <3>2 DEF Launch
  <2>3. Queued' = Queued /\ Working
    BY <1>1, <2>1, <2>2 DEF Queued, Working
  <2>4. MainHolds' = MainHolds
    BY <2>1, <2>2, <2>3 DEF MainHolds
  <2> QED
    BY <1>6, <1>7, <2>1, <2>2, <2>3, <2>4
<1>19. CASE AddJob
  <2>1. /\ pc["main"] = "add" /\ pc'[Writer] = pc[Writer]
        /\ UNCHANGED <<inp, file, mseq, wseq>>
        /\ pc'["main"] = IF ~more THEN "join"
                         ELSE IF file.op = "compress" THEN "more" ELSE "space"
    BY <1>9, <1>19 DEF AddJob, Go, writeVars
  <2>2. Working /\ Queued = mseq - 1 /\ Queued' = Queued + 1
    BY <1>1, <2>1 DEF Queued, Working
  <2>3. Count(Queued \notin file.big) \in Nat
    BY DEF Count
  <2>4. MainHolds = MainHolds' + Count(Queued \notin file.big) /\ MainHolds' \in Nat
    <3>1. CASE file.op = "compress"
      <4>1. Count(Queued \notin file.big) = 1
        BY <1>1, <2>2, <3>1 DEF Count
      <4>2. MainHolds = (IF more THEN 2 ELSE 1) /\ MainHolds' = (IF more THEN 1 ELSE 0)
        BY <2>1, <3>1 DEF MainHolds
      <4> QED
        BY <4>1, <4>2
    <3>2. CASE file.op # "compress"
      <4>1. MainHolds = Count(Queued \notin file.big) /\ MainHolds' = 0
        BY <2>1, <3>2 DEF MainHolds
      <4> QED
        BY <2>3, <4>1
    <3> QED
      BY <3>1, <3>2
  <2>5. /\ Cardinality(Undropped)' = Cardinality(Undropped) + Count(Queued \notin file.big)
        /\ Cardinality(Undropped) \in Nat
    <3>1. Low' = Low /\ Low \in Nat /\ Queued \in Nat
      BY <1>1, <1>4, <2>1, <2>2 DEF Count
    <3>2. Low <= Queued
      <4>1. CASE pc[Writer] = "write"
        <5>1. wseq + 1 <= Queued
          BY <2>2, <4>1, WriterHasOne DEF WriterHas
        <5> QED
          BY <1>1, <3>1, <5>1, <4>1 DEF Count
      <4>2. CASE pc[Writer] # "write"
        BY <1>1, <1>4, <2>2, <4>2 DEF Count
      <4> QED
        BY <4>1, <4>2
    <3>3. /\ Undropped = Outside(Low, Queued, file.big)
          /\ Undropped' = Outside(Low, Queued + 1, file.big)
      <4>1. Undropped' = Outside(Low', Queued', file'.big)
        BY DEF Undropped, Outside
      <4> QED
        BY <2>1, <2>2, <3>1, <4>1 DEF Undropped, Outside
    <3> QED
      BY <3>1, <3>2, <3>3, RangeCount
  <2> QED
    BY <1>2, <1>4, <1>5, <2>1, <2>2, <2>3, <2>4, <2>5
<1>20. CASE JoinWriter
  <2>1. /\ pc["main"] = "join" /\ pc[Writer] = "gone" /\ pc'["main"] = "fini"
        /\ pc'[Writer] = "none" /\ UNCHANGED <<inp, file, mseq, wseq>>
    BY <1>1, <1>20 DEF JoinWriter, At, mainVars, writeVars
  <2>2. Queued' = Queued /\ MainHolds' = MainHolds /\ Working
    BY <2>1 DEF Queued, MainHolds, Working
  <2> QED
    BY <1>6, <1>7, <2>1, <2>2
<1>21. CASE StopWorkers \/ AllJoined
  <2>1. /\ pc["main"] \in {"fini", "joinall"} /\ pc'["main"] \in {"joinall", "free"}
        /\ pc'[Writer] = pc[Writer] /\ UNCHANGED <<inp, file, mseq, wseq>>
    BY <1>9, <1>21 DEF StopWorkers, AllJoined, Go, mainVars, writeVars
  <2>2. Queued' = Queued /\ MainHolds' = MainHolds /\ Working
    BY <2>1 DEF Queued, MainHolds, Working
  <2> QED
    BY <1>6, <1>7, <2>1, <2>2
<1>22. CASE JoinOne
  <2>1. PICK t \in done : pc' = [pc EXCEPT ![t] = "none"]
    BY <1>22 DEF JoinOne
  <2>2. pc["main"] = "joinall" /\ UNCHANGED <<inp, file, mseq, wseq>>
    BY <1>22 DEF JoinOne, At, writeVars
  <2>3. pc'["main"] = "joinall" /\ (pc'[Writer] = "write" <=> pc[Writer] = "write")
    BY <1>1, <2>1, <2>2
  <2>4. Queued' = Queued /\ MainHolds' = MainHolds /\ Working
    BY <2>2, <2>3 DEF Queued, MainHolds, Working
  <2> QED
    BY <1>6, <1>7, <2>2, <2>3, <2>4
<1>23. CASE FreePools \/ DropNull \/ Finished
  <2>1. pc'["main"] \in {"file", "crashed"}
    BY <1>1, <1>23 DEF FreePools, Go, DropNull, Finished, At, vars
  <2> QED
    BY <1>3, <2>1 DEF Working
<1>24. ASSUME NEW t \in Workers \cup {Writer}, NEW q, pc[t] # "none", pc' = [pc EXCEPT ![t] = q],
              t = Writer => (q = "write" <=> pc[t] = "write"),
              UNCHANGED <<inp, file, mseq, wseq, more>>
       PROVE  InputsKnown'
  <2>1. pc'["main"] = pc["main"] /\ (pc'[Writer] = "write" <=> pc[Writer] = "write") /\ Working
    BY <1>1, <1>24
  <2>2. Queued' = Queued /\ MainHolds' = MainHolds
    BY <1>24, <2>1 DEF Queued, MainHolds
  <2> QED
    BY <1>6, <1>7, <1>24, <2>1, <2>2
<1>25. CASE TakeJob
  <2>1. /\ pc[Writer] = "take" /\ pc' = [pc EXCEPT ![Writer] = "dropin"]
        /\ UNCHANGED <<inp, file, mseq, wseq, more>>
    BY <1>25 DEF TakeJob, Go, mainVars
  <2> QED
    BY <1>24, <2>1
<1>26. CASE DropIn
  <2>1. /\ pc[Writer] = "dropin" /\ pc' = [pc EXCEPT ![Writer] = "write"]
        /\ UNCHANGED <<file, mseq, wseq, more>>
        /\ inp' = IF wjob.in THEN PutSpace(inp) ELSE inp
    BY <1>26 DEF DropIn, Go, mainVars, writeVars
  <2>2. pc'["main"] = pc["main"] /\ pc'[Writer] = "write" /\ Working
    BY <1>1, <2>1
  <2>3. Queued' = Queued /\ MainHolds' = MainHolds
    BY <2>1, <2>2 DEF Queued, MainHolds
  <2>4. wjob.in <=> wseq \notin file.big
    BY <2>1, <2>2 DEF ZqInv, WriterKnown, WriterHas, Truly
  <2>5. wseq + 1 <= Queued
    BY <2>1, <2>2, WriterHasOne DEF WriterHas
  <2>6. /\ Undropped = Outside(wseq, Queued, file.big)
        /\ Undropped' = Outside(wseq + 1, Queued, file.big)
    <3>1. Low = wseq /\ Low' = wseq + 1
      BY <1>1, <2>1, <2>2 DEF Count
    <3>2. Undropped' = Outside(Low', Queued', file'.big)
      BY DEF Undropped, Outside
    <3>3. Undropped = Outside(Low, Queued, file.big)
      BY DEF Undropped, Outside
    <3> QED
      BY <2>1, <2>3, <3>1, <3>2, <3>3
  <2>7. /\ Cardinality(Undropped) = Cardinality(Undropped') + Count(wseq \notin file.big)
        /\ Cardinality(Undropped') \in Nat
    <3>1. wseq \in Nat /\ wseq <= Queued /\ wseq < Queued /\ Queued \in Nat
          /\ wseq + 1 \in Nat
      BY <1>1, <1>4, <2>2, <2>5
    <3> QED
      BY <2>5, <2>6, <3>1, RangeCount
  <2>8. InUse(inp)' = InUse(inp) - Count(wseq \notin file.big)
    BY <1>2, <1>8, <2>1, <2>4 DEF Count
  <2>9. -Count(wseq \notin file.big) \in Int /\ Count(wseq \notin file.big) \in Nat
    BY DEF Count
  <2> QED
    BY <1>2, <1>4, <1>5, <2>2, <2>3, <2>7, <2>8, <2>9
<1>27. CASE WriteBlock
  <2>1. /\ pc[Writer] = "write" /\ \E q \in {"take", "verify"} : pc' = [pc EXCEPT ![Writer] = q]
        /\ wseq' = wseq + 1 /\ UNCHANGED <<inp, file, mseq, more>>
    BY <1>27 DEF WriteBlock, Go, mainVars
  <2>2. pc'["main"] = pc["main"] /\ pc'[Writer] \in {"take", "verify"} /\ Working
    BY <1>1, <2>1
  <2>3. Queued' = Queued /\ MainHolds' = MainHolds
    BY <2>1, <2>2 DEF Queued, MainHolds
  <2>4. Low' = Low
    BY <1>1, <2>1, <2>2 DEF Count
  <2>5. Undropped' = Undropped
    <3>1. Undropped' = {n \in Low'..Queued' - 1 : n \notin file'.big}
      BY DEF Undropped
    <3> QED
      BY <2>1, <2>3, <2>4, <3>1 DEF Undropped
  <2> QED
    BY <1>7, <2>1, <2>2, <2>3, <2>5
<1>28. CASE Verify
  <2>1. pc[Writer] = "verify" /\ UNCHANGED <<inp, file, mseq, wseq, more>>
    BY <1>28 DEF Verify, At, mainVars, writeVars
  <2>2. CASE pc' = [pc EXCEPT ![Writer] = "reenter"]
    BY <1>24, <2>1, <2>2
  <2>3. CASE pc' = [t \in DOMAIN pc |-> "crashed"]
    BY <1>1, <1>3, <2>3 DEF Working
  <2> QED
    BY <1>28, <2>2, <2>3 DEF Verify
<1>29. ASSUME NEW t \in Workers \cup {Writer}, ThreadExits(t) PROVE InputsKnown'
  BY <1>24, <1>29 DEF ThreadExits, Reenter, Go, mainVars, writeVars
<1>30. ASSUME NEW w \in Workers, GetJob(w) \/ GetOut(w) \/ Grow(w) \/ PutJob(w)
       PROVE  InputsKnown'
  <2>1. pc[w] # "none" /\ \E q : pc' = [pc EXCEPT ![w] = q]
    BY <1>30 DEF GetJob, GetOut, Grow, PutJob, Go
  <2>2. UNCHANGED <<inp, file, mseq, wseq, more>>
    BY <1>30 DEF GetJob, GetOut, Grow, PutJob, mainVars, writeVars
  <2> QED
    BY <1>1, <1>24, <2>1, <2>2
<1>31. CASE Main
  BY <1>11, <1>12, <1>13, <1>15, <1>16, <1>17, <1>18, <1>19, <1>20, <1>21, <1>22, <1>23, <1>31
     DEF Main
<1>32. CASE Write
  BY <1>23, <1>25, <1>26, <1>27, <1>28, <1>29, <1>32 DEF Write
<1>33. CASE \E w \in Workers : Work(w)
  BY <1>29, <1>30, <1>33 DEF Work
<1> QED
  BY <1>10, <1>23, <1>31, <1>32, <1>33 DEF Next

(* Every output space made is in its pool or goes with a job.               *)
LEMMA OutputsStep ==
  ASSUME ZqInv, ~Crashed, Next
  PROVE  OutputsKnown'
<1> DEFINE All == Workers \cup {Writer, "main"}
           InUse(p) == p.made - p.have
           Held == Cardinality(OutHolders)
           Listed == Cardinality(WithOut(seq))
           Taken == Count(WriterHas /\ wjob.out)
<1>1. /\ pc \in [All -> Places]
      /\ "main" \notin Workers /\ "main" # Writer /\ Writer \notin Workers
      /\ (\E t \in Workers \cup {Writer} : pc[t] # "none") => Working
      /\ outp \in Pools /\ seq \in Seq(Jobs) /\ job \in [Workers -> Jobs \cup {NoJob}]
      /\ done \subseteq Workers \cup {Writer} /\ \A t \in done : pc[t] = "gone"
  BY Known DEF ZqInv, TypeOK
<1>2. /\ outp.made \in Nat /\ outp.have \in Nat /\ outp' \in Pools
      /\ outp'.made \in Nat /\ outp'.have \in Nat /\ seq' \in Seq(Jobs)
  <2>1. outp' \in Pools /\ seq' \in Seq(Jobs)
    BY TypeStep DEF TypeOK
  <2> QED
    BY <1>1, <2>1 DEF Pools
<1>3. ASSUME ~Working' PROVE OutputsKnown'
  BY <1>3 DEF OutputsKnown
<1>4. /\ OutHolders \in SUBSET Workers /\ OutHolders' \in SUBSET Workers
      /\ Held \in Nat /\ Held' \in Nat /\ Listed \in Nat /\ Listed' \in Nat
      /\ Taken \in Nat /\ Taken' \in Nat
  <2>1. OutHolders \in SUBSET Workers /\ OutHolders' \in SUBSET Workers
    BY DEF OutHolders, Holders
  <2>2. Cardinality(WithOut(seq)) \in Nat /\ Cardinality(WithOut(seq')) \in Nat
    BY <1>1, <1>2, ListFinite
  <2>3. Taken \in Nat /\ Taken' \in Nat
    BY DEF Count
  <2> QED
    BY <2>1, <2>2, <2>3, WorkersCount DEF WithOut
<1>5. ASSUME Working PROVE InUse(outp) = Held + Listed + Taken
  BY <1>2, <1>4, <1>5 DEF ZqInv, OutputsKnown
<1>6. ASSUME InUse(outp)' = Held' + Listed' + Taken' PROVE OutputsKnown'
  <2>1. ASSUME NEW m \in Nat, NEW a \in Nat, NEW h \in Nat, NEW l \in Nat, NEW t \in Nat,
               m - a = h + l + t
        PROVE  m = a + h + l + t
    BY <2>1
  <2>2. Held' \in Nat
    BY <1>4
  <2>3. Listed' \in Nat
    BY <1>4
  <2>4. Taken' \in Nat
    BY <1>4
  <2>5. outp'.made - outp'.have = Held' + Listed' + Taken'
    BY <1>6
  <2>6. outp'.made \in Nat /\ outp'.have \in Nat
    BY <1>2
  <2>7. outp'.made = outp'.have + Held' + Listed' + Taken'
    BY <2>1, <2>2, <2>3, <2>4, <2>5, <2>6
  <2> QED
    BY <2>7 DEF OutputsKnown
<1>7. /\ PutSpace(outp).made - PutSpace(outp).have = InUse(outp) - 1
      /\ CanGet(outp) => GetSpace(outp).made - GetSpace(outp).have = InUse(outp) + 1
  BY <1>1, PoolsCount
<1>8. ASSUME job' = job, \A w \in Workers : pc'[w] = pc[w] \/ (~HasJob(w) /\ ~HasJob(w)')
      PROVE  Held' = Held
  <2>1. OutHolders' = OutHolders
    BY <1>8 DEF OutHolders, Holders, HasJob
  <2> QED
    BY <2>1
<1>9. ASSUME seq' = seq PROVE Listed' = Listed
  BY <1>9 DEF WithOut
<1>10. ASSUME wjob' = wjob, WriterHas' <=> WriterHas PROVE Taken' = Taken
  BY <1>10 DEF Count
<1>11. ASSUME Working, UNCHANGED <<outp, seq, job, wjob>>, WriterHas' <=> WriterHas,
              \A w \in Workers : pc'[w] = pc[w] \/ (~HasJob(w) /\ ~HasJob(w)')
       PROVE  OutputsKnown'
  BY <1>5, <1>6, <1>8, <1>9, <1>10, <1>11
<1>12. ASSUME NEW f \in FileKinds, Begin(f) PROVE OutputsKnown'
  <2>1. /\ pc["main"] = "file" /\ pc' = [pc EXCEPT !["main"] = "space", ![Writer] = "take"]
        /\ seq' = <<>> /\ outp' = NewPool(OutLimit(f))
    BY <1>12 DEF Begin, At
  <2>2. pc'[Writer] = "take" /\ \A w \in Workers : pc'[w] = "none"
    BY <1>1, <2>1 DEF Working
  <2>3. OutHolders' = {} /\ ~WriterHas'
    BY <2>2 DEF OutHolders, Holders, HasJob, WriterHas
  <2>4. WithOut(seq)' = {}
    BY <2>1 DEF WithOut
  <2>5. Held' = 0 /\ Listed' = 0 /\ Taken' = 0
    BY <2>3, <2>4, FS_EmptySet DEF Count
  <2>6. outp'.made = 0 /\ outp'.have = 0
    BY <2>1 DEF NewPool
  <2> QED
    BY <1>6, <2>5, <2>6
<1>13. CASE SeekFails \/ ReadBlock \/ DropSmall \/ LastIsShort \/ ReadAhead \/ DropUnread
            \/ AddJob \/ StopWorkers \/ AllJoined
  <2>1. /\ pc["main"] \notin {"file", "crashed"} /\ \E q : pc' = [pc EXCEPT !["main"] = q]
    BY <1>13 DEF SeekFails, ReadBlock, DropSmall, LastIsShort, ReadAhead, DropUnread, AddJob,
       StopWorkers, AllJoined, Go
  <2>2. UNCHANGED <<outp, seq, job, wjob>>
    BY <1>13 DEF SeekFails, ReadBlock, DropSmall, LastIsShort, ReadAhead, DropUnread, AddJob,
       StopWorkers, AllJoined, writeVars, queueVars
  <2>3. \A t \in Workers \cup {Writer} : pc'[t] = pc[t]
    BY <1>1, <2>1
  <2> QED
    BY <1>11, <2>1, <2>2, <2>3 DEF WriterHas, Working
<1>14. CASE Launch
  <2>1. pc["main"] = "launch" /\ UNCHANGED <<outp, seq, job, wjob>>
    BY <1>14 DEF Launch, At, writeVars, queueVars
  <2>2. \A t \in Workers \cup {Writer} : pc'[t] = pc[t] \/ (pc[t] = "none" /\ pc'[t] = "get")
    <3>1. CASE Go("main", "launch", "add")
      <4>1. pc' = [pc EXCEPT !["main"] = "add"]
        BY <3>1 DEF Go
      <4> QED
        BY <1>1, <4>1
    <3>2. CASE \E w \in Idle : pc' = [pc EXCEPT !["main"] = "add", ![w] = "get"]
      <4>1. PICK w \in Workers : /\ pc[w] = "none"
                                 /\ pc' = [pc EXCEPT !["main"] = "add", ![w] = "get"]
        BY <3>2 DEF Idle, At
      <4> QED
        BY <1>1, <4>1
    <3> QED
      BY <1>14, <3>1, <3>2 DEF Launch
  <2> QED
    BY <1>1, <1>11, <2>1, <2>2 DEF Working, WriterHas, HasJob
<1>15. CASE JoinWriter
  <2>1. /\ pc["main"] = "join" /\ pc[Writer] = "gone" /\ UNCHANGED <<outp, seq, job, wjob>>
        /\ pc'[Writer] = "none" /\ \A w \in Workers : pc'[w] = pc[w]
    BY <1>1, <1>15 DEF JoinWriter, At, writeVars, queueVars
  <2> QED
    BY <1>11, <2>1 DEF Working, WriterHas
<1>16. CASE JoinOne
  <2>1. PICK t \in done : pc' = [pc EXCEPT ![t] = "none"]
    BY <1>16 DEF JoinOne
  <2>2. pc["main"] = "joinall" /\ UNCHANGED <<outp, seq, job, wjob>>
    BY <1>16 DEF JoinOne, At, writeVars, queueVars
  <2>3. /\ (WriterHas' <=> WriterHas)
        /\ \A w \in Workers : pc'[w] = pc[w] \/ (~HasJob(w) /\ ~HasJob(w)')
    BY <1>1, <2>1 DEF HasJob, WriterHas
  <2> QED
    BY <1>11, <2>2, <2>3 DEF Working
<1>17. CASE FreePools \/ DropNull \/ Finished
  <2>1. pc'["main"] \in {"file", "crashed"}
    BY <1>1, <1>17 DEF FreePools, Go, DropNull, Finished, At, vars
  <2> QED
    BY <1>3, <2>1 DEF Working
<1>18. CASE TakeJob
  <2>1. /\ pc[Writer] = "take" /\ pc' = [pc EXCEPT ![Writer] = "dropin"] /\ seq # <<>>
        /\ seq' = Tail(seq) /\ wjob' = seq[1] /\ UNCHANGED <<outp, job>>
    BY <1>18 DEF TakeJob, Go
  <2>2. Working /\ pc'[Writer] = "dropin" /\ \A t \in Workers : pc'[t] = pc[t]
    BY <1>1, <2>1
  <2>3. Cardinality(WithOut(seq)) = Cardinality(WithOut(Tail(seq))) + Count(seq[1].out)
    BY <1>1, <2>1, CountTail
  <2>4. Listed = Listed' + Count(seq[1].out)
    BY <2>1, <2>3 DEF WithOut
  <2>5. Taken = 0 /\ Taken' = Count(seq[1].out)
    BY <2>1, <2>2 DEF WriterHas, Count
  <2> QED
    BY <1>4, <1>5, <1>6, <1>8, <2>1, <2>2, <2>4, <2>5
<1>19. CASE DropIn
  <2>1. /\ pc[Writer] = "dropin" /\ pc' = [pc EXCEPT ![Writer] = "write"]
        /\ UNCHANGED <<outp, seq, job, wjob>>
    BY <1>19 DEF DropIn, Go, writeVars, queueVars
  <2>2. Working /\ pc'[Writer] = "write" /\ \A t \in Workers : pc'[t] = pc[t]
    BY <1>1, <2>1
  <2> QED
    BY <1>11, <2>1, <2>2 DEF WriterHas
<1>20. CASE WriteBlock
  <2>1. /\ pc[Writer] = "write" /\ \E q \in {"take", "verify"} : pc' = [pc EXCEPT ![Writer] = q]
        /\ wjob.out /\ outp' = PutSpace(outp) /\ UNCHANGED <<seq, job>>
    BY <1>20 DEF WriteBlock, Go, queueVars
  <2>2. Working /\ pc'[Writer] \in {"take", "verify"} /\ \A t \in Workers : pc'[t] = pc[t]
    BY <1>1, <2>1
  <2>3. Taken = 1 /\ Taken' = 0
    BY <2>1, <2>2 DEF WriterHas, Count
  <2> QED
    BY <1>2, <1>4, <1>5, <1>6, <1>7, <1>8, <1>9, <2>1, <2>2, <2>3
<1>21. CASE Verify
  <2>1. pc[Writer] = "verify" /\ UNCHANGED <<outp, seq, job, wjob>>
    BY <1>21 DEF Verify, At, writeVars, queueVars
  <2>2. CASE pc' = [pc EXCEPT ![Writer] = "reenter"]
    <3>1. Working /\ pc'[Writer] = "reenter" /\ \A t \in Workers : pc'[t] = pc[t]
      BY <1>1, <2>1, <2>2
    <3> QED
      BY <1>11, <2>1, <3>1 DEF WriterHas
  <2>3. CASE pc' = [t \in DOMAIN pc |-> "crashed"]
    BY <1>1, <1>3, <2>3 DEF Working
  <2> QED
    BY <1>21, <2>2, <2>3 DEF Verify
<1>22. ASSUME NEW t \in Workers \cup {Writer}, ThreadExits(t) PROVE OutputsKnown'
  <2>1. /\ pc[t] = "reenter" /\ pc' = [pc EXCEPT ![t] = "gone"]
        /\ UNCHANGED <<outp, seq, job, wjob>>
    BY <1>22 DEF ThreadExits, Reenter, Go, writeVars, queueVars
  <2>2. Working /\ pc'[t] = "gone" /\ \A u \in All : u # t => pc'[u] = pc[u]
    BY <1>1, <2>1
  <2>3. WriterHas' <=> WriterHas
    BY <2>1, <2>2 DEF WriterHas
  <2> QED
    BY <1>11, <2>1, <2>2, <2>3 DEF HasJob
<1>23. ASSUME NEW w \in Workers, NEW q, pc[w] # "none", pc' = [pc EXCEPT ![w] = q]
       PROVE  /\ Working /\ pc'[w] = q /\ \A u \in Workers : u # w => pc'[u] = pc[u]
              /\ (WriterHas' <=> WriterHas)
  BY <1>1, <1>23 DEF WriterHas
<1>24. ASSUME NEW w \in Workers, HasJob(w)
       PROVE  Truly(job[w]) /\ job[w] \in Jobs
              /\ (job[w].out <=> pc[w] # "out" /\ (pc[w] = "put" => Fits(job[w])))
  BY <1>1, <1>24 DEF ZqInv, JobsKnown, HasJob, Truly
<1>25. ASSUME NEW w \in Workers, GetJob(w) PROVE OutputsKnown'
  <2>1. /\ pc[w] = "get" /\ fifo # <<>> /\ UNCHANGED <<outp, seq, wjob>>
    BY <1>25 DEF GetJob, At, writeVars
  <2>2. CASE fifo[1].seq = Stop
    <3>1. pc' = [pc EXCEPT ![w] = "reenter"] /\ UNCHANGED job
      BY <1>25, <2>2 DEF GetJob, Go
    <3> QED
      BY <1>11, <1>23, <2>1, <3>1 DEF HasJob
  <2>3. CASE fifo[1].seq # Stop
    <3>1. pc' = [pc EXCEPT ![w] = "out"] /\ job' = [job EXCEPT ![w] = fifo[1]]
      BY <1>25, <2>3 DEF GetJob, Go
    <3>2. /\ Working /\ pc'[w] = "out" /\ \A u \in Workers : u # w => pc'[u] = pc[u]
          /\ (WriterHas' <=> WriterHas)
      BY <1>23, <2>1, <3>1
    <3>3. ~fifo[1].out
      BY <2>1, <3>2, CountTail DEF ZqInv, TypeOK, JobsKnown
    <3>4. job'[w] = fifo[1] /\ \A u \in Workers : u # w => job'[u] = job[u]
      BY <1>1, <3>1
    <3>5. OutHolders' = OutHolders
      BY <2>1, <3>2, <3>3, <3>4 DEF OutHolders, Holders, HasJob
    <3> QED
      BY <1>5, <1>6, <1>9, <1>10, <2>1, <3>2, <3>5
  <2> QED
    BY <2>2, <2>3
<1>26. ASSUME NEW w \in Workers, GetOut(w) PROVE OutputsKnown'
  <2>1. /\ pc[w] = "out" /\ job' = [job EXCEPT ![w].out = TRUE]
        /\ \E q \in {"put", "grow"} : pc' = [pc EXCEPT ![w] = q]
        /\ outp' = GetSpace(outp) /\ CanGet(outp) /\ UNCHANGED <<seq, wjob>>
    BY <1>26 DEF GetOut, Go, queueVars, writeVars
  <2>2. /\ Working /\ pc'[w] \in {"put", "grow"} /\ \A u \in Workers : u # w => pc'[u] = pc[u]
        /\ (WriterHas' <=> WriterHas)
    BY <1>23, <2>1
  <2>3. job[w] \in Jobs /\ ~job[w].out
    BY <1>24, <2>1 DEF HasJob
  <2>4. job'[w].out /\ \A u \in Workers : u # w => job'[u] = job[u]
    BY <1>1, <2>1, <2>3 DEF Jobs
  <2>5. OutHolders' = OutHolders \cup {w} /\ w \notin OutHolders
    BY <2>1, <2>2, <2>3, <2>4 DEF OutHolders, Holders, HasJob
  <2>6. Held' = Held + 1
    BY <1>4, <2>5, WorkersCount
  <2> QED
    BY <1>2, <1>4, <1>5, <1>6, <1>7, <1>9, <1>10, <2>1, <2>2, <2>6
<1>27. ASSUME NEW w \in Workers, Grow(w) PROVE OutputsKnown'
  <2>1. /\ pc[w] = "grow" /\ job' = [job EXCEPT ![w].out = FALSE]
        /\ pc' = [pc EXCEPT ![w] = "put"]
        /\ outp' = PutSpace(outp) /\ UNCHANGED <<seq, wjob>>
    BY <1>27 DEF Grow, Go, queueVars, writeVars
  <2>2. /\ Working /\ pc'[w] = "put" /\ \A u \in Workers : u # w => pc'[u] = pc[u]
        /\ (WriterHas' <=> WriterHas)
    BY <1>23, <2>1
  <2>3. job[w] \in Jobs /\ job[w].out
    BY <1>24, <2>1 DEF HasJob
  <2>4. ~job'[w].out /\ \A u \in Workers : u # w => job'[u] = job[u]
    BY <1>1, <2>1, <2>3 DEF Jobs
  <2>5. OutHolders' = OutHolders \ {w} /\ w \in OutHolders
    BY <2>1, <2>2, <2>3, <2>4 DEF OutHolders, Holders, HasJob
  <2>6. Held' = Held - 1
    BY <1>4, <2>5, WorkersCount
  <2> QED
    BY <1>2, <1>4, <1>5, <1>6, <1>7, <1>9, <1>10, <2>1, <2>2, <2>6
<1>28. ASSUME NEW w \in Workers, PutJob(w) PROVE OutputsKnown'
  <2>1. /\ pc[w] = "put" /\ job' = [job EXCEPT ![w] = NoJob]
        /\ pc' = [pc EXCEPT ![w] = "get"]
        /\ seq' = Inserted(seq, job[w]) /\ UNCHANGED <<outp, wjob>>
    BY <1>28 DEF PutJob, AddWJob, Go, writeVars
  <2>2. /\ Working /\ pc'[w] = "get" /\ \A u \in Workers : u # w => pc'[u] = pc[u]
        /\ (WriterHas' <=> WriterHas)
    BY <1>23, <2>1
  <2>3. job[w] \in Jobs
    BY <1>24, <2>1 DEF HasJob
  <2>4. \A u \in Workers : u # w => job'[u] = job[u]
    BY <1>1, <2>1
  <2>5. OutHolders' = OutHolders \ {w} /\ (w \in OutHolders <=> job[w].out)
    BY <2>1, <2>2, <2>4 DEF OutHolders, Holders, HasJob
  <2>6. Held = Held' + Count(job[w].out)
    <3>1. CASE job[w].out
      BY <1>4, <2>5, <3>1, WorkersCount DEF Count
    <3>2. CASE ~job[w].out
      <4>1. OutHolders' = OutHolders
        BY <2>5, <3>2
      <4> QED
        BY <1>4, <3>2, <4>1 DEF Count
    <3> QED
      BY <3>1, <3>2
  <2>7. Listed' = Listed + Count(job[w].out)
    <3>1. Cardinality(WithOut(Inserted(seq, job[w]))) = Cardinality(WithOut(seq)) + Count(job[w].out)
      BY <1>1, <2>3, CountInserted
    <3> QED
      BY <2>1, <3>1 DEF WithOut
  <2>8. Count(job[w].out) \in Nat
    BY DEF Count
  <2> QED
    BY <1>2, <1>4, <1>5, <1>6, <1>10, <2>1, <2>2, <2>6, <2>7, <2>8
<1>29. CASE Main
  BY <1>13, <1>14, <1>15, <1>16, <1>17, <1>29 DEF Main
<1>30. CASE Write
  BY <1>17, <1>18, <1>19, <1>20, <1>21, <1>22, <1>30 DEF Write
<1>31. CASE \E w \in Workers : Work(w)
  BY <1>22, <1>25, <1>26, <1>27, <1>28, <1>31 DEF Work
<1> QED
  BY <1>12, <1>17, <1>29, <1>30, <1>31 DEF Next

(* Every worker launched for a file is at work or was joined.               *)
LEMMA WorkersStep ==
  ASSUME ZqInv, ~Crashed, Next
  PROVE  WorkersKnown'
<1> DEFINE All == Workers \cup {Writer, "main"}
<1>1. /\ pc \in [All -> Places]
      /\ "main" \notin Workers /\ "main" # Writer /\ Writer \notin Workers
      /\ (\E t \in Workers \cup {Writer} : pc[t] # "none") => Working
      /\ cthreads \in Nat /\ caught \in Nat
      /\ done \subseteq Workers \cup {Writer} /\ \A t \in done : pc[t] = "gone"
      /\ AtWork \in SUBSET Workers /\ Cardinality(AtWork) \in Nat
      /\ Working => cthreads = caught + Cardinality(AtWork)
      /\ ~Working => cthreads = 0
  BY Known, WorkersCount DEF ZqInv, TypeOK, AtWork, WorkersKnown
<1>2. ASSUME Crashed' PROVE WorkersKnown'
  BY <1>2 DEF WorkersKnown, Working, Crashed
<1>3. ASSUME Working, UNCHANGED <<cthreads, caught>>,
             \A w \in Workers : pc'[w] = "none" <=> pc[w] = "none",
             pc'["main"] # "file"
      PROVE  WorkersKnown'
  <2>1. AtWork' = AtWork
    BY <1>3 DEF AtWork
  <2> QED
    BY <1>1, <1>3, <2>1 DEF WorkersKnown, Working, Crashed
<1>4. ASSUME NEW f \in FileKinds, Begin(f) PROVE WorkersKnown'
  <2>1. /\ pc["main"] = "file" /\ pc' = [pc EXCEPT !["main"] = "space", ![Writer] = "take"]
        /\ cthreads' = cthreads /\ caught' = 0
    BY <1>4 DEF Begin, At
  <2>2. pc'["main"] = "space" /\ ~Working /\ \A w \in Workers : pc'[w] = "none"
    BY <1>1, <2>1 DEF Working
  <2>3. AtWork' = {}
    BY <2>2 DEF AtWork
  <2> QED
    BY <1>1, <2>1, <2>2, <2>3, FS_EmptySet DEF WorkersKnown, Working
<1>5. CASE SeekFails \/ ReadBlock \/ DropSmall \/ LastIsShort \/ ReadAhead \/ DropUnread
           \/ AddJob \/ StopWorkers \/ AllJoined
  <2>1. /\ pc["main"] \notin {"file", "crashed"}
        /\ \E q : q # "file" /\ pc' = [pc EXCEPT !["main"] = q]
    BY <1>5 DEF SeekFails, ReadBlock, DropSmall, LastIsShort, ReadAhead, DropUnread, AddJob,
       StopWorkers, AllJoined, Go
  <2>2. UNCHANGED <<cthreads, caught>>
    BY <1>5 DEF SeekFails, ReadBlock, DropSmall, LastIsShort, ReadAhead, DropUnread, AddJob,
       StopWorkers, AllJoined, mainVars
  <2>3. pc'["main"] # "file" /\ \A t \in Workers : pc'[t] = pc[t]
    BY <1>1, <2>1
  <2> QED
    BY <1>3, <2>1, <2>2, <2>3 DEF Working
<1>6. CASE Launch
  <2>1. pc["main"] = "launch" /\ caught' = caught
    BY <1>6 DEF Launch, At
  <2>2. CASE Go("main", "launch", "add") /\ UNCHANGED <<threads, cthreads>>
    <3>1. pc' = [pc EXCEPT !["main"] = "add"] /\ cthreads' = cthreads
      BY <2>2 DEF Go
    <3>2. pc'["main"] = "add" /\ \A t \in Workers : pc'[t] = pc[t]
      BY <1>1, <3>1
    <3> QED
      BY <1>3, <2>1, <3>1, <3>2 DEF Working
  <2>3. CASE \E w \in Idle : /\ threads' = Launched(w) /\ cthreads' = cthreads + 1
                             /\ pc' = [pc EXCEPT !["main"] = "add", ![w] = "get"]
    <3>1. PICK w \in Workers : /\ pc[w] = "none" /\ cthreads' = cthreads + 1
                               /\ pc' = [pc EXCEPT !["main"] = "add", ![w] = "get"]
      BY <2>3 DEF Idle, At
    <3>2. /\ pc'["main"] = "add" /\ pc'[w] = "get"
          /\ \A t \in Workers : t # w => pc'[t] = pc[t]
      BY <1>1, <3>1
    <3>3. AtWork' = AtWork \cup {w} /\ w \notin AtWork
      BY <3>1, <3>2 DEF AtWork
    <3>4. Cardinality(AtWork') = Cardinality(AtWork) + 1
      BY <1>1, <3>3, WorkersCount
    <3> QED
      BY <1>1, <2>1, <3>1, <3>2, <3>4 DEF WorkersKnown, Working
  <2> QED
    BY <1>6, <2>2, <2>3 DEF Launch
<1>7. CASE JoinWriter
  <2>1. /\ pc["main"] = "join" /\ pc'["main"] = "fini" /\ UNCHANGED <<cthreads, caught>>
        /\ \A w \in Workers : pc'[w] = pc[w]
    BY <1>1, <1>7 DEF JoinWriter, At, mainVars
  <2> QED
    BY <1>3, <2>1 DEF Working
<1>8. CASE JoinOne
  <2>1. PICK t \in done : pc' = [pc EXCEPT ![t] = "none"]
    BY <1>8 DEF JoinOne
  <2>2. pc["main"] = "joinall" /\ cthreads' = cthreads /\ caught' = caught + 1
    BY <1>8 DEF JoinOne, At
  <2>3. t \in Workers /\ pc[t] = "gone"
    BY <1>1, <2>2, OnlyWorkersLeft
  <2>4. pc'["main"] = "joinall" /\ pc'[t] = "none" /\ \A u \in Workers : u # t => pc'[u] = pc[u]
    BY <1>1, <2>1, <2>2, <2>3
  <2>5. AtWork' = AtWork \ {t} /\ t \in AtWork
    BY <2>3, <2>4 DEF AtWork
  <2>6. Cardinality(AtWork') = Cardinality(AtWork) - 1
    BY <1>1, <2>3, <2>5, WorkersCount
  <2> QED
    BY <1>1, <2>2, <2>4, <2>6 DEF WorkersKnown, Working
<1>9. CASE FreePools
  <2>1. pc'["main"] = "file" /\ cthreads' = 0
    BY <1>1, <1>9 DEF FreePools, Go
  <2> QED
    BY <2>1 DEF WorkersKnown, Working, Crashed
<1>10. ASSUME NEW t \in Workers \cup {Writer}, NEW q, pc[t] # "none", q # "none",
              pc' = [pc EXCEPT ![t] = q], UNCHANGED <<cthreads, caught>>
       PROVE  WorkersKnown'
  <2>1. /\ Working /\ pc'["main"] = pc["main"]
        /\ \A w \in Workers : pc'[w] = "none" <=> pc[w] = "none"
    BY <1>1, <1>10
  <2> QED
    BY <1>3, <1>10, <2>1 DEF Working
<1>11. CASE TakeJob \/ DropIn \/ WriteBlock
  <2>1. /\ pc[Writer] # "none" /\ \E q : q # "none" /\ pc' = [pc EXCEPT ![Writer] = q]
    BY <1>11 DEF TakeJob, DropIn, WriteBlock, Go
  <2>2. UNCHANGED <<cthreads, caught>>
    BY <1>11 DEF TakeJob, DropIn, WriteBlock, mainVars
  <2> QED
    BY <1>10, <2>1, <2>2
<1>12. CASE DropNull \/ Verify
  <2>1. \/ Crashed'
        \/ pc[Writer] = "verify" /\ pc' = [pc EXCEPT ![Writer] = "reenter"]
    BY <1>1, <1>12 DEF DropNull, Verify, At, Crashed
  <2>2. UNCHANGED <<cthreads, caught>>
    BY <1>12 DEF DropNull, Verify, mainVars
  <2> QED
    BY <1>2, <1>10, <2>1, <2>2
<1>13. ASSUME NEW t \in Workers \cup {Writer}, ThreadExits(t) PROVE WorkersKnown'
  BY <1>10, <1>13 DEF ThreadExits, Reenter, Go, mainVars
<1>14. ASSUME NEW w \in Workers, GetJob(w) \/ GetOut(w) \/ Grow(w) \/ PutJob(w)
       PROVE  WorkersKnown'
  <2>1. pc[w] # "none" /\ \E q : q # "none" /\ pc' = [pc EXCEPT ![w] = q]
    BY <1>14 DEF GetJob, GetOut, Grow, PutJob, Go
  <2>2. UNCHANGED <<cthreads, caught>>
    BY <1>14 DEF GetJob, GetOut, Grow, PutJob, mainVars
  <2> QED
    BY <1>10, <2>1, <2>2
<1>15. CASE Finished
  <2>1. pc["main"] = "file" /\ pc' = pc /\ cthreads' = cthreads
    BY <1>15 DEF Finished, At, vars, mainVars
  <2> QED
    BY <1>1, <2>1 DEF WorkersKnown, Working
<1>16. CASE Main
  BY <1>5, <1>6, <1>7, <1>8, <1>9, <1>16 DEF Main
<1>17. CASE Write
  BY <1>11, <1>12, <1>13, <1>17 DEF Write
<1>18. CASE \E w \in Workers : Work(w)
  BY <1>13, <1>14, <1>18 DEF Work
<1> QED
  BY <1>4, <1>15, <1>16, <1>17, <1>18 DEF Next

-----------------------------------------------------------------------------
(* The program starts with no thread and no file.                           *)
LEMMA InitInv ==
  ASSUME Init
  PROVE  ZqInv
<1>1. /\ pc \in [Workers \cup {Writer, "main"} -> Places] /\ pc["main"] = "file"
      /\ \A t \in Workers \cup {Writer} : pc[t] = "none"
  <2>1. "main" \notin Workers \cup {Writer}
    BY ZqAssumption
  <2>2. pc = [t \in Workers \cup {Writer, "main"} |-> IF t = "main" THEN "file" ELSE "none"]
    BY DEF Init
  <2> QED
    BY <2>1, <2>2 DEF Places
<1>2. inp \in Pools /\ outp \in Pools
  BY DEF Init, NewPool, Pools
<1>3. more \in BOOLEAN
  BY Zenon DEF Init
<1>4. /\ done = {} /\ threads = {} /\ exited = Cardinality(done)
  BY FS_EmptySet DEF Init
<1>5. TypeOK
  BY <1>1, <1>2, <1>3, <1>4, ZqAssumption DEF Init, TypeOK
<1>6. ThreadsKnown
  BY <1>1, <1>4 DEF ThreadsKnown, Crashed
<1>7. ~Working /\ ~Crashed /\ cthreads = 0 /\ written = <<>>
  BY <1>1 DEF Init, Working, Crashed
<1> QED
  BY <1>5, <1>6, <1>7 DEF ZqInv, MainKnown, WriterKnown, JobsKnown, InputsKnown, OutputsKnown,
     WorkersKnown

(* Every step of every thread keeps the invariant.                          *)
LEMMA StepInv ==
  ASSUME ZqInv, [Next]_vars
  PROVE  ZqInv'
<1>1. CASE UNCHANGED vars
  <2>1. UNCHANGED <<file, nfile, inp, outp, fifo, fifoHave, seq, seqFirst, threads, done, exited>>
    BY <1>1 DEF vars, queueVars, yarnVars, mainVars
  <2>2. UNCHANGED <<pc, mseq, more, cthreads, caught, wseq, wjob, written, job>>
    BY <1>1 DEF vars, mainVars, writeVars
  <2>3. TypeOK' /\ ThreadsKnown' /\ MainKnown' /\ WriterKnown'
    BY <2>1, <2>2 DEF ZqInv, TypeOK, ThreadsKnown, Crashed, MainKnown, Working, WriterKnown,
       FirstAfter, WriterHas, Truly
  <2>4. JobsKnown' /\ InputsKnown' /\ OutputsKnown' /\ WorkersKnown'
    BY <2>1, <2>2 DEF ZqInv, JobsKnown, Working, Truly, Fits, Stopping, HasJob, Holders, WriterHas,
       Queued, Count, InputsKnown, MainHolds, Undropped, OutputsKnown, OutHolders, WithOut,
       WorkersKnown, Crashed, AtWork
  <2> QED
    BY <2>3, <2>4 DEF ZqInv
<1>2. CASE Next /\ ~Crashed
  BY <1>2, TypeStep, ThreadsStep, MainStep, WriterStep, JobsStep, InputsStep, OutputsStep,
     WorkersStep DEF ZqInv
<1> QED
  BY <1>1, <1>2, CrashedStays

(* The inductive invariant holds in every state: in particular the counts   *)
(* of pools and locks (rpmzqNewSpace, rpmzqDropSpace, yarnTwist) stay above *)
(* zero, whatever the files, the threads and the order they run in.         *)
THEOREM ZqInvariant == Spec => []ZqInv
<1>1. Init => ZqInv
  BY InitInv
<1>2. ZqInv /\ [Next]_vars => ZqInv'
  BY StepInv
<1> QED
  BY <1>1, <1>2, PTL DEF Spec

(* write_thread writes the blocks in order, each once, and has written them *)
(* all when it is joined.                                                   *)
THEOREM WrittenInOrderCorrect == Spec => []WrittenInOrder
<1>1. ASSUME ZqInv PROVE WrittenInOrder
  <2>1. \A n \in 1..Len(written) : written[n] = n - 1
    BY <1>1 DEF ZqInv, WriterKnown
  <2>2. ASSUME pc["main"] = "fini", Writer \notin threads PROVE Len(written) = file.blocks
    <3>1. Working /\ ~Crashed
      BY <2>2 DEF Working, Crashed
    <3>2. pc[Writer] = "none"
      BY <1>1, <2>2, <3>1, Known
    <3> QED
      BY <1>1, <2>2, <3>1, <3>2 DEF ZqInv, MainKnown, WriterKnown
  <2> QED
    BY <2>1, <2>2 DEF WrittenInOrder, At
<1> QED
  BY <1>1, ZqInvariant, PTL

(* rpmzqFini finds every worker it launched back and every space of both    *)
(* pools given back ("verify they all came back", count == made).           *)
THEOREM AllReturnedCorrect == Spec => []AllReturned
<1>1. ASSUME ZqInv PROVE AllReturned
  <2>1. SUFFICES ASSUME pc["main"] = "free"
                 PROVE  caught = cthreads /\ inp.have = inp.made /\ outp.have = outp.made
    BY DEF AllReturned, At
  <2>2. Working /\ ~Crashed /\ Stopping
    BY <2>1 DEF Working, Crashed, Stopping
  <2>3. \A t \in Workers \cup {Writer} : pc[t] = "none"
    BY <1>1, <2>1, <2>2 DEF ZqInv, ThreadsKnown
  <2>4. /\ wseq = mseq /\ Queued = mseq /\ wseq \in Nat
        /\ inp.have \in Nat /\ outp.have \in Nat /\ caught \in Nat
    <3>1. wseq \in Nat /\ inp.have \in Nat /\ outp.have \in Nat /\ caught \in Nat
      BY <1>1 DEF ZqInv, TypeOK, Pools
    <3> QED
      BY <1>1, <2>1, <2>2, <2>3, <3>1 DEF ZqInv, MainKnown, Queued
  <2>5. AtWork = {} /\ Holders = {} /\ OutHolders = {} /\ ~WriterHas
    BY <2>3 DEF AtWork, Holders, OutHolders, HasJob, WriterHas
  <2>6. Cardinality({}) = 0 /\ Count(WriterHas) = 0 /\ Count(WriterHas /\ wjob.out) = 0
    BY <2>5, FS_EmptySet DEF Count
  <2>7. WithOut(seq) = {}
    <3>1. Len(seq) \in Nat /\ DOMAIN seq = 1..Len(seq)
      BY <1>1, ListFinite DEF ZqInv, TypeOK
    <3>2. 0 + Cardinality(Holders) + Len(seq) + Count(WriterHas) <= Queued - wseq
      BY <1>1, <2>2 DEF ZqInv, JobsKnown
    <3>3. Len(seq) = 0
      BY <2>4, <2>5, <2>6, <3>1, <3>2
    <3> QED
      BY <3>1, <3>3 DEF WithOut
  <2>8. Undropped = {} /\ MainHolds = 0
    BY <2>1, <2>3, <2>4 DEF Undropped, Count, MainHolds
  <2>9. caught = cthreads
    BY <1>1, <2>2, <2>4, <2>5, <2>6 DEF ZqInv, WorkersKnown
  <2>10. inp.have = inp.made
    BY <1>1, <2>2, <2>4, <2>6, <2>8 DEF ZqInv, InputsKnown
  <2>11. outp.have = outp.made
    <3>1. outp.made = outp.have + Cardinality(OutHolders) + Cardinality(WithOut(seq))
                        + Count(WriterHas /\ wjob.out)
      BY <1>1, <2>2 DEF ZqInv, OutputsKnown
    <3> QED
      BY <2>4, <2>5, <2>6, <2>7, <3>1
  <2> QED
    BY <2>9, <2>10, <2>11
<1> QED
  BY <1>1, ZqInvariant, PTL
=============================================================================
