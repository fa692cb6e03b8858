---------------------------- MODULE RpmPoolProofs ----------------------------
(***************************************************************************)
(* Proofs about RpmPool, for any sets of threads, handles and items and    *)
(* any limit: PoolInv is inductive, the safety properties of RpmPool       *)
(* follow from it, and RpmPool implements ObjectPool.                      *)
(***************************************************************************)
EXTENDS RpmPool, FiniteSetTheorems, SequenceTheorems, TLAPS

-----------------------------------------------------------------------------
(* Lemmas about the list, the pointers and the counts.                      *)

(* The first available item, when rpmioGetPool takes it.                    *)
LEMMA TakeFirst ==
  ASSUME PoolInv, head # NoItem, \A u \in Threads : pc[u] # "exit"
  PROVE  /\ Len(avail) \in Nat \ {0}
         /\ head = avail[1] /\ head \in Items /\ head \in exists
         /\ Tail(avail) \in Seq(Items) /\ Len(Tail(avail)) = Len(avail) - 1
         /\ \A n \in 1..Len(Tail(avail)) :
               n + 1 \in 1..Len(avail) /\ Tail(avail)[n] = avail[n + 1]
         /\ pool[head] = IF Len(avail) = 1 THEN NoItem ELSE avail[2]
<1> USE PoolAssumption DEF PoolInv
<1>1. avail \in Seq(Items) /\ avail # <<>>
  BY DEF TypeOK, ListRep
<1>2. Len(avail) \in Nat \ {0} /\ 1 \in 1..Len(avail)
  BY <1>1
<1>3. head = avail[1] /\ avail[1] \in Items /\ avail[1] \in exists
  BY <1>1, <1>2 DEF ListRep, Allocated
<1>4. Tail(avail) \in Seq(Items) /\ Len(Tail(avail)) = Len(avail) - 1
  BY <1>1
<1>5. \A n \in 1..Len(Tail(avail)) :
        n + 1 \in 1..Len(avail) /\ Tail(avail)[n] = avail[n + 1]
  BY <1>1, <1>2, <1>4
<1>6. pool[avail[1]] = IF 1 = Len(avail) THEN NoItem ELSE avail[1 + 1]
  BY <1>2 DEF ListRep
<1>7. 1 + 1 = 2
  OBVIOUS
<1> QED
  BY <1>2, <1>3, <1>4, <1>5, <1>6, <1>7

(* The sequence with an item more at its end.                               *)
LEMMA PutLast ==
  ASSUME avail \in Seq(Items), NEW i \in Items
  PROVE  /\ Append(avail, i) \in Seq(Items)
         /\ Len(avail) \in Nat /\ Len(Append(avail, i)) = Len(avail) + 1
         /\ \A n \in 1..Len(avail) : Append(avail, i)[n] = avail[n]
         /\ Append(avail, i)[Len(avail) + 1] = i
  OBVIOUS

(* A thread whose item is on the list has just put it there.                *)
LEMMA ListedOnlyByPut ==
  ASSUME PoolInv, NEW u \in Threads, NEW n \in 1..Len(avail), itm[u] = avail[n]
  PROVE  At(u, {"puttwist"})
<1> USE PoolAssumption DEF PoolInv
<1>1. avail[n] \in Items /\ ~Held(avail[n])
  BY DEF TypeOK, Disjoint
<1>2. ~Fresh(u)
  BY DEF Disjoint, Listed
<1> QED
  BY <1>1, <1>2 DEF TypeOK, PCs, Places, PlaceOK, At, Fresh, Held

(* The set of pointers to an item is finite.                                *)
LEMMA HoldersFinite ==
  ASSUME NEW i
  PROVE  IsFiniteSet(Holders(i)) /\ Cardinality(Holders(i)) \in Nat
<1>1. Holders(i) \in SUBSET Handles
  BY DEF Holders
<1> QED
  BY <1>1, PoolAssumption, FS_Subset, FS_CardinalityType

(* While a thread owns the lock of its item, the count of the item is the   *)
(* number of pointers to it.                                                *)
LEMMA OwnerCounts ==
  ASSUME PoolInv, NEW t \in Threads, At(t, {"linkin", "unlinkin", "freein"})
  PROVE  /\ itm[t] \in exists /\ ~BeingPut(itm[t])
         /\ use[itm[t]].value = Cardinality(Holders(itm[t]))
<1> USE PoolAssumption DEF PoolInv
<1>1. itm[t] \in Items /\ itm[t] \in exists
  BY DEF Places, PlaceOK, Allocated, At
<1>2. ~BeingPut(itm[t])
  BY <1>1 DEF BeingPut, OwnsUse, At
<1> QED
  BY <1>1, <1>2 DEF RefCount

(* use <= 1 in rpmioFreePoolItem means that the caller's is the last        *)
(* pointer.                                                                 *)
LEMMA LastOne ==
  ASSUME PoolInv, NEW t \in Threads, At(t, {"freein"}), LastRef(itm[t])
  PROVE  \A h \in Handles : holds[h] = itm[t] => h = hnd[t]
<1> USE PoolAssumption DEF PoolInv
<1> DEFINE H == Holders(itm[t])
<1>1. hnd[t] \in H
  BY DEF Places, PlaceOK, At, Holders
<1>2. IsFiniteSet(H) /\ Cardinality(H) \in Nat /\ Cardinality(H) <= 1
  BY HoldersFinite, OwnerCounts DEF LastRef, At
<1>3. Cardinality(H \ {hnd[t]}) = Cardinality(H) - 1 /\ IsFiniteSet(H \ {hnd[t]})
  BY <1>1, <1>2, FS_RemoveElement
<1>4. Cardinality(H \ {hnd[t]}) = 0
  BY <1>2, <1>3, FS_CardinalityType
<1>5. H \ {hnd[t]} = {}
  BY <1>3, <1>4, FS_EmptySet
<1> QED
  BY <1>5 DEF Holders

(* use > 1 in rpmioFreePoolItem means that there is another pointer.        *)
LEMMA NotLastOne ==
  ASSUME PoolInv, NEW t \in Threads, At(t, {"freein"}), ~LastRef(itm[t])
  PROVE  \E h \in Handles : holds[h] = itm[t] /\ h # hnd[t]
<1> USE PoolAssumption DEF PoolInv
<1> DEFINE H == Holders(itm[t])
<1>1. IsFiniteSet(H) /\ Cardinality(H) \in Nat /\ Cardinality(H) > 1
  BY HoldersFinite, OwnerCounts DEF LastRef, At
<1>2. SUFFICES ASSUME \A h \in Handles : holds[h] = itm[t] => h = hnd[t]
               PROVE  FALSE
  OBVIOUS
<1>3. H = {} \/ H = {hnd[t]}
  BY <1>2 DEF Holders
<1>4. Cardinality({hnd[t]}) = 1 /\ Cardinality({}) = 0
  BY FS_Singleton, FS_EmptySet
<1> QED
  BY <1>1, <1>3, <1>4

(* Only holds matters to the set of pointers.                               *)
LEMMA SameHolders ==
  ASSUME holds' = holds
  PROVE  \A j : Holders(j)' = Holders(j)
  BY DEF Holders

(* Giving a reference back takes one pointer and one count.                 *)
LEMMA DropCounts ==
  ASSUME PoolInv, NEW t \in Threads, NEW from \in {"unlinkin", "freein"},
         DropTwist(t, from)
  PROVE  RefCount'
<1> USE PoolAssumption DEF PoolInv, TypeOK, YarnLocks, PCs, DropTwist, Return, Go
<1>0. PICK i \in Items : i = itm[t]
  BY DEF Places, PlaceOK, At
<1>1. /\ i \in exists /\ use[i].value = Cardinality(Holders(i))
  BY <1>0, OwnerCounts DEF At
<1>2. hnd[t] \in Handles /\ holds[hnd[t]] = i /\ i \in Items
  BY <1>0 DEF Places, PlaceOK, At
<1>3. hnd[t] \in Holders(i)
  BY <1>2 DEF Holders
<1>4. Holders(i)' = Holders(i) \ {hnd[t]}
  <2>1. \A h \in Handles : holds'[h] = i <=> (holds[h] = i /\ h # hnd[t])
    BY <1>0, <1>2
  <2> QED
    BY <2>1 DEF Holders
<1>5. use'[i].value = use[i].value - 1
  BY <1>0, <1>2 DEF TwistBy
<1>6. Cardinality(Holders(i) \ {hnd[t]}) = Cardinality(Holders(i)) - 1
  <2>1. IsFiniteSet(Holders(i)) /\ Cardinality(Holders(i)) \in Nat
    BY HoldersFinite
  <2> HIDE DEF PoolInv, TypeOK, DropTwist, Return
  <2> QED
    BY <1>3, <2>1, FS_RemoveElement
<1>7. ASSUME NEW j \in exists' \ {i}
      PROVE  /\ j \in exists /\ Holders(j)' = Holders(j)
             /\ ~BeingPut(j)' => ~BeingPut(j) /\ use'[j].value = use[j].value
  <2>1. j \in exists
    OBVIOUS
  <2>2. Holders(j)' = Holders(j)
    <3>1. \A h \in Handles : holds'[h] = j <=> holds[h] = j
      BY <1>2, <1>7, <2>1
    <3> QED
      BY <3>1 DEF Holders
  <2>3. ~BeingPut(j)' => ~BeingPut(j)
    BY <1>0, <1>7 DEF BeingPut
  <2>4. use'[j] = use[j]
    BY <1>0, <1>2, <1>7
  <2> QED
    BY <2>1, <2>2, <2>3, <2>4
<1>8. use'[i].value = Cardinality(Holders(i)')
  BY <1>1, <1>4, <1>5, <1>6
<1> QED
  BY <1>7, <1>8 DEF RefCount

-----------------------------------------------------------------------------
(* One lemma for each part of the invariant.                                *)

(* Every step keeps the types.                                              *)
LEMMA TypeStep == PoolInv /\ [Next]_vars => TypeOK'
<1> SUFFICES ASSUME PoolInv, [Next]_vars PROVE TypeOK'
  OBVIOUS
<1> USE PoolAssumption, NoThreadAssumption
    DEF PoolInv, TypeOK, YarnLocks, PCs, Go, Return, HeadSlot, poolVars, itemVars
<1>1. CASE UNCHANGED vars
  BY <1>1 DEF vars
<1>2. ASSUME NEW t \in Threads, Step(t) PROVE TypeOK'
  <2>1. CASE GetPossess(t)
    BY <2>1 DEF GetPossess, Possess
  <2>2. CASE GetWait(t)
    BY <2>2 DEF GetWait, WaitFor
  <2>3. CASE GetReuse(t)
    <3>1. avail # <<>> /\ avail \in Seq(Items)
      BY <2>3 DEF GetReuse, ListRep, ExitTogether
    <3>2. Tail(avail) \in Seq(Items)
      BY <3>1
    <3>3. head \in Items /\ head' \in Items \cup {NoItem}
      <4>1. Len(avail) \in Nat /\ Len(avail) >= 1 /\ 1 \in 1..Len(avail)
        BY <3>1
      <4>2. \A u \in Threads : pc[u] # "exit"
        BY <2>3 DEF GetReuse, ExitTogether
      <4>3. head = avail[1] /\ avail[1] \in Items
        BY <3>1, <4>1, <4>2 DEF ListRep
      <4>4. pool[avail[1]] = IF 1 = Len(avail) THEN NoItem ELSE avail[1 + 1]
        BY <4>1, <4>2 DEF ListRep
      <4>5. ASSUME 1 # Len(avail) PROVE avail[2] \in Items
        <5>0. PICK n \in Nat : n = Len(avail) /\ n >= 1 /\ n # 1
          BY <4>1, <4>5
        <5>1. 2 \in 1..Len(avail)
          BY <5>0
        <5> QED
          BY <3>1, <5>1
      <4> QED
        BY <2>3, <4>3, <4>4, <4>5 DEF GetReuse
    <3>4. pool' \in [Items -> Items \cup {NoItem, ThePool}]
      BY <2>3 DEF GetReuse
    <3> QED
      BY <2>3, <3>2, <3>3, <3>4 DEF GetReuse, TailBefore, TwistBy
  <2>4. CASE GetNew(t)
    BY <2>4 DEF GetNew, LimitAfterNew, Release, NewLock
  <2>5. CASE LinkPossess(t)
    BY <2>5 DEF LinkPossess, UsePossess, Possess
  <2>6. CASE LinkTwist(t)
    BY <2>6 DEF LinkTwist, TwistBy, Places, PlaceOK, At
  <2>7. CASE UnlinkPossess(t)
    BY <2>7 DEF UnlinkPossess, UsePossess, Possess
  <2>8. CASE UnlinkTwist(t)
    BY <2>8 DEF UnlinkTwist, DropTwist, TwistBy, Places, PlaceOK, At
  <2>9. CASE FreePossess(t)
    BY <2>9 DEF FreePossess, UsePossess, Possess
  <2>10. CASE FreeMore(t)
    BY <2>10 DEF FreeMore, DropTwist, TwistBy, Places, PlaceOK, At
  <2>11. CASE FreeFini(t)
    BY <2>11 DEF FreeFini
  <2>12. CASE PutPossess(t)
    BY <2>12 DEF PutPossess, Possess
  <2>13. CASE PutList(t)
    <3>1. itm[t] \in Items /\ hnd[t] \in Handles
      BY <2>13 DEF PutList, Places, PlaceOK, At
    <3>2. pool' \in [Items -> Items \cup {NoItem, ThePool}]
      BY <2>13, <3>1 DEF PutList
    <3>3. have' \in YarnLocks /\ avail' \in Seq(Items)
      BY <2>13, <3>1 DEF PutList, TwistBy
    <3> QED
      BY <2>13, <3>1, <3>2, <3>3 DEF PutList
  <2>14. CASE PutTwist(t)
    BY <2>14 DEF PutTwist, TwistTo, Places, PlaceOK, At
  <2> QED
    BY <1>2, <2>1, <2>2, <2>3, <2>4, <2>5, <2>6, <2>7, <2>8, <2>9, <2>10,
       <2>11, <2>12, <2>13, <2>14 DEF Step
<1>3. ASSUME NEW t \in Threads, Call(t) PROVE TypeOK'
  <2>1. ASSUME NEW h \in Handles, GetPool(t, h) PROVE TypeOK'
    BY <2>1 DEF GetPool
  <2>2. ASSUME NEW h \in Handles, FreeItem(t, h) PROVE TypeOK'
    BY <2>2 DEF FreeItem
  <2>3. ASSUME NEW k \in Handles, NEW h \in Handles, Link(t, k, h) PROVE TypeOK'
    BY <2>3 DEF Link
  <2>4. ASSUME NEW k \in Handles, NEW h \in Handles, Unlink(t, k, h) PROVE TypeOK'
    BY <2>4 DEF Unlink
  <2> QED
    BY <1>3, <2>1, <2>2, <2>3, <2>4 DEF Call
<1>4. CASE FreePool
  BY <1>4 DEF FreePool
<1> QED
  BY <1>1, <1>2, <1>3, <1>4 DEF Next, Exited

(* The local variables of a call fit its place in the code.                 *)
LEMMA PlacesStep == PoolInv /\ [Next]_vars => Places'
<1> SUFFICES ASSUME PoolInv, [Next]_vars PROVE Places'
  OBVIOUS
<1> USE PoolAssumption, NoThreadAssumption
    DEF PoolInv, TypeOK, YarnLocks, PCs, Go, HeadSlot, poolVars, itemVars, Places, PlaceOK, At, PrivateHandles, Busy
<1>1. CASE UNCHANGED vars
  BY <1>1 DEF vars
<1>2. ASSUME NEW t \in Threads, Step(t) PROVE Places'
  <2>1. CASE GetPossess(t)
    BY <2>1 DEF GetPossess
  <2>2. CASE GetWait(t)
    BY <2>2 DEF GetWait
  <2>3. CASE GetReuse(t)
    BY <2>3 DEF GetReuse
  <2>4. CASE GetNew(t)
    BY <2>4 DEF GetNew
  <2>5. CASE LinkPossess(t)
    BY <2>5 DEF LinkPossess, UsePossess
  <2>6. CASE LinkTwist(t)
    BY <2>6 DEF LinkTwist, Return
  <2>7. CASE UnlinkPossess(t)
    BY <2>7 DEF UnlinkPossess, UsePossess
  <2>8. CASE UnlinkTwist(t)
    BY <2>8 DEF UnlinkTwist, DropTwist, Return
  <2>9. CASE FreePossess(t)
    BY <2>9 DEF FreePossess, UsePossess
  <2>10. CASE FreeMore(t)
    BY <2>10 DEF FreeMore, DropTwist, Return
  <2>11. CASE FreeFini(t)
    BY <2>11 DEF FreeFini
  <2>12. CASE PutPossess(t)
    BY <2>12 DEF PutPossess
  <2>13. CASE PutList(t)
    BY <2>13 DEF PutList
  <2>14. CASE PutTwist(t)
    BY <2>14 DEF PutTwist, Return
  <2> QED
    BY <1>2, <2>1, <2>2, <2>3, <2>4, <2>5, <2>6, <2>7,
       <2>8, <2>9, <2>10, <2>11, <2>12, <2>13, <2>14 DEF Step
<1>3. ASSUME NEW t \in Threads, Call(t) PROVE Places'
  <2>1. ASSUME NEW h \in Handles, GetPool(t, h) PROVE Places'
    BY <2>1 DEF GetPool
  <2>2. ASSUME NEW h \in Handles, FreeItem(t, h) PROVE Places'
    BY <2>2 DEF FreeItem
  <2>3. ASSUME NEW k \in Handles, NEW h \in Handles, Link(t, k, h) PROVE Places'
    BY <2>3 DEF Link
  <2>4. ASSUME NEW k \in Handles, NEW h \in Handles, Unlink(t, k, h) PROVE Places'
    BY <2>4 DEF Unlink
  <2> QED
    BY <1>3, <2>1, <2>2, <2>3, <2>4 DEF Call
<1>4. CASE FreePool
  BY <1>4 DEF FreePool
<1> QED
  BY <1>1, <1>2, <1>3, <1>4 DEF Next, Exited

(* No call touches a handle that another call works on.                     *)
LEMMA PrivateStep == PoolInv /\ [Next]_vars => PrivateHandles'
<1> SUFFICES ASSUME PoolInv, [Next]_vars PROVE PrivateHandles'
  OBVIOUS
<1> USE PoolAssumption, NoThreadAssumption
    DEF PoolInv, TypeOK, YarnLocks, PCs, Go, HeadSlot, poolVars, itemVars, PrivateHandles, Busy, Places, PlaceOK, At
<1>1. CASE UNCHANGED vars
  BY <1>1 DEF vars
<1>2. ASSUME NEW t \in Threads, Step(t) PROVE PrivateHandles'
  <2>1. CASE GetPossess(t)
    BY <2>1 DEF GetPossess
  <2>2. CASE GetWait(t)
    BY <2>2 DEF GetWait
  <2>3. CASE GetReuse(t)
    BY <2>3 DEF GetReuse
  <2>4. CASE GetNew(t)
    BY <2>4 DEF GetNew
  <2>5. CASE LinkPossess(t)
    BY <2>5 DEF LinkPossess, UsePossess
  <2>6. CASE LinkTwist(t)
    BY <2>6 DEF LinkTwist, Return
  <2>7. CASE UnlinkPossess(t)
    BY <2>7 DEF UnlinkPossess, UsePossess
  <2>8. CASE UnlinkTwist(t)
    BY <2>8 DEF UnlinkTwist, DropTwist, Return
  <2>9. CASE FreePossess(t)
    BY <2>9 DEF FreePossess, UsePossess
  <2>10. CASE FreeMore(t)
    BY <2>10 DEF FreeMore, DropTwist, Return
  <2>11. CASE FreeFini(t)
    BY <2>11 DEF FreeFini
  <2>12. CASE PutPossess(t)
    BY <2>12 DEF PutPossess
  <2>13. CASE PutList(t)
    BY <2>13 DEF PutList
  <2>14. CASE PutTwist(t)
    BY <2>14 DEF PutTwist, Return
  <2> QED
    BY <1>2, <2>1, <2>2, <2>3, <2>4, <2>5, <2>6, <2>7,
       <2>8, <2>9, <2>10, <2>11, <2>12, <2>13, <2>14 DEF Step
<1>3. ASSUME NEW t \in Threads, Call(t) PROVE PrivateHandles'
  <2>1. ASSUME NEW h \in Handles, GetPool(t, h) PROVE PrivateHandles'
    BY <2>1 DEF GetPool
  <2>2. ASSUME NEW h \in Handles, FreeItem(t, h) PROVE PrivateHandles'
    BY <2>2 DEF FreeItem
  <2>3. ASSUME NEW k \in Handles, NEW h \in Handles, Link(t, k, h) PROVE PrivateHandles'
    BY <2>3 DEF Link
  <2>4. ASSUME NEW k \in Handles, NEW h \in Handles, Unlink(t, k, h) PROVE PrivateHandles'
    BY <2>4 DEF Unlink
  <2> QED
    BY <1>3, <2>1, <2>2, <2>3, <2>4 DEF Call
<1>4. CASE FreePool
  BY <1>4 DEF FreePool
<1> QED
  BY <1>1, <1>2, <1>3, <1>4 DEF Next, Exited

(* A lock that is possessed stays so until its owner twists it.             *)
LEMMA OwnsStep == PoolInv /\ [Next]_vars => OwnsUse'
<1> SUFFICES ASSUME PoolInv, [Next]_vars PROVE OwnsUse'
  OBVIOUS
<1> USE PoolAssumption, NoThreadAssumption
    DEF PoolInv, TypeOK, YarnLocks, PCs, Go, HeadSlot, poolVars, itemVars, OwnsUse, Places, PlaceOK, At
<1>1. CASE UNCHANGED vars
  BY <1>1 DEF vars
<1>2. ASSUME NEW t \in Threads, Step(t) PROVE OwnsUse'
  <2>1. CASE GetPossess(t)
    BY <2>1 DEF GetPossess
  <2>2. CASE GetWait(t)
    BY <2>2 DEF GetWait
  <2>3. CASE GetReuse(t)
    BY <2>3 DEF GetReuse
  <2>4. CASE GetNew(t)
    BY <2>4 DEF GetNew, NewLock, Allocated
  <2>5. CASE LinkPossess(t)
    BY <2>5 DEF LinkPossess, UsePossess, TwistBy, TwistTo, Possess, Possessable
  <2>6. CASE LinkTwist(t)
    BY <2>6 DEF LinkTwist, Return, TwistBy, TwistTo, Possess, Possessable
  <2>7. CASE UnlinkPossess(t)
    BY <2>7 DEF UnlinkPossess, UsePossess, TwistBy, TwistTo, Possess, Possessable
  <2>8. CASE UnlinkTwist(t)
    BY <2>8 DEF UnlinkTwist, DropTwist, Return, TwistBy, TwistTo, Possess, Possessable
  <2>9. CASE FreePossess(t)
    BY <2>9 DEF FreePossess, UsePossess, TwistBy, TwistTo, Possess, Possessable
  <2>10. CASE FreeMore(t)
    BY <2>10 DEF FreeMore, DropTwist, Return, TwistBy, TwistTo, Possess, Possessable
  <2>11. CASE FreeFini(t)
    BY <2>11 DEF FreeFini
  <2>12. CASE PutPossess(t)
    BY <2>12 DEF PutPossess
  <2>13. CASE PutList(t)
    BY <2>13 DEF PutList
  <2>14. CASE PutTwist(t)
    BY <2>14 DEF PutTwist, Return, TwistBy, TwistTo, Possess, Possessable
  <2> QED
    BY <1>2, <2>1, <2>2, <2>3, <2>4, <2>5, <2>6, <2>7,
       <2>8, <2>9, <2>10, <2>11, <2>12, <2>13, <2>14 DEF Step
<1>3. ASSUME NEW t \in Threads, Call(t) PROVE OwnsUse'
  <2>1. ASSUME NEW h \in Handles, GetPool(t, h) PROVE OwnsUse'
    BY <2>1 DEF GetPool
  <2>2. ASSUME NEW h \in Handles, FreeItem(t, h) PROVE OwnsUse'
    BY <2>2 DEF FreeItem
  <2>3. ASSUME NEW k \in Handles, NEW h \in Handles, Link(t, k, h) PROVE OwnsUse'
    BY <2>3 DEF Link
  <2>4. ASSUME NEW k \in Handles, NEW h \in Handles, Unlink(t, k, h) PROVE OwnsUse'
    BY <2>4 DEF Unlink
  <2> QED
    BY <1>3, <2>1, <2>2, <2>3, <2>4 DEF Call
<1>4. CASE FreePool
  BY <1>4 DEF FreePool
<1> QED
  BY <1>1, <1>2, <1>3, <1>4 DEF Next, Exited

(* Nothing refers to memory that is not allocated.                          *)
LEMMA AllocatedStep == PoolInv /\ [Next]_vars => Allocated'
<1> SUFFICES ASSUME PoolInv, [Next]_vars PROVE Allocated'
  OBVIOUS
<1> USE PoolAssumption, NoThreadAssumption
    DEF PoolInv, TypeOK, YarnLocks, PCs, Go, HeadSlot, poolVars, itemVars, Allocated, Places, PlaceOK, At
<1>1. CASE UNCHANGED vars
  BY <1>1 DEF vars
<1>2. ASSUME NEW t \in Threads, Step(t) PROVE Allocated'
  <2>1. CASE GetPossess(t)
    BY <2>1 DEF GetPossess
  <2>2. CASE GetWait(t)
    BY <2>2 DEF GetWait
  <2>3. CASE GetReuse(t)
    <3> \A u \in Threads : pc[u] # "exit"
      BY <2>3 DEF GetReuse, ExitTogether
    <3> QED
      BY <2>3, TakeFirst DEF GetReuse
  <2>4. CASE GetNew(t)
    BY <2>4 DEF GetNew
  <2>5. CASE LinkPossess(t)
    BY <2>5 DEF LinkPossess, UsePossess
  <2>6. CASE LinkTwist(t)
    BY <2>6 DEF LinkTwist, Return
  <2>7. CASE UnlinkPossess(t)
    BY <2>7 DEF UnlinkPossess, UsePossess
  <2>8. CASE UnlinkTwist(t)
    BY <2>8 DEF UnlinkTwist, DropTwist, Return
  <2>9. CASE FreePossess(t)
    BY <2>9 DEF FreePossess, UsePossess
  <2>10. CASE FreeMore(t)
    BY <2>10 DEF FreeMore, DropTwist, Return
  <2>11. CASE FreeFini(t)
    BY <2>11 DEF FreeFini
  <2>12. CASE PutPossess(t)
    BY <2>12 DEF PutPossess
  <2>13. CASE PutList(t)
    <3> itm[t] \in Items /\ itm[t] \in exists
      BY <2>13 DEF PutList
    <3> QED
      BY <2>13, PutLast DEF PutList
  <2>14. CASE PutTwist(t)
    BY <2>14 DEF PutTwist, Return
  <2> QED
    BY <1>2, <2>1, <2>2, <2>3, <2>4, <2>5, <2>6, <2>7,
       <2>8, <2>9, <2>10, <2>11, <2>12, <2>13, <2>14 DEF Step
<1>3. ASSUME NEW t \in Threads, Call(t) PROVE Allocated'
  <2>1. ASSUME NEW h \in Handles, GetPool(t, h) PROVE Allocated'
    BY <2>1 DEF GetPool
  <2>2. ASSUME NEW h \in Handles, FreeItem(t, h) PROVE Allocated'
    BY <2>2 DEF FreeItem
  <2>3. ASSUME NEW k \in Handles, NEW h \in Handles, Link(t, k, h) PROVE Allocated'
    BY <2>3 DEF Link
  <2>4. ASSUME NEW k \in Handles, NEW h \in Handles, Unlink(t, k, h) PROVE Allocated'
    BY <2>4 DEF Unlink
  <2> QED
    BY <1>3, <2>1, <2>2, <2>3, <2>4 DEF Call
<1>4. CASE FreePool
  BY <1>4 DEF FreePool, Disjoint, Held
<1> QED
  BY <1>1, <1>2, <1>3, <1>4 DEF Next, Exited

(* An item is listed, or pointed to, or new to one caller.                  *)
LEMMA DisjointStep == PoolInv /\ [Next]_vars => Disjoint'
<1> SUFFICES ASSUME PoolInv, [Next]_vars PROVE Disjoint'
  OBVIOUS
<1> USE PoolAssumption, NoThreadAssumption
    DEF PoolInv, TypeOK, YarnLocks, PCs, Go, HeadSlot, poolVars, itemVars, Disjoint, Places, PlaceOK, At, Fresh, Held, Listed
<1>1. CASE UNCHANGED vars
  BY <1>1 DEF vars
<1>2. ASSUME NEW t \in Threads, Step(t) PROVE Disjoint'
  <2>1. CASE GetPossess(t)
    BY <2>1 DEF GetPossess
  <2>2. CASE GetWait(t)
    BY <2>2 DEF GetWait
  <2>3. CASE GetReuse(t)
    <3> \A u \in Threads : pc[u] # "exit"
      BY <2>3 DEF GetReuse, ExitTogether
    <3>0. PICK rest \in Seq(Items) :
            /\ avail' = rest
            /\ Len(avail) \in Nat \ {0} /\ Len(rest) = Len(avail) - 1
            /\ \A n \in 1..Len(rest) : n + 1 \in 1..Len(avail) /\ rest[n] = avail[n + 1]
      BY <2>3, TakeFirst DEF GetReuse
    <3>1. head = avail[1] /\ head \in Items /\ 1 \in 1..Len(avail)
      BY <2>3, <3>0, TakeFirst DEF GetReuse
    <3>2. ASSUME NEW n \in 1..Len(rest) PROVE rest[n] # head
      <4>1. \A k \in 1..Len(avail) : k # 1 => avail[k] # avail[1]
        BY <3>1
      <4> HIDE DEF PoolInv
      <4>2. n + 1 \in 1..Len(avail) /\ n + 1 # 1 /\ rest[n] = avail[n + 1]
        BY <3>0
      <4> QED
        BY <3>1, <4>1, <4>2
    <3>3. \A u \in Threads : itm[u] = head => pc[u] = "puttwist"
      BY <3>1, ListedOnlyByPut
    <3>4. \A n \in 1..Len(rest) : \A k \in 1..Len(rest) : k # n => rest[k] # rest[n]
      <4>1. ASSUME NEW n \in 1..Len(rest), NEW k \in 1..Len(rest), k # n
            PROVE  rest[k] # rest[n]
        <5>1. n + 1 \in 1..Len(avail) /\ k + 1 \in 1..Len(avail) /\ k + 1 # n + 1
          BY <3>0, <4>1
        <5>2. avail[k + 1] # avail[n + 1]
          BY <5>1
        <5>3. rest[k] = avail[k + 1] /\ rest[n] = avail[n + 1]
          BY <3>0, <4>1
        <5> QED
          BY <5>2, <5>3
      <4> QED
        BY <4>1
    <3>5. ASSUME NEW u \in Threads, Fresh(u)', u # t
          PROVE  /\ ~Held(itm[u]) /\ (\A n \in 1..Len(rest) : rest[n] # itm[u])
                 /\ live'[itm[u]] /\ pool'[itm[u]] = ThePool /\ itm[u] # head
                 /\ \A v \in Threads \ {u} : itm'[v] = itm[u] => pc'[v] = "puttwist"
      <4>1. Fresh(u) /\ itm[u] \in Items
        BY <2>3, <3>5 DEF GetReuse
      <4>2. ~Listed(itm[u]) /\ itm[u] # head
        BY <3>1, <4>1
      <4>3. /\ ~Held(itm[u]) /\ live[itm[u]] /\ pool[itm[u]] = ThePool
            /\ \A v \in Threads \ {u} : itm[v] = itm[u] => At(v, {"puttwist"})
        BY <4>1
      <4>4. TypeOK
        OBVIOUS
      <4> HIDE DEF PoolInv
      <4>5. live'[itm[u]] /\ pool'[itm[u]] = ThePool /\ ~Held(itm[u])
        BY <2>3, <4>1, <4>2, <4>3, <4>4 DEF GetReuse
      <4>6. \A n \in 1..Len(rest) : rest[n] # itm[u]
        BY <3>0, <4>2
      <4>7. ASSUME NEW v \in Threads \ {u}, itm'[v] = itm[u] PROVE pc'[v] = "puttwist"
        <5>1. v # t
          BY <2>3, <4>2, <4>4, <4>7 DEF GetReuse
        <5>2. itm'[v] = itm[v] /\ pc'[v] = pc[v]
          BY <2>3, <4>4, <5>1 DEF GetReuse
        <5> QED
          BY <4>3, <4>7, <5>2
      <4> QED
        BY <4>2, <4>5, <4>6, <4>7
    <3>6. /\ ~Held(head) /\ (\A n \in 1..Len(rest) : rest[n] # head)
          /\ live'[head] /\ pool'[head] = ThePool /\ itm'[t] = head
          /\ \A v \in Threads \ {t} : itm'[v] = head => pc'[v] = "puttwist"
      BY <2>3, <3>1, <3>2, <3>3 DEF GetReuse
    <3>7. holds' = holds /\ \A u \in Threads \ {t} : itm'[u] = itm[u]
      BY <2>3 DEF GetReuse
    <3>8. \A n \in 1..Len(rest) : ~Held(rest[n])
      BY <3>0
    <3>9. \A n \in 1..Len(avail') :
             /\ ~Held(avail[n])'
             /\ \A k \in 1..Len(avail') : k # n => avail'[k] # avail'[n]
      BY <3>0, <3>4, <3>7, <3>8
    <3>10. itm'[t] = head
      BY <3>6
    <3>11. ASSUME NEW u \in Threads, Fresh(u)'
           PROVE  /\ ~Held(itm[u])' /\ ~Listed(itm[u])'
                  /\ live'[itm'[u]] /\ pool'[itm'[u]] = ThePool
                  /\ \A v \in Threads \ {u} : itm'[v] = itm'[u] => pc'[v] = "puttwist"
      <4>1. CASE u = t
        BY <3>0, <3>6, <3>7, <4>1
      <4>2. CASE u # t
        BY <3>0, <3>5, <3>7, <3>11, <4>2
      <4> QED
        BY <4>1, <4>2
    <3> QED
      BY <3>9, <3>11
  <2>4. CASE GetNew(t)
    <3>1. PICK i \in Items \ exists :
            /\ exists' = exists \cup {i} /\ itm' = [itm EXCEPT ![t] = i]
            /\ pool' = [pool EXCEPT ![i] = ThePool]
            /\ live' = [live EXCEPT ![i] = TRUE]
      BY <2>4 DEF GetNew
    <3>2. /\ ~Held(i) /\ ~Listed(i) /\ \A u \in Threads : itm[u] # i
      BY <3>1 DEF Allocated
    <3> QED
      BY <2>4, <3>1, <3>2 DEF GetNew
  <2>5. CASE LinkPossess(t)
    BY <2>5 DEF LinkPossess, UsePossess
  <2>6. CASE LinkTwist(t)
    BY <2>6 DEF LinkTwist, Return
  <2>7. CASE UnlinkPossess(t)
    BY <2>7 DEF UnlinkPossess, UsePossess
  <2>8. CASE UnlinkTwist(t)
    BY <2>8 DEF UnlinkTwist, DropTwist, Return
  <2>9. CASE FreePossess(t)
    BY <2>9 DEF FreePossess, UsePossess
  <2>10. CASE FreeMore(t)
    BY <2>10 DEF FreeMore, DropTwist, Return
  <2>11. CASE FreeFini(t)
    BY <2>11 DEF FreeFini
  <2>12. CASE PutPossess(t)
    BY <2>12 DEF PutPossess
  <2>13. CASE PutList(t)
    <3> DEFINE i == itm[t]
    <3>0. i \in Items /\ holds[hnd[t]] = i /\ hnd[t] \in Handles
      BY <2>13 DEF PutList
    <3>1. i \in Items /\ holds[hnd[t]] = i /\ hnd[t] \in Handles /\ ~Listed(i)
      BY <3>0
    <3>2. PICK more \in Seq(Items) :
            /\ avail' = more /\ Len(avail) \in Nat /\ Len(more) = Len(avail) + 1
            /\ \A n \in 1..Len(avail) : more[n] = avail[n]
            /\ more[Len(avail) + 1] = i
      BY <2>13, <3>1, PutLast DEF PutList
    <3>3. \A n \in 1..Len(more) : more[n] = i \/ (n \in 1..Len(avail) /\ more[n] = avail[n])
      BY <3>2
    <3>4. \A h \in Handles : holds'[h] # i
      BY <2>13, <3>1 DEF PutList, LastPointer
    <3>5. \A n \in 1..Len(more) : \A k \in 1..Len(more) : k # n => more[k] # more[n]
      <4>1. ASSUME NEW n \in 1..Len(more), NEW k \in 1..Len(more), k # n
            PROVE  more[k] # more[n]
        <5>1. CASE n \in 1..Len(avail) /\ k \in 1..Len(avail)
          BY <3>2, <4>1, <5>1
        <5>2. CASE n = Len(avail) + 1 /\ k \in 1..Len(avail)
          BY <3>1, <3>2, <5>2
        <5>3. CASE n \in 1..Len(avail) /\ k = Len(avail) + 1
          BY <3>1, <3>2, <5>3
        <5> QED
          BY <3>2, <4>1, <5>1, <5>2, <5>3
      <4> QED
        BY <4>1
    <3>6. \A n \in 1..Len(more) : ~Held(more[n])'
      BY <2>13, <3>1, <3>3, <3>4 DEF PutList
    <3>7. ASSUME NEW u \in Threads, Fresh(u)'
          PROVE  /\ u # t /\ itm[u] # i /\ itm[u] \in Items
                 /\ ~Held(itm[u])' /\ (\A n \in 1..Len(more) : more[n] # itm[u])
                 /\ pool'[itm[u]] = ThePool
                 /\ \A v \in Threads \ {u} : itm[v] = itm[u] => pc'[v] = "puttwist"
      <4>1. u # t /\ Fresh(u) /\ itm[u] \in Items /\ itm[u] # i
        BY <2>13, <3>1, <3>7 DEF PutList
      <4>2. avail # <<>> => tail # itm[u]
        <5>1. \A w \in Threads : pc[w] # "exit"
          BY <2>13 DEF PutList, ExitTogether
        <5>2. avail # <<>> => tail = avail[Len(avail)] /\ Len(avail) \in 1..Len(avail)
          BY <3>2, <5>1 DEF ListRep
        <5> QED
          BY <4>1, <5>2
      <4>3. avail = <<>> => tail = HeadSlot
        BY <2>13 DEF PutList, ExitTogether, ListRep
      <4>4. pool'[itm[u]] = ThePool
        BY <2>13, <4>1, <4>2, <4>3 DEF PutList
      <4>5. ~Held(itm[u])'
        BY <2>13, <3>1, <4>1 DEF PutList
      <4>6. \A n \in 1..Len(more) : more[n] # itm[u]
        BY <3>3, <4>1
      <4>7. \A v \in Threads \ {u} : itm[v] = itm[u] => pc'[v] = "puttwist"
        BY <2>13, <4>1 DEF PutList
      <4> QED
        BY <4>1, <4>4, <4>5, <4>6, <4>7
    <3>8. itm' = itm /\ live' = live
      BY <2>13 DEF PutList
    <3>9. \A u \in Threads : Fresh(u)' => live[itm[u]]
      BY <2>13, <3>7 DEF PutList
    <3>10. \A u \in Threads : Fresh(u)' =>
              /\ ~Held(itm[u])' /\ ~Listed(itm[u])'
              /\ live'[itm'[u]] /\ pool'[itm'[u]] = ThePool
              /\ \A v \in Threads \ {u} : itm'[v] = itm'[u] => pc'[v] = "puttwist"
      BY <3>2, <3>7, <3>8, <3>9
    <3>11. \A n \in 1..Len(avail') :
             /\ ~Held(avail[n])'
             /\ \A k \in 1..Len(avail') : k # n => avail'[k] # avail'[n]
      BY <3>2, <3>5, <3>6
    <3> QED
      BY <3>10, <3>11
  <2>14. CASE PutTwist(t)
    BY <2>14 DEF PutTwist, Return
  <2> QED
    BY <1>2, <2>1, <2>2, <2>3, <2>4, <2>5, <2>6, <2>7,
       <2>8, <2>9, <2>10, <2>11, <2>12, <2>13, <2>14 DEF Step
<1>3. ASSUME NEW t \in Threads, Call(t) PROVE Disjoint'
  <2>1. ASSUME NEW h \in Handles, GetPool(t, h) PROVE Disjoint'
    BY <2>1 DEF GetPool
  <2>2. ASSUME NEW h \in Handles, FreeItem(t, h) PROVE Disjoint'
    BY <2>2 DEF FreeItem
  <2>3. ASSUME NEW k \in Handles, NEW h \in Handles, Link(t, k, h) PROVE Disjoint'
    BY <2>3 DEF Link
  <2>4. ASSUME NEW k \in Handles, NEW h \in Handles, Unlink(t, k, h) PROVE Disjoint'
    BY <2>4 DEF Unlink
  <2> QED
    BY <1>3, <2>1, <2>2, <2>3, <2>4 DEF Call
<1>4. CASE FreePool
  BY <1>4 DEF FreePool
<1> QED
  BY <1>1, <1>2, <1>3, <1>4 DEF Next, Exited

(* No pointer is made to an item that is being put back.                    *)
LEMMA LastPointerStep == PoolInv /\ [Next]_vars => LastPointer'
<1> SUFFICES ASSUME PoolInv, [Next]_vars PROVE LastPointer'
  OBVIOUS
<1> USE PoolAssumption, NoThreadAssumption
    DEF PoolInv, TypeOK, YarnLocks, PCs, Go, HeadSlot, poolVars, itemVars, LastPointer, Places, PlaceOK, At, Held, OwnsUse, PrivateHandles
<1>1. CASE UNCHANGED vars
  BY <1>1 DEF vars
<1>2. ASSUME NEW t \in Threads, Step(t) PROVE LastPointer'
  <2>1. CASE GetPossess(t)
    BY <2>1 DEF GetPossess
  <2>2. CASE GetWait(t)
    BY <2>2 DEF GetWait
  <2>3. CASE GetReuse(t)
    BY <2>3 DEF GetReuse
  <2>4. CASE GetNew(t)
    BY <2>4 DEF GetNew
  <2>5. CASE LinkPossess(t)
    BY <2>5 DEF LinkPossess, UsePossess
  <2>6. CASE LinkTwist(t)
    BY <2>6 DEF LinkTwist, Return
  <2>7. CASE UnlinkPossess(t)
    BY <2>7 DEF UnlinkPossess, UsePossess
  <2>8. CASE UnlinkTwist(t)
    BY <2>8 DEF UnlinkTwist, DropTwist, Return
  <2>9. CASE FreePossess(t)
    BY <2>9 DEF FreePossess, UsePossess
  <2>10. CASE FreeMore(t)
    BY <2>10 DEF FreeMore, DropTwist, Return
  <2>11. CASE FreeFini(t)
    <3>1. \A h \in Handles : holds[h] = itm[t] => h = hnd[t]
      BY <2>11, LastOne DEF FreeFini
    <3> QED
      BY <2>11, <3>1 DEF FreeFini
  <2>12. CASE PutPossess(t)
    BY <2>12 DEF PutPossess
  <2>13. CASE PutList(t)
    BY <2>13 DEF PutList
  <2>14. CASE PutTwist(t)
    BY <2>14 DEF PutTwist, Return
  <2> QED
    BY <1>2, <2>1, <2>2, <2>3, <2>4, <2>5, <2>6, <2>7,
       <2>8, <2>9, <2>10, <2>11, <2>12, <2>13, <2>14 DEF Step
<1>3. ASSUME NEW t \in Threads, Call(t) PROVE LastPointer'
  <2>1. ASSUME NEW h \in Handles, GetPool(t, h) PROVE LastPointer'
    BY <2>1 DEF GetPool
  <2>2. ASSUME NEW h \in Handles, FreeItem(t, h) PROVE LastPointer'
    BY <2>2 DEF FreeItem
  <2>3. ASSUME NEW k \in Handles, NEW h \in Handles, Link(t, k, h) PROVE LastPointer'
    BY <2>3 DEF Link
  <2>4. ASSUME NEW k \in Handles, NEW h \in Handles, Unlink(t, k, h) PROVE LastPointer'
    BY <2>4 DEF Unlink
  <2> QED
    BY <1>3, <2>1, <2>2, <2>3, <2>4 DEF Call
<1>4. CASE FreePool
  BY <1>4 DEF FreePool
<1> QED
  BY <1>1, <1>2, <1>3, <1>4 DEF Next, Exited

(* Contents are destroyed under the last pointer only.                      *)
LEMMA AliveStep == PoolInv /\ [Next]_vars => Alive'
<1> SUFFICES ASSUME PoolInv, [Next]_vars PROVE Alive'
  OBVIOUS
<1> USE PoolAssumption, NoThreadAssumption
    DEF PoolInv, TypeOK, YarnLocks, PCs, Go, HeadSlot, poolVars, itemVars, Alive, Places, PlaceOK, At
<1>1. CASE UNCHANGED vars
  BY <1>1 DEF vars
<1>2. ASSUME NEW t \in Threads, Step(t) PROVE Alive'
  <2>1. CASE GetPossess(t)
    BY <2>1 DEF GetPossess
  <2>2. CASE GetWait(t)
    BY <2>2 DEF GetWait
  <2>3. CASE GetReuse(t)
    BY <2>3 DEF GetReuse
  <2>4. CASE GetNew(t)
    BY <2>4 DEF GetNew
  <2>5. CASE LinkPossess(t)
    BY <2>5 DEF LinkPossess, UsePossess
  <2>6. CASE LinkTwist(t)
    BY <2>6 DEF LinkTwist, Return, Disjoint, Fresh, PrivateHandles
  <2>7. CASE UnlinkPossess(t)
    BY <2>7 DEF UnlinkPossess, UsePossess
  <2>8. CASE UnlinkTwist(t)
    BY <2>8 DEF UnlinkTwist, DropTwist, Return
  <2>9. CASE FreePossess(t)
    BY <2>9 DEF FreePossess, UsePossess
  <2>10. CASE FreeMore(t)
    BY <2>10 DEF FreeMore, DropTwist, Return
  <2>11. CASE FreeFini(t)
    <3>1. \A h \in Handles : holds[h] = itm[t] => h = hnd[t]
      BY <2>11, LastOne DEF FreeFini
    <3> QED
      BY <2>11, <3>1 DEF FreeFini
  <2>12. CASE PutPossess(t)
    BY <2>12 DEF PutPossess
  <2>13. CASE PutList(t)
    BY <2>13 DEF PutList
  <2>14. CASE PutTwist(t)
    BY <2>14 DEF PutTwist, Return
  <2> QED
    BY <1>2, <2>1, <2>2, <2>3, <2>4, <2>5, <2>6, <2>7,
       <2>8, <2>9, <2>10, <2>11, <2>12, <2>13, <2>14 DEF Step
<1>3. ASSUME NEW t \in Threads, Call(t) PROVE Alive'
  <2>1. ASSUME NEW h \in Handles, GetPool(t, h) PROVE Alive'
    BY <2>1 DEF GetPool
  <2>2. ASSUME NEW h \in Handles, FreeItem(t, h) PROVE Alive'
    BY <2>2 DEF FreeItem
  <2>3. ASSUME NEW k \in Handles, NEW h \in Handles, Link(t, k, h) PROVE Alive'
    BY <2>3 DEF Link
  <2>4. ASSUME NEW k \in Handles, NEW h \in Handles, Unlink(t, k, h) PROVE Alive'
    BY <2>4 DEF Unlink
  <2> QED
    BY <1>3, <2>1, <2>2, <2>3, <2>4 DEF Call
<1>4. CASE FreePool
  BY <1>4 DEF FreePool
<1> QED
  BY <1>1, <1>2, <1>3, <1>4 DEF Next, Exited

(* No step loses an item.                                                   *)
LEMMA AccountedStep == PoolInv /\ [Next]_vars => Accounted'
<1> SUFFICES ASSUME PoolInv, [Next]_vars PROVE Accounted'
  OBVIOUS
<1> USE PoolAssumption, NoThreadAssumption
    DEF PoolInv, TypeOK, YarnLocks, PCs, Go, HeadSlot, poolVars, itemVars, Accounted, Places, PlaceOK, At, Fresh, Held, Listed
<1>1. CASE UNCHANGED vars
  BY <1>1 DEF vars
<1>2. ASSUME NEW t \in Threads, Step(t) PROVE Accounted'
  <2>1. CASE GetPossess(t)
    BY <2>1 DEF GetPossess
  <2>2. CASE GetWait(t)
    BY <2>2 DEF GetWait
  <2>3. CASE GetReuse(t)
    <3> \A u \in Threads : pc[u] # "exit"
      BY <2>3 DEF GetReuse, ExitTogether
    <3>0. PICK rest \in Seq(Items) :
            /\ avail' = rest
            /\ Len(avail) \in Nat \ {0} /\ Len(rest) = Len(avail) - 1
            /\ \A n \in 1..Len(rest) : n + 1 \in 1..Len(avail) /\ rest[n] = avail[n + 1]
      BY <2>3, TakeFirst DEF GetReuse
    <3>1. head = avail[1] /\ head \in Items
      BY <2>3, TakeFirst DEF GetReuse
    <3>2. ASSUME NEW i \in exists
          PROVE  Held(i)' \/ Listed(i)' \/ \E u \in Threads : (Fresh(u) /\ itm[u] = i)'
      <4>1. CASE Held(i)
        BY <2>3, <4>1 DEF GetReuse
      <4>2. CASE i = head
        BY <2>3, <4>2 DEF GetReuse
      <4>3. CASE Listed(i) /\ i # head
        <5>1. PICK n \in 1..Len(avail) : avail[n] = i
          BY <4>3
        <5>2. n - 1 \in 1..Len(rest) /\ (n - 1) + 1 = n
          BY <3>0, <3>1, <4>3, <5>1
        <5>3. rest[n - 1] = i
          BY <3>0, <5>1, <5>2
        <5> QED
          BY <3>0, <5>2, <5>3
      <4>4. CASE \E u \in Threads : Fresh(u) /\ itm[u] = i
        BY <2>3, <4>4 DEF GetReuse
      <4> QED
        BY <4>1, <4>2, <4>3, <4>4
    <3> QED
      BY <2>3, <3>2 DEF GetReuse
  <2>4. CASE GetNew(t)
    <3>1. PICK i \in Items \ exists :
            exists' = exists \cup {i} /\ itm' = [itm EXCEPT ![t] = i]
      BY <2>4 DEF GetNew
    <3>2. Fresh(t)' /\ itm'[t] = i
      BY <2>4, <3>1 DEF GetNew
    <3>3. \A u \in Threads : Fresh(u) => Fresh(u)' /\ itm'[u] = itm[u]
      BY <2>4, <3>1 DEF GetNew
    <3>4. holds' = holds /\ avail' = avail
      BY <2>4 DEF GetNew
    <3>5. \A j \in exists : Held(j) \/ Listed(j) \/ \E u \in Threads : Fresh(u) /\ itm[u] = j
      OBVIOUS
    <3>6. \A j : (Held(j) => Held(j)') /\ (Listed(j) => Listed(j)')
      BY <3>4
    <3> HIDE DEF Held, Listed, Fresh, PoolInv
    <3> QED
      BY <3>1, <3>2, <3>3, <3>5, <3>6
  <2>5. CASE LinkPossess(t)
    <3>1. TypeOK /\ Accounted
      OBVIOUS
    <3> HIDE DEF PoolInv
    <3>2. exists' = exists /\ holds' = holds /\ avail' = avail /\ itm' = itm
      BY <2>5 DEF LinkPossess, UsePossess
    <3>3. \A u \in Threads : Fresh(u) => Fresh(u)'
      BY <2>5, <3>1 DEF LinkPossess, UsePossess
    <3> QED
      BY <3>1, <3>2, <3>3
  <2>6. CASE LinkTwist(t)
    BY <2>6 DEF LinkTwist, Return
  <2>7. CASE UnlinkPossess(t)
    BY <2>7 DEF UnlinkPossess, UsePossess
  <2>8. CASE UnlinkTwist(t)
    <3>1. keep[t] \in Handles /\ holds[keep[t]] = itm[t] /\ keep[t] # hnd[t]
      BY <2>8 DEF UnlinkTwist, DropTwist, Return
    <3>2. /\ holds' = [holds EXCEPT ![hnd[t]] = NoItem]
          /\ exists' = exists /\ avail' = avail
      BY <2>8 DEF UnlinkTwist, DropTwist
    <3>3. \A j \in Items : Held(j) => Held(j)'
      BY <2>8, <3>1, <3>2 DEF UnlinkTwist
    <3>4. \A j \in Items : Listed(j) => Listed(j)'
      BY <3>2
    <3>5. \A u \in Threads : Fresh(u) => Fresh(u)' /\ itm'[u] = itm[u]
      BY <2>8 DEF UnlinkTwist, DropTwist, Return
    <3>6. exists \subseteq Items
      OBVIOUS
    <3>7. \A j \in exists : Held(j) \/ Listed(j) \/ \E u \in Threads : Fresh(u) /\ itm[u] = j
      OBVIOUS
    <3> HIDE DEF Held, Listed, Fresh, PoolInv
    <3>8. ASSUME NEW j \in exists
          PROVE  Held(j)' \/ Listed(j)' \/ \E u \in Threads : (Fresh(u) /\ itm[u] = j)'
      BY <3>2, <3>3, <3>4, <3>5, <3>6, <3>7
    <3> QED
      BY <3>2, <3>8
  <2>9. CASE FreePossess(t)
    BY <2>9 DEF FreePossess, UsePossess
  <2>10. CASE FreeMore(t)
    <3>1. PICK k \in Handles : holds[k] = itm[t] /\ k # hnd[t]
      BY <2>10, NotLastOne DEF FreeMore, DropTwist, Return
    <3>2. /\ holds' = [holds EXCEPT ![hnd[t]] = NoItem]
          /\ exists' = exists /\ avail' = avail
      BY <2>10 DEF FreeMore, DropTwist
    <3>3. \A j \in Items : Held(j) => Held(j)'
      BY <2>10, <3>1, <3>2 DEF FreeMore
    <3>4. \A j \in Items : Listed(j) => Listed(j)'
      BY <3>2
    <3>5. \A u \in Threads : Fresh(u) => Fresh(u)' /\ itm'[u] = itm[u]
      BY <2>10 DEF FreeMore, DropTwist, Return
    <3>6. exists \subseteq Items
      OBVIOUS
    <3>7. \A j \in exists : Held(j) \/ Listed(j) \/ \E u \in Threads : Fresh(u) /\ itm[u] = j
      OBVIOUS
    <3> HIDE DEF Held, Listed, Fresh, PoolInv
    <3>8. ASSUME NEW j \in exists
          PROVE  Held(j)' \/ Listed(j)' \/ \E u \in Threads : (Fresh(u) /\ itm[u] = j)'
      BY <3>2, <3>3, <3>4, <3>5, <3>6, <3>7
    <3> QED
      BY <3>2, <3>8
  <2>11. CASE FreeFini(t)
    BY <2>11 DEF FreeFini
  <2>12. CASE PutPossess(t)
    BY <2>12 DEF PutPossess
  <2>13. CASE PutList(t)
    <3> DEFINE i == itm[t]
    <3>1. i \in Items /\ holds[hnd[t]] = i /\ hnd[t] \in Handles
      BY <2>13 DEF PutList
    <3>2. PICK more \in Seq(Items) :
            /\ avail' = more /\ Len(avail) \in Nat /\ Len(more) = Len(avail) + 1
            /\ \A n \in 1..Len(avail) : more[n] = avail[n]
            /\ more[Len(avail) + 1] = i
      BY <2>13, <3>1, PutLast DEF PutList
    <3>3. Listed(i)'
      <4>1. Len(avail) + 1 \in 1..Len(more)
        BY <3>2
      <4>2. itm' = itm
        BY <2>13 DEF PutList
      <4> QED
        BY <3>2, <4>1, <4>2
    <3>4. ASSUME NEW j \in Items, Listed(j) PROVE Listed(j)'
      <4>1. PICK n \in 1..Len(avail) : avail[n] = j
        BY <3>4
      <4>2. n \in 1..Len(more) /\ more[n] = j
        BY <3>2, <4>1
      <4> QED
        BY <3>2, <4>2
    <3>5. \A j \in Items : Held(j) /\ j # i => Held(j)'
      BY <2>13, <3>1 DEF PutList
    <3>6. exists' = exists /\ itm' = itm
      BY <2>13 DEF PutList
    <3>7. \A u \in Threads : Fresh(u) => Fresh(u)'
      BY <2>13 DEF PutList
    <3>8. exists \subseteq Items
      OBVIOUS
    <3>9. \A j \in exists : Held(j) \/ Listed(j) \/ \E u \in Threads : Fresh(u) /\ itm[u] = j
      OBVIOUS
    <3> HIDE DEF Held, Listed, Fresh, PoolInv
    <3>10. ASSUME NEW j \in exists
           PROVE  Held(j)' \/ Listed(j)' \/ \E u \in Threads : (Fresh(u) /\ itm[u] = j)'
      BY <3>3, <3>4, <3>5, <3>6, <3>7, <3>8, <3>9
    <3> QED
      BY <3>6, <3>10
  <2>14. CASE PutTwist(t)
    BY <2>14 DEF PutTwist, Return
  <2> QED
    BY <1>2, <2>1, <2>2, <2>3, <2>4, <2>5, <2>6, <2>7,
       <2>8, <2>9, <2>10, <2>11, <2>12, <2>13, <2>14 DEF Step
<1>3. ASSUME NEW t \in Threads, Call(t) PROVE Accounted'
  <2>0. TypeOK
    OBVIOUS
  <2>6. \A j \in exists : Held(j) \/ Listed(j) \/ \E u \in Threads : Fresh(u) /\ itm[u] = j
    OBVIOUS
  <2> HIDE DEF PoolInv
  <2>1. exists' = exists /\ holds' = holds /\ avail' = avail
    BY <1>3 DEF Call, GetPool, FreeItem, Link, Unlink
  <2>2. \A u \in Threads : Fresh(u) => u # t
    BY <1>3 DEF Call, GetPool, FreeItem, Link, Unlink
  <2>3. \A u \in Threads \ {t} : pc'[u] = pc[u] /\ itm'[u] = itm[u] /\ keep'[u] = keep[u]
    BY <1>3, <2>0 DEF Call, GetPool, FreeItem, Link, Unlink
  <2>4. \A u \in Threads : Fresh(u) => Fresh(u)' /\ itm'[u] = itm[u]
    BY <2>2, <2>3
  <2>5. \A j : (Held(j) => Held(j)') /\ (Listed(j) => Listed(j)')
    BY <2>1
  <2> HIDE DEF Held, Listed, Fresh
  <2> QED
    BY <2>1, <2>4, <2>5, <2>6
<1>4. CASE FreePool
  BY <1>4 DEF FreePool
<1> QED
  BY <1>1, <1>2, <1>3, <1>4 DEF Next, Exited

(* After rpmioFreePool nothing runs.                                        *)
LEMMA ExitStep == PoolInv /\ [Next]_vars => ExitTogether'
<1> SUFFICES ASSUME PoolInv, [Next]_vars PROVE ExitTogether'
  OBVIOUS
<1> USE PoolAssumption, NoThreadAssumption
    DEF PoolInv, TypeOK, YarnLocks, PCs, Go, HeadSlot, poolVars, itemVars, ExitTogether
<1>1. CASE UNCHANGED vars
  BY <1>1 DEF vars
<1>2. ASSUME NEW t \in Threads, Step(t) PROVE ExitTogether'
  <2>1. CASE GetPossess(t)
    BY <2>1 DEF GetPossess
  <2>2. CASE GetWait(t)
    BY <2>2 DEF GetWait
  <2>3. CASE GetReuse(t)
    BY <2>3 DEF GetReuse
  <2>4. CASE GetNew(t)
    BY <2>4 DEF GetNew
  <2>5. CASE LinkPossess(t)
    BY <2>5 DEF LinkPossess, UsePossess
  <2>6. CASE LinkTwist(t)
    BY <2>6 DEF LinkTwist, Return
  <2>7. CASE UnlinkPossess(t)
    BY <2>7 DEF UnlinkPossess, UsePossess
  <2>8. CASE UnlinkTwist(t)
    BY <2>8 DEF UnlinkTwist, DropTwist, Return
  <2>9. CASE FreePossess(t)
    BY <2>9 DEF FreePossess, UsePossess
  <2>10. CASE FreeMore(t)
    BY <2>10 DEF FreeMore, DropTwist, Return
  <2>11. CASE FreeFini(t)
    BY <2>11 DEF FreeFini
  <2>12. CASE PutPossess(t)
    BY <2>12 DEF PutPossess
  <2>13. CASE PutList(t)
    BY <2>13 DEF PutList
  <2>14. CASE PutTwist(t)
    BY <2>14 DEF PutTwist, Return
  <2> QED
    BY <1>2, <2>1, <2>2, <2>3, <2>4, <2>5, <2>6, <2>7,
       <2>8, <2>9, <2>10, <2>11, <2>12, <2>13, <2>14 DEF Step
<1>3. ASSUME NEW t \in Threads, Call(t) PROVE ExitTogether'
  <2>1. ASSUME NEW h \in Handles, GetPool(t, h) PROVE ExitTogether'
    BY <2>1 DEF GetPool
  <2>2. ASSUME NEW h \in Handles, FreeItem(t, h) PROVE ExitTogether'
    BY <2>2 DEF FreeItem
  <2>3. ASSUME NEW k \in Handles, NEW h \in Handles, Link(t, k, h) PROVE ExitTogether'
    BY <2>3 DEF Link
  <2>4. ASSUME NEW k \in Handles, NEW h \in Handles, Unlink(t, k, h) PROVE ExitTogether'
    BY <2>4 DEF Unlink
  <2> QED
    BY <1>3, <2>1, <2>2, <2>3, <2>4 DEF Call
<1>4. CASE FreePool
  BY <1>4 DEF FreePool
<1> QED
  BY <1>1, <1>2, <1>3, <1>4 DEF Next, Exited

(* The count follows the pointers.                                          *)
LEMMA CountStep == PoolInv /\ [Next]_vars => RefCount'
<1> SUFFICES ASSUME PoolInv, [Next]_vars PROVE RefCount'
  OBVIOUS
<1> USE PoolAssumption, NoThreadAssumption
    DEF PoolInv, TypeOK, YarnLocks, PCs, Go, HeadSlot, poolVars, itemVars, Places, PlaceOK, At
<1>1. CASE UNCHANGED vars
  BY <1>1, SameHolders DEF vars, RefCount, BeingPut
<1>2. ASSUME NEW t \in Threads, Step(t) PROVE RefCount'
  <2>1. CASE GetPossess(t)
    <3>1. \A j : Holders(j)' = Holders(j)
      BY <2>1, SameHolders DEF GetPossess
    <3>2. \A j \in exists' : /\ j \in exists
                             /\ ~BeingPut(j)' => ~BeingPut(j)
                             /\ use'[j].value = use[j].value
      BY <2>1 DEF GetPossess, BeingPut
    <3> QED
      BY <3>1, <3>2 DEF RefCount
  <2>2. CASE GetWait(t)
    <3>1. \A j : Holders(j)' = Holders(j)
      BY <2>2, SameHolders DEF GetWait
    <3>2. \A j \in exists' : /\ j \in exists
                             /\ ~BeingPut(j)' => ~BeingPut(j)
                             /\ use'[j].value = use[j].value
      BY <2>2 DEF GetWait, BeingPut
    <3> QED
      BY <3>1, <3>2 DEF RefCount
  <2>3. CASE GetReuse(t)
    <3>1. \A j : Holders(j)' = Holders(j)
      BY <2>3, SameHolders DEF GetReuse
    <3>2. \A j \in exists' : /\ j \in exists
                             /\ ~BeingPut(j)' => ~BeingPut(j)
                             /\ use'[j].value = use[j].value
      BY <2>3 DEF GetReuse, BeingPut
    <3> QED
      BY <3>1, <3>2 DEF RefCount
  <2>4. CASE GetNew(t)
    <3>1. PICK i \in Items \ exists :
            /\ exists' = exists \cup {i} /\ itm' = [itm EXCEPT ![t] = i]
            /\ use' = [use EXCEPT ![i] = NewLock(0)]
      BY <2>4 DEF GetNew
    <3>2. \A j : Holders(j)' = Holders(j)
      BY <2>4, SameHolders DEF GetNew
    <3>3. Holders(i) = {} /\ use'[i].value = 0
      BY <3>1 DEF Allocated, NewLock, Holders
    <3>4. ASSUME NEW j \in exists' \ {i}
          PROVE  j \in exists /\ use'[j] = use[j] /\ (~BeingPut(j)' => ~BeingPut(j))
      BY <2>4, <3>1 DEF GetNew, BeingPut
    <3>5. use'[i].value = Cardinality(Holders(i)')
      BY <3>2, <3>3, FS_EmptySet
    <3> QED
      BY <3>2, <3>4, <3>5 DEF RefCount
  <2>5. CASE LinkPossess(t)
    <3>1. \A j : Holders(j)' = Holders(j)
      BY <2>5, SameHolders DEF LinkPossess, UsePossess
    <3>2. \A j \in exists' : /\ j \in exists
                             /\ ~BeingPut(j)' => ~BeingPut(j)
                             /\ use'[j].value = use[j].value
      BY <2>5 DEF LinkPossess, UsePossess, BeingPut, Possess
    <3> QED
      BY <3>1, <3>2 DEF RefCount
  <2>6. CASE LinkTwist(t)
    <3>0. PICK i \in Items : i = itm[t]
      BY <2>6 DEF LinkTwist, Return
    <3>1. /\ i \in exists /\ use[i].value = Cardinality(Holders(i))
      BY <2>6, <3>0, OwnerCounts DEF LinkTwist, Return
    <3>2. hnd[t] \in Handles /\ holds[hnd[t]] = NoItem /\ i \in Items
      BY <2>6, <3>0 DEF LinkTwist, Return
    <3>3. hnd[t] \notin Holders(i)
      BY <3>2 DEF Holders
    <3>4. holds' = [holds EXCEPT ![hnd[t]] = i]
      BY <2>6, <3>0 DEF LinkTwist
    <3>5. Holders(i)' = Holders(i) \cup {hnd[t]}
      <4>1. \A h \in Handles : holds'[h] = i <=> (holds[h] = i \/ h = hnd[t])
        BY <3>2, <3>4
      <4> QED
        BY <3>2, <4>1 DEF Holders
    <3>6. use' = [use EXCEPT ![i] = TwistBy(use[i], 1)]
      BY <2>6, <3>0 DEF LinkTwist
    <3>7. use'[i].value = use[i].value + 1
      BY <3>2, <3>6 DEF TwistBy
    <3>8. Cardinality(Holders(i) \cup {hnd[t]}) = Cardinality(Holders(i)) + 1
      <4>1. IsFiniteSet(Holders(i))
        BY HoldersFinite
      <4> QED
        BY <3>3, <4>1, FS_AddElement
    <3>9. ASSUME NEW j \in exists' \ {i}
          PROVE  /\ j \in exists /\ Holders(j)' = Holders(j)
                 /\ ~BeingPut(j)' => ~BeingPut(j) /\ use'[j].value = use[j].value
      <4>1. j \in exists /\ j \in Items
        BY <2>6 DEF LinkTwist
      <4>2. Holders(j)' = Holders(j)
        <5>1. \A h \in Handles : holds'[h] = j <=> holds[h] = j
          BY <3>2, <3>4, <3>9, <4>1
        <5> QED
          BY <5>1 DEF Holders
      <4>3. ~BeingPut(j)' => ~BeingPut(j)
        BY <2>6 DEF LinkTwist, Return, BeingPut
      <4>4. use'[j] = use[j]
        BY <3>2, <3>6, <3>9, <4>1
      <4> QED
        BY <4>1, <4>2, <4>3, <4>4
    <3>10. use'[i].value = Cardinality(Holders(i)')
      BY <3>1, <3>5, <3>7, <3>8
    <3> QED
      BY <3>9, <3>10 DEF RefCount
  <2>7. CASE UnlinkPossess(t)
    <3>1. \A j : Holders(j)' = Holders(j)
      BY <2>7, SameHolders DEF UnlinkPossess, UsePossess
    <3>2. \A j \in exists' : /\ j \in exists
                             /\ ~BeingPut(j)' => ~BeingPut(j)
                             /\ use'[j].value = use[j].value
      BY <2>7 DEF UnlinkPossess, UsePossess, BeingPut, Possess
    <3> QED
      BY <3>1, <3>2 DEF RefCount
  <2>8. CASE UnlinkTwist(t)
    BY <2>8, DropCounts DEF UnlinkTwist
  <2>9. CASE FreePossess(t)
    <3>1. \A j : Holders(j)' = Holders(j)
      BY <2>9, SameHolders DEF FreePossess, UsePossess
    <3>2. \A j \in exists' : /\ j \in exists
                             /\ ~BeingPut(j)' => ~BeingPut(j)
                             /\ use'[j].value = use[j].value
      BY <2>9 DEF FreePossess, UsePossess, BeingPut, Possess
    <3> QED
      BY <3>1, <3>2 DEF RefCount
  <2>10. CASE FreeMore(t)
    BY <2>10, DropCounts DEF FreeMore
  <2>11. CASE FreeFini(t)
    <3>1. \A j : Holders(j)' = Holders(j)
      BY <2>11, SameHolders DEF FreeFini
    <3>2. \A j \in exists' : /\ j \in exists
                             /\ ~BeingPut(j)' => ~BeingPut(j)
                             /\ use'[j].value = use[j].value
      BY <2>11 DEF FreeFini, BeingPut
    <3> QED
      BY <3>1, <3>2 DEF RefCount
  <2>12. CASE PutPossess(t)
    <3>1. \A j : Holders(j)' = Holders(j)
      BY <2>12, SameHolders DEF PutPossess
    <3>2. \A j \in exists' : /\ j \in exists
                             /\ ~BeingPut(j)' => ~BeingPut(j)
                             /\ use'[j].value = use[j].value
      BY <2>12 DEF PutPossess, BeingPut
    <3> QED
      BY <3>1, <3>2 DEF RefCount
  <2>13. CASE PutList(t)
    <3>0. PICK i \in Items : i = itm[t]
      BY <2>13 DEF PutList
    <3>1. i \in Items /\ hnd[t] \in Handles /\ holds[hnd[t]] = i
      BY <2>13, <3>0 DEF PutList
    <3>2. BeingPut(i)'
      BY <2>13, <3>0 DEF PutList, BeingPut
    <3>3. holds' = [holds EXCEPT ![hnd[t]] = NoItem] /\ use' = use /\ exists' = exists
      BY <2>13, <3>0 DEF PutList
    <3>4. ASSUME NEW j \in exists' \ {i}
          PROVE  /\ j \in exists /\ Holders(j)' = Holders(j)
                 /\ ~BeingPut(j)' => ~BeingPut(j) /\ use'[j].value = use[j].value
      <4>1. Holders(j)' = Holders(j)
        BY <3>1, <3>3, <3>4 DEF Holders
      <4>2. ~BeingPut(j)' => ~BeingPut(j)
        BY <2>13, <3>0 DEF PutList, BeingPut
      <4> QED
        BY <3>3, <4>1, <4>2
    <3> QED
      BY <3>2, <3>4 DEF RefCount
  <2>14. CASE PutTwist(t)
    <3>0. PICK i \in Items : i = itm[t]
      BY <2>14 DEF PutTwist, Return
    <3>1. i \in Items /\ Holders(i) = {}
      BY <2>14, <3>0 DEF PutTwist, Return, LastPointer, Held, Holders
    <3>2. use'[i].value = 0
      BY <2>14, <3>0, <3>1 DEF PutTwist, TwistTo
    <3>3. \A j : Holders(j)' = Holders(j)
      BY <2>14, <3>0, SameHolders DEF PutTwist
    <3>4. ASSUME NEW j \in exists' \ {i}
          PROVE  j \in exists /\ use'[j] = use[j] /\ (~BeingPut(j)' => ~BeingPut(j))
      BY <2>14, <3>0, <3>1 DEF PutTwist, Return, BeingPut
    <3>5. use'[i].value = Cardinality(Holders(i)')
      <4>1. Holders(i)' = {} /\ Cardinality({}) = 0
        BY <3>1, <3>3, FS_EmptySet
      <4> QED
        BY <3>2, <4>1
    <3> QED
      BY <3>3, <3>4, <3>5 DEF RefCount
  <2> QED
    BY <1>2, <2>1, <2>2, <2>3, <2>4, <2>5, <2>6, <2>7,
       <2>8, <2>9, <2>10, <2>11, <2>12, <2>13, <2>14 DEF Step
<1>3. ASSUME NEW t \in Threads, Call(t) PROVE RefCount'
  <2>1. ASSUME NEW h \in Handles, GetPool(t, h) PROVE RefCount'
    <3>1. \A j : Holders(j)' = Holders(j)
      BY <2>1, SameHolders DEF GetPool
    <3>2. \A j \in exists' : /\ j \in exists
                             /\ ~BeingPut(j)' => ~BeingPut(j)
                             /\ use'[j].value = use[j].value
      BY <2>1 DEF GetPool, BeingPut
    <3> QED
      BY <3>1, <3>2 DEF RefCount
  <2>2. ASSUME NEW h \in Handles, FreeItem(t, h) PROVE RefCount'
    <3>1. \A j : Holders(j)' = Holders(j)
      BY <2>2, SameHolders DEF FreeItem
    <3>2. \A j \in exists' : /\ j \in exists
                             /\ ~BeingPut(j)' => ~BeingPut(j)
                             /\ use'[j].value = use[j].value
      BY <2>2 DEF FreeItem, BeingPut
    <3> QED
      BY <3>1, <3>2 DEF RefCount
  <2>3. ASSUME NEW k \in Handles, NEW h \in Handles, Link(t, k, h) PROVE RefCount'
    <3>1. \A j : Holders(j)' = Holders(j)
      BY <2>3, SameHolders DEF Link
    <3>2. \A j \in exists' : /\ j \in exists
                             /\ ~BeingPut(j)' => ~BeingPut(j)
                             /\ use'[j].value = use[j].value
      BY <2>3 DEF Link, BeingPut
    <3> QED
      BY <3>1, <3>2 DEF RefCount
  <2>4. ASSUME NEW k \in Handles, NEW h \in Handles, Unlink(t, k, h) PROVE RefCount'
    <3>1. \A j : Holders(j)' = Holders(j)
      BY <2>4, SameHolders DEF Unlink
    <3>2. \A j \in exists' : /\ j \in exists
                             /\ ~BeingPut(j)' => ~BeingPut(j)
                             /\ use'[j].value = use[j].value
      BY <2>4 DEF Unlink, BeingPut
    <3> QED
      BY <3>1, <3>2 DEF RefCount
  <2> QED
    BY <1>3, <2>1, <2>2, <2>3, <2>4 DEF Call
<1>4. CASE FreePool
  <2>1. \A j : Holders(j)' = Holders(j)
    BY <1>4, SameHolders DEF FreePool
  <2>2. \A j \in exists' : /\ j \in exists
                           /\ ~BeingPut(j)' => ~BeingPut(j)
                           /\ use'[j].value = use[j].value
    BY <1>4 DEF FreePool, BeingPut
  <2> QED
    BY <2>1, <2>2 DEF RefCount
<1> QED
  BY <1>1, <1>2, <1>3, <1>4 DEF Next, Exited

(* The linked list follows the sequence of available items.                 *)
LEMMA ListStep == PoolInv /\ [Next]_vars => ListRep'
<1> SUFFICES ASSUME PoolInv, [Next]_vars PROVE ListRep'
  OBVIOUS
<1> USE PoolAssumption, NoThreadAssumption
    DEF PoolInv, TypeOK, YarnLocks, PCs, Go, HeadSlot, poolVars, itemVars, ListRep
<1>1. CASE UNCHANGED vars
  BY <1>1 DEF vars
<1>2. ASSUME NEW t \in Threads, Step(t) PROVE ListRep'
  <2>1. CASE GetPossess(t)
    BY <2>1 DEF GetPossess, ExitTogether, Possess
  <2>2. CASE GetWait(t)
    BY <2>2 DEF GetWait, WaitFor, ExitTogether
  <2>3. CASE GetReuse(t)
    <3> \A u \in Threads : pc[u] # "exit"
      BY <2>3 DEF GetReuse, ExitTogether
    <3>0. PICK rest \in Seq(Items) :
            /\ avail' = rest
            /\ Len(avail) \in Nat \ {0} /\ Len(rest) = Len(avail) - 1
            /\ \A n \in 1..Len(rest) : n + 1 \in 1..Len(avail) /\ rest[n] = avail[n + 1]
      BY <2>3, TakeFirst DEF GetReuse
    <3>1. /\ head = avail[1] /\ head \in Items
          /\ pool[head] = IF Len(avail) = 1 THEN NoItem ELSE avail[2]
      BY <2>3, TakeFirst DEF GetReuse
    <3>2. /\ head' = pool[head] /\ pool' = [pool EXCEPT ![head] = ThePool]
          /\ tail' = IF pool[head] = NoItem THEN HeadSlot ELSE tail
      BY <2>3 DEF GetReuse, TailBefore
    <3>9. have'.value = have.value - 1
      BY <2>3 DEF GetReuse, TwistBy
    <3>10. have.value = Len(avail) /\ tail = avail[Len(avail)] /\ avail \in Seq(Items)
      BY <3>0
    <3>3. CASE Len(avail) = 1
      <4>1. rest = <<>>
        BY <3>0, <3>3
      <4> QED
        BY <3>0, <3>1, <3>2, <3>3, <3>9, <3>10, <4>1
    <3>4. CASE Len(avail) # 1
      <4>1. Len(rest) \in Nat \ {0}
        BY <3>0, <3>4
      <4>2. rest[1] = avail[2] /\ 2 \in 1..Len(avail)
        BY <3>0, <4>1
      <4>3. rest[Len(rest)] = avail[Len(avail)]
        BY <3>0, <4>1
      <4>4. pool[head] # NoItem /\ head' = avail[2] /\ tail' = avail[Len(avail)]
        BY <3>1, <3>2, <3>4, <3>10, <4>2
      <4>5. ASSUME NEW n \in 1..Len(rest)
            PROVE  pool'[rest[n]] = IF n = Len(rest) THEN NoItem ELSE rest[n + 1]
        <5>1. n + 1 \in 1..Len(avail) /\ rest[n] = avail[n + 1] /\ n + 1 # 1 /\ 1 \in 1..Len(avail)
          BY <3>0
        <5>2. avail[n + 1] # head /\ avail[n + 1] \in Items
          BY <3>1, <3>10, <5>1 DEF Disjoint
        <5>3. pool'[rest[n]] = pool[avail[n + 1]]
          BY <3>1, <3>2, <5>1, <5>2
        <5>4. pool[avail[n + 1]] =
                IF n + 1 = Len(avail) THEN NoItem ELSE avail[n + 1 + 1]
          BY <5>1
        <5>5. n # Len(rest) => n + 1 \in 1..Len(rest) /\ rest[n + 1] = avail[n + 1 + 1]
          BY <3>0
        <5>6. n = Len(rest) <=> n + 1 = Len(avail)
          BY <3>0
        <5> QED
          BY <5>3, <5>4, <5>5, <5>6
      <4>6. rest # <<>>
        BY <4>1
      <4>7. have'.value = Len(rest)
        BY <3>0, <3>9, <3>10
      <4> QED
        BY <3>0, <4>2, <4>3, <4>4, <4>5, <4>6, <4>7
    <3> QED
      BY <3>3, <3>4
  <2>4. CASE GetNew(t)
    BY <2>4 DEF GetNew, Release, ExitTogether, Allocated
  <2>5. CASE LinkPossess(t)
    BY <2>5 DEF LinkPossess, UsePossess, ExitTogether
  <2>6. CASE LinkTwist(t)
    BY <2>6 DEF LinkTwist, Return, ExitTogether
  <2>7. CASE UnlinkPossess(t)
    BY <2>7 DEF UnlinkPossess, UsePossess, ExitTogether
  <2>8. CASE UnlinkTwist(t)
    BY <2>8 DEF UnlinkTwist, DropTwist, Return, ExitTogether
  <2>9. CASE FreePossess(t)
    BY <2>9 DEF FreePossess, UsePossess, ExitTogether
  <2>10. CASE FreeMore(t)
    BY <2>10 DEF FreeMore, DropTwist, Return, ExitTogether
  <2>11. CASE FreeFini(t)
    BY <2>11 DEF FreeFini, ExitTogether
  <2>12. CASE PutPossess(t)
    BY <2>12 DEF PutPossess, Possess, ExitTogether
  <2>13. CASE PutList(t)
    <3> \A u \in Threads : pc[u] # "exit"
      BY <2>13 DEF PutList, ExitTogether
    <3> DEFINE i == itm[t]
               more == Append(avail, i)
               ended == [pool EXCEPT ![i] = NoItem]
    <3>1. i \in Items /\ \A n \in 1..Len(avail) : avail[n] # i
      BY <2>13 DEF PutList, Places, PlaceOK, At, Disjoint, Held
    <3>2. /\ more \in Seq(Items) /\ Len(avail) \in Nat /\ Len(more) = Len(avail) + 1
          /\ \A n \in 1..Len(avail) : more[n] = avail[n]
          /\ more[Len(avail) + 1] = i
      BY <3>1, PutLast
    <3>3. /\ avail' = more /\ have'.value = have.value + 1 /\ tail' = i
          /\ head' = IF tail = HeadSlot THEN i ELSE head
          /\ pool' = IF tail = HeadSlot THEN ended ELSE [ended EXCEPT ![tail] = i]
      BY <2>13 DEF PutList, TwistBy
    <3>4. more # <<>> /\ more[Len(more)] = i
      BY <3>2
    <3>5. CASE avail = <<>>
      BY <3>1, <3>2, <3>3, <3>4, <3>5
    <3>6. CASE avail # <<>>
      <4>1. Len(avail) \in 1..Len(avail) /\ 1 \in 1..Len(avail)
        BY <3>2, <3>6
      <4>2. tail = avail[Len(avail)] /\ tail \in Items /\ tail # HeadSlot /\ tail # i
        BY <3>1, <3>6, <4>1
      <4>3. head' = more[1]
        BY <3>2, <3>3, <3>6, <4>1, <4>2
      <4>4. \A n \in 1..Len(more) :
              pool'[more[n]] = IF n = Len(more) THEN NoItem ELSE more[n + 1]
        <5>1. TAKE n \in 1..Len(more)
        <5>2. CASE n = Len(more)
          BY <3>1, <3>2, <3>3, <4>2, <5>2
        <5>3. CASE n = Len(avail)
          BY <3>1, <3>2, <3>3, <4>2, <5>3
        <5>4. CASE n < Len(avail)
          <6>1. n \in 1..Len(avail) /\ n + 1 \in 1..Len(avail)
            BY <3>2, <5>4
          <6>2. avail[n] # tail /\ avail[n] # i /\ avail[n] \in Items
            BY <3>1, <4>1, <4>2, <5>4, <6>1 DEF Disjoint
          <6>3. pool'[avail[n]] = avail[n + 1]
            BY <3>3, <4>2, <5>4, <6>1, <6>2
          <6> QED
            BY <3>2, <5>4, <6>1, <6>3
        <5> QED
          BY <3>2, <5>2, <5>3, <5>4
      <4>5. have.value = Len(avail)
        OBVIOUS
      <4> QED
        BY <3>2, <3>3, <3>4, <4>3, <4>4, <4>5
    <3> QED
      BY <3>5, <3>6
  <2>14. CASE PutTwist(t)
    BY <2>14 DEF PutTwist, Return, ExitTogether
  <2> QED
    BY <1>2, <2>1, <2>2, <2>3, <2>4, <2>5, <2>6, <2>7,
       <2>8, <2>9, <2>10, <2>11, <2>12, <2>13, <2>14 DEF Step
<1>3. ASSUME NEW t \in Threads, Call(t) PROVE ListRep'
  <2>1. ASSUME NEW h \in Handles, GetPool(t, h) PROVE ListRep'
    BY <2>1 DEF GetPool, ExitTogether
  <2>2. ASSUME NEW h \in Handles, FreeItem(t, h) PROVE ListRep'
    BY <2>2 DEF FreeItem, ExitTogether
  <2>3. ASSUME NEW k \in Handles, NEW h \in Handles, Link(t, k, h) PROVE ListRep'
    BY <2>3 DEF Link, ExitTogether
  <2>4. ASSUME NEW k \in Handles, NEW h \in Handles, Unlink(t, k, h) PROVE ListRep'
    BY <2>4 DEF Unlink, ExitTogether
  <2> QED
    BY <1>3, <2>1, <2>2, <2>3, <2>4 DEF Call
<1>4. CASE FreePool
  BY <1>4 DEF FreePool
<1> QED
  BY <1>1, <1>2, <1>3, <1>4 DEF Next, Exited

(* A bounded pool counts down what it makes.                                *)
LEMMA CountedStep == PoolInv /\ [Next]_vars => Counted'
<1> SUFFICES ASSUME PoolInv, [Next]_vars PROVE Counted'
  OBVIOUS
<1> USE PoolAssumption, NoThreadAssumption
    DEF PoolInv, TypeOK, YarnLocks, PCs, Go, HeadSlot, poolVars, itemVars, Counted
<1>1. CASE UNCHANGED vars
  BY <1>1 DEF vars
<1>2. ASSUME NEW t \in Threads, Step(t) PROVE Counted'
  <2>1. CASE GetPossess(t)
    BY <2>1 DEF GetPossess
  <2>2. CASE GetWait(t)
    BY <2>2 DEF GetWait
  <2>3. CASE GetReuse(t)
    BY <2>3 DEF GetReuse
  <2>4. CASE GetNew(t)
    BY <2>4 DEF GetNew, LimitAfterNew
  <2>5. CASE LinkPossess(t)
    BY <2>5 DEF LinkPossess, UsePossess
  <2>6. CASE LinkTwist(t)
    BY <2>6 DEF LinkTwist, Return
  <2>7. CASE UnlinkPossess(t)
    BY <2>7 DEF UnlinkPossess, UsePossess
  <2>8. CASE UnlinkTwist(t)
    BY <2>8 DEF UnlinkTwist, DropTwist, Return
  <2>9. CASE FreePossess(t)
    BY <2>9 DEF FreePossess, UsePossess
  <2>10. CASE FreeMore(t)
    BY <2>10 DEF FreeMore, DropTwist, Return
  <2>11. CASE FreeFini(t)
    BY <2>11 DEF FreeFini
  <2>12. CASE PutPossess(t)
    BY <2>12 DEF PutPossess
  <2>13. CASE PutList(t)
    BY <2>13 DEF PutList
  <2>14. CASE PutTwist(t)
    BY <2>14 DEF PutTwist, Return
  <2> QED
    BY <1>2, <2>1, <2>2, <2>3, <2>4, <2>5, <2>6, <2>7,
       <2>8, <2>9, <2>10, <2>11, <2>12, <2>13, <2>14 DEF Step
<1>3. ASSUME NEW t \in Threads, Call(t) PROVE Counted'
  <2>1. ASSUME NEW h \in Handles, GetPool(t, h) PROVE Counted'
    BY <2>1 DEF GetPool
  <2>2. ASSUME NEW h \in Handles, FreeItem(t, h) PROVE Counted'
    BY <2>2 DEF FreeItem
  <2>3. ASSUME NEW k \in Handles, NEW h \in Handles, Link(t, k, h) PROVE Counted'
    BY <2>3 DEF Link
  <2>4. ASSUME NEW k \in Handles, NEW h \in Handles, Unlink(t, k, h) PROVE Counted'
    BY <2>4 DEF Unlink
  <2> QED
    BY <1>3, <2>1, <2>2, <2>3, <2>4 DEF Call
<1>4. CASE FreePool
  BY <1>4 DEF FreePool
<1> QED
  BY <1>1, <1>2, <1>3, <1>4 DEF Next, Exited

(* Every item that is listed wakes the sleepers.                            *)
LEMMA SleepersStep == PoolInv /\ [Next]_vars => Sleepers'
<1> SUFFICES ASSUME PoolInv, [Next]_vars PROVE Sleepers'
  OBVIOUS
<1> USE PoolAssumption, NoThreadAssumption
    DEF PoolInv, TypeOK, YarnLocks, PCs, Go, HeadSlot, poolVars, itemVars, Sleepers
<1>1. CASE UNCHANGED vars
  BY <1>1 DEF vars
<1>2. ASSUME NEW t \in Threads, Step(t) PROVE Sleepers'
  <2>1. CASE GetPossess(t)
    BY <2>1 DEF GetPossess, Possess
  <2>2. CASE GetWait(t)
    BY <2>2 DEF GetWait, MustWait, ListRep, ExitTogether, WaitFor
  <2>3. CASE GetReuse(t)
    BY <2>3 DEF GetReuse, TwistBy
  <2>4. CASE GetNew(t)
    BY <2>4 DEF GetNew, Release
  <2>5. CASE LinkPossess(t)
    BY <2>5 DEF LinkPossess, UsePossess
  <2>6. CASE LinkTwist(t)
    BY <2>6 DEF LinkTwist, Return
  <2>7. CASE UnlinkPossess(t)
    BY <2>7 DEF UnlinkPossess, UsePossess
  <2>8. CASE UnlinkTwist(t)
    BY <2>8 DEF UnlinkTwist, DropTwist, Return
  <2>9. CASE FreePossess(t)
    BY <2>9 DEF FreePossess, UsePossess
  <2>10. CASE FreeMore(t)
    BY <2>10 DEF FreeMore, DropTwist, Return
  <2>11. CASE FreeFini(t)
    BY <2>11 DEF FreeFini
  <2>12. CASE PutPossess(t)
    BY <2>12 DEF PutPossess, Possess
  <2>13. CASE PutList(t)
    BY <2>13 DEF PutList, TwistBy
  <2>14. CASE PutTwist(t)
    BY <2>14 DEF PutTwist, Return
  <2> QED
    BY <1>2, <2>1, <2>2, <2>3, <2>4, <2>5, <2>6, <2>7,
       <2>8, <2>9, <2>10, <2>11, <2>12, <2>13, <2>14 DEF Step
<1>3. ASSUME NEW t \in Threads, Call(t) PROVE Sleepers'
  <2>1. ASSUME NEW h \in Handles, GetPool(t, h) PROVE Sleepers'
    BY <2>1 DEF GetPool
  <2>2. ASSUME NEW h \in Handles, FreeItem(t, h) PROVE Sleepers'
    BY <2>2 DEF FreeItem
  <2>3. ASSUME NEW k \in Handles, NEW h \in Handles, Link(t, k, h) PROVE Sleepers'
    BY <2>3 DEF Link
  <2>4. ASSUME NEW k \in Handles, NEW h \in Handles, Unlink(t, k, h) PROVE Sleepers'
    BY <2>4 DEF Unlink
  <2> QED
    BY <1>3, <2>1, <2>2, <2>3, <2>4 DEF Call
<1>4. CASE FreePool
  BY <1>4 DEF FreePool
<1> QED
  BY <1>1, <1>2, <1>3, <1>4 DEF Next, Exited

-----------------------------------------------------------------------------
(* The theorems.                                                            *)

(* The first state satisfies the invariant.                                 *)
LEMMA InitInv == Init => PoolInv
<1> SUFFICES ASSUME Init PROVE PoolInv
  OBVIOUS
<1> USE PoolAssumption, NoThreadAssumption
<1>1. TypeOK
  BY DEF Init, TypeOK, YarnLocks, NewLock, PCs, HeadSlot
<1>2. avail = <<>> /\ Len(avail) = 0 /\ 1..Len(avail) = {}
  BY DEF Init
<1>3. Places /\ PrivateHandles /\ OwnsUse /\ LastPointer /\ Alive /\ ExitTogether
  BY DEF Init, Places, PlaceOK, At, PrivateHandles, OwnsUse, LastPointer, Alive, ExitTogether
<1>4. Allocated /\ Disjoint /\ Accounted
  BY <1>2 DEF Init, Allocated, Disjoint, Accounted, Fresh, At
<1>5. RefCount /\ ListRep /\ Counted /\ Sleepers
  BY <1>2 DEF Init, RefCount, ListRep, Counted, Sleepers, NewLock, HeadSlot
<1> QED
  BY <1>1, <1>3, <1>4, <1>5 DEF PoolInv

(* The inductive invariant holds in every state of every execution.         *)
THEOREM PoolInvariant == Spec => []PoolInv
<1>1. PoolInv /\ [Next]_vars => PoolInv'
  BY TypeStep, PlacesStep, PrivateStep, OwnsStep, AllocatedStep, DisjointStep,
     LastPointerStep, AliveStep, AccountedStep, ExitStep, CountStep, ListStep,
     CountedStep, SleepersStep DEF PoolInv
<1> QED
  BY InitInv, <1>1, PTL DEF Spec

(* Every variable keeps its type.                                           *)
THEOREM TypeCorrect == Spec => []TypeOK
<1>1. PoolInv => TypeOK
  BY DEF PoolInv
<1> QED
  BY PoolInvariant, <1>1, PTL

(* The reference count is the number of pointers, for any number of         *)
(* threads, handles and items.                                              *)
THEOREM RefCountCorrect == Spec => []RefCount
<1>1. PoolInv => RefCount
  BY DEF PoolInv
<1> QED
  BY PoolInvariant, <1>1, PTL

(* No pointer refers to an item that is available, or destroyed by anybody  *)
(* but the call that is giving back that pointer, the last one.             *)
THEOREM NoUseAfterFreeCorrect == Spec => []NoUseAfterFree
<1>1. PoolInv => NoUseAfterFree
  <2> SUFFICES ASSUME PoolInv, NEW h \in Handles, holds[h] # NoItem
               PROVE  /\ \A n \in 1..Len(avail) : avail[n] # holds[h]
                      /\ ~live[holds[h]] =>
                            /\ Holders(holds[h]) = {h}
                            /\ \E t \in Threads : hnd[t] = h /\ pc[t] \in {"put", "putin"}
    BY DEF NoUseAfterFree
  <2>1. \A n \in 1..Len(avail) : avail[n] # holds[h]
    BY DEF PoolInv, Disjoint, Held
  <2>2. ASSUME ~live[holds[h]]
        PROVE  /\ Holders(holds[h]) = {h}
               /\ \E t \in Threads : hnd[t] = h /\ pc[t] \in {"put", "putin"}
    <3>1. PICK t \in Threads : hnd[t] = h /\ At(t, {"put", "putin"})
      BY <2>2 DEF PoolInv, Alive
    <3>2. itm[t] = holds[h]
      BY <3>1 DEF PoolInv, Places, PlaceOK, At
    <3>3. \A k \in Handles : holds[k] = holds[h] => k = h
      BY <3>1, <3>2 DEF PoolInv, LastPointer
    <3> QED
      BY <3>1, <3>3 DEF Holders, At
  <2> QED
    BY <2>1, <2>2
<1> QED
  BY PoolInvariant, <1>1, PTL

(* rpmioGetPool gives an item to one caller only.                           *)
THEOREM NoDoubleGetCorrect == Spec => []NoDoubleGet
<1>1. PoolInv => NoDoubleGet
  <2> SUFFICES ASSUME PoolInv, NEW t \in Threads, NEW u \in Threads, t # u, Fresh(t)
               PROVE  /\ itm[u] = itm[t] => pc[u] = "puttwist"
                      /\ Holders(itm[t]) = {}
                      /\ pool[itm[t]] = ThePool
    BY DEF NoDoubleGet, Fresh, At
  <2>1. Holders(itm[t]) = {}
    BY DEF PoolInv, Disjoint, Held, Holders
  <2> QED
    BY <2>1 DEF PoolInv, Disjoint, At
<1> QED
  BY PoolInvariant, <1>1, PTL

(* head, tail and item->pool represent the list of available items.         *)
THEOREM ListRepCorrect == Spec => []ListRep
<1>1. PoolInv => ListRep
  BY DEF PoolInv
<1> QED
  BY PoolInvariant, <1>1, PTL

(* rpmioFreePool frees every item nobody refers to.                         *)
THEOREM NothingLostCorrect == Spec => []NothingLost
<1>1. PoolInv => NothingLost
  <2> SUFFICES ASSUME PoolInv, \A t \in Threads : pc[t] = "exit"
               PROVE  exists = {holds[h] : h \in Handles} \ {NoItem}
    BY DEF NothingLost
  <2>1. avail = <<>>
    BY PoolAssumption DEF PoolInv, ExitTogether
  <2>2. \A i \in exists : Held(i) /\ i # NoItem
    BY <2>1, PoolAssumption DEF PoolInv, TypeOK, Accounted, Listed, Fresh, At
  <2>3. \A h \in Handles : holds[h] # NoItem => holds[h] \in exists
    BY DEF PoolInv, Allocated
  <2> QED
    BY <2>2, <2>3 DEF Held
<1> QED
  BY PoolInvariant, <1>1, PTL

(* A bounded pool never makes more than its limit, and the assertion of     *)
(* rpmioGetPool never fails.                                                *)
THEOREM LimitKeptCorrect == Spec => []LimitKept
<1>1. PoolInv => LimitKept
  <2> SUFFICES ASSUME PoolInv PROVE LimitKept
    OBVIOUS
  <2>1. Limit >= 0 => made + limit = Limit
    BY DEF PoolInv, Counted
  <2>2. ASSUME NEW t \in Threads, pc[t] = "getin", ~MustWait, head = NoItem
        PROVE  limit # 0
    <3>1. \A u \in Threads : pc[u] # "exit"
      BY <2>2 DEF PoolInv, ExitTogether
    <3>2. avail \in Seq(Items) /\ have.value = Len(avail)
      BY <3>1 DEF PoolInv, ListRep, TypeOK
    <3>3. avail # <<>> => avail[1] \in Items
      BY <3>2
    <3>4. avail = <<>>
      BY <2>2, <3>1, <3>3, PoolAssumption DEF PoolInv, ListRep
    <3>5. have.value = 0
      BY <3>2, <3>4
    <3> QED
      BY <2>2, <3>5 DEF MustWait
  <2> QED
    BY <2>1, <2>2 DEF LimitKept
<1> QED
  BY PoolInvariant, <1>1, PTL

(* Nobody sleeps for an item of a bounded pool while one is listed.         *)
THEOREM NoLostWakeupCorrect == Spec => []NoLostWakeup
<1>1. PoolInv => NoLostWakeup
  BY DEF PoolInv, Sleepers, NoLostWakeup
<1> QED
  BY PoolInvariant, <1>1, PTL

-----------------------------------------------------------------------------
(* RpmPool implements ObjectPool: every step of the locks, the list and the *)
(* counts is a step of the promised pool, or changes nothing in it.         *)

(* What is destroyed has not come back before rpmioPutPool listed it.       *)
Destroyed == \A t \in Threads : At(t, {"put", "putin"}) => ~live[itm[t]]

(* pool->made counts the items, those that were freed again included.       *)
MadeCounts == Cardinality(exists) <= made

-----------------------------------------------------------------------------
(* There are finitely many items.                                           *)
LEMMA ExistsFinite ==
  ASSUME TypeOK
  PROVE  IsFiniteSet(exists) /\ Cardinality(exists) \in Nat
  BY PoolAssumption, FS_Subset, FS_CardinalityType DEF TypeOK

(* Nobody brings an object back to life that somebody is putting.           *)
LEMMA DestroyedStep == PoolInv /\ Destroyed /\ [Next]_vars => Destroyed'
<1> SUFFICES ASSUME PoolInv, Destroyed, [Next]_vars PROVE Destroyed'
  OBVIOUS
<1> USE PoolAssumption, NoThreadAssumption
    DEF PoolInv, TypeOK, PCs, Go, Destroyed, At
<1>1. CASE UNCHANGED vars
  BY <1>1 DEF vars
<1>2. ASSUME NEW t \in Threads, Step(t) PROVE Destroyed'
  <2>1. CASE GetPossess(t)
    BY <2>1 DEF GetPossess, itemVars
  <2>2. CASE GetWait(t)
    BY <2>2 DEF GetWait, itemVars
  <2>3. CASE GetReuse(t)
    <3>1. head \in Items /\ \A u \in Threads : At(u, {"put", "putin"}) => itm[u] # head
      <4>1. \A u \in Threads : pc[u] # "exit"
        BY <2>3 DEF GetReuse, ExitTogether
      <4>2. head \in Items /\ head = avail[1] /\ 1 \in 1..Len(avail)
        BY <2>3, <4>1, TakeFirst DEF GetReuse
      <4>3. ASSUME NEW u \in Threads, itm[u] = head PROVE At(u, {"puttwist"})
        BY <4>2, <4>3, ListedOnlyByPut
      <4> QED
        BY <4>2, <4>3
    <3> QED
      BY <2>3, <3>1 DEF GetReuse
  <2>4. CASE GetNew(t)
    <3>1. PICK i \in Items \ exists :
            itm' = [itm EXCEPT ![t] = i] /\ live' = [live EXCEPT ![i] = TRUE]
      BY <2>4 DEF GetNew
    <3>2. \A u \in Threads : At(u, {"put", "putin"}) => itm[u] # i
      BY <3>1 DEF Allocated, Places, PlaceOK
    <3> QED
      BY <2>4, <3>1, <3>2 DEF GetNew
  <2>5. CASE LinkPossess(t)
    BY <2>5 DEF LinkPossess, UsePossess
  <2>6. CASE LinkTwist(t)
    BY <2>6 DEF LinkTwist, Return
  <2>7. CASE UnlinkPossess(t)
    BY <2>7 DEF UnlinkPossess, UsePossess
  <2>8. CASE UnlinkTwist(t)
    BY <2>8 DEF UnlinkTwist, DropTwist, Return
  <2>9. CASE FreePossess(t)
    BY <2>9 DEF FreePossess, UsePossess
  <2>10. CASE FreeMore(t)
    BY <2>10 DEF FreeMore, DropTwist, Return
  <2>11. CASE FreeFini(t)
    <3>1. itm[t] \in Items
      BY <2>11 DEF FreeFini, Places, PlaceOK
    <3> QED
      BY <2>11, <3>1 DEF FreeFini
  <2>12. CASE PutPossess(t)
    BY <2>12 DEF PutPossess, itemVars
  <2>13. CASE PutList(t)
    BY <2>13 DEF PutList
  <2>14. CASE PutTwist(t)
    BY <2>14 DEF PutTwist, Return
  <2> QED
    BY <1>2, <2>1, <2>2, <2>3, <2>4, <2>5, <2>6, <2>7,
       <2>8, <2>9, <2>10, <2>11, <2>12, <2>13, <2>14 DEF Step
<1>3. ASSUME NEW t \in Threads, Call(t) PROVE Destroyed'
  BY <1>3 DEF Call, GetPool, FreeItem, Link, Unlink, itemVars
<1>4. CASE FreePool
  BY <1>4 DEF FreePool
<1> QED
  BY <1>1, <1>2, <1>3, <1>4 DEF Next, Exited

(* An item more is counted, and items are never taken off the count.        *)
LEMMA MadeStep == PoolInv /\ MadeCounts /\ [Next]_vars => MadeCounts'
<1> SUFFICES ASSUME PoolInv, MadeCounts, [Next]_vars PROVE MadeCounts'
  OBVIOUS
<1>1. IsFiniteSet(exists) /\ Cardinality(exists) \in Nat /\ made \in Nat
  BY ExistsFinite DEF PoolInv, TypeOK
<1>2. CASE exists' = exists /\ made' = made
  BY <1>2 DEF MadeCounts
<1>3. ASSUME NEW t \in Threads, GetNew(t) PROVE MadeCounts'
  <2>1. PICK i \in Items \ exists : exists' = exists \cup {i} /\ made' = made + 1
    BY <1>3 DEF GetNew
  <2>2. Cardinality(exists \cup {i}) = Cardinality(exists) + 1
    BY <1>1, <2>1, FS_AddElement
  <2> QED
    BY <1>1, <2>1, <2>2 DEF MadeCounts
<1>4. CASE FreePool
  <2>1. exists' \subseteq exists /\ made' = made
    BY <1>4 DEF FreePool
  <2>2. Cardinality(exists') <= Cardinality(exists) /\ Cardinality(exists') \in Nat
    BY <1>1, <2>1, FS_Subset, FS_CardinalityType
  <2> QED
    BY <1>1, <2>1, <2>2 DEF MadeCounts
<1>5. \/ exists' = exists /\ made' = made
      \/ \E t \in Threads : GetNew(t)
      \/ FreePool
  BY DEF Next, Step, Call, Exited, vars, poolVars, itemVars, GetPossess, GetWait,
         GetReuse, LinkPossess, LinkTwist, UnlinkPossess, UnlinkTwist, FreePossess,
         FreeMore, FreeFini, PutPossess, PutList, PutTwist, UsePossess, DropTwist,
         GetPool, FreeItem, Link, Unlink
<1> QED
  BY <1>2, <1>3, <1>4, <1>5

-----------------------------------------------------------------------------
(* One lemma for each step that moves a pointer or destroys an object.      *)

(* A call whose handle or kept handle h is, and that does not put it, finds *)
(* the object of h alive.                                                   *)
LEMMA MineAlive ==
  ASSUME PoolInv, NEW t \in Threads, ~At(t, {"put", "putin"}),
         NEW h \in Handles, h = hnd[t] \/ h = keep[t]
  PROVE  h \notin Dying
<1>1. SUFFICES ASSUME h \in Dying PROVE FALSE
  OBVIOUS
<1>2. PICK u \in Threads : hnd[u] = h /\ At(u, {"put", "putin"})
  BY <1>1 DEF Dying, PoolInv, Alive
<1>3. u # t /\ hnd[u] # NoItem
  BY <1>2, PoolAssumption
<1> QED
  BY <1>2, <1>3 DEF PoolInv, PrivateHandles

(* With finitely many items, not all of which are referred to, the pool is  *)
(* below its limit when a caller gets a new reference.                      *)
LEMMA BelowLimit ==
  ASSUME PoolInv, MadeCounts, NEW t \in Threads, Fresh(t), Limit >= 0
  PROVE  Cardinality(Objects!InUse) < Limit
<1> DEFINE U == Objects!InUse
<1>1. U \subseteq exists
  BY DEF Objects!InUse, PoolInv, Allocated
<1>2. itm[t] \in exists /\ itm[t] \notin U
  BY PoolAssumption DEF Objects!InUse, PoolInv, Allocated, Disjoint, Held, Fresh, Places, PlaceOK, At
<1>3. IsFiniteSet(exists) /\ Cardinality(exists) \in Nat
  BY ExistsFinite DEF PoolInv
<1>4. IsFiniteSet(U) /\ Cardinality(U) \in Nat
  BY <1>1, <1>3, FS_Subset, FS_CardinalityType
<1>5. Cardinality(U \cup {itm[t]}) = Cardinality(U) + 1
  BY <1>2, <1>4, FS_AddElement
<1>6. Cardinality(U \cup {itm[t]}) <= Cardinality(exists)
  BY <1>1, <1>2, <1>3, FS_Subset
<1>7. Cardinality(U) + 1 <= Cardinality(exists)
  BY <1>5, <1>6
<1>8. Cardinality(exists) <= made /\ made + limit = Limit /\ limit >= 0
      /\ made \in Nat /\ limit \in Int
  BY DEF MadeCounts, PoolInv, Counted, TypeOK
<1> QED
  BY <1>3, <1>4, <1>7, <1>8, PoolAssumption

(* rpmioLinkPoolItem makes the pointer to a new object, or one pointer more *)
(* to an object that is not destroyed.                                      *)
LEMMA LinkImplements ==
  ASSUME PoolInv, MadeCounts, NEW t \in Threads, LinkTwist(t)
  PROVE  Objects!ObjNext
<1> DEFINE h == hnd[t]
           i == itm[t]
<1>1. /\ h \in Handles /\ holds[h] = NoItem /\ i \in Items /\ At(t, {"linkin"})
      /\ keep[t] # NoItem => keep[t] \in Handles /\ holds[keep[t]] = i
      /\ holds' = [holds EXCEPT ![h] = i] /\ live' = live
  BY PoolAssumption DEF PoolInv, TypeOK, LinkTwist, Return, Go, Places, PlaceOK, At
<1>2. i # NoItem /\ holds \in [Handles -> Items \cup {NoItem}]
  BY <1>1, PoolAssumption DEF PoolInv, TypeOK
<1>3. live[i]
  <2>1. CASE keep[t] = NoItem
    BY <1>1, <2>1 DEF PoolInv, Disjoint, Fresh, At
  <2>2. CASE keep[t] # NoItem
    <3>1. keep[t] \notin Dying
      BY <1>1, <2>2, MineAlive DEF At
    <3> QED
      BY <1>1, <1>2, <2>2, <3>1 DEF Dying
  <2> QED
    BY <2>1, <2>2
<1>4. Dying' = Dying
  BY <1>1, <1>2, <1>3 DEF Dying
<1>5. CASE keep[t] = NoItem
  <2>1. Fresh(t)
    BY <1>1, <1>5 DEF Fresh, At
  <2>2. Limit >= 0 => Cardinality(Objects!InUse) < Limit
    BY <2>1, BelowLimit
  <2>3. i \in Items \ Objects!InUse
    BY <1>1, <2>1 DEF Objects!InUse, PoolInv, Disjoint, Held
  <2>4. Objects!Obtain(h)
    <3>1. Objects!Cardinality(Objects!InUse) = Cardinality(Objects!InUse)
      BY DEF Objects!Cardinality, Cardinality
    <3> QED
      BY <1>1, <1>4, <2>2, <2>3, <3>1 DEF Objects!Obtain
  <2> QED
    BY <1>1, <2>4 DEF Objects!ObjNext
<1>6. CASE keep[t] # NoItem
  <2>1. keep[t] \notin Dying
    BY <1>1, <1>6, MineAlive DEF At
  <2>2. Objects!Share(keep[t], h)
    BY <1>1, <1>2, <1>4, <1>6, <2>1 DEF Objects!Share
  <2> QED
    BY <1>1, <1>6, <2>2 DEF Objects!ObjNext
<1> QED
  BY <1>5, <1>6

(* A pointer that is given back while another one stays is no more.         *)
LEMMA DropImplements ==
  ASSUME PoolInv, NEW t \in Threads, NEW from \in {"unlinkin", "freein"},
         DropTwist(t, from),
         NEW k \in Handles, k # hnd[t], holds[k] = itm[t]
  PROVE  Objects!ObjNext
<1> DEFINE h == hnd[t]
<1>1. /\ h \in Handles /\ holds[h] = itm[t] /\ itm[t] \in Items
      /\ At(t, {"unlinkin", "freein"})
      /\ holds' = [holds EXCEPT ![h] = NoItem] /\ live' = live
  BY DEF PoolInv, DropTwist, Return, Go, Places, PlaceOK, At
<1>2. holds \in [Handles -> Items \cup {NoItem}] /\ itm[t] # NoItem
  BY <1>1, PoolAssumption DEF PoolInv, TypeOK
<1>3. h \notin Dying
  BY <1>1, MineAlive DEF At
<1>4. Dying' = Dying
  BY <1>1, <1>2, <1>3 DEF Dying
<1>5. Objects!Unshare(h)
  BY <1>1, <1>2, <1>4 DEF Objects!Unshare
<1> QED
  BY <1>1, <1>5 DEF Objects!ObjNext

(* pool->fini runs for the last pointer, and for an object that is alive.   *)
LEMMA FiniImplements ==
  ASSUME PoolInv, NEW t \in Threads, FreeFini(t)
  PROVE  Objects!ObjNext
<1> DEFINE h == hnd[t]
           i == itm[t]
<1>1. /\ h \in Handles /\ holds[h] = i /\ i \in Items /\ At(t, {"freein"})
      /\ holds' = holds /\ live' = [live EXCEPT ![i] = FALSE] /\ LastRef(i)
  BY DEF PoolInv, FreeFini, Go, Places, PlaceOK, At
<1>2. /\ holds \in [Handles -> Items \cup {NoItem}] /\ i # NoItem
      /\ live \in [Items -> BOOLEAN]
  BY <1>1, PoolAssumption DEF PoolInv, TypeOK
<1>3. h \notin Dying
  BY <1>1, MineAlive DEF At
<1>4. \A k \in Handles : holds[k] = i => k = h
  BY <1>1, LastOne
<1>5. Dying' = Dying \cup {h}
  BY <1>1, <1>2, <1>4 DEF Dying
<1>6. Objects!Destroy(h)
  BY <1>1, <1>2, <1>3, <1>4, <1>5 DEF Objects!Destroy
<1> QED
  BY <1>1, <1>6 DEF Objects!ObjNext

(* Once the item is listed nothing refers to the destroyed object.          *)
LEMMA PutImplements ==
  ASSUME PoolInv, Destroyed, NEW t \in Threads, PutList(t)
  PROVE  Objects!ObjNext
<1> DEFINE h == hnd[t]
<1>1. /\ h \in Handles /\ holds[h] = itm[t] /\ itm[t] \in Items /\ At(t, {"putin"})
      /\ holds' = [holds EXCEPT ![h] = NoItem] /\ live' = live
  BY DEF PoolInv, PutList, Go, Places, PlaceOK, At
<1>2. holds \in [Handles -> Items \cup {NoItem}] /\ itm[t] # NoItem
  BY <1>1, PoolAssumption DEF PoolInv, TypeOK
<1>3. ~live[itm[t]]
  BY <1>1 DEF Destroyed, At
<1>4. h \in Dying /\ Dying' = Dying \ {h}
  BY <1>1, <1>2, <1>3 DEF Dying
<1>5. Objects!Forget(h)
  BY <1>1, <1>4 DEF Objects!Forget
<1> QED
  BY <1>1, <1>5 DEF Objects!ObjNext

(* The steps that only work on locks, the list and the count of items leave *)
(* pointers and objects alone.                                              *)
LEMMA OthersStutter ==
  ASSUME PoolInv, holds' = holds,
         \A h \in Handles : holds[h] # NoItem => live'[holds[h]] = live[holds[h]]
  PROVE  UNCHANGED Objects!objVars
  BY DEF Objects!objVars, Dying

(* Every step of the pool is a step of the promised pool or a stutter.      *)
LEMMA StepImplements ==
  PoolInv /\ Destroyed /\ MadeCounts /\ [Next]_vars
      => [Objects!ObjNext]_Objects!objVars
<1> SUFFICES ASSUME PoolInv, Destroyed, MadeCounts, [Next]_vars
             PROVE  Objects!ObjNext \/ UNCHANGED Objects!objVars
  OBVIOUS
<1>1. CASE UNCHANGED vars
  BY <1>1, OthersStutter DEF vars
<1>2. ASSUME NEW t \in Threads, Step(t)
      PROVE  Objects!ObjNext \/ UNCHANGED Objects!objVars
  <2>1. CASE GetPossess(t) \/ GetWait(t) \/ LinkPossess(t) \/ UnlinkPossess(t)
             \/ FreePossess(t) \/ PutPossess(t) \/ PutTwist(t)
    <3>1. holds' = holds /\ live' = live
      BY <2>1 DEF GetPossess, GetWait, LinkPossess, UnlinkPossess, FreePossess,
                  UsePossess, PutPossess, PutTwist, itemVars
    <3> QED
      BY <3>1, OthersStutter
  <2>2. CASE GetReuse(t)
    <3>1. \A u \in Threads : pc[u] # "exit"
      BY <2>2 DEF GetReuse, Go, PoolInv, ExitTogether
    <3>2. head = avail[1] /\ 1 \in 1..Len(avail)
      BY <2>2, <3>1, TakeFirst DEF GetReuse
    <3>3. \A h \in Handles : holds[h] # head
      BY <3>2 DEF PoolInv, Disjoint, Held
    <3>4. holds' = holds /\ live' = [live EXCEPT ![head] = TRUE]
      BY <2>2 DEF GetReuse
    <3>5. \A h \in Handles : holds[h] # NoItem => live'[holds[h]] = live[holds[h]]
      BY <3>3, <3>4 DEF PoolInv, TypeOK
    <3> QED
      BY <3>4, <3>5, OthersStutter
  <2>3. CASE GetNew(t)
    <3>1. PICK i \in Items \ exists : live' = [live EXCEPT ![i] = TRUE]
      BY <2>3 DEF GetNew
    <3>2. \A h \in Handles : holds[h] # NoItem => live'[holds[h]] = live[holds[h]]
      BY <3>1 DEF PoolInv, TypeOK, Allocated
    <3>3. holds' = holds
      BY <2>3 DEF GetNew
    <3> QED
      BY <3>2, <3>3, OthersStutter
  <2>4. CASE LinkTwist(t)
    BY <2>4, LinkImplements
  <2>5. CASE UnlinkTwist(t)
    <3>1. /\ DropTwist(t, "unlinkin") /\ keep[t] \in Handles
          /\ keep[t] # hnd[t] /\ holds[keep[t]] = itm[t]
      BY <2>5 DEF UnlinkTwist, DropTwist, Return, Go, PoolInv, Places, PlaceOK, At
    <3> QED
      BY <3>1, DropImplements
  <2>6. CASE FreeMore(t)
    <3>1. DropTwist(t, "freein") /\ At(t, {"freein"}) /\ ~LastRef(itm[t])
      BY <2>6 DEF FreeMore, At
    <3>2. PICK k \in Handles : holds[k] = itm[t] /\ k # hnd[t]
      BY <3>1, NotLastOne
    <3> QED
      BY <3>1, <3>2, DropImplements
  <2>7. CASE FreeFini(t)
    BY <2>7, FiniImplements
  <2>8. CASE PutList(t)
    BY <2>8, PutImplements
  <2> QED
    BY <1>2, <2>1, <2>2, <2>3, <2>4, <2>5, <2>6, <2>7, <2>8 DEF Step
<1>3. ASSUME NEW t \in Threads, Call(t) PROVE UNCHANGED Objects!objVars
  <2>1. holds' = holds /\ live' = live
    BY <1>3 DEF Call, GetPool, FreeItem, Link, Unlink, itemVars
  <2> QED
    BY <2>1, OthersStutter
<1>4. CASE FreePool \/ Exited
  <2>1. holds' = holds /\ live' = live
    BY <1>4 DEF FreePool, Exited, vars
  <2> QED
    BY <2>1, OthersStutter
<1> QED
  BY <1>1, <1>2, <1>3, <1>4 DEF Next

-----------------------------------------------------------------------------
(* The theorems.                                                            *)

(* pool->made is never less than the number of items that exist, and no     *)
(* object that is being put comes back to life.                             *)
THEOREM CountsAndDeaths == Spec => [](Destroyed /\ MadeCounts)
<1>1. Init => Destroyed /\ MadeCounts
  BY FS_EmptySet DEF Init, Destroyed, MadeCounts, At
<1>2. (PoolInv /\ Destroyed /\ MadeCounts) /\ [Next]_vars
        => (PoolInv /\ Destroyed /\ MadeCounts)'
  <2>1. PoolInv /\ [Next]_vars => PoolInv'
    BY TypeStep, PlacesStep, PrivateStep, OwnsStep, AllocatedStep, DisjointStep,
       LastPointerStep, AliveStep, AccountedStep, ExitStep, CountStep, ListStep,
       CountedStep, SleepersStep DEF PoolInv
  <2> QED
    BY <2>1, DestroyedStep, MadeStep
<1> QED
  BY <1>1, <1>2, InitInv, PTL DEF Spec

(* The pool of rpmio/rpmmalloc.c implements the abstract one: whatever the  *)
(* interleaving of rpmioGetPool, rpmioLinkPoolItem, rpmioUnlinkPoolItem and *)
(* rpmioFreePoolItem, their pointers and destructions are those of calls    *)
(* that are atomic, within the limit of the pool.                           *)
THEOREM PoolImplementsObjects == Spec => ImplementsObjects
<1>1. Init => Objects!ObjInit
  BY DEF Init, Objects!ObjInit, Dying
<1>2. PoolInv /\ Destroyed /\ MadeCounts /\ [Next]_vars
        => [Objects!ObjNext]_Objects!objVars
  BY StepImplements
<1> QED
  BY <1>1, <1>2, PoolInvariant, CountsAndDeaths, PTL
     DEF Spec, ImplementsObjects, Objects!ObjSpec
=============================================================================
