------------------------------- MODULE RpmPool -------------------------------
(***************************************************************************)
(* The reference counted object pool of rpmio/rpmmalloc.c.                 *)
(*                                                                         *)
(* Every object of the library (transaction sets, dependency sets, file    *)
(* info sets, headers, iterators, databases, ...) starts with an           *)
(* rpmioItem: a lock "use" whose value is the number of references, and    *)
(* a field "pool" that names the pool of an item in use and is the link to *)
(* the next item of an item on the list of available items.  The pool has  *)
(* a lock "have" whose value is the number of items on that list.          *)
(*                                                                         *)
(* A handle is a pointer variable of the program.  The program's own       *)
(* discipline is that two threads do not use one handle at the same time   *)
(* (hnd, keep): several handles, of several threads, refer to one item.    *)
(***************************************************************************)
EXTENDS YarnLock, Sequences, FiniteSets

CONSTANTS Items,      \* addresses xcalloc can return: bounds the items made
          Handles,    \* pointer variables of the program
          Limit,      \* the limit given to rpmioNewPool, -1 for none
          NoItem,     \* NULL
          ThePool     \* what item->pool holds while the item is in use

ASSUME PoolAssumption ==
    /\ Threads # {}
    /\ Limit \in Int /\ Limit >= -1
    /\ IsFiniteSet(Handles)
    /\ IsFiniteSet(Items) /\ Cardinality(Items) >= Cardinality(Handles)
    /\ NoItem \notin Items /\ NoItem \notin Handles
    /\ ThePool \notin Items /\ ThePool # NoItem

(* The address of pool->head, which pool->tail holds when the list is empty *)
HeadSlot == NoItem

VARIABLES have,      \* pool->have
          head,      \* pool->head
          tail,      \* pool->tail: HeadSlot or the item whose pool field it is
          limit,     \* pool->limit
          made,      \* pool->made
          pool,      \* [Items -> item->pool]
          use,       \* [Items -> item->use]
          live,      \* [Items -> has the item contents fini did not destroy]
          exists,    \* items xcalloc returned and _free has not taken back
          holds,     \* [Handles -> the item the handle refers to]
          pc, hnd, keep, itm,   \* per thread: where it is and what it works on
          avail      \* history: the list of available items, as a sequence

poolVars == <<have, head, tail, limit, made>>
itemVars == <<pool, use, live, exists>>
thrVars  == <<pc, hnd, keep, itm>>
vars == <<have, head, tail, limit, made, pool, use, live, exists, holds, pc,
          hnd, keep, itm, avail>>

PCs == {"idle", "get", "asleep", "getin", "link", "linkin", "unlink",
        "unlinkin", "free", "freein", "put", "putin", "puttwist", "exit"}

Init ==
    /\ have = NewLock(0)
    /\ head = NoItem /\ tail = HeadSlot
    /\ limit = Limit /\ made = 0
    /\ pool = [i \in Items |-> NoItem]
    /\ use = [i \in Items |-> NewLock(0)]
    /\ live = [i \in Items |-> FALSE]
    /\ exists = {}
    /\ holds = [h \in Handles |-> NoItem]
    /\ pc = [t \in Threads |-> "idle"]
    /\ hnd = [t \in Threads |-> NoItem]
    /\ keep = [t \in Threads |-> NoItem]
    /\ itm = [t \in Threads |-> NoItem]
    /\ avail = <<>>

Busy(h) == \E t \in Threads : hnd[t] = h \/ keep[t] = h

Go(t, from, to) == pc[t] = from /\ pc' = [pc EXCEPT ![t] = to]

(* The caller's call is over.                                              *)
Return(t, from) ==
    /\ Go(t, from, "idle")
    /\ hnd' = [hnd EXCEPT ![t] = NoItem]
    /\ keep' = [keep EXCEPT ![t] = NoItem]
    /\ itm' = [itm EXCEPT ![t] = NoItem]

-----------------------------------------------------------------------------
(* rpmioGetPool, called by the xxxGetPool function of every object type.   *)

GetPool(t, h) ==
    /\ Go(t, "idle", "get")
    /\ holds[h] = NoItem /\ ~Busy(h)
    /\ hnd' = [hnd EXCEPT ![t] = h]
    /\ UNCHANGED <<poolVars, itemVars, holds, keep, itm, avail>>

GetPossess(t) ==
    /\ pc[t] \in {"get", "asleep"}
    /\ pc' = [pc EXCEPT ![t] = "getin"]
    /\ Possessable(have, t)
    /\ have' = Possess(have, t)
    /\ UNCHANGED <<head, tail, limit, made, itemVars, holds, hnd, keep, itm, avail>>

(* yarnWaitFor(pool->have, NOT_TO_BE, 0): no item and none can be made.    *)
MustWait == limit = 0 /\ have.value = 0

GetWait(t) ==
    /\ Go(t, "getin", "asleep")
    /\ MustWait
    /\ have' = WaitFor(have, t)
    /\ UNCHANGED <<head, tail, limit, made, itemVars, holds, hnd, keep, itm, avail>>

(* if (pool->head == NULL) pool->tail = &pool->head;                       *)
TailBefore(h) == IF h = NoItem THEN HeadSlot ELSE tail

(* An item is available: pull it from the list.                            *)
GetReuse(t) ==
    /\ Go(t, "getin", "link")
    /\ ~MustWait
    /\ head # NoItem
    /\ itm' = [itm EXCEPT ![t] = head]
    /\ head' = pool[head]
    /\ tail' = TailBefore(pool[head])
    /\ pool' = [pool EXCEPT ![head] = ThePool]
    /\ live' = [live EXCEPT ![head] = TRUE]
    /\ have' = TwistBy(have, -1)
    /\ avail' = Tail(avail)
    /\ UNCHANGED <<limit, made, use, exists, holds, hnd, keep>>

LimitAfterNewLate == IF limit > 1 THEN limit - 1 ELSE limit

(* if (pool->limit > 0) pool->limit--;                                     *)
LimitAfterNew == IF limit > 0 THEN limit - 1 ELSE limit

(* Nothing available and no need to wait: make an item.                    *)
GetNew(t) ==
    /\ Go(t, "getin", "link")
    /\ ~MustWait
    /\ head = NoItem
    /\ limit # 0                            \* assert(pool->limit != 0)
    /\ limit' = LimitAfterNew
    /\ made' = made + 1
    /\ have' = Release(have)
    /\ \E i \in Items \ exists :
          /\ exists' = exists \cup {i}
          /\ itm' = [itm EXCEPT ![t] = i]
          /\ pool' = [pool EXCEPT ![i] = ThePool]
          /\ use' = [use EXCEPT ![i] = NewLock(0)]
          /\ live' = [live EXCEPT ![i] = TRUE]
    /\ UNCHANGED <<head, tail, holds, hnd, keep, avail>>

-----------------------------------------------------------------------------
(* rpmioLinkPoolItem.  The first link of a new object continues the call   *)
(* that got it; later ones copy the reference of a handle k that stays.    *)

Link(t, k, h) ==
    /\ Go(t, "idle", "link")
    /\ holds[k] # NoItem /\ ~Busy(k)
    /\ holds[h] = NoItem /\ ~Busy(h)
    /\ hnd' = [hnd EXCEPT ![t] = h]
    /\ keep' = [keep EXCEPT ![t] = k]
    /\ itm' = [itm EXCEPT ![t] = holds[k]]
    /\ UNCHANGED <<poolVars, itemVars, holds, avail>>

UsePossess(t, from, to) ==
    /\ Go(t, from, to)
    /\ Possessable(use[itm[t]], t)
    /\ use' = [use EXCEPT ![itm[t]] = Possess(@, t)]
    /\ UNCHANGED <<poolVars, pool, live, exists, holds, hnd, keep, itm, avail>>

LinkPossess(t) == UsePossess(t, "link", "linkin")

LinkTwist(t) ==
    /\ Return(t, "linkin")
    /\ use' = [use EXCEPT ![itm[t]] = TwistBy(@, 1)]
    /\ holds' = [holds EXCEPT ![hnd[t]] = itm[t]]
    /\ UNCHANGED <<poolVars, pool, live, exists, avail>>

-----------------------------------------------------------------------------
(* rpmioUnlinkPoolItem gives a reference back and never frees.  Its callers *)
(* (mapFreeIterator, rpmpsFreeIterator) own another reference k meanwhile.  *)

Unlink(t, k, h) ==
    /\ Go(t, "idle", "unlink")
    /\ k # h
    /\ holds[h] # NoItem /\ holds[k] = holds[h]
    /\ ~Busy(k) /\ ~Busy(h)
    /\ hnd' = [hnd EXCEPT ![t] = h]
    /\ keep' = [keep EXCEPT ![t] = k]
    /\ itm' = [itm EXCEPT ![t] = holds[h]]
    /\ UNCHANGED <<poolVars, itemVars, holds, avail>>

UnlinkPossess(t) == UsePossess(t, "unlink", "unlinkin")

DropTwist(t, from) ==
    /\ Return(t, from)
    /\ use' = [use EXCEPT ![itm[t]] = TwistBy(@, -1)]
    /\ holds' = [holds EXCEPT ![hnd[t]] = NoItem]
    /\ UNCHANGED <<poolVars, pool, live, exists, avail>>

UnlinkTwist(t) == DropTwist(t, "unlinkin")

-----------------------------------------------------------------------------
(* rpmioFreePoolItem and rpmioPutPool.                                     *)

FreeItem(t, h) ==
    /\ Go(t, "idle", "free")
    /\ holds[h] # NoItem /\ ~Busy(h)
    /\ hnd' = [hnd EXCEPT ![t] = h]
    /\ itm' = [itm EXCEPT ![t] = holds[h]]
    /\ UNCHANGED <<poolVars, itemVars, holds, keep, avail>>

FreePossess(t) == UsePossess(t, "free", "freein")

(* Mutant: one more.                                                       *)
LastRefTooEarly(i) == use[i].value <= 2

(* if ((use = yarnPeekLock(item->use)) <= 1L)                              *)
LastRef(i) == use[i].value <= 1

FreeMore(t) == pc[t] = "freein" /\ ~LastRef(itm[t]) /\ DropTwist(t, "freein")

(* Mutant: the list is not locked before the item is put on it.            *)
FreeFiniEarly(t) ==
    /\ Go(t, "freein", "putin")
    /\ LastRef(itm[t])
    /\ live' = [live EXCEPT ![itm[t]] = FALSE]
    /\ use' = [use EXCEPT ![itm[t]] = Release(@)]
    /\ UNCHANGED <<poolVars, pool, exists, holds, hnd, keep, itm, avail>>

(* The last reference: pool->fini destroys the contents, with use held.    *)
FreeFini(t) ==
    /\ Go(t, "freein", "put")
    /\ LastRef(itm[t])
    /\ live' = [live EXCEPT ![itm[t]] = FALSE]
    /\ UNCHANGED <<poolVars, pool, use, exists, holds, hnd, keep, itm, avail>>

PutPossess(t) ==
    /\ Go(t, "put", "putin")
    /\ Possessable(have, t)
    /\ have' = Possess(have, t)
    /\ UNCHANGED <<head, tail, limit, made, itemVars, holds, hnd, keep, itm, avail>>

(* The item goes to the end of the list, through pool->tail.                *)
PutList(t) ==
    /\ Go(t, "putin", "puttwist")
    /\ LET i == itm[t]
           ended == [pool EXCEPT ![i] = NoItem]
       IN /\ head' = IF tail = HeadSlot THEN i ELSE head
          /\ pool' = IF tail = HeadSlot THEN ended ELSE [ended EXCEPT ![tail] = i]
          /\ tail' = i
          /\ avail' = Append(avail, i)
    /\ have' = TwistBy(have, 1)
    /\ holds' = [holds EXCEPT ![hnd[t]] = NoItem]
    /\ UNCHANGED <<limit, made, use, live, exists, hnd, keep, itm>>

PutTwist(t) ==
    /\ Return(t, "puttwist")
    /\ use' = [use EXCEPT ![itm[t]] = TwistTo(@, 0)]
    /\ UNCHANGED <<poolVars, pool, live, exists, holds, avail>>

-----------------------------------------------------------------------------
(* rpmioFreePool, which rpmioClean calls for every pool when the program   *)
(* exits and no other call is in progress.                                 *)

FreePool ==
    /\ \A t \in Threads : pc[t] = "idle"
    /\ pc' = [t \in Threads |-> "exit"]
    /\ exists' = exists \ {avail[n] : n \in 1..Len(avail)}
    /\ head' = NoItem
    /\ avail' = <<>>
    /\ UNCHANGED <<have, tail, limit, made, pool, use, live, holds, hnd, keep, itm>>

Exited == (\A t \in Threads : pc[t] = "exit") /\ UNCHANGED vars

-----------------------------------------------------------------------------
Step(t) ==
    \/ GetPossess(t) \/ GetWait(t) \/ GetReuse(t) \/ GetNew(t)
    \/ LinkPossess(t) \/ LinkTwist(t)
    \/ UnlinkPossess(t) \/ UnlinkTwist(t)
    \/ FreePossess(t) \/ FreeMore(t) \/ FreeFini(t)
    \/ PutPossess(t) \/ PutList(t) \/ PutTwist(t)

Call(t) ==
    \/ \E h \in Handles : GetPool(t, h) \/ FreeItem(t, h)
    \/ \E k, h \in Handles : Link(t, k, h) \/ Unlink(t, k, h)

Next ==
    \/ \E t \in Threads : Step(t) \/ Call(t)
    \/ FreePool \/ Exited

Spec == Init /\ [][Next]_vars

(* A thread inside a call runs on, and a mutex that is released again and  *)
(* again is eventually granted to a thread that wants it.                  *)
FairSpec == Spec /\ \A t \in Threads : SF_vars(Step(t))

-----------------------------------------------------------------------------
(* Every variable holds what its C field can hold, and a lock is owned by  *)
(* a thread whose place in the code is between possess and release.        *)
TypeOK ==
    /\ have \in YarnLocks
    /\ head \in Items \cup {NoItem} /\ tail \in Items \cup {HeadSlot}
    /\ limit \in Int /\ limit >= -1 /\ made \in Nat
    /\ pool \in [Items -> Items \cup {NoItem, ThePool}]
    /\ use \in [Items -> YarnLocks]
    /\ live \in [Items -> BOOLEAN] /\ exists \in SUBSET Items
    /\ holds \in [Handles -> Items \cup {NoItem}]
    /\ pc \in [Threads -> PCs]
    /\ hnd \in [Threads -> Handles \cup {NoItem}]
    /\ keep \in [Threads -> Handles \cup {NoItem}]
    /\ itm \in [Threads -> Items \cup {NoItem}]
    /\ avail \in Seq(Items)

Holders(i) == {h \in Handles : holds[h] = i}

BeingPut(i) == \E t \in Threads : pc[t] = "puttwist" /\ itm[t] = i

(* The reference count of rpmioLinkPoolItem, rpmioUnlinkPoolItem and       *)
(* rpmioFreePoolItem is the number of pointers to the item, except while   *)
(* rpmioPutPool has listed the item and not reset its count yet.           *)
RefCount ==
    \A i \in exists : ~BeingPut(i) => use[i].value = Cardinality(Holders(i))

(* What a pointer refers to is never on the list of available items, and   *)
(* its contents are destroyed only under rpmioFreePoolItem of the last     *)
(* pointer: no thread can reach an object after its fini.                  *)
NoUseAfterFree ==
    \A h \in Handles : holds[h] # NoItem =>
        /\ \A n \in 1..Len(avail) : avail[n] # holds[h]
        /\ ~live[holds[h]] =>
              /\ Holders(holds[h]) = {h}
              /\ \E t \in Threads : hnd[t] = h /\ pc[t] \in {"put", "putin"}

(* rpmioGetPool never gives one item to two callers, nor to a caller while *)
(* another call still has it: "remember the pool this belongs to".         *)
NoDoubleGet ==
    \A t, u \in Threads :
        t # u /\ pc[t] \in {"link", "linkin"} /\ keep[t] = NoItem
            => /\ itm[u] = itm[t] => pc[u] = "puttwist"
               /\ Holders(itm[t]) = {}
               /\ pool[itm[t]] = ThePool

(* The pointers head, tail and item->pool of rpmioGetPool and rpmioPutPool *)
(* represent the sequence of available items, although item->pool is also  *)
(* the back pointer of items in use; "have" counts them.                   *)
ListRep ==
    (\A t \in Threads : pc[t] # "exit") =>
    /\ have.value = Len(avail)
    /\ head = IF avail = <<>> THEN NoItem ELSE avail[1]
    /\ tail = IF avail = <<>> THEN HeadSlot ELSE avail[Len(avail)]
    /\ \A n \in 1..Len(avail) :
          pool[avail[n]] = IF n = Len(avail) THEN NoItem ELSE avail[n + 1]

(* A bounded pool makes at most limit items (rpmioNewPool), whatever the   *)
(* interleaving of the callers, and assert(pool->limit != 0) of            *)
(* rpmioGetPool cannot fail.                                               *)
LimitKept ==
    /\ Limit >= 0 => made + limit = Limit
    /\ \A t \in Threads :
          pc[t] = "getin" /\ ~MustWait /\ head = NoItem => limit # 0

(* At exit, rpmioFreePool frees every item that was made, unless a pointer *)
(* still refers to one ("made %d, count %d ... memory leak").              *)
NothingLost ==
    (\A t \in Threads : pc[t] = "exit") =>
        exists = {holds[h] : h \in Handles} \ {NoItem}

(* A caller that sleeps for an item of a bounded pool is woken when one is *)
(* put back: no thread stays asleep while an item is on the list.          *)
NoLostWakeup ==
    \A t \in Threads : pc[t] = "asleep" /\ t \in have.asleep => avail = <<>>

(* Under fairness every rpmioLinkPoolItem and rpmioFreePoolItem returns:   *)
(* taking use and then have cannot block two callers on each other.        *)
CallsReturn ==
    \A t \in Threads :
        pc[t] \in {"link", "unlink", "free"} ~> pc[t] = "idle"

-----------------------------------------------------------------------------
(* The inductive invariant: what is true between any two steps of the pool *)
(* and of its callers, strong enough that every step keeps it.             *)

At(t, places) == pc[t] \in places

(* A thread that got an item from the pool and has no other pointer to it. *)
Fresh(t) == At(t, {"link", "linkin"}) /\ keep[t] = NoItem

Held(i) == \E h \in Handles : holds[h] = i

Listed(i) == \E n \in 1..Len(avail) : avail[n] = i

(* What the local variables of a call stand for at each of its places.     *)
PlaceOK(t) ==
    /\ At(t, {"idle", "exit"}) =>
          hnd[t] = NoItem /\ keep[t] = NoItem /\ itm[t] = NoItem
    /\ ~At(t, {"idle", "exit"}) => hnd[t] \in Handles
    /\ At(t, {"get", "asleep", "getin"}) =>
          keep[t] = NoItem /\ itm[t] = NoItem /\ holds[hnd[t]] = NoItem
    /\ At(t, {"link", "linkin"}) =>
          /\ itm[t] \in Items /\ holds[hnd[t]] = NoItem
          /\ keep[t] # NoItem => holds[keep[t]] = itm[t]
    /\ At(t, {"unlink", "unlinkin"}) =>
          /\ itm[t] \in Items /\ holds[hnd[t]] = itm[t]
          /\ keep[t] \in Handles /\ keep[t] # hnd[t] /\ holds[keep[t]] = itm[t]
    /\ At(t, {"free", "freein", "put", "putin"}) =>
          itm[t] \in Items /\ holds[hnd[t]] = itm[t] /\ keep[t] = NoItem
    /\ At(t, {"puttwist"}) =>
          itm[t] \in Items /\ holds[hnd[t]] = NoItem /\ keep[t] = NoItem

Places == \A t \in Threads : PlaceOK(t)

(* No two threads use one handle at the same time.                         *)
PrivateHandles ==
    \A t, u \in Threads : t # u =>
        /\ hnd[t] # NoItem => hnd[t] # hnd[u] /\ hnd[t] # keep[u]
        /\ keep[t] # NoItem => keep[t] # keep[u]

(* Between yarnPossess and yarnTwist a thread owns the lock of its item.    *)
OwnsUse ==
    \A t \in Threads :
        At(t, {"linkin", "unlinkin", "freein", "put", "putin", "puttwist"})
            => use[itm[t]].owner = t

(* Every pointer is to memory that xcalloc returned and _free did not take. *)
Allocated ==
    /\ \A h \in Handles : holds[h] # NoItem => holds[h] \in exists
    /\ \A t \in Threads : itm[t] # NoItem => itm[t] \in exists
    /\ \A n \in 1..Len(avail) : avail[n] \in exists

(* The three owners of an item exclude each other: the list of available    *)
(* items, the pointers to it, the caller that just got it.                  *)
Disjoint ==
    /\ \A n \in 1..Len(avail) :
          /\ ~Held(avail[n])
          /\ \A k \in 1..Len(avail) : k # n => avail[k] # avail[n]
    /\ \A t \in Threads : Fresh(t) =>
          /\ ~Held(itm[t]) /\ ~Listed(itm[t])
          /\ live[itm[t]] /\ pool[itm[t]] = ThePool
          /\ \A u \in Threads \ {t} : itm[u] = itm[t] => At(u, {"puttwist"})

(* An item about to be listed has one pointer left, and none after that     *)
(* until its count is reset.                                                *)
LastPointer ==
    \A t \in Threads :
        /\ At(t, {"put", "putin"}) =>
              \A h \in Handles : holds[h] = itm[t] => h = hnd[t]
        /\ At(t, {"puttwist"}) => ~Held(itm[t])

(* Contents are destroyed only under the last pointer.                      *)
Alive ==
    \A h \in Handles :
        holds[h] # NoItem /\ ~live[holds[h]]
            => \E t \in Threads : hnd[t] = h /\ At(t, {"put", "putin"})

(* Nobody loses an item.                                                    *)
Accounted ==
    \A i \in exists :
        Held(i) \/ Listed(i) \/ \E t \in Threads : Fresh(t) /\ itm[t] = i

(* rpmioFreePool is the end of every thread, and leaves nothing on the list. *)
ExitTogether ==
    \A t, u \in Threads : pc[t] = "exit" => pc[u] = "exit" /\ avail = <<>>

(* A bounded pool counts down what it makes.                                *)
Counted == Limit >= 0 => limit >= 0 /\ made + limit = Limit

(* Whoever sleeps on have fell asleep with nothing listed since.            *)
Sleepers == have.asleep # {} => avail = <<>>

(* The inductive invariant.                                                 *)
PoolInv ==
    /\ TypeOK /\ Places /\ PrivateHandles /\ OwnsUse /\ Allocated /\ Disjoint
    /\ LastPointer /\ Alive /\ Accounted /\ ExitTogether
    /\ RefCount /\ ListRep /\ Counted /\ Sleepers

-----------------------------------------------------------------------------
(* The pointers whose object pool->fini has destroyed: rpmioFreePoolItem   *)
(* has them until rpmioPutPool has listed the item.                        *)
Dying == {h \in Handles : holds[h] # NoItem /\ ~live[holds[h]]}

Objects == INSTANCE ObjectPool WITH refs <- holds, dying <- Dying

(* RpmPool implements ObjectPool: the pointers and destructions of any     *)
(* interleaving of rpmioGetPool, rpmioLinkPoolItem, rpmioUnlinkPoolItem and *)
(* rpmioFreePoolItem are those of a pool whose calls are atomic.           *)
ImplementsObjects == Objects!ObjSpec
=============================================================================
