----------------------------- MODULE ObjectPool -----------------------------
(***************************************************************************)
(* What a pool of rpmio/rpmmalloc.c promises to the code that shares       *)
(* objects: no lists, locks or counts, only pointers and the moment at     *)
(* which an object is destroyed.  RpmPool implements it.                   *)
(***************************************************************************)
EXTENDS Integers, FiniteSets

CONSTANTS Items, Handles, Limit, NoItem

VARIABLES refs,    \* [Handles -> the object the pointer refers to]
          dying    \* pointers whose object is destroyed, not yet forgotten

objVars == <<refs, dying>>

InUse == {refs[h] : h \in Handles} \ {NoItem}

ObjInit ==
    /\ refs = [h \in Handles |-> NoItem]
    /\ dying = {}

(* A new object is an item nobody refers to; a bounded pool never has more  *)
(* objects in use than its limit.                                          *)
Obtain(h) ==
    /\ refs[h] = NoItem
    /\ Limit >= 0 => Cardinality(InUse) < Limit
    /\ \E i \in Items \ InUse : refs' = [refs EXCEPT ![h] = i]
    /\ UNCHANGED dying

(* One more pointer to an object that is not destroyed.                     *)
Share(k, h) ==
    /\ refs[h] = NoItem /\ refs[k] # NoItem /\ k \notin dying
    /\ refs' = [refs EXCEPT ![h] = refs[k]]
    /\ UNCHANGED dying

(* A pointer goes away and leaves another one.                              *)
Unshare(h) ==
    /\ refs[h] # NoItem
    /\ \E k \in Handles \ {h} : refs[k] = refs[h]
    /\ refs' = [refs EXCEPT ![h] = NoItem]
    /\ UNCHANGED dying

(* fini of the pool, under the last pointer and once only.                  *)
Destroy(h) ==
    /\ refs[h] # NoItem /\ h \notin dying
    /\ \A k \in Handles \ {h} : refs[k] # refs[h]
    /\ dying' = dying \cup {h}
    /\ UNCHANGED refs

Forget(h) ==
    /\ h \in dying
    /\ refs' = [refs EXCEPT ![h] = NoItem]
    /\ dying' = dying \ {h}

ObjNext ==
    \/ \E h \in Handles : Obtain(h) \/ Unshare(h) \/ Destroy(h) \/ Forget(h)
    \/ \E k, h \in Handles : Share(k, h)

ObjSpec == ObjInit /\ [][ObjNext]_objVars
=============================================================================
