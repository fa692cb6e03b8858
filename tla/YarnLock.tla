------------------------------ MODULE YarnLock ------------------------------
(***************************************************************************)
(* The yarnLock of rpmio/yarn.c: a mutex, a condition variable and a long  *)
(* value in one structure.  This module only has the effects of the        *)
(* operations on one lock; the modules that use it say which thread calls  *)
(* which operation when.                                                   *)
(*                                                                         *)
(* A lock is a record: the thread that possesses it (or NoThread), its     *)
(* value, and the threads asleep in pthread_cond_wait.  The broadcast of   *)
(* yarnTwist empties the set of sleepers; a woken thread is not the owner  *)
(* until it possesses the mutex again and it re-tests its condition then.  *)
(***************************************************************************)
EXTENDS Integers

CONSTANTS Threads, NoThread

ASSUME NoThreadAssumption == NoThread \notin Threads

YarnLocks == [owner : Threads \cup {NoThread}, value : Int, asleep : SUBSET Threads]

NewLock(initial) == [owner |-> NoThread, value |-> initial, asleep |-> {}]

(* Mutant: the mutex is not looked at.                                      *)
PossessableAlways(bolt, t) == t \notin bolt.asleep

(* The mutex is free, so that yarnPossess, or the return from               *)
(* pthread_cond_wait, can succeed for a thread that is not asleep.          *)
Possessable(bolt, t) == bolt.owner = NoThread /\ t \notin bolt.asleep

Possess(bolt, t) ==
    [owner |-> t, value |-> bolt.value, asleep |-> bolt.asleep]

Release(bolt) ==
    [owner |-> NoThread, value |-> bolt.value, asleep |-> bolt.asleep]

TwistByNoUnlock(bolt, val) == [bolt EXCEPT !.value = @ + val, !.asleep = {}]

(* yarnTwist(bolt, BY, val): change the value, wake all, release.           *)
TwistBy(bolt, val) ==
    [owner |-> NoThread, value |-> bolt.value + val, asleep |-> {}]

TwistTo(bolt, val) ==
    [owner |-> NoThread, value |-> val, asleep |-> {}]

(* One turn of the loop of yarnWaitFor whose condition is false.            *)
WaitFor(bolt, t) ==
    [owner |-> NoThread, value |-> bolt.value, asleep |-> bolt.asleep \cup {t}]
=============================================================================
