----------------------------- MODULE RpmSqProofs -----------------------------
(***************************************************************************)
(* Proofs about RpmSq, for any number of scripts, foreign children, pipes  *)
(* and descriptors, with forks that fail, signals that interrupt and with  *)
(* SIGCHLD ignored or not, where the scripts run in the main thread: SqInv *)
(* is inductive; a script's status is its own, a script starts when its    *)
(* parent waits, and what it was given is given back once.                 *)
(***************************************************************************)
EXTENDS RpmSq, TLAPS

-----------------------------------------------------------------------------
(* Lemmas about the descriptors and the children of a state.                *)

(* At the fork the process has the two ends of one pipe open, and the child *)
(* gets both.                                                               *)
LEMMA ForkedWith ==
  ASSUME SqInv, pc = "fork", hpc = "off"
  PROVE  OpenIn(fd) = {<<fd[sq.p0][1], "r">>, <<fd[sq.p0][1], "w">>}
<1>1. PICK p \in Pipes : fd[sq.p0] = <<p, "r">> /\ fd[sq.p1] = <<p, "w">>
  BY DEF SqInv, FdsKnown, BothEnds, WriteEnd
<1>2. sq.p0 \in Fds /\ sq.p1 \in Fds
  BY DEF SqInv, FdsKnown, BothEnds, TypeOK, Element
<1>3. \A n \in Fds \ {sq.p0, sq.p1} : fd[n] = Closed
  BY DEF SqInv, FdsKnown, OnlyOpen
<1>4. <<p, "r">> # Closed /\ <<p, "w">> # Closed
  BY DEF Closed
<1> QED
  BY <1>1, <1>2, <1>3, <1>4 DEF OpenIn

(* The loop of rpmsqWaitUnregister is left when the status was recorded.    *)
LEMMA WaitedFor ==
  ASSUME SqInv, pc = "loop", ~MustWait
  PROVE  Recorded /\ sq.child = pid /\ kid[pid].st = "reaped"
<1>1. sq.child = pid /\ pid \in Kids /\ pid # NoPid
  BY RpmSqAssumption DEF SqInv, ChildKnown
<1>2. ret \in {0, 1} /\ (ret = 1 => Recorded) /\ (sq.reaped = NoPid \/ Recorded)
  BY DEF SqInv, ChildKnown, FdsKnown
<1> QED
  BY <1>1, <1>2 DEF MustWait, Recorded

(* A child moves towards its exec or it ends; one that ended does nothing.  *)
LEMMA KidSteps ==
  ASSUME NEW k, KidStep(k) \/ KidInterrupted(k) \/ KidKilled(k)
  PROVE  \/ \E from, to, drop, early :
               KidMoves(k, from, to, drop, early) /\ from \in {"close1", "read", "close0", "exec"}
         \/ \E how : KidEnds(k, how) /\ kid[k].st \in {"close1", "read", "close0", "exec", "script"}
<1>1. CASE KidClose1(k) \/ KidReads(k) \/ KidClose0(k) \/ KidExecs(k)
  BY <1>1 DEF KidClose1, KidReads, KidClose0, KidExecs, KidGoes
<1>2. CASE KidInterrupted(k)
  <2>1. "read" \in {"close1", "read", "close0", "exec"}
    OBVIOUS
  <2> QED
    BY <1>2, <2>1, Zenon DEF KidInterrupted
<1>3. CASE KidExits(k) \/ KidKilled(k)
  BY <1>3 DEF KidExits, KidKilled
<1> QED
  BY <1>1, <1>2, <1>3 DEF KidStep

-----------------------------------------------------------------------------
(* One lemma for each part of the invariant.                                *)

(* A step of one child leaves the others alone, and the thread; a child that *)
(* failed takes none.                                                       *)
LEMMA OneChildMoves ==
  ASSUME NEW k, KidStep(k) \/ KidInterrupted(k) \/ KidKilled(k),
         NEW S, kid \in [S -> Child]
  PROVE  /\ kid[k].st # "failed" /\ UNCHANGED <<pc, pid>>
         /\ \A j \in S : j # k => kid'[j] = kid[j]
<1>1. CASE \E from, to, drop, early :
              KidMoves(k, from, to, drop, early) /\ from \in {"close1", "read", "close0", "exec"}
  <2>1. PICK from, to, drop, early :
          KidMoves(k, from, to, drop, early) /\ from \in {"close1", "read", "close0", "exec"}
    BY <1>1
  <2>2. kid[k].st = from /\ UNCHANGED <<pc, pid>>
    BY ONLY <2>1 DEF KidMoves
  <2>3. kid' = [kid EXCEPT ![k].st = to, ![k].fds = @ \ drop, ![k].early = early]
    BY ONLY <2>1 DEF KidMoves
  <2>4. \A j \in S : j # k => kid'[j] = kid[j]
    BY <2>3
  <2> QED
    BY ONLY <2>1, <2>2, <2>4
<1>2. CASE \E how : KidEnds(k, how) /\ kid[k].st \in {"close1", "read", "close0", "exec", "script"}
  <2>1. PICK how : KidEnds(k, how)
    BY <1>2
  <2>2. UNCHANGED <<pc, pid>>
    BY ONLY <2>1 DEF KidEnds
  <2>3. kid' = [kid EXCEPT ![k] = [@ EXCEPT !.st = IF SigchldIgnored THEN "reaped" ELSE "zombie",
                                             !.fds = {}, !.how = how]]
    BY ONLY <2>1 DEF KidEnds
  <2>4. \A j \in S : j # k => kid'[j] = kid[j]
    BY <2>3
  <2>5. kid[k].st # "failed"
    BY ONLY <1>2
  <2> QED
    BY ONLY <2>2, <2>4, <2>5
<1> QED
  BY <1>1, <1>2, KidSteps

(* Every step keeps the types.                                              *)
LEMMA TypeStep == SqInv /\ [Next]_vars => TypeOK'
<1> SUFFICES ASSUME SqInv, [Next]_vars PROVE TypeOK'
  OBVIOUS
<1>0. TypeOK
  BY DEF SqInv
<1> USE <1>0 DEF TypeOK, Run, Handler, hvars, sigvars, listvars
<1>1. CASE Insert
  <2>1. sq' \in Element
    BY <1>1 DEF Insert, Element
  <2>2. forw' \in [Nodes -> Nodes \cup {Null}] /\ back' \in [Nodes -> Nodes \cup {Null}]
    BY <1>1 DEF Insert, Nodes
  <2> QED
    BY <1>1, <2>1, <2>2 DEF Insert
<1>2. CASE EnableChld
  <2>1. Enabled("CHLD") \in SigEntry
    BY DEF Enabled, SigEntry, Sigs
  <2> QED
    BY <1>2, <2>1 DEF EnableChld
<1>3. ASSUME NEW from, NEW to \in {"fork", "loop"}, PipeTo(from, to) PROVE TypeOK'
  <2>1. PICK n0, n1 \in Fds : MakePipe(n0, n1) /\ sq' = [sq EXCEPT !.p0 = n0, !.p1 = n1]
    BY <1>3 DEF PipeTo
  <2>2. sq' \in Element
    BY <2>1 DEF Element
  <2>3. fd' \in [Fds -> Ends \cup {Closed}]
    BY <2>1 DEF MakePipe, Ends
  <2> QED
    BY <1>3, <2>2, <2>3 DEF PipeTo
<1>4. CASE Fork
  <2>1. PICK k \in Kids :
          /\ pid' = k
          /\ kid' = [kid EXCEPT ![k] = [st |-> "close1", fds |-> OpenIn(fd),
                                        pipe |-> fd[sq.p0][1], how |-> -1, early |-> FALSE]]
    BY <1>4 DEF Fork
  <2>2. fd[sq.p0][1] \in Pipes
    <3>1. PICK p \in Pipes : fd[sq.p0] = <<p, "r">>
      BY <1>4 DEF Fork, SqInv, FdsKnown, BothEnds
    <3> QED
      BY <3>1
  <2>3. OpenIn(fd) \subseteq Ends
    BY DEF OpenIn
  <2>4. kid' \in [Kids \cup Others -> Child]
    BY <2>1, <2>2, <2>3 DEF Child
  <2> QED
    BY <1>4, <2>1, <2>4 DEF Fork
<1>5. CASE ForkFails
  <2>1. sq' \in Element
    BY <1>5 DEF ForkFails, Element
  <2>2. kid' \in [Kids \cup Others -> Child]
    BY <1>5 DEF ForkFails, UseUp, Child
  <2> QED
    BY <1>5, <2>1, <2>2 DEF ForkFails, CloseFds
<1>6. CASE SetChild
  <2>1. sq' \in Element
    BY <1>6 DEF SetChild, Element, SqInv, ChildKnown
  <2> QED
    BY <1>6, <2>1 DEF SetChild
<1>7. ASSUME NEW from, NEW to \in {"wait", "read", "loop", "remove"}, NEW b \in BOOLEAN,
             Hold(from, to, b)
      PROVE  TypeOK'
  BY <1>7 DEF Hold
<1>25. CASE WaitHolds
  BY <1>25 DEF WaitHolds
<1>8. CASE WaitClose0 \/ WaitClose1
  BY <1>8 DEF WaitClose0, WaitClose1, CloseEnd, CloseFds
<1>9. CASE WaitReads
  <2>1. sq' \in Element
    BY <1>9 DEF WaitReads, Element
  <2>2. fd' \in [Fds -> Ends \cup {Closed}]
    BY <1>9 DEF WaitReads, CloseFds
  <2>3. pc' = "relock" /\ ret' \in Int
    BY <1>9 DEF WaitReads
  <2>5. eintr' \in BOOLEAN
    BY <1>9, Zenon DEF WaitReads
  <2>4. UNCHANGED <<hpc, hpid, held, oldMask, pending, tbl, forw, back, pid, kid>>
    BY <1>9 DEF WaitReads
  <2> QED
    BY <2>1, <2>2, <2>3, <2>4, <2>5
<1>10. CASE WaitInterrupted
  BY <1>10 DEF WaitInterrupted
<1>11. CASE Remove
  <2>1. sq' \in Element
    BY <1>11 DEF Remove, Element
  <2>2. forw' \in [Nodes -> Nodes \cup {Null}] /\ back' \in [Nodes -> Nodes \cup {Null}]
    BY <1>11 DEF Remove, Nodes
  <2> QED
    BY <1>11, <2>1, <2>2 DEF Remove, CloseFds
<1>12. CASE Disable
  <2>1. Disabled("CHLD") \in SigEntry
    BY DEF Disabled, SigEntry, Sigs
  <2>2. tbl' \in [Sigs -> SigEntry]
    BY <1>12, <2>1 DEF Disable
  <2>3. pending' \in BOOLEAN
    BY <1>12, <2>2 DEF Disable
  <2> QED
    BY <1>12, <2>2, <2>3 DEF Disable
<1>13. CASE ExecEnable
  <2>1. Enabled("INT") \in SigEntry
    BY DEF Enabled, SigEntry, Sigs
  <2>2. [tbl["CHLD"] EXCEPT !.active = @ + 1] \in SigEntry
    BY DEF SigEntry, Sigs
  <2>3. tbl' \in [Sigs -> SigEntry]
    BY <1>13, <2>1, <2>2 DEF ExecEnable
  <2> QED
    BY <1>13, <2>3 DEF ExecEnable
<1>14. CASE ExecFork
  <2>1. kid' \in [Kids \cup Others -> Child]
    BY <1>14 DEF ExecFork, Child
  <2> QED
    BY <1>14, <2>1 DEF ExecFork
<1>15. CASE ExecForkFails
  <2>1. kid' \in [Kids \cup Others -> Child]
    BY <1>15 DEF ExecForkFails, UseUp, Child
  <2> QED
    BY <1>15, <2>1 DEF ExecForkFails
<1>16. CASE ExecWait
  <2>1. kid' \in [Kids \cup Others -> Child] /\ ret' \in Int
    BY <1>16 DEF ExecWait, Child, SqInv, ChildKnown
  <2> QED
    BY <1>16, <2>1 DEF ExecWait
<1>17. CASE ExecDone
  <2>1. Disabled("INT") \in SigEntry
    BY DEF Disabled, SigEntry, Sigs
  <2>2. [tbl["CHLD"] EXCEPT !.active = @ - 1] \in SigEntry
    BY <1>17 DEF ExecDone, SigEntry, Sigs, SqInv, SignalHeld
  <2>3. tbl' \in [Sigs -> SigEntry]
    BY <1>17, <2>1, <2>2 DEF ExecDone
  <2>4. pc' = "idle" /\ ret' \in Int
    BY <1>17 DEF ExecDone
  <2>6. held' \in BOOLEAN
    BY <1>17, Zenon DEF ExecDone
  <2>5. UNCHANGED <<hpc, hpid, oldMask, pending, eintr, sq, forw, back, pid, fd, kid>>
    BY <1>17 DEF ExecDone
  <2> QED
    BY <2>3, <2>4, <2>5, <2>6
<1>18. CASE HandlerStarts \/ HandlerReturns \/ HandlerMisses \/ HandlerCloses
  <2>1. CASE HandlerStarts
    BY <2>1 DEF HandlerStarts
  <2>2. CASE HandlerReturns
    BY <2>2 DEF HandlerReturns
  <2>3. CASE HandlerMisses
    BY <2>3 DEF HandlerMisses
  <2>4. CASE HandlerCloses
    <3>1. fd' \in [Fds -> Ends \cup {Closed}]
      BY <2>4 DEF HandlerCloses, CloseFds
    <3> QED
      BY <2>4, <3>1 DEF HandlerCloses
  <2> QED
    BY <1>18, <2>1, <2>2, <2>3, <2>4
<1>19. CASE HandlerReaps
  <2>1. kid' \in [Kids \cup Others -> Child] /\ hpid' \in Kids \cup Others
    BY <1>19 DEF HandlerReaps, Zombies, Child
  <2> QED
    BY <1>19, <2>1 DEF HandlerReaps
<1>20. CASE HandlerFinds
  <2>1. hpid \in Kids
    BY <1>20, RpmSqAssumption DEF HandlerFinds, SqInv, ChildKnown, Element
  <2>2. sq' \in Element
    BY <1>20, <2>1 DEF HandlerFinds, Element, Child
  <2> QED
    BY <1>20, <2>2 DEF HandlerFinds
<1>21. CASE HandlerUnsets
  <2>1. sq' \in Element
    BY <1>21 DEF HandlerUnsets, Element
  <2> QED
    BY <1>21, <2>1 DEF HandlerUnsets
<1>22. ASSUME NEW k \in Kids \cup Others, NEW from, NEW to \in {"read", "close0", "exec", "script"},
              NEW drop, NEW early \in BOOLEAN, KidMoves(k, from, to, drop, early)
       PROVE  TypeOK'
  <2>1. kid' \in [Kids \cup Others -> Child]
    BY <1>22 DEF KidMoves, Child
  <2> QED
    BY <1>22, <2>1 DEF KidMoves
<1>23. ASSUME NEW k \in Kids \cup Others, NEW how \in Int, KidEnds(k, how) PROVE TypeOK'
  <2>1. kid' \in [Kids \cup Others -> Child]
    <3>1. [kid[k] EXCEPT !.st = IF SigchldIgnored THEN "reaped" ELSE "zombie", !.fds = {}, !.how = how] \in Child
      <4>1. kid[k] \in Child
        OBVIOUS
      <4>2. how \in Int /\ {} \subseteq Ends /\ (IF SigchldIgnored THEN "reaped" ELSE "zombie") \in {"reaped", "zombie"}
        OBVIOUS
      <4> QED
        BY ONLY <4>1, <4>2 DEF Child
    <3>2. kid' = [kid EXCEPT ![k] = [kid[k] EXCEPT !.st = IF SigchldIgnored THEN "reaped" ELSE "zombie",
                                                   !.fds = {}, !.how = how]]
      BY <1>23 DEF KidEnds
    <3>3. kid \in [Kids \cup Others -> Child]
      OBVIOUS
    <3> QED
      BY ONLY <3>1, <3>2, <3>3
  <2>2. pending' \in BOOLEAN
    BY <1>23 DEF KidEnds, Sigs, SigEntry
  <2> QED
    BY <1>23, <2>1, <2>2 DEF KidEnds
<1>24. CASE UNCHANGED vars
  BY <1>24 DEF vars
<1> QED
  <2>1. CASE Runner
    BY <1>2, <1>3, <1>4, <1>5, <1>6, <1>7, <1>8, <1>9, <1>10, <1>11, <1>12, <1>14,
       <1>15, <1>16, <1>17, <1>25, <2>1
       DEF Runner, ForkPipe, WaitPipe, ForkReleases, WaitReleases, WaitHoldsAgain, WaitEnds
  <2>2. CASE SignalHandler
    BY <1>18, <1>19, <1>20, <1>21, <2>2 DEF SignalHandler
  <2>3. ASSUME NEW k \in Kids \cup Others,
               KidStep(k) \/ KidInterrupted(k) \/ KidKilled(k)
        PROVE  TypeOK'
    <3>1. kid[k].early \in BOOLEAN
      BY DEF Child
    <3>2. CASE KidClose1(k) \/ KidReads(k) \/ KidClose0(k) \/ KidExecs(k)
      <4>1. ASSUME NEW from, NEW to \in {"read", "close0", "exec", "script"}, NEW drop, KidGoes(k, from, to, drop)
            PROVE  TypeOK'
        BY ONLY <1>22, <3>1, <4>1, k \in Kids \cup Others DEF KidGoes
      <4>2. /\ "read" \in {"read", "close0", "exec", "script"} /\ "close0" \in {"read", "close0", "exec", "script"}
            /\ "exec" \in {"read", "close0", "exec", "script"} /\ "script" \in {"read", "close0", "exec", "script"}
        OBVIOUS
      <4>3. CASE KidClose1(k) \/ KidExecs(k)
        BY ONLY <4>1, <4>2, <4>3, Zenon DEF KidClose1, KidExecs
      <4>4. CASE KidReads(k) \/ KidClose0(k)
        BY ONLY <4>1, <4>2, <4>4, Zenon DEF KidReads, KidClose0
      <4> QED
        BY ONLY <3>2, <4>3, <4>4
    <3>3. CASE KidInterrupted(k)
      BY <1>22, <3>3 DEF KidInterrupted
    <3>4. CASE KidExits(k) \/ KidKilled(k)
      BY <1>23, <3>4 DEF KidExits, KidKilled
    <3> QED
      BY <2>3, <3>2, <3>3, <3>4 DEF KidStep
  <2> QED
    BY <1>1, <1>13, <1>24, <2>1, <2>2, <2>3 DEF Next, Finished

(* SIGCHLD is held where it must be, and the handler does not run then.     *)
LEMMA SignalStep == ~PsmThreads /\ SqInv /\ [Next]_vars => SignalHeld'
<1> SUFFICES ASSUME ~PsmThreads, SqInv, [Next]_vars PROVE SignalHeld'
  OBVIOUS
<1>0. SignalHeld /\ tbl \in [Sigs -> SigEntry]
  BY DEF SqInv, TypeOK
<1> USE <1>0 DEF SignalHeld, HeldPlaces, Run, Handler, hvars, sigvars, listvars
<1>1. CASE EnableChld
  BY <1>1 DEF EnableChld, Enabled, Ignored, Sigs, SigEntry
<1>2. CASE Disable
  BY <1>2 DEF Disable, Disabled, Sigs, SigEntry
<1>3. CASE ExecEnable
  BY <1>3 DEF ExecEnable, Sigs, SigEntry
<1>4. CASE ExecDone
  BY <1>4 DEF ExecDone, Sigs, SigEntry
<1>5. CASE Insert \/ Fork \/ ForkFails \/ SetChild \/ ExecFork \/ ExecForkFails \/ ExecWait
  BY <1>5 DEF Insert, Fork, ForkFails, UseUp, SetChild, ExecFork, ExecForkFails, ExecWait
<1>6. CASE ForkPipe \/ WaitPipe
  <2>1. UNCHANGED <<hpc, held, pending, tbl>>
    BY <1>6 DEF ForkPipe, WaitPipe, PipeTo
  <2>2. pc' = "fork" \/ (pc = "repipe" /\ pc' = "loop")
    BY <1>6 DEF ForkPipe, WaitPipe, PipeTo
  <2> QED
    BY <2>1, <2>2
<1>12. CASE WaitHoldsAgain
  BY <1>12 DEF WaitHoldsAgain, Hold
<1>13. CASE ForkReleases \/ WaitReleases \/ WaitEnds
  <2>1. ~held' /\ pc' \notin HeldPlaces
    BY <1>13 DEF ForkReleases, WaitReleases, WaitEnds, Hold
  <2>2. hpc' = hpc /\ tbl' = tbl /\ pending' = pending
    BY <1>13 DEF ForkReleases, WaitReleases, WaitEnds, Hold
  <2> QED
    BY <2>1, <2>2
<1>7. CASE WaitHolds \/ WaitClose0 \/ WaitClose1 \/ WaitReads \/ WaitInterrupted \/ Remove
  BY <1>7 DEF WaitHolds, WaitClose0, WaitClose1, CloseEnd, WaitReads, WaitInterrupted, Remove
<1>8. CASE SignalHandler
  BY <1>8 DEF SignalHandler, HandlerStarts, HandlerReaps, HandlerReturns, HandlerFinds,
              HandlerMisses, HandlerCloses, HandlerUnsets
<1>9. ASSUME NEW k, NEW from, NEW to, NEW drop, NEW early,
             KidMoves(k, from, to, drop, early)
      PROVE  SignalHeld'
  BY <1>9 DEF KidMoves
<1>10. ASSUME NEW k, NEW how, KidEnds(k, how) PROVE SignalHeld'
  BY <1>10 DEF KidEnds
<1>11. CASE UNCHANGED vars
  BY <1>11 DEF vars
<1> QED
  BY <1>1, <1>2, <1>3, <1>4, <1>5, <1>6, <1>7, <1>8, <1>9, <1>10, <1>11, <1>12, <1>13,
     KidSteps
     DEF Next, Runner, Finished

(* What the children have open, and that one runs at a time.                *)
LEMMA KidsStep == ~PsmThreads /\ SqInv /\ [Next]_vars => KidsKnown'
<1> SUFFICES ASSUME ~PsmThreads, SqInv, [Next]_vars PROVE KidsKnown'
  OBVIOUS
<1>0. KidsKnown /\ kid \in [Kids \cup Others -> Child]
  BY DEF SqInv, TypeOK
<1>a. Kids \cap Others = {}
  BY RpmSqAssumption
<1> USE <1>0, <1>a DEF KidsKnown, Run, Handler, hvars, sigvars, listvars, Child
<1>1. CASE Fork
  <2>1. PICK k \in Kids :
          /\ kid[k].st = "none" /\ pid' = k
          /\ kid' = [kid EXCEPT ![k] = [st |-> "close1", fds |-> OpenIn(fd),
                                        pipe |-> fd[sq.p0][1], how |-> -1, early |-> FALSE]]
    BY <1>1 DEF Fork
  <2>2. pc = "fork" /\ pc' = "setchild" /\ hpc = "off"
    BY <1>1 DEF Fork
  <2>3. OpenIn(fd) = {<<fd[sq.p0][1], "r">>, <<fd[sq.p0][1], "w">>}
    BY <2>2, ForkedWith
  <2>4. \A j \in Kids : kid[j].st \in {"none", "failed", "reaped"}
    BY <2>2
  <2> QED
    BY <2>1, <2>2, <2>3, <2>4
<1>2. CASE ForkFails \/ ExecForkFails
  BY <1>2 DEF ForkFails, ExecForkFails, UseUp
<1>3. CASE ExecFork
  BY <1>3 DEF ExecFork
<1>4. CASE ExecWait
  <2>1. pid \in Kids
    BY <1>4 DEF ExecWait, SqInv, ChildKnown
  <2> QED
    BY <1>4, <2>1 DEF ExecWait
<1>5. CASE WaitEnds
  <2>1. pc = "loop" /\ pc' = "remove" /\ kid' = kid /\ pid' = pid /\ ~MustWait
    BY <1>5 DEF WaitEnds, Hold
  <2>2. kid[pid].st = "reaped"
    BY <2>1, WaitedFor
  <2> QED
    BY <2>1, <2>2
<1>6. CASE HandlerReaps
  BY <1>6 DEF HandlerReaps, Zombies
<1>7. ASSUME NEW k \in Kids \cup Others, KidStep(k) \/ KidInterrupted(k) \/ KidKilled(k)
      PROVE  KidsKnown'
  <2>1. CASE KidClose1(k)
    BY <2>1 DEF KidClose1, KidGoes, KidMoves
  <2>2. CASE KidReads(k)
    BY <2>2 DEF KidReads, KidGoes, KidMoves
  <2>3. CASE KidClose0(k)
    BY <2>3 DEF KidClose0, KidGoes, KidMoves
  <2>4. CASE KidExecs(k)
    BY <2>4 DEF KidExecs, KidGoes, KidMoves
  <2>5. CASE KidInterrupted(k)
    BY <2>5 DEF KidInterrupted, KidMoves
  <2>6. ASSUME NEW how, KidEnds(k, how), kid[k].st \notin {"none", "failed", "reaped"}
        PROVE  KidsKnown'
    BY <2>6 DEF KidEnds
  <2> QED
    BY <1>7, <2>1, <2>2, <2>3, <2>4, <2>5, <2>6 DEF KidStep, KidExits, KidKilled
<1>8. ASSUME UNCHANGED <<kid, pid>>,
             pc' # pc => pc \in {"idle", "enable", "pipe", "remove", "disable", "execdone"}
                      \/ pc' \in {"forked", "wait", "close0", "close1", "repipe", "loop",
                                  "read", "relock"}
      PROVE  KidsKnown'
  BY <1>8
<1>9. CASE Insert \/ EnableChld \/ Remove \/ Disable \/ ExecEnable \/ ExecDone
  BY <1>8, <1>9 DEF Insert, EnableChld, Remove, Disable, ExecEnable, ExecDone
<1>10. CASE ForkPipe \/ WaitPipe
  BY <1>8, <1>10 DEF ForkPipe, WaitPipe, PipeTo
<1>11. CASE ForkReleases \/ WaitReleases \/ WaitHoldsAgain \/ WaitHolds
  BY <1>8, <1>11 DEF ForkReleases, WaitReleases, WaitHoldsAgain, WaitHolds, Hold
<1>12. CASE SetChild \/ WaitClose0 \/ WaitClose1 \/ WaitReads \/ WaitInterrupted
  BY <1>8, <1>12 DEF SetChild, WaitClose0, WaitClose1, CloseEnd, WaitReads, WaitInterrupted
<1>13. CASE HandlerStarts \/ HandlerReturns \/ HandlerFinds \/ HandlerMisses
            \/ HandlerCloses \/ HandlerUnsets \/ UNCHANGED vars
  BY <1>8, <1>13 DEF HandlerStarts, HandlerReturns, HandlerFinds, HandlerMisses,
                     HandlerCloses, HandlerUnsets, vars
<1> QED
  BY <1>1, <1>2, <1>3, <1>4, <1>5, <1>6, <1>7, <1>9, <1>10, <1>11, <1>12, <1>13
     DEF Next, Runner, SignalHandler, Finished

(* The element is about the child forked last, and its status is recorded   *)
(* once, by the handler, while the parent waits.                            *)
LEMMA ChildStep == ~PsmThreads /\ SqInv /\ [Next]_vars => ChildKnown'
<1> SUFFICES ASSUME ~PsmThreads, SqInv, [Next]_vars PROVE ChildKnown'
  OBVIOUS
<1> DEFINE Begun == {"enable", "pipe", "fork", "setchild"}
           Waiting == {"forked", "wait", "close0", "close1", "repipe", "loop", "read",
                       "relock", "remove"}
           Through == {"idle", "remove", "disable", "execfork", "execwait", "execdone"}
           Forked == {"setchild", "execwait", "execdone"} \cup Waiting
           ReapedStay == \A k \in Kids \cup Others : kid[k].st = "reaped" =>
                            kid'[k].st = "reaped" /\ kid'[k].how = kid[k].how
<1>0. ChildKnown /\ kid \in [Kids \cup Others -> Child] /\ sq \in Element
  BY DEF SqInv, TypeOK
<1>a. /\ Kids \cap Others = {} /\ NoPid \notin Kids \cup Others
      /\ Failed \notin Kids \cup Others /\ NoPid # Failed
  BY RpmSqAssumption
<1> USE <1>0, <1>a DEF ChildKnown, Recorded, Run, Handler, hvars, sigvars, listvars, Child,
                       Element
<1>1. ASSUME ReapedStay, UNCHANGED <<pid, hpc, hpid>>,
             sq'.child = sq.child, sq'.reaped = sq.reaped, sq'.status = sq.status,
             \/ pc' = pc
             \/ /\ hpc = "off"
                /\ pc' \in Begun => pc \in Begun
                /\ pc' \in Waiting => pc \in Waiting
                /\ pc' \in Forked => pc \in Forked
                /\ pc' \in Through => pc \in Through \/ Recorded
      PROVE  ChildKnown'
  BY <1>1
<1>2. CASE EnableChld \/ Disable \/ Remove \/ ExecEnable \/ ExecDone
  BY <1>1, <1>2 DEF EnableChld, Disable, Remove, ExecEnable, ExecDone
<1>3. CASE ForkPipe \/ WaitPipe
  BY <1>1, <1>3 DEF ForkPipe, WaitPipe, PipeTo
<1>4. CASE ForkReleases \/ WaitReleases \/ WaitHoldsAgain \/ WaitHolds
  BY <1>1, <1>4 DEF ForkReleases, WaitReleases, WaitHoldsAgain, WaitHolds, Hold
<1>5. CASE WaitEnds
  <2>1. pc = "loop" /\ pc' = "remove" /\ UNCHANGED <<sq, kid, pid, hpc, hpid>> /\ ~MustWait
        /\ hpc = "off"
    BY <1>5 DEF WaitEnds, Hold
  <2>2. Recorded
    BY <2>1, WaitedFor
  <2> QED
    BY <1>1, <2>1, <2>2
<1>6. CASE WaitClose0 \/ WaitClose1 \/ WaitReads \/ WaitInterrupted
  BY <1>1, <1>6 DEF WaitClose0, WaitClose1, CloseEnd, WaitReads, WaitInterrupted
<1>7. CASE Insert
  BY <1>7 DEF Insert
<1>8. CASE Fork
  BY <1>8 DEF Fork
<1>9. CASE ForkFails
  BY <1>9 DEF ForkFails, UseUp
<1>10. CASE SetChild
  BY <1>10 DEF SetChild
<1>11. CASE ExecFork
  BY <1>11 DEF ExecFork
<1>12. CASE ExecForkFails
  <2>1. ReapedStay
    BY <1>12 DEF ExecForkFails, UseUp
  <2> QED
    BY <1>1, <1>12, <2>1 DEF ExecForkFails
<1>13. CASE ExecWait
  <2>1. ReapedStay
    BY <1>13 DEF ExecWait
  <2> QED
    BY <1>1, <1>13, <2>1 DEF ExecWait
<1>14. CASE HandlerStarts \/ HandlerReturns \/ HandlerMisses
  BY <1>14 DEF HandlerStarts, HandlerReturns, HandlerMisses
<1>15. CASE HandlerReaps
  BY <1>15 DEF HandlerReaps, Zombies
<1>16. CASE HandlerFinds
  <2>1. sq.child = hpid /\ hpc = "scan" /\ sq.reaped = NoPid /\ hpid \in Kids
    BY <1>16 DEF HandlerFinds
  <2>2. pc \in {"wait", "read", "relock"}
    BY <2>1 DEF SqInv, SignalHeld, HeldPlaces, TypeOK
  <2> QED
    BY <1>16, <2>1, <2>2 DEF HandlerFinds
<1>17. CASE HandlerCloses \/ HandlerUnsets
  BY <1>17 DEF HandlerCloses, HandlerUnsets
<1>18. ASSUME NEW k \in Kids \cup Others, NEW from, NEW to, NEW drop, NEW early,
              KidMoves(k, from, to, drop, early), from # "reaped"
       PROVE  ChildKnown'
  <2>1. ReapedStay
    BY <1>18 DEF KidMoves
  <2> QED
    BY <1>1, <1>18, <2>1 DEF KidMoves
<1>19. ASSUME NEW k \in Kids \cup Others, NEW how, KidEnds(k, how), kid[k].st # "reaped"
       PROVE  ChildKnown'
  <2>1. ReapedStay
    BY <1>19 DEF KidEnds
  <2> QED
    BY <1>1, <1>19, <2>1 DEF KidEnds
<1>20. CASE UNCHANGED vars
  BY <1>1, <1>20 DEF vars
<1> QED
  BY <1>2, <1>3, <1>4, <1>5, <1>6, <1>7, <1>8, <1>9, <1>10, <1>11, <1>12, <1>13,
     <1>14, <1>15, <1>16, <1>17, <1>18, <1>19, <1>20, KidSteps
     DEF Next, Runner, SignalHandler, Finished

(* The descriptors in sq->pipes are the ends of one pipe, or closed.        *)
LEMMA FdsStep == ~PsmThreads /\ SqInv /\ [Next]_vars => FdsKnown'
<1> SUFFICES ASSUME ~PsmThreads, SqInv, [Next]_vars PROVE FdsKnown'
  OBVIOUS
<1> DEFINE Same(k) == /\ kid'[k].pipe = kid[k].pipe
                      /\ kid[k].st = "reaped" => kid'[k].st = "reaped" /\ kid'[k].how = kid[k].how
           Taken == \E p \in Pipes : BothEnds(p)
<1>0. /\ FdsKnown /\ kid \in [Kids \cup Others -> Child] /\ sq \in Element
      /\ fd \in [Fds -> Ends \cup {Closed}] /\ -1 \notin Fds
  BY DEF SqInv, TypeOK, Fds
<1> USE <1>0 DEF FdsKnown, BothEnds, WriteEnd, OnlyOpen, Run, Handler, hvars, sigvars, listvars
<1>1. ASSUME UNCHANGED <<pc, fd, sq, ret, pid>>, \A k \in Kids \cup Others : Same(k),
             hpc' = hpc \/ (hpc \notin {"close", "unset"} /\ hpc' \notin {"close", "unset"})
      PROVE  FdsKnown'
  <2>1. Recorded => Recorded'
    BY <1>1 DEF Recorded
  <2>2. pc \in {"setchild", "forked", "wait", "close0", "close1"} =>
          kid'[pid].pipe = kid[pid].pipe
    BY <1>1 DEF SqInv, ChildKnown
  <2> QED
    BY <1>1, <2>1, <2>2
<1>2. ASSUME NEW from, NEW to \in {"fork", "loop"}, PipeTo(from, to),
             OnlyOpen({}), hpc = "off", to = "loop" => ret = 0
      PROVE  FdsKnown'
  <2>1. PICK n0, n1 \in Fds : MakePipe(n0, n1) /\ sq' = [sq EXCEPT !.p0 = n0, !.p1 = n1]
    BY <1>2 DEF PipeTo
  <2>2. n0 # n1
    <3>1. n0 < n1 /\ n0 \in Int
      BY <2>1 DEF MakePipe, Fds
    <3> QED
      BY <3>1
  <2>3. PICK p \in Pipes : fd' = [fd EXCEPT ![n0] = <<p, "r">>, ![n1] = <<p, "w">>]
    BY <2>1 DEF MakePipe
  <2>4. sq'.p0 = n0 /\ sq'.p1 = n1
    BY <2>1 DEF Element
  <2>5. BothEnds(p)'
    BY <1>2, <2>2, <2>3, <2>4 DEF PipeTo
  <2>6. pc' = to /\ ret' = ret
    BY <1>2 DEF PipeTo
  <2> QED
    BY <1>2, <2>3, <2>4, <2>5, <2>6
<1>3. CASE ForkPipe \/ WaitPipe
  BY <1>2, <1>3 DEF ForkPipe, WaitPipe, PipeTo
<1>4. CASE Fork
  <2>1. PICK p \in Pipes : BothEnds(p)
    BY <1>4 DEF Fork
  <2>2. kid'[pid'].pipe = p
    BY <1>4, <2>1 DEF Fork
  <2> QED
    BY <1>4, <2>1, <2>2 DEF Fork
<1>5. CASE ForkFails
  BY <1>5 DEF ForkFails, CloseFds, Element
<1>6. CASE SetChild
  BY <1>6 DEF SetChild, Element
<1>7. CASE ForkReleases \/ WaitReleases \/ WaitHoldsAgain \/ WaitEnds
  <2>1. UNCHANGED <<fd, sq, ret, pid, kid, hpc>>
    BY <1>7 DEF ForkReleases, WaitReleases, WaitHoldsAgain, WaitEnds, Hold
  <2>2. \/ pc = "forked" /\ pc' = "wait"
        \/ /\ pc \in {"loop", "read", "relock", "remove"}
           /\ pc' \in {"loop", "read", "relock", "remove"}
    BY <1>7 DEF ForkReleases, WaitReleases, WaitHoldsAgain, WaitEnds, Hold
  <2> QED
    BY <2>1, <2>2 DEF Recorded
<1>8. CASE WaitHolds
  BY <1>8 DEF WaitHolds, Recorded
<1>9. CASE WaitClose0
  <2>1. pc = "close0" /\ pc' = "close1" /\ UNCHANGED <<sq, ret, pid, kid, hpc>> /\ hpc = "off"
    BY <1>9 DEF WaitClose0, CloseEnd
  <2>2. fd' = CloseFds(fd, {sq.p0}) /\ BothEnds(kid[pid].pipe)
    BY <1>9 DEF WaitClose0, CloseEnd
  <2>3. Recorded => Recorded'
    BY <2>1 DEF Recorded
  <2>4. OnlyOpen({sq.p1})'
    BY <2>1, <2>2 DEF CloseFds
  <2>5. sq.p1 # -1 => sq.p1 # sq.p0 /\ fd'[sq.p1] = <<kid[pid].pipe, "w">>
    BY <2>1, <2>2 DEF CloseFds, Element
  <2>6. WriteEnd(kid[pid].pipe)'
    BY <2>1, <2>2, <2>3, <2>5
  <2> QED
    BY <2>1, <2>4, <2>6
<1>10. CASE WaitClose1
  BY <1>10 DEF WaitClose1, CloseEnd, CloseFds
<1>11. CASE WaitReads
  <2>1. PICK p \in Pipes : BothEnds(p)
    BY <1>11 DEF WaitReads
  <2>2. sq.p1 = -1
    <3>1. <<p, "w">> \notin OpenIn(fd)
      BY <1>11, <2>1 DEF WaitReads, AtEof
    <3>2. <<p, "w">> # Closed
      BY DEF Closed
    <3>3. sq.p1 = -1 \/ (sq.p1 \in Fds /\ fd[sq.p1] = <<p, "w">>)
      BY <1>11, <2>1 DEF WaitReads, Element
    <3> QED
      BY <3>1, <3>2, <3>3 DEF OpenIn
  <2>3. Recorded
    BY <2>1, <2>2
  <2>4. sq'.p0 = -1 /\ sq'.p1 = -1 /\ Recorded'
    BY <1>11, <2>2, <2>3 DEF WaitReads, Recorded, Element
  <2>5. OnlyOpen({})'
    BY <1>11, <2>2 DEF WaitReads, CloseFds
  <2> QED
    BY <1>11, <2>4, <2>5 DEF WaitReads
<1>12. CASE WaitInterrupted
  BY <1>12 DEF WaitInterrupted, Recorded
<1>13. CASE Remove
  BY <1>13 DEF Remove, CloseFds, Element
<1>14. CASE Insert \/ EnableChld \/ Disable \/ ExecEnable \/ ExecFork \/ ExecForkFails
            \/ ExecWait \/ ExecDone
  BY <1>14 DEF Insert, EnableChld, Disable, ExecEnable, ExecFork, ExecForkFails, ExecWait,
               ExecDone
<1>15. CASE HandlerStarts \/ HandlerReturns \/ HandlerMisses \/ UNCHANGED vars
  BY <1>1, <1>15 DEF HandlerStarts, HandlerReturns, HandlerMisses, vars
<1>16. CASE HandlerReaps
  <2>1. \A k \in Kids \cup Others : Same(k)
    BY <1>16 DEF HandlerReaps, Zombies, Child
  <2> QED
    BY <1>1, <1>16, <2>1 DEF HandlerReaps
<1>17. CASE HandlerFinds
  <2>1. sq.child = hpid /\ hpc = "scan" /\ sq.reaped = NoPid /\ hpid \in Kids /\ hpc' = "close"
    BY <1>17, RpmSqAssumption DEF HandlerFinds, SqInv, ChildKnown, Element
  <2>2. pc \in {"wait", "read", "relock"} /\ ~Recorded
    BY <2>1, RpmSqAssumption DEF SqInv, SignalHeld, ChildKnown, HeldPlaces, TypeOK, Recorded
  <2>3. sq'.p0 = sq.p0 /\ sq'.p1 = sq.p1 /\ UNCHANGED <<pc, fd, ret, pid, kid>>
    BY <1>17 DEF HandlerFinds, Element
  <2> QED
    BY <2>1, <2>2, <2>3
<1>18. CASE HandlerCloses
  <2>1. pc \in {"wait", "read", "relock"} /\ Recorded /\ hpc = "close" /\ hpc' = "unset"
    BY <1>18 DEF HandlerCloses, SqInv, ChildKnown
  <2>2. sq.p1 # -1
    BY <2>1
  <2>3. UNCHANGED <<sq, pc, ret, pid, kid>> /\ fd' = CloseFds(fd, {sq.p1})
    BY <1>18 DEF HandlerCloses
  <2> QED
    BY <2>1, <2>2, <2>3 DEF CloseFds, Element
<1>19. CASE HandlerUnsets
  <2>1. pc \in {"wait", "read", "relock"} /\ Recorded /\ hpc = "unset" /\ hpc' = "reap"
    BY <1>19 DEF HandlerUnsets, SqInv, ChildKnown
  <2>2. sq'.p0 = sq.p0 /\ sq'.p1 = -1 /\ UNCHANGED <<pc, fd, ret, pid, kid>>
    BY <1>19 DEF HandlerUnsets, Element
  <2>3. Recorded'
    BY <1>19, <2>1 DEF HandlerUnsets, Recorded, Element
  <2> QED
    BY <2>1, <2>2, <2>3
<1>20. ASSUME NEW k \in Kids \cup Others, NEW from, NEW to, NEW drop, NEW early,
              KidMoves(k, from, to, drop, early), from # "reaped"
       PROVE  FdsKnown'
  <2>1. \A j \in Kids \cup Others : Same(j)
    BY <1>20 DEF KidMoves, Child
  <2> QED
    BY <1>1, <1>20, <2>1 DEF KidMoves
<1>21. ASSUME NEW k \in Kids \cup Others, NEW how, KidEnds(k, how), kid[k].st # "reaped"
       PROVE  FdsKnown'
  <2>1. \A j \in Kids \cup Others : Same(j)
    BY <1>21 DEF KidEnds, Child
  <2> QED
    BY <1>1, <1>21, <2>1 DEF KidEnds
<1> QED
  BY <1>3, <1>4, <1>5, <1>6, <1>7, <1>8, <1>9, <1>10, <1>11, <1>12, <1>13, <1>14,
     <1>15, <1>16, <1>17, <1>18, <1>19, <1>20, <1>21, KidSteps
     DEF Next, Runner, SignalHandler, Finished

(* The child cannot see the end of file before its parent waits.            *)
LEMMA WriteEndOpen ==
  ASSUME SqInv, kid[pid].st = "read", pc \in {"setchild", "forked", "wait", "close0", "close1"}
  PROVE  ~AtEof(<<kid[pid].pipe, "r">>)
<1>1. ~Recorded
  BY RpmSqAssumption DEF SqInv, ChildKnown, Recorded
<1>2. hpc # "unset"
  BY <1>1 DEF SqInv, ChildKnown
<1>3. WriteEnd(kid[pid].pipe)
  BY DEF SqInv, FdsKnown, BothEnds
<1>4. sq.p1 \in Fds /\ fd[sq.p1] = <<kid[pid].pipe, "w">>
  BY <1>1, <1>2, <1>3 DEF WriteEnd, SqInv, TypeOK, Element
<1>5. <<kid[pid].pipe, "w">> # Closed
  BY DEF Closed
<1>6. <<kid[pid].pipe, "w">> \in OpenIn(fd)
  BY <1>4, <1>5 DEF OpenIn
<1> QED
  BY <1>6 DEF AtEof

(* Unless a signal interrupts it, the child stays at its read until then.   *)
LEMMA WaitsStep == ~PsmThreads /\ SqInv /\ [Next]_vars => ChildWaits'
<1> SUFFICES ASSUME ~PsmThreads, SqInv, [Next]_vars PROVE ChildWaits'
  OBVIOUS
<1> DEFINE Start == {"setchild", "forked", "wait", "close0", "close1"}
<1>0. ChildWaits /\ kid \in [Kids \cup Others -> Child] /\ KidsKnown
  BY DEF SqInv, TypeOK
<1>a. pc \in Start => pid \in Kids
  BY DEF SqInv, ChildKnown
<1> USE <1>0 DEF ChildWaits, Run, Handler, hvars, sigvars, listvars, Child
<1>1. ASSUME pc' \in Start => pc \in Start /\ pid' = pid /\ kid'[pid] = kid[pid]
      PROVE  ChildWaits'
  BY <1>1
<1>2. CASE Fork
  BY <1>2 DEF Fork
<1>3. CASE Insert \/ EnableChld \/ ForkFails \/ Disable \/ Remove \/ ExecEnable \/ ExecFork
           \/ ExecForkFails \/ ExecWait \/ ExecDone
  <2>1. pc' \notin Start
    BY <1>3 DEF Insert, EnableChld, ForkFails, Disable, Remove, ExecEnable, ExecFork,
                ExecForkFails, ExecWait, ExecDone
  <2> QED
    BY <1>1, <2>1
<1>4. CASE ForkPipe \/ WaitPipe
  BY <1>1, <1>4 DEF ForkPipe, WaitPipe, PipeTo
<1>5. CASE ForkReleases \/ WaitReleases \/ WaitHoldsAgain \/ WaitEnds \/ WaitHolds
  BY <1>1, <1>5 DEF ForkReleases, WaitReleases, WaitHoldsAgain, WaitEnds, WaitHolds, Hold
<1>6. CASE SetChild \/ WaitClose0 \/ WaitClose1 \/ WaitReads \/ WaitInterrupted
  BY <1>1, <1>6 DEF SetChild, WaitClose0, WaitClose1, CloseEnd, WaitReads, WaitInterrupted
<1>7. CASE HandlerStarts \/ HandlerReturns \/ HandlerFinds \/ HandlerMisses
           \/ HandlerCloses \/ HandlerUnsets \/ UNCHANGED vars
  BY <1>1, <1>7 DEF HandlerStarts, HandlerReturns, HandlerFinds, HandlerMisses,
                    HandlerCloses, HandlerUnsets, vars
<1>8. CASE HandlerReaps
  BY <1>8, <1>a DEF HandlerReaps, Zombies
<1>9. ASSUME NEW k \in Kids \cup Others, KidStep(k) \/ KidInterrupted(k) \/ KidKilled(k),
             pc' \in Start
      PROVE  ChildWaits'
  <2>1. /\ UNCHANGED <<pc, pid>> /\ pc \in Start /\ pid \in Kids
        /\ \A j \in Kids \cup Others : j # k => kid'[j] = kid[j]
    <3>1. UNCHANGED <<pc, pid>> /\ \A j \in Kids \cup Others : j # k => kid'[j] = kid[j]
      BY <1>0, <1>9, OneChildMoves
    <3> QED
      BY <1>9, <1>a, <3>1
  <2>2. CASE k # pid
    BY <1>1, <2>1, <2>2
  <2>3. CASE KidClose1(pid)
    BY <2>1, <2>3 DEF KidClose1, KidGoes, KidMoves
  <2>4. ~KidReads(pid)
    BY <2>1, WriteEndOpen DEF KidReads, KidGoes, KidMoves
  <2>5. CASE KidInterrupted(pid)
    <3>1. kid'[pid].early
      BY <2>1, <2>5 DEF KidInterrupted, KidMoves
    <3> QED
      BY <2>1, <3>1
  <2>6. CASE KidClose0(pid) \/ KidExecs(pid)
    BY <2>1, <2>6 DEF KidClose0, KidExecs, KidGoes, KidMoves
  <2>7. ASSUME NEW how, KidEnds(pid, how) PROVE ChildWaits'
    BY <2>1, <2>7 DEF KidEnds
  <2> QED
    BY <1>9, <2>2, <2>3, <2>4, <2>5, <2>6, <2>7 DEF KidStep, KidExits, KidKilled
<1> QED
  BY <1>1, <1>2, <1>3, <1>4, <1>5, <1>6, <1>7, <1>8, <1>9
     DEF Next, Runner, SignalHandler, Finished

(* Nobody but rpmsqExecve reaps the build script, as SIGCHLD is held.       *)
LEMMA BuildStep == ~PsmThreads /\ SqInv /\ [Next]_vars => BuildKnown'
<1> SUFFICES ASSUME ~PsmThreads, SqInv, [Next]_vars, ~SigchldIgnored PROVE BuildKnown'
  BY DEF BuildKnown
<1>0. BuildKnown /\ kid \in [Kids \cup Others -> Child]
  BY DEF SqInv, TypeOK
<1>a. pc \in {"execwait", "execdone"} => pid \in Kids /\ hpc = "off"
  BY DEF SqInv, ChildKnown, SignalHeld, HeldPlaces
<1> USE <1>0 DEF BuildKnown, Run, Handler, hvars, sigvars, listvars, Child
<1>1. ASSUME pc' \in {"execwait", "execdone"} =>
                pc' = pc /\ pid' = pid /\ ret' = ret /\ kid'[pid] = kid[pid]
      PROVE  BuildKnown'
  BY <1>1
<1>2. CASE ExecFork
  BY <1>2 DEF ExecFork
<1>3. CASE ExecWait
  BY <1>3, <1>a DEF ExecWait
<1>4. CASE Insert \/ EnableChld \/ Fork \/ ForkFails \/ Disable \/ Remove \/ ExecEnable
           \/ ExecForkFails \/ ExecDone
  <2>1. pc' \notin {"execwait", "execdone"}
    BY <1>4 DEF Insert, EnableChld, Fork, ForkFails, Disable, Remove, ExecEnable,
                ExecForkFails, ExecDone
  <2> QED
    BY <1>1, <2>1
<1>5. CASE ForkPipe \/ WaitPipe \/ ForkReleases \/ WaitReleases \/ WaitHoldsAgain \/ WaitEnds
  <2>1. pc' \notin {"execwait", "execdone"}
    BY <1>5 DEF ForkPipe, WaitPipe, PipeTo, ForkReleases, WaitReleases, WaitHoldsAgain,
                WaitEnds, Hold
  <2> QED
    BY <1>1, <2>1
<1>6. CASE WaitHolds \/ SetChild \/ WaitClose0 \/ WaitClose1 \/ WaitReads \/ WaitInterrupted
  <2>1. pc' \notin {"execwait", "execdone"}
    BY <1>6 DEF WaitHolds, SetChild, WaitClose0, WaitClose1, CloseEnd, WaitReads,
                WaitInterrupted
  <2> QED
    BY <1>1, <2>1
<1>7. CASE SignalHandler
  <2>1. pc' = pc /\ UNCHANGED <<pid, ret>>
    BY <1>7 DEF SignalHandler, HandlerStarts, HandlerReaps, HandlerReturns, HandlerFinds,
                HandlerMisses, HandlerCloses, HandlerUnsets
  <2>2. kid' = kid \/ hpc = "reap"
    BY <1>7 DEF SignalHandler, HandlerStarts, HandlerReaps, HandlerReturns, HandlerFinds,
                HandlerMisses, HandlerCloses, HandlerUnsets
  <2> QED
    BY <1>1, <1>a, <2>1, <2>2
<1>8. ASSUME NEW k \in Kids \cup Others, NEW from, NEW to, NEW drop, NEW early,
             KidMoves(k, from, to, drop, early), from \in {"close1", "read", "close0", "exec"}
      PROVE  BuildKnown'
  BY <1>8, <1>a DEF KidMoves
<1>9. ASSUME NEW k \in Kids \cup Others, NEW how, KidEnds(k, how), kid[k].st # "reaped"
      PROVE  BuildKnown'
  BY <1>9, <1>a DEF KidEnds
<1>10. CASE UNCHANGED vars
  BY <1>10 DEF vars
<1> QED
  BY <1>2, <1>3, <1>4, <1>5, <1>6, <1>7, <1>8, <1>9, <1>10, KidSteps
     DEF Next, Runner, Finished

(* That a fork has failed is never forgotten.                               *)
LEMMA FailedStay ==
  ASSUME SqInv, [Next]_vars, ForkFailed
  PROVE  ForkFailed'
<1> SUFFICES ASSUME NEW k \in Kids, kid[k].st = "failed"
             PROVE  kid'[k].st = "failed"
  BY DEF ForkFailed
<1>0. kid \in [Kids \cup Others -> Child]
  BY DEF SqInv, TypeOK
<1>1. ASSUME NEW j \in Kids \cup Others, KidStep(j) \/ KidInterrupted(j) \/ KidKilled(j)
      PROVE  kid'[k].st = "failed"
  <2>1. kid[j].st # "failed" /\ \A i \in Kids \cup Others : i # j => kid'[i] = kid[i]
    BY <1>0, <1>1, OneChildMoves
  <2> QED
    BY <2>1
<1>2. CASE Runner
  <2>1. CASE Fork \/ ExecFork \/ ExecWait
    BY <1>0, <2>1 DEF Fork, ExecFork, ExecWait
  <2>2. CASE ForkFails \/ ExecForkFails
    BY <1>0, <2>2 DEF ForkFails, ExecForkFails, UseUp
  <2>3. CASE ForkPipe \/ WaitPipe \/ ForkReleases \/ WaitReleases \/ WaitHoldsAgain \/ WaitEnds
    BY <2>3 DEF ForkPipe, WaitPipe, PipeTo, ForkReleases, WaitReleases, WaitHoldsAgain,
                WaitEnds, Hold
  <2>4. CASE EnableChld \/ SetChild \/ WaitHolds \/ WaitClose0 \/ WaitClose1 \/ WaitReads
             \/ WaitInterrupted \/ Remove \/ Disable \/ ExecDone
    BY <2>4 DEF EnableChld, SetChild, WaitHolds, WaitClose0, WaitClose1, CloseEnd, WaitReads,
                WaitInterrupted, Remove, Disable, ExecDone
  <2> QED
    BY <1>2, <2>1, <2>2, <2>3, <2>4 DEF Runner
<1>3. CASE SignalHandler
  BY <1>0, <1>3 DEF SignalHandler, HandlerStarts, HandlerReaps, HandlerReturns, HandlerFinds,
              HandlerMisses, HandlerCloses, HandlerUnsets, Zombies
<1>4. CASE Insert \/ ExecEnable \/ UNCHANGED vars
  BY <1>4 DEF Insert, ExecEnable, vars
<1> QED
  BY <1>0, <1>1, <1>2, <1>3, <1>4 DEF Next, Finished

(* Nothing but a fork that fails makes one.                                 *)
LEMMA NoneFailed ==
  ASSUME SqInv, [Next]_vars, ~ForkMayFail, ~ForkFailed
  PROVE  ~ForkFailed'
<1> SUFFICES ASSUME NEW k \in Kids PROVE kid'[k].st # "failed"
  BY DEF ForkFailed
<1>0. kid \in [Kids \cup Others -> Child] /\ kid[k].st # "failed"
  BY DEF SqInv, TypeOK, ForkFailed
<1>1. ASSUME NEW j \in Kids \cup Others, KidStep(j) \/ KidInterrupted(j) \/ KidKilled(j)
      PROVE  kid'[k].st # "failed"
  <2>1. CASE j # k
    BY <1>0, <1>1, <2>1, OneChildMoves
  <2>2. CASE j = k
    <3>1. CASE KidClose1(k) \/ KidReads(k) \/ KidClose0(k) \/ KidExecs(k) \/ KidInterrupted(k)
      <4>1. kid'[k].st \in {"read", "close0", "exec", "script"}
        BY <1>0, <3>1 DEF KidClose1, KidReads, KidClose0, KidExecs, KidGoes, KidMoves,
                          KidInterrupted, Child
      <4> QED
        BY <4>1
    <3>2. ASSUME NEW how, KidEnds(k, how) PROVE kid'[k].st # "failed"
      BY <1>0, <3>2 DEF KidEnds, Child
    <3> QED
      BY <1>1, <2>2, <3>1, <3>2 DEF KidStep, KidExits, KidKilled
  <2> QED
    BY <2>1, <2>2
<1>2. CASE Runner
  <2>1. CASE Fork \/ ExecFork \/ ExecWait
    <3>1. CASE Fork
      BY <1>0, <3>1 DEF Fork
    <3>2. CASE ExecFork
      BY <1>0, <3>2 DEF ExecFork, Child
    <3>3. CASE ExecWait
      BY <1>0, <3>3 DEF ExecWait, Child
    <3> QED
      BY <2>1, <3>1, <3>2, <3>3
  <2>2. CASE ForkFails \/ ExecForkFails
    BY <2>2 DEF ForkFails, ExecForkFails
  <2>3. CASE ForkPipe \/ WaitPipe \/ ForkReleases \/ WaitReleases \/ WaitHoldsAgain \/ WaitEnds
    BY <1>0, <2>3 DEF ForkPipe, WaitPipe, PipeTo, ForkReleases, WaitReleases, WaitHoldsAgain,
                WaitEnds, Hold
  <2>4. CASE EnableChld \/ SetChild \/ WaitHolds \/ WaitClose0 \/ WaitClose1 \/ WaitReads
             \/ WaitInterrupted \/ Remove \/ Disable \/ ExecDone
    BY <1>0, <2>4 DEF EnableChld, SetChild, WaitHolds, WaitClose0, WaitClose1, CloseEnd,
                WaitReads, WaitInterrupted, Remove, Disable, ExecDone
  <2> QED
    BY <1>2, <2>1, <2>2, <2>3, <2>4 DEF Runner
<1>3. CASE SignalHandler
  <2>1. CASE HandlerReaps
    BY <1>0, <2>1 DEF HandlerReaps, Zombies, Child
  <2>2. CASE ~HandlerReaps
    BY <1>0, <1>3, <2>2 DEF SignalHandler, HandlerStarts, HandlerReturns, HandlerFinds,
                            HandlerMisses, HandlerCloses, HandlerUnsets
  <2> QED
    BY <2>1, <2>2
<1>4. CASE Insert \/ ExecEnable \/ UNCHANGED vars
  BY <1>0, <1>4 DEF Insert, ExecEnable, vars
<1> QED
  BY <1>0, <1>1, <1>2, <1>3, <1>4 DEF Next, Finished

(* As long as no fork has failed, the counts, the mask and the queue are    *)
(* exact.                                                                   *)
LEMMA CountsStep == ~PsmThreads /\ SqInv /\ [Next]_vars => CountsExact'
<1> SUFFICES ASSUME ~PsmThreads, SqInv, [Next]_vars, ~ForkFailed' PROVE CountsExact'
  BY DEF CountsExact
<1> DEFINE QueueExact ==
             IF pc \in {"idle", "disable"} \cup Building
             THEN forw["rock"] = "rock"
             ELSE forw["rock"] = "sq" /\ forw["sq"] = "rock" /\ back["sq"] = "rock"
           SameCounts == UNCHANGED <<held, tbl, listvars, oldMask>>
<1>0. /\ CountsExact /\ ~ForkFailed /\ tbl \in [Sigs -> SigEntry]
      /\ forw \in [Nodes -> Nodes \cup {Null}] /\ back \in [Nodes -> Nodes \cup {Null}]
  BY FailedStay DEF SqInv, TypeOK
<1>a. DOMAIN kid = Kids \cup Others
  BY DEF SqInv, TypeOK
<1> USE <1>0 DEF CountsExact, Run, Handler, hvars, sigvars, listvars, Building, HeldPlaces,
                 Sigs, SigEntry
<1>1. ASSUME UNCHANGED <<tbl, listvars, oldMask>>, held' = held \/ ~held' \/ pc' \in HeldPlaces,
             \/ pc' = pc
             \/ /\ pc' \in {"idle", "enable"} <=> pc \in {"idle", "enable"}
                /\ pc' \in Building <=> pc \in Building
                /\ pc' \in {"idle", "disable"} <=> pc \in {"idle", "disable"}
                /\ pc \in HeldPlaces => ~held' \/ pc' \in HeldPlaces
      PROVE  CountsExact'
  BY <1>1
<1>2. CASE Insert
  <2>1. pc = "idle" /\ pc' = "enable" /\ ~held' /\ UNCHANGED <<oldMask, tbl>>
    BY <1>2 DEF Insert
  <2>2. forw'["rock"] = "sq" /\ forw'["sq"] = "rock" /\ back'["sq"] = "rock"
    BY <1>2 DEF Insert, Nodes
  <2> QED
    BY <2>1, <2>2
<1>3. CASE EnableChld
  BY <1>3 DEF EnableChld, Enabled, Ignored
<1>4. CASE Remove
  <2>1. pc = "remove" /\ pc' = "disable" /\ UNCHANGED <<held, oldMask, tbl>>
    BY <1>4 DEF Remove
  <2>2. forw'["rock"] = "rock"
    BY <1>4 DEF Remove, Nodes, Null
  <2> QED
    BY <2>1, <2>2
<1>5. CASE Disable
  BY <1>5 DEF Disable, Disabled
<1>6. CASE ExecEnable
  BY <1>6 DEF ExecEnable, Enabled, Ignored
<1>7. CASE ExecDone
  BY <1>7 DEF ExecDone, Disabled
<1>8. CASE Fork \/ SetChild \/ ExecFork \/ ExecWait
  BY <1>1, <1>8 DEF Fork, SetChild, ExecFork, ExecWait
<1>9. ~ForkFails /\ ~ExecForkFails
  <2>1. kid \in [Kids \cup Others -> Child]
    BY DEF SqInv, TypeOK
  <2>2. ~UseUp
    BY <2>1 DEF UseUp, ForkFailed, Child
  <2> QED
    BY <2>2 DEF ForkFails, ExecForkFails
<1>10. CASE ForkPipe \/ WaitPipe
  BY <1>1, <1>10 DEF ForkPipe, WaitPipe, PipeTo
<1>11. CASE ForkReleases \/ WaitReleases \/ WaitEnds
  <2>1. UNCHANGED <<tbl, listvars, oldMask>> /\ ~held'
    BY <1>11 DEF ForkReleases, WaitReleases, WaitEnds, Hold
  <2>2. pc \in {"forked", "loop"} /\ pc' \in {"wait", "read", "remove"}
    BY <1>11 DEF ForkReleases, WaitReleases, WaitEnds, Hold
  <2> QED
    BY <1>1, <2>1, <2>2
<1>12. CASE WaitHoldsAgain
  BY <1>1, <1>12 DEF WaitHoldsAgain, Hold
<1>13. CASE WaitHolds
  BY <1>1, <1>13 DEF WaitHolds
<1>14. CASE WaitClose0 \/ WaitClose1 \/ WaitReads \/ WaitInterrupted
  BY <1>1, <1>14 DEF WaitClose0, WaitClose1, CloseEnd, WaitReads, WaitInterrupted
<1>15. CASE SignalHandler
  <2>1. pc' = pc /\ UNCHANGED <<held, tbl, listvars, oldMask>>
    BY <1>15 DEF SignalHandler, HandlerStarts, HandlerReaps, HandlerReturns, HandlerFinds,
                 HandlerMisses, HandlerCloses, HandlerUnsets
  <2> QED
    BY <1>1, <2>1
<1>16. ASSUME NEW k \in Kids \cup Others, KidStep(k) \/ KidInterrupted(k) \/ KidKilled(k)
       PROVE  CountsExact'
  <2>1. pc' = pc /\ UNCHANGED <<held, tbl, listvars, oldMask>>
    BY <1>16, KidSteps DEF KidMoves, KidEnds
  <2> QED
    BY <1>1, <2>1
<1>17. CASE UNCHANGED vars
  BY <1>1, <1>17 DEF vars
<1> QED
  BY <1>2, <1>3, <1>4, <1>5, <1>6, <1>7, <1>8, <1>9, <1>10, <1>11, <1>12, <1>13, <1>14,
     <1>15, <1>16, <1>17, <1>a DEF Next, Runner, Finished

-----------------------------------------------------------------------------
(* The theorems.                                                            *)

(* The first state satisfies the invariant.                                 *)
LEMMA InitInv == Init => SqInv
<1> SUFFICES ASSUME Init PROVE SqInv
  OBVIOUS
<1> USE DEF Init
<1>1. TypeOK
  <2>1. tbl \in [Sigs -> SigEntry]
    BY DEF SigEntry
  <2>2. sq \in Element
    BY DEF Element
  <2>3. kid \in [Kids \cup Others -> Child]
    <3>1. \A k \in Kids \cup Others :
            [st  |-> IF k \in Others THEN "script" ELSE "none",
             fds |-> {}, pipe |-> 0, how |-> -1, early |-> FALSE] \in Child
      BY DEF Child
    <3> QED
      BY <3>1
  <2>4. held \in BOOLEAN /\ oldMask \in BOOLEAN /\ pending \in BOOLEAN /\ eintr \in BOOLEAN
    BY Zenon
  <2>5. fd \in [Fds -> Ends \cup {Closed}]
    OBVIOUS
  <2>6. forw \in [Nodes -> Nodes \cup {Null}] /\ back \in [Nodes -> Nodes \cup {Null}]
    BY DEF Nodes
  <2> QED
    BY <2>1, <2>2, <2>3, <2>4, <2>5, <2>6 DEF TypeOK
<1>2. SignalHeld
  BY DEF SignalHeld, HeldPlaces, Sigs
<1>3. KidsKnown
  BY RpmSqAssumption DEF KidsKnown
<1>4. ChildKnown
  BY DEF ChildKnown
<1>5. FdsKnown
  BY DEF FdsKnown, OnlyOpen
<1>6. ChildWaits /\ BuildKnown
  BY DEF ChildWaits, BuildKnown
<1>7. CountsExact
  BY DEF CountsExact, Building, HeldPlaces, Sigs, Nodes
<1> QED
  BY <1>1, <1>2, <1>3, <1>4, <1>5, <1>6, <1>7 DEF SqInv

(* The inductive invariant holds in every state of every execution.         *)
THEOREM SqInvariant == ASSUME ~PsmThreads PROVE Spec => []SqInv
<1>1. SqInv /\ [Next]_vars => SqInv'
  BY TypeStep, SignalStep, KidsStep, ChildStep, FdsStep, WaitsStep, BuildStep, CountsStep
     DEF SqInv
<1> QED
  BY InitInv, <1>1, PTL DEF Spec

(* rpmsqWait and rpmsqExecve return the status of the script they started,  *)
(* whatever other children end and whenever the signal comes.               *)
THEOREM OwnStatusCorrect == ASSUME ~PsmThreads PROVE Spec => []OwnStatus
<1>1. SqInv => OwnStatus
  <2> SUFFICES ASSUME SqInv PROVE OwnStatus
    OBVIOUS
  <2>1. StatusOfTheScript
    BY RpmSqAssumption DEF SqInv, ChildKnown, Recorded, StatusOfTheScript
  <2>2. StatusOfTheBuild
    BY DEF SqInv, BuildKnown, StatusOfTheBuild
  <2> QED
    BY <2>1, <2>2 DEF OwnStatus
<1> QED
  BY SqInvariant, <1>1, PTL

(* No script starts before its parent waits with SIGCHLD held, unless a     *)
(* signal interrupted the child.                                            *)
THEOREM ScriptAfterWaitCorrect == ASSUME ~PsmThreads PROVE Spec => []ScriptAfterWait
<1>1. SqInv => ScriptAfterWait
  BY DEF SqInv, ChildWaits, ScriptAfterWait, TooEarly
<1> QED
  BY SqInvariant, <1>1, PTL

(* Descriptors, the handler, the mask and the queue are given back after    *)
(* each script, and the handler closes no descriptor but its own.           *)
THEOREM GivenBackCorrect == ASSUME ~PsmThreads PROVE Spec => []GivenBack
<1>1. SqInv => GivenBack
  <2> SUFFICES ASSUME SqInv PROVE GivenBack
    OBVIOUS
  <2>1. ASSUME pc = "idle", ~ForkFailed PROVE NothingLeft
    <3>1. OpenIn(fd) = {} /\ sq.p0 = -1 /\ sq.p1 = -1
      BY <2>1 DEF SqInv, FdsKnown, OnlyOpen, OpenIn
    <3>2. ~held /\ ~QueueHas
      BY <2>1 DEF SqInv, CountsExact, HeldPlaces, Building, QueueHas
    <3>3. \A s \in Sigs : tbl[s] \in SigEntry /\ tbl[s].active = 0 /\ ~tbl[s].inst
      BY <2>1 DEF SqInv, TypeOK, CountsExact, Building, Sigs
    <3>4. \A s \in Sigs : tbl[s] = [active |-> 0, inst |-> FALSE]
      BY <3>3 DEF SigEntry
    <3> QED
      BY <3>1, <3>2, <3>4 DEF NothingLeft
  <2>2. ClosesItsOwn
    <3>1. ASSUME hpc = "close", sq.p1 # -1 PROVE \E p : fd[sq.p1] = <<p, "w">>
      BY <3>1 DEF SqInv, ChildKnown, FdsKnown, BothEnds, WriteEnd
    <3>2. \A p : <<p, "w">> # Closed /\ <<p, "w">>[2] = "w"
      BY DEF Closed
    <3> QED
      BY <3>1, <3>2 DEF ClosesItsOwn
  <2> QED
    BY <2>1, <2>2 DEF GivenBack, SqInv, NothingLeft
<1> QED
  BY SqInvariant, <1>1, PTL

(* "Protect sq->reaped from handler changes": while SIGCHLD is held nothing *)
(* changes what the element says of its child.                              *)
THEOREM ReapedProtectedCorrect == ASSUME ~PsmThreads PROVE Spec => ReapedProtected
<1>1. ASSUME SqInv, [Next]_vars, held, sq.child = sq'.child
      PROVE  sq'.reaped = sq.reaped
  <2>1. hpc = "off" /\ sq \in Element /\ DOMAIN kid = Kids \cup Others
    BY <1>1 DEF SqInv, SignalHeld, TypeOK
  <2>2. CASE Insert
    <3>1. sq'.reaped = NoPid /\ sq'.child = NoPid
      BY <2>2 DEF Insert
    <3> QED
      BY <1>1, <3>1, RpmSqAssumption DEF SqInv, ChildKnown, Recorded
  <2>3. CASE Runner
    <3>1. CASE ForkPipe \/ WaitPipe
      BY <2>1, <3>1 DEF ForkPipe, WaitPipe, PipeTo, Element
    <3>2. CASE ForkReleases \/ WaitReleases \/ WaitHoldsAgain \/ WaitEnds
      BY <3>2 DEF ForkReleases, WaitReleases, WaitHoldsAgain, WaitEnds, Hold
    <3>3. CASE ForkFails \/ SetChild \/ WaitReads \/ Remove
      BY <2>1, <3>3 DEF ForkFails, SetChild, WaitReads, Remove, Element
    <3>4. CASE EnableChld \/ Fork \/ WaitHolds \/ WaitClose0 \/ WaitClose1 \/ WaitInterrupted
               \/ Disable \/ ExecFork \/ ExecForkFails \/ ExecWait \/ ExecDone
      BY <3>4 DEF EnableChld, Fork, WaitHolds, WaitClose0, WaitClose1, CloseEnd,
                  WaitInterrupted, Disable, ExecFork, ExecForkFails, ExecWait, ExecDone, sigvars
    <3> QED
      BY <2>3, <3>1, <3>2, <3>3, <3>4 DEF Runner
  <2>4. CASE SignalHandler
    BY <2>1, <2>4 DEF SignalHandler, Handler, HandlerStarts, HandlerReaps, HandlerReturns,
                      HandlerFinds, HandlerMisses, HandlerCloses, HandlerUnsets
  <2>5. ASSUME NEW k \in Kids \cup Others, KidStep(k) \/ KidInterrupted(k) \/ KidKilled(k)
        PROVE  sq'.reaped = sq.reaped
    BY <2>5, KidSteps DEF KidMoves, KidEnds
  <2>6. CASE ExecEnable \/ UNCHANGED vars
    BY <2>6 DEF ExecEnable, vars
  <2> QED
    BY <1>1, <2>1, <2>2, <2>3, <2>4, <2>5, <2>6 DEF Next, Finished
<1>2. SqInv /\ [Next]_vars => [held /\ sq.child = sq'.child => sq'.reaped = sq.reaped]_vars
  BY <1>1
<1> QED
  BY SqInvariant, <1>2, PTL DEF Spec, ReapedProtected

(* Where no fork fails, the handler's walk over the queue ends: the queue   *)
(* of "insque(3)/remque(3) are dequeue, not ring" has the rock in its circle. *)
THEOREM QueueEndsCorrect ==
  ASSUME ~PsmThreads, ~ForkMayFail PROVE Spec => []QueueEnds
<1>1. Init => ~ForkFailed
  <2> SUFFICES ASSUME Init, NEW k \in Kids PROVE kid[k].st # "failed"
    BY DEF ForkFailed
  <2>1. kid[k].st \in {"none", "script"}
    BY DEF Init
  <2> QED
    BY <2>1
<1>2. SqInv /\ ~ForkFailed /\ [Next]_vars => ~ForkFailed'
  BY NoneFailed
<1>3. SqInv /\ ~ForkFailed => QueueEnds
  BY DEF SqInv, CountsExact, QueueEnds, QueueCircular, QueueHas
<1> QED
  BY SqInvariant, <1>1, <1>2, <1>3, PTL DEF Spec
=============================================================================
