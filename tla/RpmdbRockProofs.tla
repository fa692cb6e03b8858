--------------------------- MODULE RpmdbRockProofs ---------------------------
(***************************************************************************)
(* Proofs about RpmdbRock, for any number of databases, iterators and      *)
(* references: RockInv is inductive, and with it the chains are complete,  *)
(* a database is closed once and after its iterators, and no signal that   *)
(* was caught is forgotten.  One lemma per part of RockInv, and in it one  *)
(* step per action.                                                        *)
(***************************************************************************)
EXTENDS RpmdbRock, FiniteSetTheorems, SequenceTheorems, TLAPS

-----------------------------------------------------------------------------
(* Lemmas about chains.                                                     *)

(* What an element of a chain is.                                           *)
LEMMA ChainElement ==
  ASSUME NEW S, NEW chain \in Seq(S)
  PROVE  /\ InChain(chain) \subseteq S
         /\ chain # <<>> => chain[1] \in InChain(chain)
         /\ chain = <<>> <=> InChain(chain) = {}
BY DEF InChain

(* An element is put in front of its chain.                                 *)
LEMMA Chained ==
  ASSUME NEW S, NEW chain \in Seq(S), NoRepeats(chain),
         NEW x \in S, x \notin InChain(chain)
  PROVE  /\ <<x>> \o chain \in Seq(S) /\ <<x>> \o chain # <<>>
         /\ InChain(<<x>> \o chain) = InChain(chain) \cup {x}
         /\ NoRepeats(<<x>> \o chain)
<1> DEFINE new == <<x>> \o chain
<1>1. new \in Seq(S) /\ Len(new) = Len(chain) + 1
  OBVIOUS
<1>2. new[1] = x /\ \A n \in 2..Len(new) : new[n] = chain[n - 1]
  OBVIOUS
<1>3. Len(chain) \in Nat
  OBVIOUS
<1> HIDE DEF new
<1>4. InChain(new) \subseteq InChain(chain) \cup {x}
  BY <1>1, <1>2, <1>3 DEF InChain
<1>5. ASSUME NEW n \in 1..Len(chain) PROVE chain[n] \in InChain(new)
  <2>1. n + 1 \in 2..Len(new) /\ new[n + 1] = chain[n]
    BY <1>1, <1>2, <1>3
  <2> QED
    BY <2>1, <1>3, <1>1 DEF InChain
<1>6. x \in InChain(new)
  BY <1>1, <1>2, <1>3 DEF InChain
<1>7. NoRepeats(new)
  <2> SUFFICES ASSUME NEW i \in 1..Len(new), NEW j \in 1..Len(new), new[i] = new[j]
               PROVE  i = j
    BY DEF NoRepeats
  <2>1. \A n \in 2..Len(new) : n - 1 \in 1..Len(chain) /\ new[n] # x
    BY <1>1, <1>2, <1>3 DEF InChain
  <2>2. \A n \in 1..Len(new) : n = 1 \/ n \in 2..Len(new)
    BY <1>1, <1>3
  <2>3. CASE i = 1 \/ j = 1
    BY <2>1, <2>2, <2>3, <1>2
  <2>4. CASE i \in 2..Len(new) /\ j \in 2..Len(new)
    <3>1. chain[i - 1] = chain[j - 1] /\ i - 1 \in 1..Len(chain) /\ j - 1 \in 1..Len(chain)
      BY <2>1, <2>4, <1>2
    <3>2. i - 1 = j - 1
      BY <3>1 DEF NoRepeats
    <3> QED
      BY <3>2, <2>4
  <2> QED
    BY <2>2, <2>3, <2>4
<1>8. new # <<>>
  BY <1>1, <1>3
<1> QED
  BY <1>1, <1>4, <1>5, <1>6, <1>7, <1>8 DEF InChain, new

(* The first element is taken off its chain.                                *)
LEMMA Unchained ==
  ASSUME NEW S, NEW chain \in Seq(S), NoRepeats(chain), chain # <<>>
  PROVE  /\ Tail(chain) \in Seq(S)
         /\ InChain(Tail(chain)) = InChain(chain) \ {chain[1]}
         /\ NoRepeats(Tail(chain))
<1>1. /\ Tail(chain) \in Seq(S) /\ Len(chain) \in Nat \ {0}
      /\ Len(Tail(chain)) = Len(chain) - 1
      /\ \A n \in 1..Len(Tail(chain)) : Tail(chain)[n] = chain[n + 1]
  OBVIOUS
<1>2. NoRepeats(Tail(chain))
  BY <1>1 DEF NoRepeats
<1>3. InChain(Tail(chain)) \subseteq InChain(chain) \ {chain[1]}
  BY <1>1 DEF InChain, NoRepeats
<1>4. ASSUME NEW n \in 1..Len(chain), chain[n] # chain[1]
      PROVE  chain[n] \in InChain(Tail(chain))
  <2>1. n - 1 \in 1..Len(Tail(chain)) /\ Tail(chain)[n - 1] = chain[n]
    BY <1>1, <1>4
  <2> QED
    BY <2>1 DEF InChain
<1> QED
  BY <1>1, <1>2, <1>3, <1>4 DEF InChain

(* An element is unlinked from its chain.                                   *)
LEMMA Unlinked ==
  ASSUME NEW S, NEW chain \in Seq(S), NoRepeats(chain), NEW x
  PROVE  /\ Without(chain, x) \in Seq(S)
         /\ InChain(Without(chain, x)) = InChain(chain) \ {x}
         /\ NoRepeats(Without(chain, x))
<1>1. CASE x \notin InChain(chain)
  BY <1>1 DEF Without
<1>2. CASE x \in InChain(chain)
  <2> DEFINE at == CHOOSE n \in 1..Len(chain) : chain[n] = x
             new == [n \in 1..(Len(chain) - 1) |-> IF n < at THEN chain[n] ELSE chain[n + 1]]
  <2>1. at \in 1..Len(chain) /\ chain[at] = x
    BY <1>2 DEF InChain
  <2>2. Without(chain, x) = new
    BY <1>2 DEF Without
  <2>3. Len(chain) \in Nat /\ \A n \in 1..Len(chain) : chain[n] \in S
    OBVIOUS
  <2> HIDE DEF at
  <2>4. new \in Seq(S) /\ Len(new) = Len(chain) - 1
    BY <2>1, <2>3
  <2>5. \A n \in 1..Len(new) : new[n] = IF n < at THEN chain[n] ELSE chain[n + 1]
    BY <2>4
  <2> HIDE DEF new
  <2>6. NoRepeats(new)
    <3> SUFFICES ASSUME NEW i \in 1..Len(new), NEW j \in 1..Len(new), new[i] = new[j]
                 PROVE  i = j
      BY DEF NoRepeats
    <3>1. \A n \in 1..Len(new) : n \in 1..Len(chain) /\ n + 1 \in 1..Len(chain)
      BY <2>3, <2>4
    <3>2. \A p, q \in 1..Len(chain) : chain[p] = chain[q] => p = q
      BY DEF NoRepeats
    <3> QED
      BY <3>1, <3>2, <2>1, <2>3, <2>4, <2>5
  <2>7. \A n \in 1..Len(new) : new[n] \in InChain(chain) \ {x}
    BY <2>1, <2>3, <2>4, <2>5 DEF InChain, NoRepeats
  <2>8. ASSUME NEW n \in 1..Len(chain), chain[n] # x PROVE chain[n] \in InChain(new)
    <3>1. CASE n < at
      BY <3>1, <2>1, <2>3, <2>4, <2>5 DEF InChain
    <3>2. CASE n > at
      <4>1. n - 1 \in 1..Len(new) /\ ~(n - 1 < at) /\ (n - 1) + 1 = n
        BY <3>2, <2>1, <2>3, <2>4
      <4>2. new[n - 1] = chain[n]
        BY <4>1, <2>5
      <4> QED
        BY <4>1, <4>2 DEF InChain
    <3> QED
      BY <3>1, <3>2, <2>1, <2>8, <2>3
  <2> QED
    BY <2>2, <2>4, <2>6, <2>7, <2>8 DEF InChain
<1> QED
  BY <1>1, <1>2

(* A chain without repetitions is as long as the set of its elements.       *)
LEMMA ChainLength ==
  ASSUME NEW S, NEW chain \in Seq(S), NoRepeats(chain)
  PROVE  Len(chain) = Cardinality(InChain(chain))
<1>1. Len(chain) \in Nat /\ DOMAIN chain = 1..Len(chain)
  OBVIOUS
<1>2. chain \in [1..Len(chain) -> InChain(chain)]
  BY DEF InChain
<1>3. ExistsBijection(1..Len(chain), InChain(chain))
  BY <1>2 DEF ExistsBijection, Bijection, Injection, Surjection, IsInjective, InChain, NoRepeats
<1>4. IsFiniteSet(1..Len(chain)) /\ Cardinality(1..Len(chain)) = Len(chain)
  BY <1>1, FS_Interval
<1> QED
  BY <1>3, <1>4, FS_Bijection

-----------------------------------------------------------------------------
(* Lemmas about the stack of calls.                                         *)

(* What is in the frame of a destructor, of a constructor, or of a loop.    *)
LEMMA FrameKinds ==
  ASSUME NEW f \in Frames
  PROVE  /\ f[1] = "rpmdbClose" => f[2] \in Dbs /\ f = <<"rpmdbClose", f[2]>>
         /\ f[1] = "rpmmiFini" => f[2] \in Mis /\ f = <<"rpmmiFini", f[2]>>
         /\ f[1] = "rpmmiInit" => f[2] \in Mis /\ f[3] \in Dbs /\ f[4] \in BOOLEAN
         /\ f[1] \in {"rpmdbCheckSignals", "freeIterators", "closeDatabases", "exit", "restoreMask"}
              => f = <<f[1]>>
BY DEF Frames

(* The frames.                                                              *)
LEMMA FramesAre ==
  /\ <<"rpmdbCheckSignals">> \in Frames /\ <<"freeIterators">> \in Frames
  /\ <<"closeDatabases">> \in Frames /\ <<"exit">> \in Frames /\ <<"restoreMask">> \in Frames
  /\ \A d \in Dbs : <<"rpmdbClose", d>> \in Frames
  /\ \A m \in Mis : <<"rpmmiFini", m>> \in Frames
  /\ \A m \in Mis, d \in Dbs, ok \in BOOLEAN : <<"rpmmiInit", m, d, ok>> \in Frames
BY DEF Frames

(* Two calls.                                                               *)
LEMMA TwoCalls ==
  ASSUME NEW a, NEW b
  PROVE  <<a>> \o <<b>> = <<a, b>>
<1>1. <<a>> \in Seq({a, b}) /\ <<b>> \in Seq({a, b}) /\ <<a, b>> \in Seq({a, b})
  OBVIOUS
<1>2. /\ <<a>> \o <<b>> \in Seq({a, b}) /\ Len(<<a>> \o <<b>>) = 2
      /\ (<<a>> \o <<b>>)[1] = a /\ (<<a>> \o <<b>>)[2] = b
  BY <1>1
<1>3. Len(<<a, b>>) = 2 /\ <<a, b>>[1] = a /\ <<a, b>>[2] = b
  OBVIOUS
<1>4. Len(<<a>> \o <<b>>) = Len(<<a, b>>)
      /\ \A i \in 1..Len(<<a>> \o <<b>>) : (<<a>> \o <<b>>)[i] = <<a, b>>[i]
  <2>1. 1..2 = {1, 2}
    OBVIOUS
  <2> QED
    BY <1>2, <1>3, <2>1
<1> HIDE <1>2, <1>3
<1> QED
  BY <1>1, <1>2, <1>4, SeqEqual, Zenon

(* A function returns.                                                      *)
LEMMA Returned ==
  ASSUME NEW s \in Seq(Frames), s # <<>>, NEW t, t = <<>> \o Tail(s)
  PROVE  /\ t \in Seq(Frames) /\ Len(t) = Len(s) - 1 /\ t = Tail(s)
         /\ \A n \in 1..Len(t) : t[n] = s[n + 1]
OBVIOUS

(* A function calls another as the last thing it does.                      *)
LEMMA Replaced ==
  ASSUME NEW s \in Seq(Frames), s # <<>>, NEW a \in Frames, NEW t, t = <<a>> \o Tail(s)
  PROVE  /\ t \in Seq(Frames) /\ Len(t) = Len(s) /\ t[1] = a
         /\ \A n \in 2..Len(t) : t[n] = s[n]
OBVIOUS

(* A function calls another, and has something left to do.                  *)
LEMMA Called ==
  ASSUME NEW s \in Seq(Frames), s # <<>>, NEW a \in Frames, NEW b \in Frames,
         NEW t, t = <<a, b>> \o Tail(s)
  PROVE  /\ t \in Seq(Frames) /\ Len(t) = Len(s) + 1 /\ t[1] = a /\ t[2] = b
         /\ \A n \in 3..Len(t) : t[n] = s[n - 1]
OBVIOUS

(* The function that runs has a frame.                                      *)
LEMMA Running ==
  ASSUME RockInv, calls # <<>>
  PROVE  /\ calls \in Seq(Frames) /\ calls[1] \in Frames /\ Len(calls) \in Nat \ {0}
         /\ Op = "rpmdbClose" => Arg \in Dbs /\ calls[1] = <<"rpmdbClose", Arg>>
         /\ Op = "rpmmiFini" => Arg \in Mis /\ calls[1] = <<"rpmmiFini", Arg>>
         /\ Op = "rpmmiInit" => Arg \in Mis /\ calls[1][3] \in Dbs /\ calls[1][4] \in BOOLEAN
<1>1. calls \in Seq(Frames)
  BY DEF RockInv, Stacked
<1>2. calls[1] \in Frames /\ Len(calls) \in Nat \ {0}
  BY <1>1
<1> QED
  BY <1>1, <1>2, FrameKinds DEF Op, Arg

(* A database that is to be closed has a reference left, and while there is *)
(* one the handlers are installed.                                          *)
LEMMA CloseHasOne ==
  ASSUME RockInv, Pending("rpmdbClose")
  PROVE  refs[Arg] > 0 /\ active = 1
<1>1. calls # <<>> /\ Op = "rpmdbClose" /\ ~exited
  BY DEF Pending
<1>2. Arg \in Dbs /\ calls[1] = <<"rpmdbClose", Arg>>
  BY <1>1, Running
<1>3. CASE Counted
  <2>1. Due(Arg) = 1
    BY <1>1, <1>2 DEF Due
  <2>2. IsFiniteSet(Holding(Arg))
    BY RockAssumption, FS_Subset DEF RockInv, TypeOK, Holding
  <2>3. Cardinality(Holding(Arg)) \in Nat
    BY <2>2, FS_CardinalityType
  <2>4. handles[Arg] \in Nat
    BY <1>2, RockAssumption DEF RockInv, TypeOK
  <2>5. refs[Arg] = handles[Arg] + Cardinality(Holding(Arg)) + Due(Arg)
    BY <1>2, <1>3 DEF RockInv, RefsKnown
  <2>6. refs[Arg] > 0
    BY <2>1, <2>3, <2>4, <2>5
  <2>7. Arg \in InChain(rpmdbRock)
    BY <1>2, <1>3, <2>6 DEF RockInv, RefsKnown
  <2>8. rpmdbRock # <<>>
    BY <2>7 DEF InChain
  <2> QED
    BY <1>3, <2>6, <2>8 DEF RockInv, RefsKnown
<1>4. CASE ~Counted
  <2>1. terminating /\ ~Freeing
    BY <1>1, <1>4 DEF Counted
  <2>2. Closing
    BY <1>1, <2>1 DEF RockInv, CleanupKnown
  <2> QED
    BY <1>1, <2>1, <2>2 DEF RockInv, ClosingKnown
<1> QED
  BY <1>3, <1>4

(* An iterator is made, or nothing matches.                                 *)
LEMMA IteratorMade ==
  ASSUME RpmmiInit, calls[1][4]
  PROVE  /\ rpmmiRock' = <<Arg>> \o rpmmiRock
         /\ miDb' = [miDb EXCEPT ![Arg] = calls[1][3]]
         /\ live' = live \cup {Arg}
         /\ refs' = [refs EXCEPT ![calls[1][3]] = @ + 1]
         /\ calls' = <<>> \o Tail(calls)
         /\ UNCHANGED <<rpmdbRock, open, handles, cursor, sigVars, terminating, exited>>
BY DEF RpmmiInit, Linked, Continue

(* Nothing matches the patterns of an iterator.                             *)
LEMMA NothingMatched ==
  ASSUME RpmmiInit, ~calls[1][4]
  PROVE  /\ calls' = << <<"rpmmiFini", Arg>> >> \o Tail(calls)
         /\ UNCHANGED <<chains, dbVars, miVars, sigVars, terminating, exited>>
BY DEF RpmmiInit, Continue, chains, dbVars, miVars

-----------------------------------------------------------------------------
(* One lemma for each part of the invariant.                                *)

(* Every step keeps the types.                                              *)
LEMMA TypeStep == RockInv /\ [Next]_vars => TypeOK'
<1> SUFFICES ASSUME RockInv, [Next]_vars PROVE TypeOK'
  OBVIOUS
<1>0. TypeOK /\ NoRepeats(rpmdbRock) /\ NoRepeats(rpmmiRock)
  BY DEF RockInv, ChainsKnown
<1> USE RockAssumption DEF TypeOK, chains, dbVars, miVars, sigVars
<1>1. ASSUME ~terminating, NEW d \in Dbs, NEW ok \in BOOLEAN, Open(d, ok) PROVE TypeOK'
  <2>1. rpmdbRock' \in Seq(Dbs)
    BY <1>0, <1>1 DEF Open
  <2>2. active' \in {0, 1}
    <3>1. rpmdbRock = <<>> => active = 0
      BY <1>0, <1>1 DEF RockInv, RefsKnown, Counted, Open, Idle
    <3> QED
      BY <1>0, <1>1, <3>1 DEF Open, NobodyOn
  <2>3. refs' \in [Dbs -> Nat] /\ handles' \in [Dbs -> 0..MaxLinks] /\ open' \in [Dbs -> BOOLEAN]
    BY <1>0, <1>1 DEF Open
  <2>4. caught' \in BOOLEAN
    BY <1>0, <1>1, Zenon DEF Open
  <2> QED
    BY <1>0, <1>1, <2>1, <2>2, <2>3, <2>4 DEF Open
<1>2. ASSUME NEW d \in Dbs, LinkDb(d) PROVE TypeOK'
  BY <1>0, <1>2 DEF LinkDb, Linked
<1>3. ASSUME NEW d \in Dbs, CloseDb(d) PROVE TypeOK'
  BY <1>0, <1>3 DEF CloseDb
<1>4. ASSUME NEW d \in Dbs, Update(d) PROVE TypeOK'
  BY <1>0, <1>4 DEF Update
<1>5. ASSUME NEW m \in Mis, NEW d \in Dbs, NEW ok \in BOOLEAN, InitMi(m, d, ok) PROVE TypeOK'
  BY <1>0, <1>5 DEF InitMi
<1>6. ASSUME NEW m \in Mis, NextMi(m) PROVE TypeOK'
  BY <1>0, <1>6 DEF NextMi
<1>7. ASSUME NEW m \in Mis, FreeMi(m) PROVE TypeOK'
  BY <1>0, <1>7 DEF FreeMi
<1>8. CASE Terminate
  BY <1>0, <1>8 DEF Terminate
<1>9. CASE CheckSignals
  <2>1. exited' \in BOOLEAN /\ terminating' \in BOOLEAN /\ blocked' \in BOOLEAN
    BY <1>0, <1>9, Zenon DEF CheckSignals
  <2> QED
    BY <1>0, <1>9, <2>1 DEF CheckSignals
<1>10. CASE FreeIterators
  BY <1>0, <1>10 DEF FreeIterators
<1>11. CASE CloseDatabases
  BY <1>0, <1>11 DEF CloseDatabases
<1>12. CASE IteratorsFreed \/ DatabasesClosed \/ Exit
  BY <1>0, <1>12 DEF IteratorsFreed, DatabasesClosed, Exit
<1>13. CASE MaskRestored
  <2>1. caught' \in BOOLEAN
    BY <1>0, <1>13, Zenon DEF MaskRestored, RestoreMask
  <2> QED
    BY <1>0, <1>13, <2>1 DEF MaskRestored, RestoreMask
<1>14. CASE RpmmiInit
  <2>1. Arg \in Mis /\ calls[1][3] \in Dbs
    BY <1>14, Running DEF RpmmiInit, Pending
  <2>2. CASE calls[1][4]
    <3>0. /\ rpmmiRock' = <<Arg>> \o rpmmiRock
          /\ miDb' = [miDb EXCEPT ![Arg] = calls[1][3]]
          /\ live' = live \cup {Arg} /\ cursor' = cursor
          /\ refs' = [refs EXCEPT ![calls[1][3]] = @ + 1]
      BY <1>14, <2>2, IteratorMade
    <3>1. rpmmiRock' \in Seq(Mis) /\ live' \in SUBSET Mis /\ cursor' \in SUBSET live'
      BY <1>0, <2>1, <3>0
    <3>2. miDb' \in [Mis -> Dbs \cup {NoDb}] /\ refs' \in [Dbs -> Nat]
      BY <1>0, <2>1, <3>0
    <3> QED
      BY <1>0, <1>14, <2>2, <3>1, <3>2, IteratorMade
  <2>3. CASE ~calls[1][4]
    BY <1>0, <1>14, <2>3, NothingMatched
  <2> QED
    BY <2>2, <2>3
<1>15. CASE RpmmiFini
  <2>1. Arg \in Mis
    BY <1>15, Running DEF RpmmiFini, Pending
  <2>2. rpmmiRock' \in Seq(Mis)
    BY <1>0, <1>15, Unlinked DEF RpmmiFini
  <2> QED
    BY <1>0, <1>15, <2>1, <2>2 DEF RpmmiFini
<1>16. CASE DropRef
  <2>1. Arg \in Dbs
    BY <1>16, Running DEF DropRef, Pending
  <2> QED
    BY <1>0, <1>16, <2>1 DEF DropRef, LastRef
<1>17. CASE CloseLast
  <2>1. Arg \in Dbs /\ active = 1
    BY <1>17, Running, CloseHasOne DEF CloseLast, Pending
  <2>2. rpmdbRock' \in Seq(Dbs)
    BY <1>0, <1>17, Unlinked DEF CloseLast
  <2>3. active' \in {0, 1}
    BY <1>17, <2>1 DEF CloseLast
  <2>4. refs' \in [Dbs -> Nat] /\ open' \in [Dbs -> BOOLEAN]
    BY <1>0, <1>17, <2>1 DEF CloseLast
  <2> QED
    BY <1>0, <1>17, <2>2, <2>3, <2>4 DEF CloseLast
<1>18. CASE SignalArrives
  <2>1. caught' \in BOOLEAN /\ pending' \in BOOLEAN
    BY <1>0, <1>18, Zenon DEF SignalArrives
  <2> QED
    BY <1>0, <1>18, <2>1 DEF SignalArrives
<1>19. CASE UNCHANGED vars
  BY <1>0, <1>19 DEF vars
<1> QED
  BY <1>1, <1>2, <1>3, <1>4, <1>5, <1>6, <1>7, <1>8, <1>9, <1>10, <1>11, <1>12, <1>13,
     <1>14, <1>15, <1>16, <1>17, <1>18, <1>19
     DEF Next, Program, Call, Over

(* Every step keeps the stack of calls in order.                            *)
LEMMA StackedStep == RockInv /\ [Next]_vars => Stacked'
<1> SUFFICES ASSUME RockInv, [Next]_vars PROVE Stacked'
  OBVIOUS
<1>0. Stacked /\ terminating \in BOOLEAN
  BY DEF RockInv, TypeOK
<1>1. CASE Program
  <2>1. /\ calls' \in Seq(Frames)
        /\ \/ calls' = <<>>
           \/ \E f \in Frames : calls' = <<f>> /\ f[1] \in {"rpmdbClose", "rpmmiFini"}
           \/ \E f \in Frames : /\ calls' = << <<"rpmdbCheckSignals">>, f>>
                                /\ f[1] \in {"rpmmiInit", "restoreMask"}
           \/ calls' = << <<"freeIterators">>, <<"restoreMask">> >> /\ terminating'
    <3>1. ASSUME NEW d \in Dbs, NEW ok \in BOOLEAN, Open(d, ok)
          PROVE  calls' = <<>> \/ calls' = << <<"rpmdbClose", d>> >>
      BY <3>1 DEF Open
    <3>2. ASSUME NEW d \in Dbs, LinkDb(d) \/ CloseDb(d)
          PROVE  calls' = <<>> \/ calls' = << <<"rpmdbClose", d>> >>
      BY <3>2 DEF LinkDb, CloseDb, Idle
    <3>3. ASSUME NEW d \in Dbs, Update(d)
          PROVE  calls' = << <<"rpmdbCheckSignals">>, <<"restoreMask">> >>
      BY <3>3 DEF Update
    <3>4. ASSUME NEW m \in Mis, NEW d \in Dbs, NEW ok \in BOOLEAN, InitMi(m, d, ok)
          PROVE  calls' = << <<"rpmdbCheckSignals">>, <<"rpmmiInit", m, d, ok>> >>
      BY <3>4 DEF InitMi
    <3>5. ASSUME NEW m \in Mis, NextMi(m) \/ FreeMi(m)
          PROVE  calls' = <<>> \/ calls' = << <<"rpmmiFini", m>> >>
      BY <3>5 DEF NextMi, FreeMi, Idle
    <3>6. ASSUME Terminate
          PROVE  calls' = << <<"freeIterators">>, <<"restoreMask">> >> /\ terminating'
      BY <3>6 DEF Terminate
    <3>7. ASSUME NEW f \in Frames, calls' = <<f>> PROVE calls' \in Seq(Frames)
      BY <3>7
    <3>8. ASSUME NEW f \in Frames, NEW g \in Frames, calls' = <<f, g>> PROVE calls' \in Seq(Frames)
      BY <3>8
    <3>9. ASSUME NEW d \in Dbs, calls' = <<>> \/ calls' = << <<"rpmdbClose", d>> >> PROVE <2>1
      <4>1. CASE calls' = <<>>
        BY <4>1
      <4>2. CASE calls' = << <<"rpmdbClose", d>> >>
        BY <3>7, <4>2, FramesAre
      <4> QED
        BY <3>9, <4>1, <4>2
    <3>10. ASSUME NEW m \in Mis, calls' = <<>> \/ calls' = << <<"rpmmiFini", m>> >> PROVE <2>1
      <4>1. CASE calls' = <<>>
        BY <4>1
      <4>2. CASE calls' = << <<"rpmmiFini", m>> >>
        BY <3>7, <4>2, FramesAre
      <4> QED
        BY <3>10, <4>1, <4>2
    <3>11. ASSUME NEW d \in Dbs, Update(d) PROVE <2>1
      BY <3>3, <3>8, <3>11, FramesAre
    <3>12. ASSUME NEW m \in Mis, NEW d \in Dbs, NEW ok \in BOOLEAN, InitMi(m, d, ok) PROVE <2>1
      BY <3>4, <3>8, <3>12, FramesAre
    <3>13. ASSUME Terminate PROVE <2>1
      BY <3>6, <3>8, <3>13, FramesAre
    <3> QED
      BY <1>1, <3>1, <3>2, <3>5, <3>9, <3>10, <3>11, <3>12, <3>13 DEF Program
  <2>2. CASE calls' = <<>>
    BY <2>2 DEF Stacked
  <2>3. ASSUME NEW f \in Frames, calls' = <<f>>, f[1] \in {"rpmdbClose", "rpmmiFini"} PROVE Stacked'
    <3>1. Len(calls') = 1 /\ calls'[1] = f
      BY <2>3
    <3> QED
      BY <2>1, <2>3, <3>1 DEF Stacked
  <2>4. ASSUME NEW f \in Frames, calls' = << <<"rpmdbCheckSignals">>, f>>,
               f[1] \in {"rpmmiInit", "restoreMask"}
        PROVE  Stacked'
    <3>1. Len(calls') = 2 /\ calls'[1][1] = "rpmdbCheckSignals" /\ calls'[2] = f
      BY <2>4
    <3> QED
      BY <2>1, <2>4, <3>1 DEF Stacked
  <2>5. CASE calls' = << <<"freeIterators">>, <<"restoreMask">> >> /\ terminating'
    <3>1. Len(calls') = 2 /\ calls'[1][1] = "freeIterators" /\ calls'[2][1] = "restoreMask"
      BY <2>5
    <3> QED
      BY <2>1, <2>5, <3>1 DEF Stacked
  <2> QED
    BY <2>1, <2>2, <2>3, <2>4, <2>5
<1>2. ASSUME calls # <<>>, calls' = <<>> \o Tail(calls), terminating => terminating' PROVE Stacked'
  <2>1. /\ calls' \in Seq(Frames) /\ Len(calls') = Len(calls) - 1 /\ Len(calls) \in Nat
        /\ \A n \in 1..Len(calls') : calls'[n] = calls[n + 1]
    BY <1>0, <1>2, Returned DEF Stacked
  <2>2. ASSUME NEW n \in 1..Len(calls')
        PROVE  /\ calls'[n][1] \notin {"rpmdbClose", "rpmmiFini"}
               /\ calls'[n][1] \in {"rpmmiInit", "restoreMask"} => n = Len(calls')
               /\ calls'[n][1] \in {"freeIterators", "closeDatabases"} =>
                     n < Len(calls') /\ calls'[n + 1][1] \in {"exit", "restoreMask"}
               /\ calls'[n][1] \in {"freeIterators", "closeDatabases", "exit"} => terminating'
    <3>1. PICK k \in 2..Len(calls) : k = n + 1 /\ calls'[n] = calls[k]
      BY <2>1, <2>2
    <3>2. k < Len(calls) => calls'[n + 1] = calls[k + 1]
      BY <2>1, <2>2, <3>1
    <3>3. k \in 1..Len(calls)
      BY <3>1
    <3>4. /\ calls[k][1] \notin {"rpmdbClose", "rpmmiFini"}
          /\ calls[k][1] \in {"rpmmiInit", "restoreMask"} => k = Len(calls)
          /\ calls[k][1] \in {"freeIterators", "closeDatabases"} =>
                k < Len(calls) /\ calls[k + 1][1] \in {"exit", "restoreMask"}
          /\ calls[k][1] \in {"freeIterators", "closeDatabases", "exit"} => terminating
      BY <1>0, <3>3 DEF Stacked
    <3>5. (k = Len(calls) => n = Len(calls')) /\ (k < Len(calls) => n < Len(calls'))
      BY <2>1, <3>1
    <3> QED
      BY <1>2, <3>1, <3>2, <3>4, <3>5
  <2>3. 2..Len(calls') \subseteq 1..Len(calls')
    BY <2>1
  <2> QED
    BY <2>1, <2>2, <2>3 DEF Stacked
<1>3. ASSUME calls # <<>>, terminating => terminating', NEW f \in Frames, calls' = <<f>> \o Tail(calls),
             \/ f[1] \in {"rpmdbCheckSignals", "rpmmiFini"}
             \/ Op = "freeIterators" /\ f[1] = "closeDatabases"
      PROVE  Stacked'
  <2>1. /\ calls' \in Seq(Frames) /\ Len(calls') = Len(calls) /\ Len(calls) \in Nat \ {0}
        /\ calls'[1] = f
        /\ \A n \in 2..Len(calls') : calls'[n] = calls[n]
    BY <1>0, <1>3, Replaced DEF Stacked
  <2>2. \A n \in 1..Len(calls') : n = 1 \/ n \in 2..Len(calls)
    BY <2>1
  <2>3. \A n \in 1..Len(calls') : n < Len(calls') => n + 1 \in 2..Len(calls')
    BY <2>1
  <2> QED
    BY <1>0, <1>3, <2>1, <2>2, <2>3 DEF Stacked, Op
<1>4. ASSUME calls # <<>>, terminating => terminating', NEW f \in Frames, NEW g \in Frames,
             calls' = <<f, g>> \o Tail(calls),
             \/ f[1] = "rpmdbClose" /\ g[1] = "rpmdbCheckSignals"
             \/ f[1] = "rpmmiFini" /\ g[1] = "freeIterators" /\ Op = "freeIterators"
             \/ f[1] = "rpmdbClose" /\ g[1] = "closeDatabases" /\ Op = "closeDatabases"
             \/ f[1] = "freeIterators" /\ g[1] = "exit" /\ terminating'
      PROVE  Stacked'
  <2>1. /\ calls' \in Seq(Frames) /\ Len(calls') = Len(calls) + 1 /\ Len(calls) \in Nat \ {0}
        /\ calls'[1] = f /\ calls'[2] = g
        /\ \A n \in 3..Len(calls') : calls'[n] = calls[n - 1]
    BY <1>0, <1>4, Called DEF Stacked
  <2>2. \A n \in 1..Len(calls') : n \in {1, 2} \/ (n \in 3..Len(calls') /\ n - 1 \in 2..Len(calls))
    BY <2>1
  <2>3. \A n \in 1..Len(calls') : n < Len(calls') => n + 1 \in 2..Len(calls')
    BY <2>1
  <2>4. ASSUME NEW n \in 3..Len(calls')
        PROVE  /\ calls'[n][1] \notin {"rpmdbClose", "rpmmiFini"}
               /\ calls'[n][1] \in {"rpmmiInit", "restoreMask"} => n = Len(calls')
               /\ calls'[n][1] \in {"freeIterators", "closeDatabases"} =>
                     n < Len(calls') /\ calls'[n + 1][1] \in {"exit", "restoreMask"}
               /\ calls'[n][1] \in {"freeIterators", "closeDatabases", "exit"} => terminating'
    <3>1. n - 1 \in 2..Len(calls) /\ n - 1 \in 1..Len(calls) /\ calls'[n] = calls[n - 1]
      BY <2>1, <2>4
    <3>2. n < Len(calls') => calls'[n + 1] = calls[(n - 1) + 1]
      BY <2>1, <2>4
    <3> QED
      BY <1>0, <1>4, <2>1, <3>1, <3>2 DEF Stacked
  <2>5. calls'[2][1] \in {"freeIterators", "closeDatabases"} =>
           2 < Len(calls') /\ calls'[3][1] \in {"exit", "restoreMask"}
    <3>1. ASSUME Op \in {"freeIterators", "closeDatabases"}
          PROVE  2 < Len(calls') /\ calls'[3][1] \in {"exit", "restoreMask"}
      <4>1. 1 < Len(calls) /\ calls[2][1] \in {"exit", "restoreMask"}
        BY <1>0, <2>1, <3>1 DEF Stacked, Op
      <4> QED
        BY <2>1, <4>1
    <3> QED
      BY <1>4, <2>1, <3>1
  <2>6. g[1] \in {"freeIterators", "closeDatabases"} => terminating
    BY <1>0, <1>4, <2>1 DEF Stacked, Op
  <2> QED
    BY <1>0, <1>4, <2>1, <2>2, <2>4, <2>5, <2>6 DEF Stacked
<1>5. CASE CheckSignals
  <2>1. CASE caught /\ ~terminating
    BY <1>4, <1>5, <2>1, FramesAre DEF CheckSignals, Pending, Continue
  <2>2. CASE ~(caught /\ ~terminating)
    BY <1>2, <1>5, <2>2 DEF CheckSignals, Pending, Continue
  <2> QED
    BY <2>1, <2>2
<1>6. CASE FreeIterators
  <2>1. <<"rpmmiFini", rpmmiRock[1]>> \in Frames
    BY <1>6, FramesAre, ChainElement DEF FreeIterators, RockInv, TypeOK
  <2> QED
    BY <1>4, <1>6, <2>1, FramesAre DEF FreeIterators, Pending, Continue
<1>7. CASE IteratorsFreed
  BY <1>3, <1>7, FramesAre DEF IteratorsFreed, Pending, Continue
<1>8. CASE CloseDatabases
  <2>1. <<"rpmdbClose", rpmdbRock[1]>> \in Frames
    BY <1>8, FramesAre, ChainElement DEF CloseDatabases, RockInv, TypeOK
  <2> QED
    BY <1>4, <1>8, <2>1, FramesAre DEF CloseDatabases, Pending, Continue
<1>9. CASE DatabasesClosed \/ MaskRestored \/ DropRef
  BY <1>2, <1>9 DEF DatabasesClosed, MaskRestored, DropRef, Pending, Continue
<1>10. CASE RpmmiInit
  <2>1. CASE calls[1][4]
    BY <1>2, <1>10, <2>1, IteratorMade DEF RpmmiInit, Pending
  <2>2. CASE ~calls[1][4]
    <3>1. <<"rpmmiFini", Arg>> \in Frames
      BY <1>10, Running, FramesAre DEF RpmmiInit, Pending
    <3> QED
      BY <1>3, <1>10, <2>2, <3>1, NothingMatched DEF RpmmiInit, Pending
  <2> QED
    BY <2>1, <2>2
<1>11. CASE RpmmiFini
  <2>1. Arg \in Mis /\ calls # <<>> /\ (terminating => terminating')
    BY <1>11, Running DEF RpmmiFini, Pending
  <2>2. CASE miDb[Arg] = NoDb
    <3>1. calls' = << <<"rpmdbCheckSignals">> >> \o Tail(calls)
      BY <1>11, <2>2 DEF RpmmiFini, Continue
    <3> QED
      BY <1>3, <2>1, <3>1, FramesAre
  <2>3. CASE miDb[Arg] # NoDb
    <3>0. << <<"rpmdbClose", miDb[Arg]>> >> \o << <<"rpmdbCheckSignals">> >>
             = << <<"rpmdbClose", miDb[Arg]>>, <<"rpmdbCheckSignals">> >>
      BY TwoCalls
    <3>1. calls' = << <<"rpmdbClose", miDb[Arg]>>, <<"rpmdbCheckSignals">> >> \o Tail(calls)
      BY <1>11, <2>3, <3>0 DEF RpmmiFini, Continue
    <3>2. miDb[Arg] \in Dbs
      BY <2>1, <2>3 DEF RockInv, TypeOK
    <3> QED
      BY <1>4, <2>1, <3>1, <3>2, FramesAre
  <2> QED
    BY <2>2, <2>3
<1>12. CASE CloseLast
  <2>1. calls # <<>> /\ (terminating => terminating')
    BY <1>12 DEF CloseLast, Pending
  <2>2. \/ calls' = <<>> \o Tail(calls)
        \/ calls' = << <<"rpmdbCheckSignals">> >> \o Tail(calls)
    BY <1>12 DEF CloseLast, LastClose, Continue
  <2> QED
    BY <1>2, <1>3, <2>1, <2>2, FramesAre
<1>13. CASE Exit \/ SignalArrives \/ UNCHANGED vars
  BY <1>0, <1>13 DEF Exit, SignalArrives, vars, Stacked
<1> QED
  BY <1>1, <1>5, <1>6, <1>7, <1>8, <1>9, <1>10, <1>11, <1>12, <1>13 DEF Next, Call, Over

(* What runs after a function has returned.                                 *)
LEMMA Uncovered ==
  ASSUME RockInv, calls # <<>>, calls' = <<>> \o Tail(calls)
  PROVE  /\ calls' # <<>> => /\ Len(calls) >= 2 /\ calls'[1] = calls[2] /\ Op' = calls[2][1]
                             /\ Op' \notin {"rpmdbClose", "rpmmiFini"}
         /\ Len(calls) >= 2 => calls' # <<>>
         /\ \A n \in 1..Len(calls') : n + 1 \in 2..Len(calls) /\ calls'[n] = calls[n + 1]
<1>1. /\ calls' \in Seq(Frames) /\ Len(calls') = Len(calls) - 1 /\ Len(calls) \in Nat
      /\ \A n \in 1..Len(calls') : calls'[n] = calls[n + 1]
  BY Returned DEF RockInv, Stacked
<1>2. calls' # <<>> => Len(calls') >= 1
  BY <1>1
<1>3. Len(calls') >= 1 => calls'[1] = calls[2] /\ 2 \in 2..Len(calls)
  BY <1>1
<1>4. \A n \in 1..Len(calls') : n + 1 \in 2..Len(calls)
  BY <1>1
<1>5. \A n \in 2..Len(calls) : calls[n][1] \notin {"rpmdbClose", "rpmmiFini"}
  BY DEF RockInv, Stacked
<1>6. calls' # <<>> => calls'[1] = calls[2] /\ 2 \in 2..Len(calls) /\ Op' = calls[2][1]
  BY <1>2, <1>3 DEF Op
<1>7. Len(calls) >= 2 => calls' # <<>>
  <2>1. calls' = <<>> => Len(calls') = 0
    OBVIOUS
  <2>2. Len(calls) >= 2 => Len(calls') >= 1
    BY <1>1
  <2> QED
    BY <2>1, <2>2
<1>8. 2 \in 2..Len(calls) => Len(calls) >= 2
  BY <1>1
<1> HIDE <1>2, <1>3
<1> QED
  BY <1>1, <1>4, <1>5, <1>6, <1>7, <1>8

(* What runs when a function called another as the last thing.              *)
LEMMA OnTop ==
  ASSUME RockInv, calls # <<>>, NEW f \in Frames, calls' = <<f>> \o Tail(calls)
  PROVE  /\ calls' # <<>> /\ calls'[1] = f /\ Op' = f[1]
         /\ \A op : Under(op)' <=> Under(op)
         /\ \A n \in 1..Len(calls') : n = 1 \/ (n \in 2..Len(calls) /\ calls'[n] = calls[n])
<1>1. /\ calls' \in Seq(Frames) /\ Len(calls') = Len(calls) /\ Len(calls) \in Nat \ {0}
      /\ calls'[1] = f
      /\ \A n \in 2..Len(calls') : calls'[n] = calls[n]
  BY Replaced DEF RockInv, Stacked
<1>2. calls' # <<>> /\ (Len(calls) >= 2 => calls'[2] = calls[2])
  BY <1>1
<1>3. \A n \in 1..Len(calls') : n = 1 \/ n \in 2..Len(calls')
  BY <1>1
<1> QED
  BY <1>1, <1>2, <1>3 DEF Op, Under

(* What runs when a function called another and has something left to do.   *)
LEMMA OnTopOf ==
  ASSUME RockInv, calls # <<>>, NEW f \in Frames, NEW g \in Frames, calls' = <<f, g>> \o Tail(calls)
  PROVE  /\ calls' # <<>> /\ calls'[1] = f /\ Op' = f[1]
         /\ \A op : Under(op)' <=> op = g[1]
         /\ \A n \in 1..Len(calls') :
               \/ n = 1 \/ (n = 2 /\ calls'[n] = g)
               \/ (n - 1 \in 2..Len(calls) /\ calls'[n] = calls[n - 1])
<1>1. /\ calls' \in Seq(Frames) /\ Len(calls') = Len(calls) + 1 /\ Len(calls) \in Nat \ {0}
      /\ calls'[1] = f /\ calls'[2] = g
      /\ \A n \in 3..Len(calls') : calls'[n] = calls[n - 1]
  BY Called DEF RockInv, Stacked
<1>2. calls' # <<>> /\ Len(calls') >= 2
  BY <1>1
<1>3. \A n \in 1..Len(calls') : n = 1 \/ n = 2 \/ (n \in 3..Len(calls') /\ n - 1 \in 2..Len(calls))
  BY <1>1
<1> QED
  BY <1>1, <1>2, <1>3 DEF Op, Under

(* rpmmiInit proper is the last thing its call does, and the cleanup does   *)
(* not come back to it.                                                     *)
LEMMA InitLast ==
  ASSUME RockInv, RpmmiInit
  PROVE  /\ ~terminating /\ ~exited /\ calls # <<>> /\ Op = "rpmmiInit"
         /\ Len(calls) = 1
         /\ Arg \in Mis \ live /\ calls[1][3] \in Dbs /\ handles[calls[1][3]] > 0
         /\ calls[1][4] => calls' = <<>>
<1>1. ~exited /\ calls # <<>> /\ Op = "rpmmiInit"
  BY DEF RpmmiInit, Pending
<1>2. ~terminating
  BY <1>1 DEF RockInv, CleanupKnown, Freeing, Closing
<1>3. Len(calls) \in Nat \ {0} /\ Arg \in Mis /\ calls[1][3] \in Dbs
  BY <1>1, Running
<1>4. 1 \in 1..Len(calls)
  BY <1>3
<1>5. Len(calls) = 1 /\ Arg \notin live /\ handles[calls[1][3]] > 0
  BY <1>1, <1>2, <1>4 DEF RockInv, Stacked, MisKnown, Op, Arg
<1>6. calls[1][4] => calls' = <<>> \o Tail(calls)
  BY IteratorMade
<1>7. calls[1][4] => calls' = <<>>
  BY <1>1, <1>5, <1>6, Uncovered
<1> QED
  BY <1>1, <1>2, <1>3, <1>5, <1>7

(* What a close that has returned goes back to.                             *)
LEMMA CloseReturns ==
  ASSUME RockInv, DropRef \/ CloseLast
  PROVE  /\ calls # <<>> /\ Op = "rpmdbClose" /\ ~exited /\ calls[1] = <<"rpmdbClose", Arg>> /\ Arg \in Dbs
         /\ calls' # <<>> => Op' \notin {"rpmdbClose", "rpmmiFini"}
         /\ terminating => Freeing \/ Closing
         /\ terminating /\ calls' # <<>> =>
               \/ Op' = "rpmdbCheckSignals"
               \/ Op' = "closeDatabases" /\ Closing /\ calls' = <<>> \o Tail(calls)
         /\ \A n \in 1..Len(calls') :
               \/ calls'[n][1] = "rpmdbCheckSignals"
               \/ \E k \in 2..Len(calls) : calls'[n] = calls[k]
<1>1. calls # <<>> /\ Op = "rpmdbClose" /\ ~exited
  BY DEF DropRef, CloseLast, Pending
<1>2. calls[1] = <<"rpmdbClose", Arg>> /\ Arg \in Dbs
  BY <1>1, Running
<1>3. \/ calls' = <<>> \o Tail(calls)
      \/ calls' = << <<"rpmdbCheckSignals">> >> \o Tail(calls)
  BY DEF DropRef, CloseLast, LastClose, Continue
<1>4. terminating => Freeing \/ Closing
  BY <1>1 DEF RockInv, CleanupKnown
<1>5. terminating => \/ Len(calls) >= 2 /\ calls[2][1] = "rpmdbCheckSignals"
                     \/ Closing /\ Len(calls) >= 2 /\ calls[2][1] = "closeDatabases"
  BY <1>1, <1>4 DEF Freeing, Closing, Under
<1>6. CASE calls' = <<>> \o Tail(calls)
  BY <1>1, <1>2, <1>4, <1>5, <1>6, Uncovered
<1>7. CASE calls' = << <<"rpmdbCheckSignals">> >> \o Tail(calls)
  <2>1. /\ Op' = "rpmdbCheckSignals"
        /\ \A n \in 1..Len(calls') :
              calls'[n][1] = "rpmdbCheckSignals" \/ (n \in 2..Len(calls) /\ calls'[n] = calls[n])
    BY <1>1, <1>7, OnTop, FramesAre DEF Op
  <2> QED
    BY <1>1, <1>2, <1>4, <2>1
<1> QED
  BY <1>3, <1>6, <1>7

(* Every step of the cleanup leads to the next.                             *)
LEMMA CleanupStep == RockInv /\ [Next]_vars => CleanupKnown'
<1>0. ASSUME RockInv, [Next]_vars, exited' PROVE terminating'
  <2>1. CASE Exit
    <3>1. calls # <<>> /\ Op = "exit" /\ terminating' = terminating
      BY <2>1 DEF Exit, Pending
    <3>2. 1 \in 1..Len(calls)
      BY <1>0, <3>1, Running
    <3> QED
      BY <1>0, <3>1, <3>2 DEF RockInv, Stacked, Op
  <2>2. CASE CheckSignals
    BY <1>0, <2>2 DEF CheckSignals
  <2>3. CASE ~Exit /\ ~CheckSignals
    BY <1>0, <2>3 DEF RockInv, CleanupKnown, Next, Program, Call, Over, Open, LinkDb, CloseDb, Update,
       InitMi, NextMi, FreeMi, Terminate, FreeIterators, IteratorsFreed, CloseDatabases, DatabasesClosed,
       MaskRestored, RpmmiInit, RpmmiFini, DropRef, CloseLast, SignalArrives, vars
  <2> QED
    BY <2>1, <2>2, <2>3
<1> SUFFICES ASSUME RockInv, [Next]_vars, terminating', ~exited', calls' # <<>>
             PROVE  \/ Op' \in {"rpmdbCheckSignals", "exit", "restoreMask"}
                    \/ Freeing' \/ Closing'
  BY <1>0 DEF CleanupKnown
<1>1. CASE Program
  <2>1. Terminate
    BY <1>1 DEF Program, Open, LinkDb, CloseDb, Update, InitMi, NextMi, FreeMi
  <2>2. calls' # <<>> /\ Op' = "freeIterators"
    BY <2>1 DEF Terminate, Op
  <2> QED
    BY <2>2 DEF Freeing
<1>2. CASE CheckSignals
  <2>1. calls # <<>> /\ calls' = << <<"freeIterators">>, <<"exit">> >> \o Tail(calls)
    BY <1>2 DEF CheckSignals, Pending, Continue, RockInv, TypeOK
  <2>2. Op' = "freeIterators"
    BY <2>1, OnTopOf, FramesAre
  <2> QED
    BY <2>2 DEF Freeing
<1>3. CASE FreeIterators
  <2>1. <<"rpmmiFini", rpmmiRock[1]>> \in Frames
    BY <1>3, FramesAre, ChainElement DEF FreeIterators, RockInv, TypeOK
  <2>2. Op' = "rpmmiFini" /\ Under("freeIterators")'
    BY <1>3, <2>1, OnTopOf, FramesAre DEF FreeIterators, Pending, Continue
  <2> QED
    BY <2>2 DEF Freeing
<1>4. CASE IteratorsFreed
  <2>1. Op' = "closeDatabases"
    BY <1>4, OnTop, FramesAre DEF IteratorsFreed, Pending, Continue
  <2> QED
    BY <2>1 DEF Closing
<1>5. CASE CloseDatabases
  <2>1. <<"rpmdbClose", rpmdbRock[1]>> \in Frames
    BY <1>5, FramesAre, ChainElement DEF CloseDatabases, RockInv, TypeOK
  <2>2. calls # <<>>
        /\ calls' = << <<"rpmdbClose", rpmdbRock[1]>>, <<"closeDatabases">> >> \o Tail(calls)
    BY <1>5 DEF CloseDatabases, Pending, Continue
  <2>3. Op' = "rpmdbClose" /\ Under("closeDatabases")'
    <3>1. <<"closeDatabases">> \in Frames /\ <<"closeDatabases">>[1] = "closeDatabases"
      BY FramesAre
    <3>2. <<"rpmdbClose", rpmdbRock[1]>>[1] = "rpmdbClose"
      OBVIOUS
    <3>3. Op' = <<"rpmdbClose", rpmdbRock[1]>>[1]
      BY <2>1, <2>2, <3>1, OnTopOf
    <3>4. \A op : Under(op)' <=> op = <<"closeDatabases">>[1]
      BY <2>1, <2>2, <3>1, OnTopOf
    <3> QED
      BY <3>1, <3>2, <3>3, <3>4
  <2> QED
    BY <2>3 DEF Closing
<1>6. CASE DatabasesClosed
  <2>1. calls # <<>> /\ Op = "closeDatabases" /\ calls' = <<>> \o Tail(calls)
    BY <1>6 DEF DatabasesClosed, Pending, Continue
  <2>2. 1 \in 1..Len(calls)
    BY <2>1, Running
  <2>3. calls[2][1] \in {"exit", "restoreMask"}
    BY <2>1, <2>2 DEF RockInv, Stacked, Op
  <2> QED
    BY <2>1, <2>3, Uncovered
<1>7. CASE MaskRestored
  <2>1. calls # <<>> /\ Op = "restoreMask" /\ calls' = <<>> \o Tail(calls)
    BY <1>7 DEF MaskRestored, Pending, Continue
  <2>2. 1 \in 1..Len(calls)
    BY <2>1, Running
  <2>3. Len(calls) = 1
    BY <2>1, <2>2 DEF RockInv, Stacked, Op
  <2> QED
    BY <2>1, <2>3, Uncovered
<1>8. CASE RpmmiInit
  BY <1>8, InitLast DEF RpmmiInit
<1>9. CASE RpmmiFini
  <2>1. calls # <<>> /\ Op = "rpmmiFini" /\ Arg \in Mis /\ Freeing
    BY <1>9, Running DEF RpmmiFini, Pending, RockInv, CleanupKnown, Closing
  <2>2. CASE miDb[Arg] = NoDb
    <3>1. calls' = << <<"rpmdbCheckSignals">> >> \o Tail(calls)
      BY <1>9, <2>2 DEF RpmmiFini, Continue
    <3> QED
      BY <2>1, <3>1, OnTop, FramesAre
  <2>3. CASE miDb[Arg] # NoDb
    <3>1. calls' = << <<"rpmdbClose", miDb[Arg]>>, <<"rpmdbCheckSignals">> >> \o Tail(calls)
      BY <1>9, <2>3, TwoCalls DEF RpmmiFini, Continue
    <3>2. miDb[Arg] \in Dbs
      BY <2>1, <2>3 DEF RockInv, TypeOK
    <3>3. calls # <<>> /\ RockInv
      BY <2>1
    <3>4. <<"rpmdbClose", miDb[Arg]>> \in Frames /\ <<"rpmdbCheckSignals">> \in Frames
      BY ONLY <3>2, FramesAre
    <3>5. Op' = <<"rpmdbClose", miDb[Arg]>>[1] /\ (Under("rpmdbCheckSignals")' <=> "rpmdbCheckSignals" = <<"rpmdbCheckSignals">>[1])
      BY ONLY <3>1, <3>3, <3>4, OnTopOf
    <3>6. Op' = "rpmdbClose" /\ Under("rpmdbCheckSignals")'
      BY ONLY <3>5
    <3> QED
      BY <3>6 DEF Freeing
  <2> QED
    BY <2>2, <2>3
<1>10. CASE DropRef \/ CloseLast
  <2>1. terminating
    BY <1>10 DEF DropRef, CloseLast
  <2>2. Op' = "rpmdbCheckSignals" \/ Op' = "closeDatabases"
    BY <1>10, <2>1, CloseReturns
  <2> QED
    BY <2>2 DEF Closing
<1>11. CASE Exit
  BY <1>11 DEF Exit
<1>12. CASE SignalArrives \/ UNCHANGED vars
  BY <1>12 DEF SignalArrives, vars, RockInv, CleanupKnown, Freeing, Closing, Op, Under
<1> QED
  BY <1>1, <1>2, <1>3, <1>4, <1>5, <1>6, <1>7, <1>8, <1>9, <1>10, <1>11, <1>12
     DEF Next, Call, Over

(* Every step keeps the iterators that exist apart from those to be made.   *)
LEMMA MisStep == RockInv /\ [Next]_vars => MisKnown'
<1> SUFFICES ASSUME RockInv, [Next]_vars PROVE MisKnown'
  OBVIOUS
<1>0. MisKnown /\ TypeOK
  BY DEF RockInv
<1>1. \A m \in Mis : m \in live' <=> miDb'[m] # NoDb
  <2>1. CASE RpmmiInit
    <3>1. Arg \in Mis /\ calls[1][3] \in Dbs /\ calls[1][3] # NoDb
      BY <2>1, InitLast, RockAssumption
    <3>2. CASE calls[1][4]
      <4>1. miDb' = [miDb EXCEPT ![Arg] = calls[1][3]] /\ live' = live \cup {Arg}
        BY <2>1, <3>2, IteratorMade
      <4> QED
        BY <1>0, <3>1, <4>1 DEF MisKnown, TypeOK
    <3>3. CASE ~calls[1][4]
      BY <1>0, <2>1, <3>3, NothingMatched DEF MisKnown, miVars
    <3> QED
      BY <3>2, <3>3
  <2>2. CASE RpmmiFini
    <3>1. Arg \in Mis
      BY <2>2, Running DEF RpmmiFini, Pending
    <3>2. miDb' = [miDb EXCEPT ![Arg] = NoDb] /\ live' = live \ {Arg}
      BY <2>2 DEF RpmmiFini
    <3> QED
      BY <1>0, <3>1, <3>2 DEF MisKnown, TypeOK
  <2>3. CASE ~RpmmiInit /\ ~RpmmiFini
    <3>1. UNCHANGED <<miDb, live>>
      BY <2>3 DEF Next, Program, Call, Over, Open, LinkDb, CloseDb, Update, InitMi, NextMi, FreeMi,
         Terminate, CheckSignals, FreeIterators, IteratorsFreed, CloseDatabases, DatabasesClosed,
         Exit, MaskRestored, DropRef, CloseLast, SignalArrives, vars, miVars
    <3> QED
      BY <1>0, <3>1 DEF MisKnown
  <2> QED
    BY <2>1, <2>2, <2>3
<1>2. ASSUME ~terminating', NEW n \in 1..Len(calls'), calls'[n][1] = "rpmmiInit"
      PROVE  calls'[n][2] \notin live' /\ handles'[calls'[n][3]] > 0
  <2>0. ~terminating
    BY <1>0, <1>2 DEF Next, Program, Call, Over, Open, LinkDb, CloseDb, Update, InitMi, NextMi, FreeMi,
         Terminate, CheckSignals, FreeIterators, IteratorsFreed, CloseDatabases, DatabasesClosed,
         Exit, MaskRestored, RpmmiInit, RpmmiFini, DropRef, CloseLast, SignalArrives, vars, TypeOK
  <2>1. ASSUME live' \subseteq live, UNCHANGED handles,
               \E k \in 1..Len(calls) : calls'[n] = calls[k]
        PROVE  calls'[n][2] \notin live' /\ handles'[calls'[n][3]] > 0
    BY <1>0, <1>2, <2>0, <2>1 DEF MisKnown
  <2>2. ASSUME NEW m \in Mis, NEW d \in Dbs, NEW ok \in BOOLEAN, InitMi(m, d, ok)
        PROVE  calls'[n][2] \notin live' /\ handles'[calls'[n][3]] > 0
    <3>1. /\ calls' = << <<"rpmdbCheckSignals">>, <<"rpmmiInit", m, d, ok>> >>
          /\ live' = live /\ handles' = handles /\ handles[d] > 0 /\ m \notin live
      BY <2>2 DEF InitMi, dbVars, miVars
    <3>2. n = 2
      BY <1>2, <3>1
    <3> QED
      BY <3>1, <3>2
  <2>3. CASE Program /\ ~\E m \in Mis, d \in Dbs, ok \in BOOLEAN : InitMi(m, d, ok)
    <3>1. \/ calls' = <<>>
          \/ \E d \in Dbs : calls' = << <<"rpmdbClose", d>> >>
          \/ \E m \in Mis : calls' = << <<"rpmmiFini", m>> >>
          \/ calls' = << <<"rpmdbCheckSignals">>, <<"restoreMask">> >>
          \/ terminating'
      <4>1. ASSUME NEW d \in Dbs, NEW ok \in BOOLEAN, Open(d, ok)
            PROVE  calls' = <<>> \/ calls' = << <<"rpmdbClose", d>> >>
        BY <4>1 DEF Open
      <4>2. ASSUME NEW d \in Dbs, LinkDb(d) \/ CloseDb(d) \/ Update(d)
            PROVE  \/ calls' = <<>> \/ calls' = << <<"rpmdbClose", d>> >>
                   \/ calls' = << <<"rpmdbCheckSignals">>, <<"restoreMask">> >>
        BY <4>2 DEF LinkDb, CloseDb, Update, Idle
      <4>3. ASSUME NEW m \in Mis, NextMi(m) \/ FreeMi(m)
            PROVE  calls' = <<>> \/ calls' = << <<"rpmmiFini", m>> >>
        BY <4>3 DEF NextMi, FreeMi, Idle
      <4>4. Terminate => terminating'
        BY DEF Terminate
      <4> QED
        BY <2>3, <4>1, <4>2, <4>3, <4>4 DEF Program
    <3>2. n = 1 \/ (n = 2 /\ calls' = << <<"rpmdbCheckSignals">>, <<"restoreMask">> >>)
      BY <1>2, <3>1
    <3> QED
      BY <1>2, <3>1, <3>2
  <2>4. CASE CheckSignals \/ MaskRestored
    <3>1. calls # <<>> /\ calls' = <<>> \o Tail(calls)
      BY <1>2, <2>0, <2>4 DEF CheckSignals, MaskRestored, Pending, Continue
    <3>2. \E k \in 2..Len(calls) : calls'[n] = calls[k]
      BY <1>2, <3>1, Uncovered
    <3> QED
      BY <2>1, <2>4, <3>2 DEF CheckSignals, MaskRestored, dbVars, miVars
  <2>5. CASE FreeIterators \/ IteratorsFreed \/ CloseDatabases \/ DatabasesClosed
    <3>1. calls # <<>> /\ Op \in {"freeIterators", "closeDatabases"}
      BY <2>5 DEF FreeIterators, IteratorsFreed, CloseDatabases, DatabasesClosed, Pending
    <3>2. 1 \in 1..Len(calls)
      BY <3>1, Running
    <3> QED
      BY <2>0, <3>1, <3>2 DEF RockInv, Stacked, Op
  <2>6. CASE RpmmiInit
    <3>1. CASE calls[1][4]
      BY <1>2, <2>6, <3>1, InitLast
    <3>2. CASE ~calls[1][4]
      <4>1. calls # <<>> /\ calls' = << <<"rpmmiFini", Arg>> >> \o Tail(calls) /\ Arg \in Mis
        BY <2>6, <3>2, NothingMatched, InitLast
      <4>2. \E k \in 2..Len(calls) : calls'[n] = calls[k]
        BY <1>2, <4>1, OnTop, FramesAre
      <4> QED
        BY <2>1, <2>6, <3>2, <4>2, NothingMatched DEF dbVars, miVars
    <3> QED
      BY <3>1, <3>2
  <2>7. CASE RpmmiFini
    <3>1. calls # <<>> /\ Arg \in Mis /\ live' \subseteq live /\ UNCHANGED handles
      BY <2>7, Running DEF RpmmiFini, Pending, dbVars
    <3>2. CASE miDb[Arg] = NoDb
      <4>1. calls' = << <<"rpmdbCheckSignals">> >> \o Tail(calls)
        BY <2>7, <3>2 DEF RpmmiFini, Continue
      <4>2. \E k \in 2..Len(calls) : calls'[n] = calls[k]
        BY <1>2, <3>1, <4>1, OnTop, FramesAre
      <4> QED
        BY <2>1, <3>1, <4>2
    <3>3. CASE miDb[Arg] # NoDb
      <4>1. calls' = << <<"rpmdbClose", miDb[Arg]>>, <<"rpmdbCheckSignals">> >> \o Tail(calls)
        BY <2>7, <3>3, TwoCalls DEF RpmmiFini, Continue
      <4>2. miDb[Arg] \in Dbs
        BY <1>0, <3>1, <3>3 DEF TypeOK
      <4>3. \E k \in 2..Len(calls) : calls'[n] = calls[k]
        BY <1>2, <3>1, <4>1, <4>2, OnTopOf, FramesAre
      <4> QED
        BY <2>1, <3>1, <4>3
    <3> QED
      BY <3>2, <3>3
  <2>8. CASE DropRef \/ CloseLast
    <3>1. \E k \in 2..Len(calls) : calls'[n] = calls[k]
      BY <1>2, <2>8, CloseReturns
    <3> QED
      BY <2>1, <2>8, <3>1 DEF DropRef, CloseLast, miVars
  <2>9. CASE Exit \/ SignalArrives \/ UNCHANGED vars
    BY <1>2, <2>1, <2>9 DEF Exit, SignalArrives, vars, dbVars, miVars
  <2> QED
    BY <2>2, <2>3, <2>4, <2>5, <2>6, <2>7, <2>8, <2>9 DEF Next, Call, Over
<1> QED
  BY <1>1, <1>2 DEF MisKnown

-----------------------------------------------------------------------------
(* The references.                                                          *)

(* The iterators of a database can be counted.                              *)
LEMMA HoldCount ==
  ASSUME RockInv, NEW d \in Dbs
  PROVE  /\ IsFiniteSet(Holding(d)) /\ Cardinality(Holding(d)) \in Nat
         /\ handles[d] \in Nat /\ refs[d] \in Nat
         /\ Cardinality(Holding(d)) = 0 <=> \A m \in live : miDb[m] # d
<1>1. IsFiniteSet(Holding(d))
  BY RockAssumption, FS_Subset DEF RockInv, TypeOK, Holding
<1>2. Cardinality(Holding(d)) \in Nat /\ (Cardinality(Holding(d)) = 0 <=> Holding(d) = {})
  BY <1>1, FS_CardinalityType, FS_EmptySet
<1>3. handles[d] \in Nat /\ refs[d] \in Nat
  BY RockAssumption DEF RockInv, TypeOK
<1> QED
  BY <1>1, <1>2, <1>3 DEF Holding

(* A close that is due is the only thing that adds to the count.            *)
LEMMA NotDue ==
  ASSUME calls # <<>> => Op # "rpmdbClose"
  PROVE  \A d \in Dbs : Due(d) = 0
BY DEF Due, Op

(* When the last reference is dropped, no iterator uses the database.       *)
LEMMA LastHasNone ==
  ASSUME RockInv, CloseLast
  PROVE  /\ \A m \in live : miDb[m] # Arg
         /\ Counted => handles[Arg] = 0
<1>1. calls # <<>> /\ Op = "rpmdbClose" /\ ~exited /\ Arg \in Dbs /\ calls[1] = <<"rpmdbClose", Arg>>
  BY CloseReturns
<1>2. CASE Counted
  <2>1. refs[Arg] = handles[Arg] + Cardinality(Holding(Arg)) + Due(Arg)
    BY <1>1, <1>2 DEF RockInv, RefsKnown
  <2>2. Due(Arg) = 1
    BY <1>1 DEF Due
  <2>3. refs[Arg] <= 1
    BY DEF CloseLast, LastRef
  <2>4. handles[Arg] = 0 /\ Cardinality(Holding(Arg)) = 0
    BY <1>1, <2>1, <2>2, <2>3, HoldCount
  <2> QED
    BY <1>1, <2>4, HoldCount
<1>3. CASE ~Counted
  BY <1>1, <1>3, CloseReturns DEF Counted, RockInv, ClosingKnown
<1> QED
  BY <1>2, <1>3

(* An iterator that exists has an open database, which is chained.          *)
LEMMA IteratorsHold ==
  ASSUME RockInv, Counted, NEW m \in live
  PROVE  miDb[m] \in Dbs /\ open[miDb[m]] /\ miDb[m] \in InChain(rpmdbRock)
<1>1. miDb[m] \in Dbs
  BY DEF RockInv, TypeOK, MisKnown
<1>2. open[miDb[m]] /\ refs[miDb[m]] > 0
  BY DEF RockInv, CursorsInOpenDbs, Counted
<1> QED
  BY <1>1, <1>2 DEF RockInv, RefsKnown

(* A step that has nothing to do with references keeps them.                *)
LEMMA RefsSame ==
  ASSUME RockInv, Counted, UNCHANGED <<rpmdbRock, refs, open, handles, active, live, miDb>>,
         calls # <<>> => Op # "rpmdbClose", (calls # <<>> => Op # "rpmdbClose")'
  PROVE  RefsKnown'
<1>1. \A d \in Dbs : Due(d) = 0
  BY NotDue
<1>2. \A d \in Dbs : Due(d)' = 0
  BY DEF Due, Op
<1>3. \A d \in Dbs : Holding(d)' = Holding(d)
  BY DEF Holding
<1>4. \A d \in Dbs : ~(refs[d] > 0 /\ ~open[d])
  BY DEF RockInv, RefsKnown, Op
<1> QED
  BY <1>1, <1>2, <1>3, <1>4 DEF RockInv, RefsKnown

(* Every step keeps the counts of references exact.                         *)
LEMMA RefsStep == RockInv /\ [Next]_vars => RefsKnown'
<1> SUFFICES ASSUME RockInv, [Next]_vars, Counted' PROVE RefsKnown'
  BY DEF RefsKnown
<1>0. TypeOK
  BY DEF RockInv
<1> DEFINE Known(d) ==
      /\ refs[d] = handles[d] + Cardinality(Holding(d)) + Due(d)
      /\ refs[d] > 0 => d \in InChain(rpmdbRock)
      /\ handles[d] > 0 => open[d]
      /\ open[d] => refs[d] > 0
      /\ refs[d] > 0 /\ ~open[d] => calls = << <<"rpmdbClose", d>> >>
<1>a. Counted => (\A d \in Dbs : Known(d)) /\ (active = 1 <=> rpmdbRock # <<>>)
  BY DEF RockInv, RefsKnown
<1>b. (\A d \in Dbs : Known(d)') /\ (active' = 1 <=> rpmdbRock' # <<>>) => RefsKnown'
  BY DEF RefsKnown
<1>1. ASSUME ~terminating, NEW d \in Dbs, NEW ok \in BOOLEAN, Open(d, ok) PROVE RefsKnown'
  <2>1. calls = <<>> /\ ~exited /\ Counted
    BY <1>1 DEF Open, Idle, Counted
  <2>2. refs[d] = 0 /\ ~open[d] /\ d \notin InChain(rpmdbRock)
    BY <1>1 DEF Open, RockInv, ChainsKnown
  <2>3. /\ rpmdbRock' = <<d>> \o rpmdbRock
        /\ refs' = [refs EXCEPT ![d] = 1] /\ open' = [open EXCEPT ![d] = ok]
        /\ handles' = [handles EXCEPT ![d] = IF ok THEN 1 ELSE 0]
        /\ calls' = IF ok THEN <<>> ELSE << <<"rpmdbClose", d>> >>
        /\ live' = live /\ miDb' = miDb
    BY <1>1 DEF Open, miVars
  <2>4. \A e \in Dbs : Due(e) = 0
    BY <2>1, NotDue
  <2>5. \A e \in Dbs : Holding(e)' = Holding(e)
    BY <2>3 DEF Holding
  <2>6. InChain(rpmdbRock)' = InChain(rpmdbRock) \cup {d} /\ rpmdbRock' # <<>>
    BY <1>0, <2>2, <2>3, Chained DEF TypeOK, RockInv, ChainsKnown
  <2>7. Due(d)' = (IF ok THEN 0 ELSE 1) /\ \A e \in Dbs : e # d => Due(e)' = 0
    BY <2>3 DEF Due
  <2>8. Cardinality(Holding(d)) = 0
    BY <1>a, <2>1, <2>2, <2>4, HoldCount
  <2>9. Known(d)'
    <3>1. refs'[d] = 1 /\ handles'[d] = (IF ok THEN 1 ELSE 0) /\ (open'[d] <=> ok)
      BY <1>0, <2>3 DEF TypeOK
    <3>2. refs'[d] = handles'[d] + Cardinality(Holding(d)') + Due(d)'
      BY <2>5, <2>7, <2>8, <3>1
    <3> QED
      BY <2>3, <2>6, <3>1, <3>2
  <2>10. ASSUME NEW e \in Dbs, e # d PROVE Known(e)'
    <3>1. refs'[e] = refs[e] /\ handles'[e] = handles[e] /\ open'[e] = open[e]
      BY <1>0, <2>3, <2>10 DEF TypeOK
    <3>2. ~(refs[e] > 0 /\ ~open[e])
      BY <1>a, <2>1
    <3> QED
      BY <1>a, <2>1, <2>4, <2>5, <2>6, <2>7, <2>10, <3>1, <3>2
  <2>11. active' = 1
    <3>1. rpmdbRock = <<>> => rpmmiRock = <<>>
      <4>1. rpmmiRock # <<>> => rpmmiRock[1] \in live
        BY <1>0, ChainElement DEF TypeOK, RockInv, ChainsKnown
      <4>2. rpmmiRock # <<>> => InChain(rpmdbRock) # {}
        BY <2>1, <4>1, IteratorsHold
      <4> QED
        BY <4>2 DEF InChain
    <3>2. active \in {0, 1}
      BY <1>0 DEF TypeOK
    <3> QED
      BY <1>1, <1>a, <2>1, <3>1, <3>2 DEF Open, NobodyOn
  <2> QED
    BY <1>b, <2>6, <2>9, <2>10, <2>11
<1>2. ASSUME ~terminating, NEW d \in Dbs, LinkDb(d) PROVE RefsKnown'
  <2>1. calls = <<>> /\ calls' = <<>> /\ Counted /\ handles[d] > 0
    BY <1>2, RockAssumption DEF LinkDb, Idle, Counted
  <2>2. /\ refs' = [refs EXCEPT ![d] = @ + 1] /\ handles' = [handles EXCEPT ![d] = @ + 1]
        /\ UNCHANGED <<rpmdbRock, open, live, miDb, active>>
    BY <1>2 DEF LinkDb, Linked, chains, miVars, sigVars
  <2>3. \A e \in Dbs : Due(e) = 0 /\ Due(e)' = 0
    BY <2>1 DEF Due
  <2>4. \A e \in Dbs : Holding(e)' = Holding(e)
    BY <2>2 DEF Holding
  <2>5. Known(d)'
    <3>1. refs'[d] = refs[d] + 1 /\ handles'[d] = handles[d] + 1
      BY <1>0, <2>2 DEF TypeOK
    <3>2. open[d] /\ Known(d)
      BY <1>a, <2>1
    <3>3. refs[d] > 0
      BY <3>2
    <3>4. refs[d] \in Nat /\ handles[d] \in Nat /\ Cardinality(Holding(d)) \in Nat
      BY HoldCount
    <3>5. refs'[d] = handles'[d] + Cardinality(Holding(d)') + Due(d)'
      BY <2>3, <2>4, <3>1, <3>2, <3>4
    <3> QED
      BY <2>2, <3>1, <3>2, <3>3, <3>4, <3>5
  <2>6. ASSUME NEW e \in Dbs, e # d PROVE Known(e)'
    <3>1. refs'[e] = refs[e] /\ handles'[e] = handles[e]
      BY <1>0, <2>2, <2>6 DEF TypeOK
    <3> QED
      BY <1>a, <2>1, <2>2, <2>3, <2>4, <3>1
  <2> QED
    BY <1>a, <1>b, <2>1, <2>2, <2>5, <2>6
<1>3. ASSUME ~terminating, NEW d \in Dbs, CloseDb(d) PROVE RefsKnown'
  <2>1. calls = <<>> /\ calls' = << <<"rpmdbClose", d>> >> /\ Counted /\ handles[d] > 0
    BY <1>3 DEF CloseDb, Idle, Counted
  <2>2. /\ handles' = [handles EXCEPT ![d] = @ - 1]
        /\ UNCHANGED <<rpmdbRock, refs, open, live, miDb, active>>
    BY <1>3 DEF CloseDb, chains, miVars, sigVars
  <2>3. \A e \in Dbs : Due(e) = 0 /\ Due(e)' = IF e = d THEN 1 ELSE 0
    BY <2>1 DEF Due
  <2>4. \A e \in Dbs : Holding(e)' = Holding(e)
    BY <2>2 DEF Holding
  <2>5. Known(d)'
    <3>1. handles'[d] = handles[d] - 1 /\ open[d] /\ Known(d)
      BY <1>0, <1>a, <2>1, <2>2 DEF TypeOK
    <3>2. refs[d] \in Nat /\ handles[d] \in Nat /\ Cardinality(Holding(d)) \in Nat
      BY HoldCount
    <3>3. refs'[d] = handles'[d] + Cardinality(Holding(d)') + Due(d)'
      BY <2>2, <2>3, <2>4, <3>1, <3>2
    <3> QED
      BY <2>2, <3>1, <3>3
  <2>6. ASSUME NEW e \in Dbs, e # d PROVE Known(e)'
    <3>1. handles'[e] = handles[e]
      BY <1>0, <2>2, <2>6 DEF TypeOK
    <3>2. ~(refs[e] > 0 /\ ~open[e])
      BY <1>a, <2>1
    <3> QED
      BY <1>a, <2>1, <2>2, <2>3, <2>4, <2>6, <3>1, <3>2
  <2> QED
    BY <1>a, <1>b, <2>1, <2>2, <2>5, <2>6
<1>4. ASSUME ~terminating, Program,
             ~\E d \in Dbs : LinkDb(d) \/ CloseDb(d) \/ \E ok \in BOOLEAN : Open(d, ok)
      PROVE  RefsKnown'
  <2>1. calls = <<>> /\ Counted
    BY <1>4 DEF Program, Update, InitMi, NextMi, FreeMi, Terminate, Idle, Counted
  <2>2. UNCHANGED <<rpmdbRock, refs, open, handles, active, live, miDb>>
    BY <1>4 DEF Program, Update, InitMi, NextMi, FreeMi, Terminate, chains, dbVars, miVars, sigVars
  <2>3. calls' # <<>> => Op' # "rpmdbClose"
    <3>1. ASSUME NEW d \in Dbs, Update(d) PROVE Op' = "rpmdbCheckSignals"
      BY <3>1 DEF Update, Op
    <3>2. ASSUME NEW m \in Mis, NEW d \in Dbs, NEW ok \in BOOLEAN, InitMi(m, d, ok)
          PROVE  Op' = "rpmdbCheckSignals"
      BY <3>2 DEF InitMi, Op
    <3>3. ASSUME NEW m \in Mis, NextMi(m) \/ FreeMi(m)
          PROVE  calls' = <<>> \/ Op' = "rpmmiFini"
      BY <3>3 DEF NextMi, FreeMi, Op, Idle
    <3>4. Terminate => Op' = "freeIterators"
      BY DEF Terminate, Op
    <3> QED
      BY <1>4, <3>1, <3>2, <3>3, <3>4 DEF Program
  <2> QED
    BY <2>1, <2>2, <2>3, RefsSame
<1>5. CASE CheckSignals
  <2>1. calls # <<>> /\ Op = "rpmdbCheckSignals" /\ ~terminating /\ ~exited
    BY <1>5, <1>0 DEF CheckSignals, Pending, Counted, TypeOK
  <2>2. calls' # <<>> => Op' # "rpmdbClose"
    <3>1. \/ calls' = <<>> \o Tail(calls)
          \/ calls' = << <<"freeIterators">>, <<"exit">> >> \o Tail(calls)
      BY <1>5 DEF CheckSignals, Continue
    <3> QED
      BY <2>1, <3>1, Uncovered, OnTopOf, FramesAre
  <2> QED
    BY <1>5, <2>1, <2>2, RefsSame DEF CheckSignals, Counted, chains, dbVars, miVars
<1>6. CASE FreeIterators
  <2>1. calls # <<>> /\ Op = "freeIterators" /\ ~exited
        /\ calls' = << <<"rpmmiFini", rpmmiRock[1]>>, <<"freeIterators">> >> \o Tail(calls)
    BY <1>6 DEF FreeIterators, Pending, Continue
  <2>2. <<"rpmmiFini", rpmmiRock[1]>> \in Frames
    BY <1>0, <1>6, FramesAre, ChainElement DEF FreeIterators, TypeOK
  <2>3. Op' # "rpmdbClose"
    BY <2>1, <2>2, OnTopOf, FramesAre
  <2> QED
    BY <1>6, <2>1, <2>3, RefsSame DEF FreeIterators, Counted, Freeing, dbVars, miVars, sigVars
<1>7. CASE IteratorsFreed \/ CloseDatabases \/ DatabasesClosed
  <2>1. calls # <<>> /\ Op \in {"freeIterators", "closeDatabases"} /\ terminating' = terminating
    BY <1>7 DEF IteratorsFreed, CloseDatabases, DatabasesClosed, Pending
  <2>2. 1 \in 1..Len(calls)
    BY <2>1, Running
  <2>3. terminating' /\ calls[2][1] \in {"exit", "restoreMask"}
    BY <2>1, <2>2 DEF RockInv, Stacked, Op
  <2>4. Freeing'
    BY <2>3 DEF Counted
  <2>5. CASE IteratorsFreed
    <3>1. calls' = << <<"closeDatabases">> >> \o Tail(calls)
      BY <2>5 DEF IteratorsFreed, Continue
    <3>2. Op' = "closeDatabases"
      BY <2>1, <3>1, OnTop, FramesAre
    <3> QED
      BY <2>4, <3>2 DEF Freeing
  <2>6. CASE CloseDatabases
    <3>1. calls' = << <<"rpmdbClose", rpmdbRock[1]>>, <<"closeDatabases">> >> \o Tail(calls)
      BY <2>6 DEF CloseDatabases, Continue
    <3>2. <<"rpmdbClose", rpmdbRock[1]>> \in Frames
      BY <1>0, <2>6, FramesAre, ChainElement DEF CloseDatabases, TypeOK
    <3>3. <<"closeDatabases">> \in Frames /\ <<"closeDatabases">>[1] = "closeDatabases"
          /\ <<"rpmdbClose", rpmdbRock[1]>>[1] = "rpmdbClose"
      BY FramesAre
    <3>4. Op' = "rpmdbClose" /\ \A op : Under(op)' <=> op = "closeDatabases"
      BY <2>1, <3>1, <3>2, <3>3, OnTopOf
    <3> QED
      BY <2>4, <3>4 DEF Freeing
  <2>7. CASE DatabasesClosed
    <3>1. calls' = <<>> \o Tail(calls)
      BY <2>7 DEF DatabasesClosed, Continue
    <3> QED
      BY <2>1, <2>3, <2>4, <3>1, Uncovered DEF Freeing
  <2> QED
    BY <1>7, <2>5, <2>6, <2>7
<1>8. CASE Exit
  BY <1>8 DEF Exit, Counted
<1>9. CASE MaskRestored
  <2>1. calls # <<>> /\ Op = "restoreMask" /\ calls' = <<>> \o Tail(calls) /\ ~exited
    BY <1>9 DEF MaskRestored, Pending, Continue
  <2>2. 1 \in 1..Len(calls)
    BY <2>1, Running
  <2>3. Len(calls) = 1
    BY <2>1, <2>2 DEF RockInv, Stacked, Op
  <2>4. calls' = <<>>
    BY <2>1, <2>3, Uncovered
  <2>5. ~terminating
    BY <1>9, <2>4 DEF MaskRestored, Counted, Freeing
  <2> QED
    BY <1>9, <2>1, <2>4, <2>5, RefsSame DEF MaskRestored, Counted, chains, dbVars, miVars
<1>10. CASE RpmmiInit
  <2>1. /\ ~terminating /\ ~exited /\ calls # <<>> /\ Op = "rpmmiInit" /\ Counted
        /\ Arg \in Mis \ live /\ calls[1][3] \in Dbs /\ handles[calls[1][3]] > 0
    BY <1>10, InitLast DEF Counted
  <2>2. CASE ~calls[1][4]
    <3>1. calls' = << <<"rpmmiFini", Arg>> >> \o Tail(calls)
          /\ UNCHANGED <<rpmdbRock, refs, open, handles, active, live, miDb>>
      BY <1>10, <2>2, NothingMatched DEF chains, dbVars, miVars, sigVars
    <3>2. Op' = "rpmmiFini"
      BY <2>1, <3>1, OnTop, FramesAre
    <3> QED
      BY <2>1, <3>1, <3>2, RefsSame
  <2>3. CASE calls[1][4]
    <3>0. PICK d \in Dbs : d = calls[1][3]
      BY <2>1
    <3>1. /\ miDb' = [miDb EXCEPT ![Arg] = d] /\ live' = live \cup {Arg}
          /\ refs' = [refs EXCEPT ![d] = @ + 1]
          /\ UNCHANGED <<rpmdbRock, open, handles, active>>
      BY <1>10, <2>3, <3>0, IteratorMade DEF sigVars
    <3>2. calls' = <<>>
      BY <1>10, <2>3, InitLast
    <3>3. \A e \in Dbs : Due(e) = 0 /\ Due(e)' = 0
      BY <2>1, <3>2 DEF Due, Op
    <3>4. d \in Dbs /\ handles[d] > 0
      BY <2>1, <3>0
    <3>5. Holding(d)' = Holding(d) \cup {Arg} /\ Arg \notin Holding(d)
      BY <1>0, <2>1, <3>1 DEF Holding, TypeOK
    <3>6. ASSUME NEW e \in Dbs, e # d PROVE Holding(e)' = Holding(e)
      BY <1>0, <2>1, <3>1, <3>6 DEF Holding, TypeOK
    <3>7. Cardinality(Holding(d)') = Cardinality(Holding(d)) + 1
      BY <3>4, <3>5, HoldCount, FS_AddElement
    <3>8. Known(d)'
      <4>1. refs'[d] = refs[d] + 1
        BY <1>0, <3>1, <3>4 DEF TypeOK
      <4>2. open[d] /\ Known(d)
        BY <1>a, <2>1, <3>4
      <4>3. refs[d] > 0
        BY <4>2
      <4>4. refs[d] \in Nat /\ handles[d] \in Nat /\ Cardinality(Holding(d)) \in Nat
        BY <3>4, HoldCount
      <4>5. refs'[d] = handles'[d] + Cardinality(Holding(d)') + Due(d)'
        BY <3>1, <3>3, <3>4, <3>7, <4>1, <4>2, <4>4
      <4> QED
        BY <3>1, <4>1, <4>2, <4>3, <4>4, <4>5
    <3>9. ASSUME NEW e \in Dbs, e # d PROVE Known(e)'
      <4>1. refs'[e] = refs[e]
        BY <1>0, <3>1, <3>9 DEF TypeOK
      <4>2. ~(refs[e] > 0 /\ ~open[e])
        BY <1>a, <2>1 DEF Op
      <4> QED
        BY <1>a, <2>1, <3>1, <3>3, <3>6, <3>9, <4>1, <4>2
    <3> QED
      BY <1>a, <1>b, <2>1, <3>1, <3>8, <3>9
  <2> QED
    BY <2>2, <2>3
<1>11. CASE RpmmiFini
  <2>1. calls # <<>> /\ Op = "rpmmiFini" /\ ~exited /\ Arg \in Mis
    BY <1>11, Running DEF RpmmiFini, Pending
  <2>2. Counted
    BY <2>1 DEF Counted, RockInv, CleanupKnown, Closing
  <2>3. /\ live' = live \ {Arg} /\ miDb' = [miDb EXCEPT ![Arg] = NoDb]
        /\ UNCHANGED <<rpmdbRock, refs, open, handles, active>>
    BY <1>11 DEF RpmmiFini, dbVars, sigVars
  <2>4. CASE miDb[Arg] = NoDb
    <3>1. Arg \notin live
      BY <2>1, <2>4 DEF RockInv, MisKnown
    <3>2. UNCHANGED <<live, miDb>>
      BY <1>0, <2>1, <2>3, <2>4, <3>1 DEF TypeOK
    <3>3. calls' = << <<"rpmdbCheckSignals">> >> \o Tail(calls)
      BY <1>11, <2>4 DEF RpmmiFini, Continue
    <3>4. Op' = "rpmdbCheckSignals"
      BY <2>1, <3>3, OnTop, FramesAre
    <3> QED
      BY <2>1, <2>2, <2>3, <3>2, <3>4, RefsSame
  <2>5. CASE miDb[Arg] # NoDb
    <3>0. miDb[Arg] \in Dbs
      BY <1>0, <2>1, <2>5 DEF TypeOK
    <3>12. PICK d \in Dbs : d = miDb[Arg]
      BY <3>0
    <3>1. d \in Dbs /\ Arg \in live
      BY <2>1, <2>5 DEF RockInv, MisKnown
    <3>2. calls' = << <<"rpmdbClose", d>>, <<"rpmdbCheckSignals">> >> \o Tail(calls)
      BY <1>11, <2>5, <3>12, TwoCalls DEF RpmmiFini, Continue
    <3>3. calls' # <<>> /\ calls'[1] = <<"rpmdbClose", d>>
      BY <2>1, <3>1, <3>2, OnTopOf, FramesAre
    <3>4. \A e \in Dbs : Due(e) = 0
      BY <2>1, NotDue
    <3>5. \A e \in Dbs : Due(e)' = IF e = d THEN 1 ELSE 0
      BY <3>3 DEF Due
    <3>6. Arg \in Holding(d) /\ Holding(d)' = Holding(d) \ {Arg}
      BY <1>0, <2>1, <2>3, <3>1, <3>12 DEF Holding, TypeOK
    <3>7. ASSUME NEW e \in Dbs, e # d PROVE Holding(e)' = Holding(e)
      BY <1>0, <2>1, <2>3, <3>7, <3>12 DEF Holding, TypeOK
    <3>8. ASSUME NEW e \in Dbs PROVE ~(refs[e] > 0 /\ ~open[e])
      BY <1>a, <2>1, <2>2 DEF Op
    <3>9. Cardinality(Holding(d)') = Cardinality(Holding(d)) - 1
      BY <3>1, <3>6, HoldCount, FS_RemoveElement
    <3>10. Known(d)'
      <4>1. refs[d] \in Nat /\ handles[d] \in Nat /\ Cardinality(Holding(d)) \in Nat
        BY <3>1, HoldCount
      <4>2. refs'[d] = handles'[d] + Cardinality(Holding(d)') + Due(d)'
        BY <1>a, <2>2, <2>3, <3>1, <3>4, <3>5, <3>9, <4>1
      <4> QED
        BY <1>a, <2>2, <2>3, <3>1, <3>8, <4>2
    <3>11. ASSUME NEW e \in Dbs, e # d PROVE Known(e)'
      BY <1>a, <2>2, <2>3, <3>4, <3>5, <3>7, <3>8, <3>11
    <3> QED
      BY <1>a, <1>b, <2>2, <2>3, <3>10, <3>11
  <2> QED
    BY <2>4, <2>5
<1>12. ASSUME DropRef \/ CloseLast
       PROVE  /\ ~terminating /\ Counted /\ calls # <<>>
              /\ Arg \in Dbs /\ calls[1] = <<"rpmdbClose", Arg>>
              /\ \A d \in Dbs : Due(d) = (IF d = Arg THEN 1 ELSE 0) /\ Due(d)' = 0
  <2>1. terminating' = terminating /\ exited' = exited
    BY <1>12 DEF DropRef, CloseLast
  <2>2. ~terminating
    <3>1. ASSUME terminating PROVE FALSE
      <4>1. Freeing'
        BY <2>1, <3>1 DEF Counted
      <4> QED
        BY <1>12, <3>1, <4>1, CloseReturns DEF Freeing
    <3> QED
      BY <3>1
  <2>3. calls # <<>> /\ Arg \in Dbs /\ calls[1] = <<"rpmdbClose", Arg>> /\ ~exited
    BY <1>12, CloseReturns
  <2>4. \A d \in Dbs : Due(d) = IF d = Arg THEN 1 ELSE 0
    BY <2>3 DEF Due
  <2>5. \A d \in Dbs : Due(d)' = 0
    BY <1>12, CloseReturns DEF Due, Op
  <2> QED
    BY <2>2, <2>3, <2>4, <2>5 DEF Counted
<1>13. CASE DropRef
  <2>1. /\ refs' = [refs EXCEPT ![Arg] = @ - 1] /\ refs[Arg] > 1
        /\ UNCHANGED <<rpmdbRock, open, handles, live, miDb, active>>
    <3>1. ~(refs[Arg] <= 1)
      BY <1>13 DEF DropRef, LastRef
    <3>2. refs[Arg] \in Nat
      BY <1>12, <1>13, HoldCount
    <3> QED
      BY <1>13, <3>1, <3>2 DEF DropRef, chains, miVars, sigVars
  <2>2. \A e \in Dbs : Holding(e)' = Holding(e)
    BY <2>1 DEF Holding
  <2>13. PICK d \in Dbs : d = Arg
    BY <1>12, <1>13
  <2>3. d \in Dbs /\ Known(d) /\ Due(d) = 1 /\ Due(d)' = 0 /\ refs'[d] = refs[d] - 1
    BY <1>0, <1>a, <1>12, <1>13, <2>1, <2>13 DEF TypeOK
  <2>4. refs[d] > 1
    BY <2>1, <2>13
  <2>5. \A e \in Dbs : e # d => Due(e) = 0 /\ Due(e)' = 0 /\ refs'[e] = refs[e]
    BY <1>0, <1>12, <1>13, <2>1, <2>13 DEF TypeOK
  <2>6. \A e \in Dbs : e # d => ~(refs[e] > 0 /\ ~open[e])
    BY <1>a, <1>12, <1>13, <2>13
  <2>7. refs[d] \in Nat /\ handles[d] \in Nat /\ Cardinality(Holding(d)) \in Nat
    BY <2>3, HoldCount
  <2>8. open[d]
    <3>1. ASSUME ~open[d] PROVE FALSE
      <4>1. handles[d] = 0
        BY <2>3, <2>7, <3>1
      <4>2. \A m \in live : miDb[m] # d
        BY <1>12, <1>13, <3>1, IteratorsHold
      <4>3. Cardinality(Holding(d)) = 0
        BY <2>3, <4>2, HoldCount
      <4> QED
        BY <2>3, <2>4, <2>7, <4>1, <4>3
    <3> QED
      BY <3>1
  <2>9. refs'[d] = handles'[d] + Cardinality(Holding(d)') + Due(d)'
    BY <2>1, <2>2, <2>3, <2>7
  <2>10. Known(d)'
    BY <2>1, <2>3, <2>4, <2>7, <2>8, <2>9
  <2>11. ASSUME NEW e \in Dbs, e # d PROVE Known(e)'
    BY <1>a, <1>12, <1>13, <2>1, <2>2, <2>5, <2>6, <2>11
  <2> QED
    BY <1>a, <1>b, <1>12, <1>13, <2>1, <2>10, <2>11
<1>14. CASE CloseLast
  <2>13. PICK d \in Dbs : d = Arg
    BY <1>12, <1>14
  <2>1. /\ refs' = [refs EXCEPT ![d] = 0] /\ open' = [open EXCEPT ![d] = FALSE]
        /\ rpmdbRock' = Without(rpmdbRock, d)
        /\ UNCHANGED <<rpmmiRock, handles, live, miDb>>
        /\ active' = IF NobodyOn(rpmdbRock') THEN active - 1 ELSE active
    BY <1>14, <2>13 DEF CloseLast, miVars
  <2>2. \A e \in Dbs : Holding(e)' = Holding(e)
    BY <2>1 DEF Holding
  <2>3. d \in Dbs /\ Known(d) /\ Due(d)' = 0 /\ refs'[d] = 0 /\ ~open'[d]
    BY <1>0, <1>a, <1>12, <1>14, <2>1, <2>13 DEF TypeOK
  <2>4. handles[d] = 0 /\ \A m \in live : miDb[m] # d
    BY <1>12, <1>14, <2>13, LastHasNone
  <2>5. \A e \in Dbs : e # d => /\ Due(e) = 0 /\ Due(e)' = 0
                                /\ refs'[e] = refs[e] /\ open'[e] = open[e]
    BY <1>0, <1>12, <1>14, <2>1, <2>13 DEF TypeOK
  <2>6. \A e \in Dbs : e # d => ~(refs[e] > 0 /\ ~open[e])
    BY <1>a, <1>12, <1>14, <2>13
  <2>7. InChain(rpmdbRock') = InChain(rpmdbRock) \ {d} /\ rpmdbRock' \in Seq(Dbs)
    BY <1>0, <2>1, Unlinked DEF TypeOK, RockInv, ChainsKnown
  <2>8. active = 1
    BY <1>14, CloseHasOne DEF CloseLast
  <2>9. Known(d)'
    <3>1. Cardinality(Holding(d)) = 0
      BY <2>3, <2>4, HoldCount
    <3> QED
      BY <2>1, <2>2, <2>3, <2>4, <3>1
  <2>10. ASSUME NEW e \in Dbs, e # d PROVE Known(e)'
    BY <1>a, <1>12, <1>14, <2>1, <2>2, <2>5, <2>6, <2>7, <2>10
  <2>11. active' = 1 <=> rpmdbRock' # <<>>
    <3>1. CASE NobodyOn(rpmdbRock')
      BY <2>1, <2>8, <3>1 DEF NobodyOn
    <3>2. CASE ~NobodyOn(rpmdbRock')
      <4>1. ASSUME rpmdbRock' = <<>> PROVE FALSE
        <5>1. rpmmiRock # <<>>
          BY <3>2, <4>1 DEF NobodyOn
        <5>2. rpmmiRock[1] \in live
          BY <1>0, <5>1, ChainElement DEF TypeOK, RockInv, ChainsKnown
        <5>3. miDb[rpmmiRock[1]] \in InChain(rpmdbRock) \ {d}
          BY <1>12, <1>14, <2>4, <5>2, IteratorsHold
        <5>4. InChain(rpmdbRock') = {}
          BY <2>7, <4>1, ChainElement
        <5> QED
          BY <2>7, <5>3, <5>4
      <4> QED
        BY <2>1, <2>8, <3>2, <4>1
    <3> QED
      BY <3>1, <3>2
  <2> QED
    BY <1>b, <2>9, <2>10, <2>11
<1>15. CASE SignalArrives \/ UNCHANGED vars
  <2>1. Counted /\ UNCHANGED <<rpmdbRock, refs, open, handles, active, live, miDb, calls>>
    BY <1>15 DEF SignalArrives, vars, chains, dbVars, miVars, sigVars, Counted, Freeing, Op, Under
  <2>2. \A d \in Dbs : Due(d)' = Due(d) /\ Holding(d)' = Holding(d)
    BY <2>1 DEF Due, Holding
  <2> QED
    BY <1>a, <1>b, <2>1, <2>2
<1> QED
  BY <1>1, <1>2, <1>3, <1>4, <1>5, <1>6, <1>7, <1>8, <1>9, <1>10, <1>11, <1>13, <1>14, <1>15
     DEF Next, Program, Call, Over

-----------------------------------------------------------------------------
(* The chains, the end of the cleanup, the cursors and the signals.         *)

(* Every step keeps the chains complete, without repetitions.               *)
LEMMA ChainsStep == RockInv /\ [Next]_vars => ChainsKnown'
<1> SUFFICES ASSUME RockInv, [Next]_vars PROVE ChainsKnown'
  OBVIOUS
<1>0. /\ TypeOK /\ NoRepeats(rpmdbRock) /\ NoRepeats(rpmmiRock)
      /\ \A d \in InChain(rpmdbRock) : refs[d] > 0
      /\ InChain(rpmmiRock) \subseteq live
      /\ \A m \in live \ InChain(rpmmiRock) : calls # <<>> /\ calls[1] = <<"rpmmiFini", m>>
  BY DEF RockInv, ChainsKnown
<1>1. (calls # <<>> => Op # "rpmmiFini") => InChain(rpmmiRock) = live
  <2>1. ASSUME NEW m \in live \ InChain(rpmmiRock) PROVE calls # <<>> /\ Op = "rpmmiFini"
    BY <1>0, <2>1 DEF Op
  <2> QED
    BY <1>0, <2>1
<1>2. InChain(rpmdbRock) \subseteq Dbs /\ refs \in [Dbs -> Nat]
  BY <1>0, ChainElement DEF TypeOK
(* The databases. *)
<1>3. NoRepeats(rpmdbRock') /\ \A d \in InChain(rpmdbRock') : refs'[d] > 0
  <2>1. ASSUME NEW d \in Dbs, NEW ok \in BOOLEAN, Open(d, ok)
        PROVE  NoRepeats(rpmdbRock') /\ \A e \in InChain(rpmdbRock') : refs'[e] > 0
    <3>1. d \notin InChain(rpmdbRock)
      BY <1>0, <2>1 DEF Open
    <3>2. rpmdbRock' = <<d>> \o rpmdbRock /\ refs' = [refs EXCEPT ![d] = 1]
      BY <2>1 DEF Open
    <3>3. InChain(rpmdbRock') = InChain(rpmdbRock) \cup {d} /\ NoRepeats(rpmdbRock')
      BY <1>0, <3>1, <3>2, Chained DEF TypeOK
    <3> QED
      BY <1>0, <1>2, <3>2, <3>3
  <2>2. ASSUME NEW d \in Dbs, LinkDb(d)
        PROVE  NoRepeats(rpmdbRock') /\ \A e \in InChain(rpmdbRock') : refs'[e] > 0
    <3>1. rpmdbRock' = rpmdbRock /\ refs' = [refs EXCEPT ![d] = @ + 1]
      BY <2>2 DEF LinkDb, Linked, chains
    <3> QED
      BY <1>0, <1>2, <3>1
  <2>3. CASE RpmmiInit
    <3>1. CASE calls[1][4]
      <4>1. rpmdbRock' = rpmdbRock /\ refs' = [refs EXCEPT ![calls[1][3]] = @ + 1]
        BY <2>3, <3>1, IteratorMade
      <4>2. calls[1][3] \in Dbs
        BY <2>3, InitLast
      <4> QED
        BY <1>0, <1>2, <4>1, <4>2
    <3>2. CASE ~calls[1][4]
      BY <1>0, <2>3, <3>2, NothingMatched DEF chains, dbVars
    <3> QED
      BY <3>1, <3>2
  <2>4. CASE CloseDatabases
    <3>1. rpmdbRock' = Tail(rpmdbRock) /\ rpmdbRock # <<>> /\ refs' = refs
      BY <2>4 DEF CloseDatabases, dbVars
    <3> QED
      BY <1>0, <3>1, Unchained DEF TypeOK
  <2>5. CASE DropRef
    <3>1. rpmdbRock' = rpmdbRock /\ refs' = [refs EXCEPT ![Arg] = @ - 1] /\ ~(refs[Arg] <= 1)
      BY <2>5 DEF DropRef, LastRef, chains
    <3>2. Arg \in Dbs
      BY <2>5, CloseReturns
    <3> QED
      BY <1>0, <1>2, <3>1, <3>2
  <2>6. CASE CloseLast
    <3>1. rpmdbRock' = Without(rpmdbRock, Arg) /\ refs' = [refs EXCEPT ![Arg] = 0]
      BY <2>6 DEF CloseLast
    <3>2. InChain(rpmdbRock') = InChain(rpmdbRock) \ {Arg} /\ NoRepeats(rpmdbRock')
      BY <1>0, <3>1, Unlinked DEF TypeOK
    <3> QED
      BY <1>0, <1>2, <3>1, <3>2
  <2>7. CASE ~RpmmiInit /\ ~CloseDatabases /\ ~DropRef /\ ~CloseLast
             /\ ~\E d \in Dbs : LinkDb(d) \/ \E ok \in BOOLEAN : Open(d, ok)
    <3>1. UNCHANGED <<rpmdbRock, refs>>
      BY <2>7 DEF Next, Program, Call, Over, CloseDb, Update, InitMi, NextMi, FreeMi, Terminate,
         CheckSignals, FreeIterators, IteratorsFreed, DatabasesClosed, Exit, MaskRestored, RpmmiFini,
         SignalArrives, vars, chains, dbVars
    <3> QED
      BY <1>0, <3>1
  <2> QED
    BY <2>1, <2>2, <2>3, <2>4, <2>5, <2>6, <2>7
(* The iterators. *)
<1>4. /\ NoRepeats(rpmmiRock') /\ InChain(rpmmiRock') \subseteq live'
      /\ \A m \in live' \ InChain(rpmmiRock') : calls' # <<>> /\ calls'[1] = <<"rpmmiFini", m>>
  <2>1. CASE FreeIterators
    <3>1. /\ calls # <<>> /\ Op = "freeIterators"
          /\ rpmmiRock # <<>> /\ rpmmiRock' = Tail(rpmmiRock) /\ live' = live
          /\ calls' = << <<"rpmmiFini", rpmmiRock[1]>>, <<"freeIterators">> >> \o Tail(calls)
      BY <2>1 DEF FreeIterators, Pending, Continue, miVars
    <3>2. <<"rpmmiFini", rpmmiRock[1]>> \in Frames
      BY <1>0, <3>1, FramesAre, ChainElement DEF TypeOK
    <3>3. calls' # <<>> /\ calls'[1] = <<"rpmmiFini", rpmmiRock[1]>>
      BY <3>1, <3>2, OnTopOf, FramesAre
    <3>4. InChain(rpmmiRock') = InChain(rpmmiRock) \ {rpmmiRock[1]} /\ NoRepeats(rpmmiRock')
      BY <1>0, <3>1, Unchained DEF TypeOK
    <3> QED
      BY <1>1, <3>1, <3>3, <3>4
  <2>2. CASE RpmmiInit
    <3>1. InChain(rpmmiRock) = live
      BY <1>1, <2>2, InitLast
    <3>2. CASE calls[1][4]
      <4>1. rpmmiRock' = <<Arg>> \o rpmmiRock /\ live' = live \cup {Arg}
        BY <2>2, <3>2, IteratorMade
      <4>2. InChain(rpmmiRock') = InChain(rpmmiRock) \cup {Arg} /\ NoRepeats(rpmmiRock')
        BY <1>0, <2>2, <3>1, <4>1, Chained, InitLast DEF TypeOK
      <4> QED
        BY <3>1, <4>1, <4>2
    <3>3. CASE ~calls[1][4]
      BY <1>0, <2>2, <3>1, <3>3, NothingMatched DEF chains, miVars
    <3> QED
      BY <3>2, <3>3
  <2>3. CASE RpmmiFini
    <3>1. rpmmiRock' = Without(rpmmiRock, Arg) /\ live' = live \ {Arg} /\ calls # <<>> /\ Op = "rpmmiFini"
      BY <2>3 DEF RpmmiFini, Pending
    <3>2. InChain(rpmmiRock') = InChain(rpmmiRock) \ {Arg} /\ NoRepeats(rpmmiRock')
      BY <1>0, <3>1, Unlinked DEF TypeOK
    <3>3. \A m \in live \ InChain(rpmmiRock) : m = Arg
      BY <1>0 DEF Arg
    <3> QED
      BY <1>0, <3>1, <3>2, <3>3
  <2>4. CASE ~FreeIterators /\ ~RpmmiInit /\ ~RpmmiFini
    <3>1. UNCHANGED <<rpmmiRock, live>>
      BY <2>4 DEF Next, Program, Call, Over, Open, LinkDb, CloseDb, Update, InitMi, NextMi, FreeMi,
         Terminate, CheckSignals, IteratorsFreed, CloseDatabases, DatabasesClosed, Exit, MaskRestored,
         DropRef, CloseLast, SignalArrives, vars, chains, miVars
    <3>2. \/ calls' = calls
          \/ calls # <<>> => Op # "rpmmiFini"
      BY <2>4 DEF Next, Program, Call, Over, Open, LinkDb, CloseDb, Update, InitMi, NextMi, FreeMi,
         Terminate, CheckSignals, IteratorsFreed, CloseDatabases, DatabasesClosed, Exit, MaskRestored,
         DropRef, CloseLast, SignalArrives, vars, Idle, Pending
    <3> QED
      BY <1>0, <1>1, <3>1, <3>2
  <2> QED
    BY <2>1, <2>2, <2>3, <2>4
<1> QED
  BY <1>3, <1>4 DEF ChainsKnown

(* Every step of the second half of the cleanup closes a database once.     *)
LEMMA ClosingStep == RockInv /\ [Next]_vars => ClosingKnown'
<1> SUFFICES ASSUME RockInv, [Next]_vars, terminating', ~exited', Closing'
             PROVE  /\ live' = {}
                    /\ rpmdbRock' # <<>> \/ Op' = "rpmdbClose" => active' = 1
                    /\ Op' = "rpmdbClose" => refs'[Arg'] > 0 /\ Arg' \notin InChain(rpmdbRock')
  BY DEF ClosingKnown
<1>0. TypeOK /\ calls' # <<>> /\ Op' \in {"closeDatabases", "rpmdbClose"}
      /\ (Op' = "rpmdbClose" => Under("closeDatabases")')
  BY DEF RockInv, Closing
<1>1. CASE Program
  <2>1. Terminate
    BY <1>1 DEF Program, Open, LinkDb, CloseDb, Update, InitMi, NextMi, FreeMi
  <2> QED
    BY <1>0, <2>1 DEF Terminate, Op
<1>2. CASE CheckSignals
  <2>1. calls # <<>> /\ calls' = << <<"freeIterators">>, <<"exit">> >> \o Tail(calls)
    BY <1>2 DEF CheckSignals, Pending, Continue, RockInv, TypeOK
  <2> QED
    BY <1>0, <2>1, OnTopOf, FramesAre
<1>3. CASE FreeIterators
  <2>1. <<"rpmmiFini", rpmmiRock[1]>> \in Frames
    BY <1>0, <1>3, FramesAre, ChainElement DEF FreeIterators, TypeOK
  <2>2. calls # <<>>
        /\ calls' = << <<"rpmmiFini", rpmmiRock[1]>>, <<"freeIterators">> >> \o Tail(calls)
    BY <1>3 DEF FreeIterators, Pending, Continue
  <2> QED
    BY <1>0, <2>1, <2>2, OnTopOf, FramesAre
<1>4. CASE IteratorsFreed
  <2>1. /\ calls # <<>> /\ Op = "freeIterators" /\ rpmmiRock = <<>> /\ ~exited
        /\ calls' = << <<"closeDatabases">> >> \o Tail(calls)
        /\ UNCHANGED <<rpmdbRock, live, active>>
    BY <1>4 DEF IteratorsFreed, Pending, Continue, chains, miVars, sigVars
  <2>2. Op' = "closeDatabases"
    BY <2>1, OnTop, FramesAre
  <2>3. live = {}
    BY <2>1 DEF RockInv, ChainsKnown, InChain, Op
  <2>4. Counted
    BY <2>1 DEF Counted, Freeing
  <2> QED
    BY <2>1, <2>2, <2>3, <2>4 DEF RockInv, RefsKnown
<1>5. CASE CloseDatabases
  <2>1. /\ calls # <<>> /\ Op = "closeDatabases" /\ ~exited /\ terminating
        /\ rpmdbRock # <<>> /\ rpmdbRock' = Tail(rpmdbRock)
        /\ calls' = << <<"rpmdbClose", rpmdbRock[1]>>, <<"closeDatabases">> >> \o Tail(calls)
        /\ UNCHANGED <<refs, live, active>>
    BY <1>5 DEF CloseDatabases, Pending, Continue, dbVars, miVars, sigVars
  <2>2. Closing
    BY <2>1 DEF Closing
  <2>3. live = {} /\ active = 1
    BY <2>1, <2>2 DEF RockInv, ClosingKnown
  <2>4. rpmdbRock[1] \in InChain(rpmdbRock) /\ rpmdbRock[1] \in Dbs
    BY <1>0, <2>1, ChainElement DEF TypeOK
  <2>5. calls'[1] = <<"rpmdbClose", rpmdbRock[1]>>
    BY <2>1, <2>4, OnTopOf, FramesAre
  <2>6. Arg' = rpmdbRock[1]
    BY <2>5 DEF Arg
  <2>7. refs[rpmdbRock[1]] > 0 /\ rpmdbRock[1] \notin InChain(rpmdbRock')
    BY <1>0, <2>1, <2>4, Unchained DEF TypeOK, RockInv, ChainsKnown
  <2> QED
    BY <2>1, <2>3, <2>6, <2>7
<1>6. CASE DatabasesClosed
  <2>1. calls # <<>> /\ Op = "closeDatabases" /\ calls' = <<>> \o Tail(calls)
    BY <1>6 DEF DatabasesClosed, Pending, Continue
  <2>2. 1 \in 1..Len(calls)
    BY <2>1, Running
  <2>3. calls[2][1] \in {"exit", "restoreMask"}
    BY <2>1, <2>2 DEF RockInv, Stacked, Op
  <2> QED
    BY <1>0, <2>1, <2>3, Uncovered
<1>7. CASE MaskRestored
  <2>1. calls # <<>> /\ Op = "restoreMask" /\ calls' = <<>> \o Tail(calls)
    BY <1>7 DEF MaskRestored, Pending, Continue
  <2>2. 1 \in 1..Len(calls)
    BY <2>1, Running
  <2>3. Len(calls) = 1
    BY <2>1, <2>2 DEF RockInv, Stacked, Op
  <2> QED
    BY <1>0, <2>1, <2>3, Uncovered
<1>8. CASE RpmmiInit
  BY <1>8, InitLast DEF RpmmiInit
<1>9. CASE RpmmiFini
  <2>1. calls # <<>> /\ Arg \in Mis
    BY <1>9, Running DEF RpmmiFini, Pending
  <2>2. CASE miDb[Arg] = NoDb
    <3>1. calls' = << <<"rpmdbCheckSignals">> >> \o Tail(calls)
      BY <1>9, <2>2 DEF RpmmiFini, Continue
    <3> QED
      BY <1>0, <2>1, <3>1, OnTop, FramesAre
  <2>3. CASE miDb[Arg] # NoDb
    <3>1. calls' = << <<"rpmdbClose", miDb[Arg]>>, <<"rpmdbCheckSignals">> >> \o Tail(calls)
      BY <1>9, <2>3, TwoCalls DEF RpmmiFini, Continue
    <3>2. miDb[Arg] \in Dbs
      BY <1>0, <2>1, <2>3 DEF TypeOK
    <3>3. calls # <<>> /\ RockInv
      BY <2>1
    <3>4. <<"rpmdbClose", miDb[Arg]>> \in Frames /\ <<"rpmdbCheckSignals">> \in Frames
      BY ONLY <3>2, FramesAre
    <3>5. /\ Under("closeDatabases")' <=> "closeDatabases" = <<"rpmdbCheckSignals">>[1]
          /\ Op' = <<"rpmdbClose", miDb[Arg]>>[1]
      BY ONLY <3>1, <3>3, <3>4, OnTopOf
    <3>6. Op' = "rpmdbClose" /\ ~Under("closeDatabases")'
      BY ONLY <3>5
    <3> QED
      BY <1>0, <3>6
  <2> QED
    BY <2>2, <2>3
<1>10. CASE DropRef \/ CloseLast
  <2>1. terminating /\ ~exited /\ live' = live
    BY <1>10 DEF DropRef, CloseLast, Pending, miVars
  <2>2. /\ Op' = "closeDatabases" /\ Closing /\ calls' = <<>> \o Tail(calls)
        /\ calls # <<>> /\ Op = "rpmdbClose"
    BY <1>0, <1>10, <2>1, CloseReturns
  <2>3. live = {} /\ active = 1
    BY <2>1, <2>2 DEF RockInv, ClosingKnown
  <2>4. active' = active
    <3>1. CASE DropRef
      BY <3>1 DEF DropRef, sigVars
    <3>2. CASE CloseLast /\ NobodyOn(Without(rpmdbRock, Arg))
      <4>1. calls' = << <<"rpmdbCheckSignals">> >> \o Tail(calls)
        BY <3>2 DEF CloseLast, LastClose, Continue
      <4> QED
        BY <2>2, <4>1, OnTop, FramesAre
    <3>3. CASE CloseLast /\ ~NobodyOn(Without(rpmdbRock, Arg))
      BY <3>3 DEF CloseLast
    <3> QED
      BY <1>10, <3>1, <3>2, <3>3
  <2> QED
    BY <2>1, <2>2, <2>3, <2>4
<1>11. CASE Exit
  BY <1>11 DEF Exit
<1>12. CASE SignalArrives \/ UNCHANGED vars
  <2>1. UNCHANGED <<rpmdbRock, refs, live, active, calls, terminating, exited>>
    BY <1>12 DEF SignalArrives, vars, chains, dbVars, miVars, sigVars
  <2> QED
    BY <2>1 DEF RockInv, ClosingKnown, Closing, Op, Arg, Under
<1> QED
  BY <1>1, <1>2, <1>3, <1>4, <1>5, <1>6, <1>7, <1>8, <1>9, <1>10, <1>11, <1>12
     DEF Next, Call, Over

(* Every step keeps the database of each iterator open.                     *)
LEMMA CursorsStep == RockInv /\ [Next]_vars => CursorsInOpenDbs'
<1> SUFFICES ASSUME RockInv, [Next]_vars, ~exited', NEW m \in live'
             PROVE  open'[miDb'[m]] /\ refs'[miDb'[m]] > 0
  BY DEF CursorsInOpenDbs
<1>0. TypeOK /\ ~exited
  BY DEF RockInv, TypeOK, Next, Program, Call, Over, Open, LinkDb, CloseDb, Update, InitMi, NextMi,
     FreeMi, Terminate, Idle, CheckSignals, FreeIterators, IteratorsFreed, CloseDatabases,
     DatabasesClosed, Exit, MaskRestored, RpmmiInit, RpmmiFini, DropRef, CloseLast, Pending,
     SignalArrives, vars
<1>1. \A i \in live : open[miDb[i]] /\ refs[miDb[i]] > 0 /\ miDb[i] \in Dbs
  BY <1>0 DEF RockInv, CursorsInOpenDbs, MisKnown, TypeOK
<1>2. ASSUME NEW d \in Dbs, NEW ok \in BOOLEAN, Open(d, ok)
      PROVE  open'[miDb'[m]] /\ refs'[miDb'[m]] > 0
  <2>1. miDb' = miDb /\ live' = live /\ refs[d] = 0
        /\ refs' = [refs EXCEPT ![d] = 1] /\ open' = [open EXCEPT ![d] = ok]
    BY <1>2 DEF Open, miVars
  <2>2. miDb[m] \in Dbs /\ miDb[m] # d
    BY <1>1, <2>1
  <2> QED
    BY <1>0, <1>1, <2>1, <2>2 DEF TypeOK
<1>3. ASSUME NEW d \in Dbs, LinkDb(d)
      PROVE  open'[miDb'[m]] /\ refs'[miDb'[m]] > 0
  <2>1. miDb' = miDb /\ live' = live /\ refs' = [refs EXCEPT ![d] = @ + 1] /\ open' = open
    BY <1>3 DEF LinkDb, Linked, miVars
  <2> QED
    BY <1>0, <1>1, <2>1 DEF TypeOK
<1>4. CASE RpmmiInit
  <2>1. CASE calls[1][4]
    <3>1. /\ miDb' = [miDb EXCEPT ![Arg] = calls[1][3]] /\ live' = live \cup {Arg}
          /\ refs' = [refs EXCEPT ![calls[1][3]] = @ + 1] /\ open' = open
      BY <1>4, <2>1, IteratorMade
    <3>2. PICK d \in Dbs, i \in Mis \ live : d = calls[1][3] /\ i = Arg /\ open[d] /\ refs[d] > 0
      <4>1. ~terminating /\ calls[1][3] \in Dbs /\ Arg \in Mis \ live /\ handles[calls[1][3]] > 0
        BY <1>4, InitLast
      <4>2. open[calls[1][3]] /\ refs[calls[1][3]] > 0
        BY <1>0, <4>1 DEF RockInv, RefsKnown, Counted
      <4> QED
        BY <4>1, <4>2
    <3>3. /\ miDb' = [miDb EXCEPT ![i] = d] /\ live' = live \cup {i}
          /\ refs' = [refs EXCEPT ![d] = @ + 1] /\ open' = open
      BY <3>1, <3>2
    <3>4. CASE m = i
      BY <1>0, <3>2, <3>3, <3>4 DEF TypeOK
    <3>5. CASE m # i
      <4>1. m \in live /\ miDb'[m] = miDb[m]
        BY <1>0, <3>3, <3>5 DEF TypeOK
      <4> QED
        BY <1>0, <1>1, <3>3, <4>1 DEF TypeOK
    <3> QED
      BY <3>4, <3>5
  <2>2. CASE ~calls[1][4]
    BY <1>1, <1>4, <2>2, NothingMatched DEF dbVars, miVars
  <2> QED
    BY <2>1, <2>2
<1>5. CASE RpmmiFini
  <2>1. Arg \in Mis /\ live' = live \ {Arg} /\ miDb' = [miDb EXCEPT ![Arg] = NoDb]
        /\ UNCHANGED <<open, refs>>
    BY <1>5, Running DEF RpmmiFini, Pending, dbVars
  <2>2. m \in live /\ miDb'[m] = miDb[m]
    BY <1>0, <2>1 DEF TypeOK
  <2> QED
    BY <1>1, <2>1, <2>2
<1>6. CASE DropRef
  <2>1. Arg \in Dbs /\ ~(refs[Arg] <= 1) /\ refs' = [refs EXCEPT ![Arg] = @ - 1]
        /\ UNCHANGED <<open, live, miDb>>
    BY <1>6, CloseReturns DEF DropRef, LastRef, miVars
  <2> QED
    BY <1>0, <1>1, <2>1 DEF TypeOK
<1>7. CASE CloseLast
  <2>1. /\ refs' = [refs EXCEPT ![Arg] = 0] /\ open' = [open EXCEPT ![Arg] = FALSE]
        /\ UNCHANGED <<live, miDb>>
    BY <1>7 DEF CloseLast, miVars
  <2>2. miDb[m] \in Dbs /\ miDb[m] # Arg
    BY <1>1, <1>7, <2>1, LastHasNone
  <2> QED
    BY <1>0, <1>1, <2>1, <2>2 DEF TypeOK
<1>8. CASE /\ ~RpmmiInit /\ ~RpmmiFini /\ ~DropRef /\ ~CloseLast
           /\ ~\E d \in Dbs : LinkDb(d) \/ \E ok \in BOOLEAN : Open(d, ok)
  <2>1. UNCHANGED <<open, refs, live, miDb>>
    BY <1>8 DEF Next, Program, Call, Over, CloseDb, Update, InitMi, NextMi, FreeMi, Terminate,
       CheckSignals, FreeIterators, IteratorsFreed, CloseDatabases, DatabasesClosed, Exit,
       MaskRestored, SignalArrives, vars, dbVars, miVars
  <2> QED
    BY <1>1, <2>1
<1> QED
  BY <1>2, <1>3, <1>4, <1>5, <1>6, <1>7, <1>8

(* Every step keeps what is known of signals.                               *)
LEMMA SignalsStep == RockInv /\ RefsKnown' /\ [Next]_vars => SignalsKnown'
<1> SUFFICES ASSUME RockInv, RefsKnown', [Next]_vars, ~terminating' PROVE SignalsKnown'
  BY DEF SignalsKnown
<1>0. TypeOK /\ ~terminating
  BY DEF RockInv, TypeOK, Next, Program, Call, Over, Open, LinkDb, CloseDb, Update, InitMi, NextMi,
     FreeMi, Terminate, CheckSignals, FreeIterators, IteratorsFreed, CloseDatabases,
     DatabasesClosed, Exit, MaskRestored, RpmmiInit, RpmmiFini, DropRef, CloseLast,
     SignalArrives, vars
<1>1. /\ caught /\ active = 0 => calls # <<>> /\ Op = "rpmdbCheckSignals"
      /\ pending => blocked /\ active = 1
      /\ blocked => /\ calls # <<>>
                    /\ Op = "restoreMask" \/ (Op = "rpmdbCheckSignals" /\ Under("restoreMask"))
  BY <1>0 DEF RockInv, SignalsKnown
<1>2. ASSUME caught' /\ active' = 0 => calls' # <<>> /\ Op' = "rpmdbCheckSignals",
             ~pending', ~blocked'
      PROVE  SignalsKnown'
  BY <1>2 DEF SignalsKnown
<1>3. ASSUME NEW d \in Dbs, NEW ok \in BOOLEAN, Open(d, ok) PROVE SignalsKnown'
  <2>1. calls = <<>> /\ ~exited /\ UNCHANGED <<pending, blocked, exited>> /\ rpmdbRock' = <<d>> \o rpmdbRock
    BY <1>3 DEF Open, Idle
  <2>2. d \notin InChain(rpmdbRock)
    BY <1>3 DEF Open, RockInv, ChainsKnown
  <2>3. rpmdbRock' # <<>>
    BY <1>0, <2>1, <2>2, Chained DEF TypeOK, RockInv, ChainsKnown
  <2>4. active' = 1
    BY <1>0, <2>1, <2>3 DEF RefsKnown, Counted
  <2> QED
    BY <1>1, <1>2, <2>1, <2>4
<1>4. ASSUME NEW d \in Dbs, LinkDb(d) \/ CloseDb(d) PROVE SignalsKnown'
  BY <1>1, <1>2, <1>4 DEF LinkDb, CloseDb, Idle, sigVars
<1>5. ASSUME NEW d \in Dbs, Update(d) PROVE SignalsKnown'
  <2>1. /\ calls = <<>> /\ calls' = << <<"rpmdbCheckSignals">>, <<"restoreMask">> >>
        /\ UNCHANGED <<active, caught, pending>>
    BY <1>5 DEF Update, Idle
  <2>2. calls' # <<>> /\ Op' = "rpmdbCheckSignals" /\ Under("restoreMask")'
    BY <2>1 DEF Op, Under
  <2> QED
    BY <1>1, <2>1, <2>2 DEF SignalsKnown
<1>6. ASSUME NEW m \in Mis, NEW d \in Dbs, NEW ok \in BOOLEAN, InitMi(m, d, ok) PROVE SignalsKnown'
  BY <1>1, <1>2, <1>6 DEF InitMi, Idle, sigVars
<1>7. ASSUME NEW m \in Mis, NextMi(m) \/ FreeMi(m) PROVE SignalsKnown'
  BY <1>1, <1>2, <1>7 DEF NextMi, FreeMi, Idle, sigVars
<1>8. CASE Terminate
  BY <1>8 DEF Terminate
<1>9. CASE CheckSignals
  <2>1. /\ calls # <<>> /\ Op = "rpmdbCheckSignals" /\ ~caught /\ calls' = <<>> \o Tail(calls)
        /\ UNCHANGED <<active, caught, pending>>
    BY <1>0, <1>9 DEF CheckSignals, Pending, Continue, TypeOK
  <2>2. blocked' <=> blocked
    BY <1>9, <2>1 DEF CheckSignals
  <2>3. blocked => calls' # <<>> /\ Op' = "restoreMask"
    BY <1>1, <2>1, Uncovered DEF Under
  <2> QED
    BY <1>1, <2>1, <2>2, <2>3 DEF SignalsKnown
<1>10. CASE FreeIterators \/ IteratorsFreed \/ CloseDatabases \/ DatabasesClosed \/ Exit
  <2>1. calls # <<>> /\ Op \in {"freeIterators", "closeDatabases", "exit"}
    BY <1>10 DEF FreeIterators, IteratorsFreed, CloseDatabases, DatabasesClosed, Exit, Pending
  <2>2. 1 \in 1..Len(calls)
    BY <2>1, Running
  <2> QED
    BY <1>0, <2>1, <2>2 DEF RockInv, Stacked, Op
<1>11. CASE MaskRestored
  <2>1. /\ calls # <<>> /\ Op = "restoreMask" /\ ~blocked' /\ ~pending' /\ active' = active
        /\ caught' <=> (caught \/ pending)
    BY <1>11 DEF MaskRestored, RestoreMask, Pending
  <2> QED
    BY <1>1, <1>2, <2>1
<1>12. CASE RpmmiInit
  <2>1. calls # <<>> /\ Op = "rpmmiInit" /\ UNCHANGED sigVars
    BY <1>12 DEF RpmmiInit, Pending
  <2> QED
    BY <1>1, <1>2, <2>1 DEF sigVars
<1>13. CASE RpmmiFini \/ DropRef
  <2>1. calls # <<>> /\ Op \in {"rpmmiFini", "rpmdbClose"} /\ UNCHANGED sigVars
    BY <1>13 DEF RpmmiFini, DropRef, Pending
  <2> QED
    BY <1>1, <1>2, <2>1 DEF sigVars
<1>14. CASE CloseLast
  <2>1. calls # <<>> /\ Op = "rpmdbClose" /\ UNCHANGED <<caught, pending, blocked>> /\ active = 1
    BY <1>14, CloseHasOne DEF CloseLast, Pending
  <2>2. active' = 0 => calls' = << <<"rpmdbCheckSignals">> >> \o Tail(calls)
    BY <1>14, <2>1 DEF CloseLast, LastClose, Continue
  <2>3. active' = 0 => calls' # <<>> /\ Op' = "rpmdbCheckSignals"
    BY <2>1, <2>2, OnTop, FramesAre
  <2> QED
    BY <1>1, <1>2, <2>1, <2>3
<1>15. CASE SignalArrives
  <2>1. /\ active = 1 /\ UNCHANGED <<active, blocked, calls>>
        /\ pending' <=> (pending \/ blocked)
    BY <1>0, <1>15 DEF SignalArrives, TypeOK
  <2> QED
    BY <1>1, <2>1 DEF SignalsKnown, Op, Under
<1>16. CASE UNCHANGED vars
  BY <1>1, <1>16 DEF vars, sigVars, SignalsKnown, Op, Under
<1> QED
  BY <1>3, <1>4, <1>5, <1>6, <1>7, <1>8, <1>9, <1>10, <1>11, <1>12, <1>13, <1>14, <1>15, <1>16
     DEF Next, Program, Call, Over

(* The invariant holds at first.                                            *)
LEMMA InitInv == Init => RockInv
<1> SUFFICES ASSUME Init PROVE RockInv
  OBVIOUS
<1>1. TypeOK
  <2>1. 0 \in Nat /\ 0 \in 0..MaxLinks
    BY RockAssumption
  <2>2. rpmdbRock \in Seq(Dbs) /\ rpmmiRock \in Seq(Mis)
    BY DEF Init
  <2>3. refs \in [Dbs -> Nat] /\ handles \in [Dbs -> 0..MaxLinks] /\ open \in [Dbs -> BOOLEAN]
        /\ miDb \in [Mis -> Dbs \cup {NoDb}]
    BY <2>1 DEF Init
  <2> QED
    BY <2>2, <2>3 DEF Init, TypeOK
<1>2. Stacked
  BY DEF Init, Stacked
<1>3. \A d \in Dbs : Holding(d) = {} /\ Due(d) = 0
  BY DEF Init, Holding, Due
<1>4. RefsKnown
  <2>1. \A d \in Dbs : refs[d] = 0 /\ handles[d] = 0 /\ ~open[d]
    BY DEF Init
  <2>2. \A d \in Dbs : Cardinality(Holding(d)) = 0
    BY <1>3, FS_EmptySet
  <2>3. \A d \in Dbs : refs[d] = handles[d] + Cardinality(Holding(d)) + Due(d)
    BY <1>3, <2>1, <2>2
  <2>4. active = 1 <=> rpmdbRock # <<>>
    BY DEF Init
  <2> QED
    BY ONLY <2>1, <2>3, <2>4 DEF RefsKnown
<1>5. ChainsKnown /\ MisKnown
  BY DEF Init, ChainsKnown, MisKnown, NoRepeats, InChain
<1> QED
  BY <1>1, <1>2, <1>4, <1>5
     DEF Init, RockInv, CleanupKnown, ClosingKnown, SignalsKnown, CursorsInOpenDbs

-----------------------------------------------------------------------------
(* The theorems.                                                            *)

(* The inductive invariant holds in every state of every execution, at any  *)
(* depth of nested calls.                                                   *)
THEOREM RockInvariant == Spec => []RockInv
<1>1. RockInv /\ [Next]_vars => RockInv'
  BY TypeStep, StackedStep, CleanupStep, RefsStep, ClosingStep, ChainsStep, MisStep, SignalsStep,
     CursorsStep DEF RockInv
<1> QED
  BY InitInv, <1>1, PTL DEF Spec

(* Every variable keeps its type: the count of the signal handlers is 0 or  *)
(* 1, and no count of references falls below 0.                             *)
THEOREM TypeCorrect == Spec => []TypeOK
<1>1. RockInv => TypeOK
  BY DEF RockInv
<1> QED
  BY RockInvariant, <1>1, PTL

(* Between the calls of the program the counts of rpmdbLink and rpmdbClose  *)
(* are exact, and the chains have what is open, once.                       *)
THEOREM ChainsCompleteCorrect == Spec => []ChainsComplete
<1>1. RockInv => ChainsComplete
  <2> SUFFICES ASSUME RockInv, calls = <<>>, ~terminating
               PROVE  /\ \A d \in Dbs : refs[d] = handles[d] + Cardinality(Holding(d))
                      /\ InChain(rpmdbRock) = {d \in Dbs : open[d]}
                      /\ InChain(rpmmiRock) = live
                      /\ Len(rpmdbRock) = Cardinality(InChain(rpmdbRock))
                      /\ Len(rpmmiRock) = Cardinality(live)
    BY DEF ChainsComplete, Holding
  <2>1. Counted
    BY DEF RockInv, CleanupKnown, Counted
  <2>2. ASSUME NEW d \in Dbs PROVE refs[d] = handles[d] + Cardinality(Holding(d))
    <3>1. Due(d) = 0
      BY DEF Due
    <3>2. refs[d] = handles[d] + Cardinality(Holding(d)) + Due(d)
      BY <2>1 DEF RockInv, RefsKnown
    <3> QED
      BY <3>1, <3>2, HoldCount
  <2>3. InChain(rpmdbRock) = {d \in Dbs : open[d]}
    <3>1. InChain(rpmdbRock) \subseteq Dbs
      BY ChainElement DEF RockInv, TypeOK
    <3>2. \A d \in InChain(rpmdbRock) : refs[d] > 0
      BY DEF RockInv, ChainsKnown
    <3>3. \A d \in Dbs : (refs[d] > 0 => d \in InChain(rpmdbRock) /\ open[d]) /\ (open[d] => refs[d] > 0)
      BY <2>1 DEF RockInv, RefsKnown
    <3> QED
      BY <3>1, <3>2, <3>3
  <2>4. InChain(rpmmiRock) = live
    BY DEF RockInv, ChainsKnown
  <2>5. /\ Len(rpmdbRock) = Cardinality(InChain(rpmdbRock))
        /\ Len(rpmmiRock) = Cardinality(InChain(rpmmiRock))
    BY ChainLength DEF RockInv, TypeOK, ChainsKnown
  <2> QED
    BY <2>2, <2>3, <2>4, <2>5
<1> QED
  BY RockInvariant, <1>1, PTL

(* A database is closed once, after the last iterator that uses it, also in *)
(* the middle of the cleanup of a termination signal.                       *)
THEOREM ClosedLastCorrect == Spec => []ClosedLast
<1>1. RockInv => ClosedLast
  <2>1. RockInv => CursorsInOpenDbs
    BY DEF RockInv
  <2>2. RockInv => NoDoubleClose
    <3> SUFFICES ASSUME RockInv, ~exited, calls # <<>>, Op = "rpmdbClose" PROVE refs[Arg] >= 1
      BY DEF NoDoubleClose
    <3>1. refs[Arg] > 0 /\ Arg \in Dbs
      BY CloseHasOne, Running DEF Pending
    <3>2. refs[Arg] \in Nat
      BY <3>1 DEF RockInv, TypeOK
    <3> QED
      BY <3>1, <3>2
  <2> QED
    BY <2>1, <2>2 DEF ClosedLast
<1> QED
  BY RockInvariant, <1>1, PTL

(* A termination signal that was caught is not forgotten by a later open,   *)
(* which clears rpmsqCaught.                                                *)
THEOREM NoSignalForgottenCorrect == Spec => NoSignalForgotten
<1>1. RockInv /\ [Next]_vars => [caught => caught']_vars
  <2> SUFFICES ASSUME RockInv, [Next]_vars, caught PROVE caught'
    OBVIOUS
  <2>1. ASSUME ~terminating, NEW d \in Dbs, NEW ok \in BOOLEAN, Open(d, ok) PROVE caught'
    <3>1. active # 0 /\ active \in {0, 1}
      BY <2>1 DEF RockInv, TypeOK, SignalsKnown, Open, Idle
    <3>2. active > 0
      BY <3>1
    <3> QED
      BY <2>1, <3>2, Zenon DEF Open
  <2> QED
    BY <2>1 DEF Next, Program, Call, Over, LinkDb, CloseDb, Update, InitMi, NextMi, FreeMi, Terminate,
       CheckSignals, FreeIterators, IteratorsFreed, CloseDatabases, DatabasesClosed, Exit, MaskRestored,
       RestoreMask, RpmmiInit, RpmmiFini, DropRef, CloseLast, SignalArrives, vars, sigVars
<1> QED
  BY RockInvariant, <1>1, PTL DEF Spec, NoSignalForgotten

=============================================================================
