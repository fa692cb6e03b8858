-------------------------- MODULE RpmRollbackProofs --------------------------
(***************************************************************************)
(* Proofs about RpmRollback, for any packages, any number of transactions  *)
(* and any settings: RollbackInv is inductive; a rollback restores its     *)
(* levels and its goal; and the vault keeps what was installed.            *)
(***************************************************************************)
EXTENDS RpmRollback, FiniteSetTheorems, WellFoundedInduction, TLAPS

-----------------------------------------------------------------------------
(* Types, and the greatest identifier of a set.                             *)

(* The settings.                                                            *)
LEMMA Settings ==
  ASSUME TypeOK
  PROVE  /\ UnsafeRollbacks \in Nat /\ AutoRollback \in BOOLEAN /\ Asserts \in BOOLEAN
         /\ SameSecond \in BOOLEAN
         /\ Repackages \subseteq BOOLEAN /\ Fails \subseteq {"save", "element", "rollback"}
BY BoundsTyped DEF TypeOK, UnsafeRollbacks, AutoRollback, Asserts, SameSecond, Repackages, Fails

(* The fields of headers and of repackaged packages.                        *)
LEMMA HeaderFields ==
  ASSUME NEW h \in Headers
  PROVE  /\ h.pkg \in Pkgs /\ h.tid \in Tids /\ h.tid \in 1..MaxTid /\ h.tid \in Int
         /\ h.blink \subseteq Pkgs
         /\ h = [pkg |-> h.pkg, tid |-> h.tid, blink |-> h.blink]
BY BoundsTyped DEF Headers, Tids

LEMMA ArchiveFields ==
  ASSUME NEW v \in Archives
  PROVE  /\ v.pkg \in Pkgs /\ v.tid \in Tids /\ v.tid \in 1..MaxTid /\ v.tid \in Int
         /\ v.removed \in Tids /\ v.removed \in 1..MaxTid /\ v.removed \in Int
         /\ v.blink \subseteq Pkgs
         /\ v = [pkg |-> v.pkg, tid |-> v.tid, blink |-> v.blink, removed |-> v.removed]
BY BoundsTyped DEF Archives, Tids

LEMMA UnpackedFields ==
  ASSUME NEW v \in Archives
  PROVE  /\ Unpacked(v) \in Headers
         /\ Unpacked(v).pkg = v.pkg /\ Unpacked(v).tid = v.tid /\ Unpacked(v).blink = v.blink
BY DEF Unpacked, Archives, Headers

LEMMA ArchiveOf ==
  ASSUME NEW h \in Headers, now \in Tids
  PROVE  /\ Archive(h) \in Archives /\ Unpacked(Archive(h)) = h
         /\ Archive(h).pkg = h.pkg /\ Archive(h).tid = h.tid /\ Archive(h).blink = h.blink
         /\ Archive(h).removed = now
BY DEF Archive, Unpacked, Archives, Headers

(* There are finitely many repackaged packages.                             *)
LEMMA FiniteArchives == IsFiniteSet(Archives)
<1> DEFINE S == SUBSET Pkgs
<1> DEFINE D == (Pkgs \X Tids) \X (S \X Tids)
<1> DEFINE f == [x \in D |-> [pkg |-> x[1][1], tid |-> x[1][2], blink |-> x[2][1], removed |-> x[2][2]]]
<1>1. IsFiniteSet(Pkgs) /\ IsFiniteSet(Tids) /\ IsFiniteSet(S)
  <2>1. IsFiniteSet(Pkgs)
    BY PackagesNamed
  <2>2. IsFiniteSet(Tids)
    BY BoundsTyped, FS_Interval, 1 \in Int, MaxTid \in Int DEF Tids
  <2> QED
    BY <2>1, <2>2, FS_SUBSET
<1>2. IsFiniteSet(D)
  <2>1. IsFiniteSet(Pkgs \X Tids) /\ IsFiniteSet(S \X Tids)
    BY <1>1, FS_Product
  <2> QED
    BY <2>1, FS_Product
<1>3. f \in Surjection(D, Archives)
  <2>1. f \in [D -> Archives]
    BY DEF Archives
  <2>2. ASSUME NEW v \in Archives PROVE \E x \in D : f[x] = v
    <3>1. <<<<v.pkg, v.tid>>, <<v.blink, v.removed>>>> \in D
      BY <2>2, ArchiveFields
    <3> QED
      BY <3>1, <2>2, ArchiveFields
  <2> QED
    BY <2>1, <2>2 DEF Surjection
<1> QED
  BY <1>2, <1>3, FS_Surjection

(* A set of naturals up to a number has a greatest.                         *)
LEMMA Latest ==
  ASSUME NEW n \in Nat, NEW S, S \subseteq 0 .. n, S # {}
  PROVE  Max(S) \in S /\ \A y \in S : y <= Max(S)
<1> DEFINE T == {n - x : x \in S}
<1>1. T \subseteq Nat /\ T # {}
  <2>1. ASSUME NEW x \in S PROVE n - x \in Nat
    BY x \in 0 .. n
  <2> QED
    BY <2>1
<1>2. PICK m \in T : \A y \in T : ~(<<y, m>> \in OpToRel(<, Nat))
  BY <1>1, NatLessThanWellFounded, WFMin
<1>3. PICK x \in S : m = n - x
  OBVIOUS
<1>4. \A y \in S : x >= y
  <2> SUFFICES ASSUME NEW y \in S PROVE x >= y
    OBVIOUS
  <2>1. n - y \in T /\ n - y \in Nat /\ m \in Nat
    BY <1>1
  <2>2. ~(n - y < m)
    BY <1>2, <2>1 DEF OpToRel
  <2> QED
    BY <1>3, <2>1, <2>2
<1>5. Max(S) \in S /\ \A y \in S : Max(S) >= y
  BY <1>4 DEF Max
<1> QED
  BY <1>5, S \subseteq 0 .. n

(* A set of naturals has a least.                                           *)
LEMMA Earliest ==
  ASSUME NEW S \in SUBSET Nat, S # {}
  PROVE  Min(S) \in S /\ \A y \in S : Min(S) <= y
<1>1. PICK m \in S : \A y \in S : ~(<<y, m>> \in OpToRel(<, Nat))
  BY NatLessThanWellFounded, WFMin
<1>2. \A y \in S : m <= y
  <2> SUFFICES ASSUME NEW y \in S PROVE m <= y
    OBVIOUS
  <2>1. y \in Nat /\ m \in Nat
    OBVIOUS
  <2>2. ~(y < m)
    BY <1>1, <2>1 DEF OpToRel
  <2> QED
    BY <2>1, <2>2
<1> QED
  BY <1>2 DEF Min

(* The latest of a list of headers, and of a list of repackaged packages.   *)
LEMMA LatestHeader ==
  ASSUME NEW hs, hs \subseteq Headers
  PROVE  /\ TopTid(hs) \in 0..MaxTid
         /\ \A h \in hs : h.tid <= TopTid(hs)
         /\ TopTid(hs) = 0 \/ \E h \in hs : h.tid = TopTid(hs)
<1> DEFINE S == {h.tid : h \in hs} \cup {0}
<1>1. S \subseteq 0..MaxTid /\ S # {} /\ MaxTid \in Nat
  BY HeaderFields, BoundsTyped
<1>2. Max(S) \in S /\ \A y \in S : y <= Max(S)
  BY <1>1, Latest
<1> QED
  BY <1>1, <1>2 DEF TopTid

LEMMA LatestRemoved ==
  ASSUME NEW vs, vs \subseteq Archives
  PROVE  /\ TopRemoved(vs) \in 0..MaxTid
         /\ \A v \in vs : v.removed <= TopRemoved(vs)
         /\ TopRemoved(vs) = 0 \/ \E v \in vs : v.removed = TopRemoved(vs)
<1> DEFINE S == {v.removed : v \in vs} \cup {0}
<1>1. S \subseteq 0..MaxTid /\ S # {} /\ MaxTid \in Nat
  BY ArchiveFields, BoundsTyped
<1>2. Max(S) \in S /\ \A y \in S : y <= Max(S)
  BY <1>1, Latest
<1> QED
  BY <1>1, <1>2 DEF TopRemoved

(* The next level is the latest identifier of the two lists.                *)
LEMMA NextLevel ==
  ASSUME ip \subseteq Headers, rp \subseteq Archives
  PROVE  /\ ThisTid \in 0..MaxTid
         /\ \A h \in ip : h.tid <= ThisTid
         /\ \A v \in rp : v.removed <= ThisTid
         /\ \/ ThisTid = 0
            \/ \E h \in ip : h.tid = ThisTid
            \/ \E v \in rp : v.removed = ThisTid
<1> DEFINE S == {TopTid(ip), TopRemoved(rp)}
<1>1. /\ TopTid(ip) \in 0..MaxTid
      /\ \A h \in ip : h.tid <= TopTid(ip)
      /\ TopTid(ip) = 0 \/ \E h \in ip : h.tid = TopTid(ip)
  BY LatestHeader
<1>2. /\ TopRemoved(rp) \in 0..MaxTid
      /\ \A v \in rp : v.removed <= TopRemoved(rp)
      /\ TopRemoved(rp) = 0 \/ \E v \in rp : v.removed = TopRemoved(rp)
  BY LatestRemoved
<1>3. S \subseteq 0..MaxTid /\ S # {} /\ MaxTid \in Nat
  BY <1>1, <1>2, BoundsTyped
<1>4. Max(S) \in S /\ \A y \in S : y <= Max(S)
  BY <1>3, Latest
<1>5. ThisTid = Max(S)
  BY DEF ThisTid
<1>6. /\ ThisTid \in 0..MaxTid /\ TopTid(ip) <= ThisTid /\ TopRemoved(rp) <= ThisTid
      /\ ThisTid = TopTid(ip) \/ ThisTid = TopRemoved(rp)
  BY <1>3, <1>4, <1>5
<1>7. \A h \in ip : h.tid \in Int
  BY HeaderFields
<1>8. \A v \in rp : v.removed \in Int
  BY ArchiveFields
<1> QED
  BY <1>1, <1>2, <1>6, <1>7, <1>8

(* Walking past a level leaves headers of the list, and only drops those of *)
(* the level.                                                               *)
LEMMA PastIs ==
  ASSUME NEW hs, NEW t
  PROVE  Past(hs, t) \subseteq hs /\ \A h \in hs : h.tid # t => h \in Past(hs, t)
BY DEF Past

-----------------------------------------------------------------------------
(* What the larger actions do.                                              *)

(* The beginning of a transaction.                                          *)
LEMMA Begins ==
  ASSUME TypeOK, Transaction
  PROVE  /\ pc = "idle" /\ pc' = "save" /\ now \in Tids
         /\ adds' \subseteq Headers /\ erases' \subseteq db
         /\ adds' # {} \/ erases' # {}
         /\ \A h \in adds' : /\ h.pkg \notin Installed /\ h.tid = now
                             /\ \A p \in h.blink : \E x \in erases' : x.pkg = p
         /\ \A g, h \in adds' : g.pkg = h.pkg => g = h
         /\ link' \in [Pkgs -> Pkgs \cup {NoPkg}]
         /\ repackage' \in Repackages /\ gone' = FALSE /\ failed' = FALSE
         /\ Remember
         /\ UNCHANGED <<now, db, vault, rb>>
<1>1. PICK new \in SUBSET (Pkgs \ Installed), upgrade \in BOOLEAN, old \in SUBSET db :
        Begin(new, upgrade, old)
  BY DEF Transaction
<1> DEFINE erased(p) == IF upgrade THEN Replaced(p) ELSE {}
<1> DEFINE all == UNION {erased(p) : p \in new}
<1>2. /\ pc = "idle" /\ now \in Tids
      /\ new \cup old # {}
      /\ adds' = {[pkg |-> p, tid |-> now, blink |-> {h.pkg : h \in erased(p)}] : p \in new}
      /\ erases' = old \cup all
      /\ link' = [x \in Pkgs |->
                    IF \E p \in new : \E h \in erased(p) : h.pkg = x
                    THEN CHOOSE p \in new : \E h \in erased(p) : h.pkg = x ELSE NoPkg]
      /\ repackage' \in Repackages /\ gone' = FALSE /\ failed' = FALSE
      /\ pc' = "save" /\ Remember
      /\ UNCHANGED <<now, db, vault, rb>>
  BY ONLY <1>1 DEF Begin
<1>3. \A p \in new : erased(p) \subseteq db
  BY DEF Replaced
<1>4. \A h \in db : h.pkg \in Pkgs
  BY HeaderFields DEF TypeOK
<1>5. erases' \subseteq db /\ all \subseteq erases'
  BY <1>2, <1>3
<1>6. ASSUME NEW h \in adds'
      PROVE  /\ h \in Headers /\ h.pkg \in new /\ h.tid = now
             /\ h = [pkg |-> h.pkg, tid |-> now, blink |-> {x.pkg : x \in erased(h.pkg)}]
             /\ \A p \in h.blink : \E x \in erases' : x.pkg = p
  <2>1. PICK p \in new : h = [pkg |-> p, tid |-> now, blink |-> {x.pkg : x \in erased(p)}]
    BY <1>2
  <2> HIDE DEF erased
  <2>2. h.pkg = p /\ h.tid = now /\ h.blink = {x.pkg : x \in erased(p)}
    BY <2>1
  <2>3. h.blink \subseteq Pkgs
    BY <2>2, <1>3, <1>4
  <2>4. h \in Headers
    BY <2>1, <2>2, <2>3, <1>2 DEF Headers
  <2>5. erased(p) \subseteq erases'
    BY <1>5
  <2> QED
    BY <2>1, <2>2, <2>4, <2>5
<1>7. adds' # {} \/ erases' # {}
  <2>1. CASE old # {}
    BY <1>2, <2>1
  <2>2. CASE new # {}
    <3>1. PICK p \in new : TRUE
      BY <2>2
    <3>2. [pkg |-> p, tid |-> now, blink |-> {h.pkg : h \in erased(p)}] \in adds'
      BY <1>2
    <3> QED
      BY <3>2
  <2> QED
    BY <1>2, <2>1, <2>2
<1>8. link' \in [Pkgs -> Pkgs \cup {NoPkg}]
  <2>1. ASSUME NEW x \in Pkgs, \E p \in new : \E h \in erased(p) : h.pkg = x
        PROVE  (CHOOSE p \in new : \E h \in erased(p) : h.pkg = x) \in Pkgs
    BY <2>1
  <2> HIDE DEF erased
  <2> QED
    BY <1>2, <2>1
<1>9. \A g, h \in adds' : g.pkg = h.pkg => g = h
  <2> HIDE DEF erased
  <2> QED
    BY <1>6
<1>10. \A h \in adds' : h.pkg \notin Installed
  BY <1>6
<1> QED
  BY <1>2, <1>5, <1>6, <1>7, <1>8, <1>9, <1>10

(* The transaction of a level: the repackaged packages of it are added, the *)
(* headers of it that replaced nothing, or one of those, are erased.        *)
LEMMA Builds ==
  ASSUME TypeOK, Shape,
         NEW s \in SetToSeqs({v \in rp : v.removed = ThisTid}), BuildLevel(s)
  PROVE  /\ pc = "next" /\ pc' = "built" /\ RollingBack
         /\ ThisTid \in Tids /\ ThisTid >= goal /\ level' = ThisTid
         /\ UnsafeRollbacks # 0 => ThisTid > UnsafeRollbacks
         /\ ThisTid \notin Excluded \/ auto
         /\ adds' = {Unpacked(v) : v \in {x \in rp : x.removed = ThisTid}}
         /\ erases' \subseteq {h \in ip : h.tid = ThisTid}
         /\ unlinked' = {h \in ip : h.tid = ThisTid} \ erases'
         /\ \A h \in ip : /\ h.tid = ThisTid
                          /\ \/ h.blink = {}
                             \/ \E v \in rp : v.removed = ThisTid /\ v.pkg \in h.blink
                          => h \in erases'
         /\ rp' = {v \in rp : v.removed # ThisTid}
         /\ link' \in [Pkgs -> Pkgs \cup {NoPkg}]
         /\ repackage' = FALSE /\ gone' = FALSE /\ failed' = FALSE
         /\ UNCHANGED <<opt, now, db, vault, goal, auto, snap>>
<1> DEFINE t == ThisTid
           S == {v \in rp : v.removed = t}
           candidates == IF TopTid(ip) = t THEN {h \in ip : h.tid = t} ELSE {}
           with(h) == {i \in DOMAIN s : Links(h, s[i])}
           erased == {h \in candidates : with(h) # {} \/ h.blink = {}}
<1>1. /\ AtLevel /\ (t \notin Excluded \/ auto)
      /\ ToSet(s) = S
      /\ level' = t
      /\ adds' = {Unpacked(v) : v \in ToSet(s)}
      /\ erases' = erased
      /\ link' = [x \in Pkgs |->
                    IF \E h \in erased : h.pkg = x /\ with(h) # {}
                    THEN s[Min(with(CHOOSE h \in erased : h.pkg = x))].pkg ELSE NoPkg]
      /\ unlinked' = candidates \ erased
      /\ rp' = rp \ ToSet(s)
      /\ repackage' = FALSE /\ gone' = FALSE /\ failed' = FALSE
      /\ pc' = "built"
      /\ UNCHANGED <<opt, now, db, vault, goal, auto, snap>>
  BY ONLY BuildLevel(s) DEF BuildLevel
<1>2. /\ pc = "next" /\ t >= goal /\ (UnsafeRollbacks # 0 => t > UnsafeRollbacks)
  BY <1>1 DEF AtLevel
<1>3. /\ ip \subseteq Headers /\ rp \subseteq Archives /\ goal \in 1..Never /\ Never \in Nat
      /\ \A g, h \in db : g.pkg = h.pkg => g = h
  BY BoundsTyped DEF TypeOK, Never
<1>4. t \in 0..MaxTid /\ \A h \in ip : h.tid <= t
  BY <1>3, NextLevel
<1>5. t \in Tids
  BY <1>2, <1>3, <1>4, BoundsTyped DEF Tids
<1>6. candidates = {h \in ip : h.tid = t}
  <2>1. CASE TopTid(ip) = t
    BY <2>1
  <2>2. CASE TopTid(ip) # t
    <3>1. \A h \in ip : h.tid <= TopTid(ip) /\ h.tid \in Int
      BY <1>3, LatestHeader, HeaderFields
    <3>2. TopTid(ip) \in Int /\ TopTid(ip) <= t
      <4>1. TopTid(ip) \in 0..MaxTid /\ (TopTid(ip) = 0 \/ \E h \in ip : h.tid = TopTid(ip))
        BY <1>3, LatestHeader
      <4> QED
        BY <4>1, <1>4, BoundsTyped
    <3>3. {h \in ip : h.tid = t} = {}
      BY <3>1, <3>2, <1>4, <2>2
    <3> QED
      BY <2>2, <3>3
  <2> QED
    BY <2>1, <2>2
<1>7. \A i \in DOMAIN s : s[i] \in S
  BY <1>1 DEF ToSet
<1>8. \A v \in S : \E i \in DOMAIN s : s[i] = v
  BY <1>1 DEF ToSet
<1>9. ASSUME NEW h \in ip, h.tid = t,
             h.blink = {} \/ \E v \in rp : v.removed = t /\ v.pkg \in h.blink
      PROVE  h \in erased
  <2>1. CASE h.blink = {}
    BY <1>6, <1>9, <2>1
  <2>2. CASE \E v \in rp : v.removed = t /\ v.pkg \in h.blink
    <3>1. PICK v \in S : v.pkg \in h.blink
      BY <2>2
    <3>2. PICK i \in DOMAIN s : s[i] = v
      BY <1>8
    <3>3. i \in with(h)
      BY <3>1, <3>2 DEF Links
    <3> QED
      BY <1>6, <1>9, <3>3
  <2> QED
    BY <1>9, <2>1, <2>2
<1>10. \A h, g \in erased : h.pkg = g.pkg => h = g
  BY <1>2, <1>3, <1>6 DEF Shape
<1>11. DOMAIN s \subseteq Nat /\ \A w \in SUBSET (DOMAIN s) : w # {} => Min(w) \in w
  <2>1. IsFiniteSet(S)
    BY <1>3, FiniteArchives, FS_Subset
  <2>2. Cardinality(S) \in Nat
    BY <2>1, FS_CardinalityType
  <2>3. DOMAIN s = 1..Cardinality(S)
    BY DEF SetToSeqs
  <2>4. ASSUME NEW w \in SUBSET (DOMAIN s), w # {} PROVE Min(w) \in w
    <3>1. w \subseteq Nat
      <4>1. w \subseteq 1..Cardinality(S)
        BY ONLY <2>3, w \in SUBSET (DOMAIN s)
      <4> QED
        BY ONLY <4>1, <2>2
    <3> QED
      BY ONLY <3>1, <2>4, Earliest
  <2> QED
    BY <2>2, <2>3, <2>4
<1>12. link' \in [Pkgs -> Pkgs \cup {NoPkg}]
  <2>1. ASSUME NEW x \in Pkgs, \E h \in erased : h.pkg = x /\ with(h) # {}
        PROVE  s[Min(with(CHOOSE h \in erased : h.pkg = x))].pkg \in Pkgs
    <3> DEFINE c == CHOOSE h \in erased : h.pkg = x
    <3>1. PICK h \in erased : h.pkg = x /\ with(h) # {}
      BY <2>1
    <3>2. c \in erased /\ c.pkg = x
      BY <3>1
    <3>3. c = h
      BY <3>1, <3>2, <1>10
    <3> HIDE DEF c, erased
    <3>4. with(c) # {} /\ with(c) \in SUBSET (DOMAIN s)
      BY <3>1, <3>3
    <3>5. Min(with(c)) \in DOMAIN s
      BY <1>11, <3>4
    <3>6. s[Min(with(c))] \in Archives
      BY <1>3, <1>7, <3>5
    <3>7. s[Min(with(c))].pkg \in Pkgs
      BY <3>6, ArchiveFields
    <3> QED
      BY <3>7 DEF c
  <2> HIDE DEF erased, with
  <2> QED
    BY <1>1, <2>1
<1>13. adds' = {Unpacked(v) : v \in S} /\ rp' = {v \in rp : v.removed # t}
  BY <1>1
<1>14. erased \subseteq {h \in ip : h.tid = t}
  BY <1>6
<1>15. unlinked' = {h \in ip : h.tid = t} \ erased
  BY <1>1, <1>6
<1>16. RollingBack
  BY <1>2 DEF Shape
<1> HIDE DEF erased, candidates
<1> QED
  BY <1>1, <1>2, <1>5, <1>9, <1>12, <1>13, <1>14, <1>15, <1>16

(* The chains are loaded again: what is loaded is of the database.          *)
LEMMA Reloads ==
  ASSUME Reload
  PROVE  /\ vault' = {v \in vault : v.removed # level} /\ pc' = "next" /\ unlinked' = {}
         /\ ip' \subseteq {h \in db : h.tid >= goal}
         /\ \A h \in db : h.tid >= goal /\ h.tid # level => h \in ip'
BY PastIs DEF Reload, Cleaned, IdtxLoad

-----------------------------------------------------------------------------
(* TypeOK and Shape, whatever the settings.                                 *)

LEMMA TypesInit == Init => TypeOK /\ Shape
<1> SUFFICES ASSUME Init PROVE TypeOK /\ Shape
  OBVIOUS
<1>1. Never \in 1..Never /\ 1 \in 1..Never
  BY BoundsTyped DEF Never
<1>2. NoLinks \in [Pkgs -> Pkgs \cup {NoPkg}]
  BY DEF NoLinks
<1>3. snap = << >> /\ DOMAIN snap = {} /\ Range(snap) = {}
  BY DEF Init, Range
<1>4. TypeOK
  BY <1>1, <1>2, <1>3 DEF Init, TypeOK
<1>5. Shape
  BY DEF Init, Shape, RollingBack
<1> QED
  BY <1>4, <1>5

(* What was installed is remembered once for each second.                   *)
LEMMA Remembers ==
  ASSUME TypeOK, Remember
  PROVE  /\ DOMAIN snap' = DOMAIN snap \cup {now}
         /\ DOMAIN snap' \subseteq 1..now /\ Range(snap') \subseteq SUBSET Pkgs
         /\ \A t \in DOMAIN snap : snap'[t] = snap[t]
         /\ now \notin DOMAIN snap => snap'[now] = Installed
<1>1. Installed \in SUBSET Pkgs
  BY HeaderFields DEF TypeOK, Installed
<1>2. now \in 1..now /\ DOMAIN snap \subseteq 1..now
  BY BoundsTyped DEF TypeOK, Never
<1>3. \A t \in DOMAIN snap : snap[t] \in SUBSET Pkgs
  BY DEF TypeOK, Range
<1>4. snap' = [t \in DOMAIN snap \cup {now} |-> IF t \in DOMAIN snap THEN snap[t] ELSE Installed]
  BY DEF Remember
<1>5. \A t \in DOMAIN snap' : snap'[t] \in SUBSET Pkgs
  BY <1>1, <1>3, <1>4
<1>6. Range(snap') \subseteq SUBSET Pkgs
  BY <1>5 DEF Range
<1> QED
  BY <1>2, <1>4, <1>6

(* The next second.                                                         *)
LEMMA Ticks ==
  ASSUME TypeOK, Tick, now \in Tids
  PROVE  now' \in 1..Never /\ now <= now' /\ 1..now \subseteq 1..now' /\ now \in Int /\ now' \in Int
BY BoundsTyped DEF Tick, Tids, Never

LEMMA TypesOnTransaction ==
  ASSUME TypeOK, Shape, Transaction
  PROVE  TypeOK' /\ Shape'
<1>1. /\ pc = "idle" /\ pc' = "save" /\ now \in Tids
      /\ adds' \subseteq Headers /\ erases' \subseteq db
      /\ \A h \in adds' : h.pkg \notin Installed
      /\ \A g, h \in adds' : g.pkg = h.pkg => g = h
      /\ link' \in [Pkgs -> Pkgs \cup {NoPkg}]
      /\ repackage' \in Repackages /\ gone' = FALSE /\ failed' = FALSE
      /\ Remember
      /\ UNCHANGED <<now, db, vault, rb>>
  BY Begins
<1>2. DOMAIN snap' \subseteq 1..now /\ Range(snap') \subseteq SUBSET Pkgs
  BY <1>1, Remembers
<1>3. repackage' \in BOOLEAN
  BY <1>1, Settings
<1>4. TypeOK'
  BY <1>1, <1>2, <1>3 DEF TypeOK, rb
<1>5. Shape'
  BY <1>1 DEF Shape, rb, RollingBack, Installed
<1> QED
  BY <1>4, <1>5

LEMMA TypesOnSave ==
  ASSUME TypeOK, Shape, Save
  PROVE  TypeOK' /\ Shape'
<1>1. PICK lost \in SUBSET erases :
        vault' = IF ~repackage THEN vault
                 ELSE {v \in vault : \A w \in {Archive(h) : h \in erases \ lost} :
                                        v.pkg # w.pkg \/ v.removed # w.removed}
                      \cup {Archive(h) : h \in erases \ lost}
  BY DEF Save
<1> DEFINE new == {Archive(h) : h \in erases \ lost}
<1>2. now \in Tids /\ pc = "save" /\ pc' = "run" /\ ~RollingBack
  BY DEF Save, Shape
<1>3. \A h \in erases : /\ h \in db /\ h \in Headers /\ Archive(h) \in Archives
                        /\ Archive(h).pkg = h.pkg /\ Archive(h).removed = now
  BY <1>2, ArchiveOf DEF TypeOK
<1>4. /\ new \subseteq Archives
      /\ \A v, w \in new : v.pkg = w.pkg => v = w
  BY <1>3 DEF TypeOK
<1>5. /\ vault' \subseteq Archives
      /\ \A v, w \in vault' : v.pkg = w.pkg /\ v.removed = w.removed => v = w
  <2>1. CASE ~repackage
    BY <1>1, <2>1 DEF TypeOK, Shape
  <2>2. CASE repackage
    <3>1. vault' = {v \in vault : \A w \in new : v.pkg # w.pkg \/ v.removed # w.removed} \cup new
      BY <1>1, <2>2
    <3> HIDE DEF new
    <3>2. /\ vault \subseteq Archives
          /\ \A v, w \in vault : v.pkg = w.pkg /\ v.removed = w.removed => v = w
      BY DEF TypeOK, Shape
    <3> QED
      BY <1>4, <3>1, <3>2
  <2> QED
    BY <2>1, <2>2
<1>6. UNCHANGED <<now, db, ts, rb, snap>>
  BY DEF Save
<1>7. TypeOK'
  BY <1>2, <1>5, <1>6 DEF TypeOK, ts, rb
<1>8. Shape'
  BY <1>2, <1>5, <1>6 DEF Shape, ts, rb, RollingBack, Installed
<1> QED
  BY <1>7, <1>8

LEMMA TypesOnInstall ==
  ASSUME TypeOK, Shape, NEW h \in adds, InstallElement(h)
  PROVE  /\ TypeOK' /\ Shape' /\ db' = db \cup {h} /\ h \notin db
         /\ \A g \in adds' : g.pkg # h.pkg
<1>1. /\ pc = "run" /\ db' = {x \in db : x.pkg # h.pkg} \cup {h} /\ adds' = adds \ {h}
      /\ UNCHANGED <<now, vault, erases, link, repackage, gone, failed, rb, pc, snap>>
  BY DEF InstallElement, InstalledTid
<1>2. h.pkg \notin Installed
  BY <1>1 DEF Shape
<1>3. db' = db \cup {h} /\ h \notin db
  BY <1>1, <1>2 DEF Installed
<1>4. /\ \A g, k \in db' : g.pkg = k.pkg => g = k
      /\ Installed' = Installed \cup {h.pkg}
  BY <1>2, <1>3 DEF TypeOK, Installed
<1>5. \A g \in adds' : g.pkg # h.pkg
  BY <1>1 DEF Shape
<1>6. TypeOK'
  BY <1>1, <1>3, <1>4 DEF TypeOK, rb
<1>7. Shape'
  BY <1>1, <1>4, <1>5 DEF Shape, rb, RollingBack
<1> QED
  BY <1>3, <1>5, <1>6, <1>7

LEMMA TypesOnErase ==
  ASSUME TypeOK, Shape, NEW h \in erases, EraseElement(h)
  PROVE  TypeOK' /\ Shape'
<1>1. /\ pc = "run" /\ db' = db \ {h} /\ erases' = erases \ {h} /\ gone' = TRUE
      /\ UNCHANGED <<now, vault, adds, link, repackage, failed, rb, pc, snap>>
  BY DEF EraseElement
<1>2. TypeOK'
  BY <1>1 DEF TypeOK, Shape, rb
<1>3. Shape'
  BY <1>1 DEF Shape, rb, RollingBack, Installed
<1> QED
  BY <1>2, <1>3

LEMMA TypesOnFailure ==
  ASSUME TypeOK, Shape, NEW h \in adds \cup erases, ElementFails(h) \/ AutoStart(h) \/ AutoGivesUp(h)
  PROVE  TypeOK' /\ Shape'
<1>1. CASE ElementFails(h)
  <2>1. /\ pc = "run" /\ adds' \subseteq adds /\ erases' \subseteq erases /\ failed' = TRUE
        /\ UNCHANGED <<now, db, vault, link, repackage, gone, rb, pc, snap>>
    BY <1>1 DEF ElementFails
  <2>2. TypeOK'
    BY <2>1 DEF TypeOK, rb
  <2>3. Shape'
    BY <2>1 DEF Shape, rb, RollingBack, Installed
  <2> QED
    BY <2>2, <2>3
<1>2. CASE AutoStart(h)
  <2> DEFINE d == (db \ erases) \cup ({h} \cap adds)
  <2>1. /\ pc = "run" /\ ~RollingBack
        /\ db' = d
        /\ goal' = now /\ level' = Never /\ auto' = TRUE
        /\ ip' = {x \in d : x.tid >= now} /\ rp' = {v \in vault : v.removed >= now}
        /\ unlinked' = {}
        /\ adds' = {} /\ erases' = {} /\ failed' = TRUE /\ pc' = "next"
        /\ UNCHANGED <<opt, now, vault, link, repackage, gone, snap>>
    BY <1>2 DEF AutoStart, RollsBackFailures, IdtxLoad, IdtxGlob
  <2>2. /\ now \in Tids /\ (\A x \in adds : x.pkg \notin Installed)
        /\ \A v, w \in vault : v.pkg = w.pkg /\ v.removed = w.removed => v = w
    BY <2>1 DEF Shape
  <2>3. /\ d \subseteq Headers /\ \A g, k \in d : g.pkg = k.pkg => g = k
    BY <2>2 DEF TypeOK, Installed
  <2>4. now # Never /\ now \in 1..Never /\ Never \in 1..Never
    BY <2>2, BoundsTyped DEF Tids, Never
  <2> HIDE DEF d
  <2>5. TypeOK'
    BY <2>1, <2>3, <2>4 DEF TypeOK
  <2>6. Shape'
    BY <2>1, <2>2, <2>4 DEF Shape, RollingBack, Never
  <2> QED
    BY <2>5, <2>6
<1>3. CASE AutoGivesUp(h)
  <2>1. /\ pc = "run" /\ ~RollingBack
        /\ adds' = {} /\ erases' = {} /\ failed' = TRUE
        /\ pc' = "idle" /\ Tick
        /\ UNCHANGED <<db, vault, link, repackage, gone, rb, snap>>
    BY <1>3 DEF AutoGivesUp, RollsBackFailures
  <2>2. now' \in 1..Never /\ 1..now \subseteq 1..now'
    BY <2>1, Ticks DEF Shape
  <2>3. TypeOK'
    BY <2>1, <2>2 DEF TypeOK, rb
  <2>4. Shape'
    BY <2>1 DEF Shape, rb, RollingBack, Installed
  <2> QED
    BY <2>3, <2>4
<1> QED
  BY <1>1, <1>2, <1>3

LEMMA TypesOnRollback ==
  ASSUME TypeOK, Shape, NEW g \in Tids, RollbackTo(g)
  PROVE  TypeOK' /\ Shape'
<1>1. /\ pc = "idle" /\ g < now
      /\ goal' = g /\ level' = Never /\ auto' = FALSE
      /\ ip' = {x \in db : x.tid >= g} /\ rp' = {v \in vault : v.removed >= g} /\ unlinked' = {}
      /\ pc' = "next" /\ Remember
      /\ UNCHANGED <<opt, now, db, vault, ts>>
  BY DEF RollbackTo, IdtxLoad, IdtxGlob
<1>2. DOMAIN snap' \subseteq 1..now /\ Range(snap') \subseteq SUBSET Pkgs
  BY <1>1, Remembers
<1>3. g # Never /\ g \in 1..Never /\ Never \in 1..Never
  BY BoundsTyped DEF Tids, Never
<1>4. TypeOK'
  BY <1>1, <1>2, <1>3 DEF TypeOK, ts
<1>5. Shape'
  BY <1>1, <1>3 DEF Shape, ts, RollingBack, Never
<1> QED
  BY <1>4, <1>5

LEMMA TypesOnBuild ==
  ASSUME TypeOK, Shape,
         NEW s \in SetToSeqs({v \in rp : v.removed = ThisTid}), BuildLevel(s)
  PROVE  TypeOK' /\ Shape'
<1>1. /\ pc = "next" /\ pc' = "built" /\ RollingBack
      /\ ThisTid \in Tids /\ level' = ThisTid
      /\ adds' = {Unpacked(v) : v \in {x \in rp : x.removed = ThisTid}}
      /\ erases' \subseteq {h \in ip : h.tid = ThisTid}
      /\ unlinked' = {h \in ip : h.tid = ThisTid} \ erases'
      /\ rp' = {v \in rp : v.removed # ThisTid}
      /\ link' \in [Pkgs -> Pkgs \cup {NoPkg}]
      /\ repackage' = FALSE /\ gone' = FALSE /\ failed' = FALSE
      /\ UNCHANGED <<opt, now, db, vault, goal, auto, snap>>
  BY Builds
<1>2. ip' \subseteq ip
  BY DEF BuildLevel
<1>3. ip \subseteq db /\ \A v, w \in rp : v.pkg = w.pkg /\ v.removed = w.removed => v = w
  BY <1>1 DEF Shape
<1>4. ThisTid \in 1..Never
  BY <1>1, BoundsTyped DEF Tids, Never
<1>5. \A v \in rp : Unpacked(v) \in Headers /\ Unpacked(v).pkg = v.pkg
  BY UnpackedFields DEF TypeOK
<1>6. adds' \subseteq Headers /\ \A g, h \in adds' : g.pkg = h.pkg => g = h
  BY <1>1, <1>3, <1>5
<1>7. rp' \subseteq rp /\ erases' \subseteq db /\ unlinked' \subseteq db /\ unlinked' \cap erases' = {}
  BY <1>1, <1>3
<1>8. TypeOK'
  BY <1>1, <1>2, <1>4, <1>6, <1>7 DEF TypeOK
<1>9. Shape'
  BY <1>1, <1>6, <1>7 DEF Shape, RollingBack
<1> QED
  BY <1>8, <1>9

LEMMA TypesOnReload ==
  ASSUME TypeOK, Shape, RollingBack, Reload, adds' \subseteq adds, erases' \subseteq erases,
         UNCHANGED <<opt, now, db, link, repackage, gone, failed, goal, level, rp, auto, snap>>
  PROVE  TypeOK' /\ Shape'
<1>1. /\ vault' \subseteq vault /\ pc' = "next" /\ unlinked' = {} /\ ip' \subseteq db
  BY Reloads
<1>2. TypeOK'
  BY <1>1 DEF TypeOK
<1>3. Shape'
  BY <1>1 DEF Shape, RollingBack
<1> QED
  BY <1>2, <1>3

(* The other steps of a rollback.                                           *)
LEMMA TypesInRollback ==
  ASSUME TypeOK, Shape,
         \/ GoalReached \/ SkipExcluded \/ NothingToDo \/ Refused \/ Run \/ EndLevel \/ NotRun
  PROVE  TypeOK' /\ Shape'
<1>1. CASE GoalReached
  <2>1. TypeOK'
    BY <1>1 DEF TypeOK, GoalReached, ts, rb
  <2>2. Shape'
    BY <1>1 DEF Shape, GoalReached, ts, rb, RollingBack
  <2> QED
    BY <2>1, <2>2
<1>2. CASE SkipExcluded
  <2>1. /\ pc = "next" /\ ip' \subseteq ip /\ rp' \subseteq rp
        /\ UNCHANGED <<opt, now, db, vault, ts, goal, level, unlinked, auto, pc, snap>>
    BY <1>2, PastIs DEF SkipExcluded, AtLevel
  <2>2. TypeOK'
    BY <2>1 DEF TypeOK, ts
  <2>3. Shape'
    BY <2>1 DEF Shape, ts, RollingBack
  <2> QED
    BY <2>2, <2>3
<1>3. CASE NothingToDo \/ Refused
  <2>1. /\ pc = "built" /\ pc' \in {"rolled", "stopped"} /\ adds' = {} /\ erases' = {}
        /\ UNCHANGED <<now, db, vault, link, repackage, gone, failed, rb, snap>>
    BY <1>3 DEF NothingToDo, Refused
  <2>2. TypeOK'
    BY <2>1 DEF TypeOK, rb
  <2>3. Shape'
    BY <2>1 DEF Shape, rb, RollingBack
  <2> QED
    BY <2>2, <2>3
<1>4. CASE Run
  <2>1. /\ pc = "built" /\ pc' = "run" /\ \A h \in adds : h.pkg \notin Installed
        /\ UNCHANGED <<now, db, vault, ts, rb, snap>>
    BY <1>4 DEF Run, AlreadyInstalled
  <2>2. TypeOK'
    BY <2>1 DEF TypeOK, ts, rb
  <2>3. Shape'
    BY <2>1 DEF Shape, ts, rb, RollingBack, Installed
  <2> QED
    BY <2>2, <2>3
<1>5. CASE EndLevel
  <2>1. /\ RollingBack /\ adds = {} /\ erases = {}
        /\ UNCHANGED <<opt, now, db, ts, goal, level, rp, auto, snap>>
    BY <1>5 DEF EndLevel
  <2>2. CASE failed
    <3>1. pc' = "stopped" /\ UNCHANGED <<vault, ip, unlinked>>
      BY <1>5, <2>2 DEF EndLevel
    <3>2. TypeOK'
      BY <2>1, <3>1 DEF TypeOK, ts
    <3>3. Shape'
      BY <2>1, <3>1 DEF Shape, ts, RollingBack
    <3> QED
      BY <3>2, <3>3
  <2>3. CASE ~failed
    <3>1. Reload
      BY <1>5, <2>3 DEF EndLevel
    <3> QED
      BY <2>1, <3>1, TypesOnReload DEF ts
  <2> QED
    BY <2>2, <2>3
<1>6. CASE NotRun
  <2>1. RollingBack
    BY <1>6 DEF NotRun, Shape
  <2> QED
    BY <1>6, <2>1, TypesOnReload DEF NotRun
<1> QED
  BY <1>1, <1>2, <1>3, <1>4, <1>5, <1>6

(* TypeOK and Shape are inductive.                                          *)
LEMMA TypesKept ==
  ASSUME TypeOK, Shape, [Next]_vars
  PROVE  TypeOK' /\ Shape'
<1>1. CASE Transaction
  BY <1>1, TypesOnTransaction
<1>2. CASE Save
  BY <1>2, TypesOnSave
<1>3. CASE EndTransaction
  <2>1. /\ pc = "run" /\ ~RollingBack /\ pc' = "idle" /\ Tick
        /\ UNCHANGED <<db, vault, ts, rb, snap>>
    BY <1>3 DEF EndTransaction
  <2>2. now' \in 1..Never /\ 1..now \subseteq 1..now'
    BY <2>1, Ticks DEF Shape
  <2>3. TypeOK'
    BY <2>1, <2>2 DEF TypeOK, ts, rb
  <2>4. Shape'
    BY <2>1 DEF Shape, ts, rb, RollingBack, Installed
  <2> QED
    BY <2>3, <2>4
<1>4. ASSUME NEW h \in adds, InstallElement(h) PROVE TypeOK' /\ Shape'
  BY <1>4, TypesOnInstall
<1>5. ASSUME NEW h \in adds, AddAsserts(h) PROVE TypeOK' /\ Shape'
  <2>1. /\ RollingBack /\ pc' = "aborted" /\ UNCHANGED <<now, db, vault, ts, rb, snap>>
    BY <1>5 DEF AddAsserts
  <2>2. TypeOK'
    BY <2>1 DEF TypeOK, ts, rb
  <2>3. Shape'
    BY <2>1 DEF Shape, ts, rb, RollingBack
  <2> QED
    BY <2>2, <2>3
<1>6. ASSUME NEW h \in erases, EraseElement(h) PROVE TypeOK' /\ Shape'
  BY <1>6, TypesOnErase
<1>7. ASSUME NEW h \in adds \cup erases, ElementFails(h) \/ AutoStart(h) \/ AutoGivesUp(h)
      PROVE  TypeOK' /\ Shape'
  BY <1>7, TypesOnFailure
<1>8. ASSUME NEW g \in Tids, RollbackTo(g) PROVE TypeOK' /\ Shape'
  BY <1>8, TypesOnRollback
<1>9. CASE GoalReached \/ SkipExcluded \/ NothingToDo \/ Refused \/ Run \/ EndLevel \/ NotRun
  BY <1>9, TypesInRollback
<1>10. ASSUME NEW s \in SetToSeqs({v \in rp : v.removed = ThisTid}), BuildLevel(s)
       PROVE  TypeOK' /\ Shape'
  BY <1>10, TypesOnBuild
<1>11. CASE UNCHANGED vars
  <2>1. TypeOK'
    BY <1>11 DEF TypeOK, vars, ts, rb
  <2>2. Shape'
    BY <1>11 DEF Shape, vars, ts, rb, RollingBack, Installed
  <2> QED
    BY <2>1, <2>2
<1> QED
  BY <1>1, <1>2, <1>3, <1>4, <1>5, <1>6, <1>7, <1>8, <1>9, <1>10, <1>11 DEF Next, Finished, Idle

-----------------------------------------------------------------------------
(* VaultInv: what was repackaged tells what was installed.                  *)

LEMMA Kinds ==
  ASSUME TypeOK
  PROVE  /\ now \in Nat /\ goal \in Nat /\ level \in Nat /\ Never \in Nat /\ MaxTid \in Nat
         /\ goal >= 1 /\ level >= 1 /\ now >= 1
         /\ \A h \in db \cup adds \cup erases \cup ip : h \in Headers /\ h.tid \in Nat /\ h.tid >= 1
         /\ \A v \in vault \cup rp :
               /\ v \in Archives /\ v.tid \in Nat /\ v.removed \in Nat /\ v.tid >= 1 /\ v.removed >= 1
               /\ Unpacked(v).pkg = v.pkg /\ Unpacked(v).tid = v.tid /\ Unpacked(v).blink = v.blink
<1>1. MaxTid \in Nat /\ Never \in Nat
  BY BoundsTyped DEF Never
<1>2. now \in Nat /\ goal \in Nat /\ level \in Nat /\ goal >= 1 /\ level >= 1 /\ now >= 1
  BY <1>1 DEF TypeOK
<1>3. ASSUME NEW h \in db \cup adds \cup erases \cup ip
      PROVE  h \in Headers /\ h.tid \in Nat /\ h.tid >= 1
  <2>1. h \in Headers
    BY DEF TypeOK
  <2> QED
    BY <1>1, <2>1, HeaderFields
<1>4. ASSUME NEW v \in vault \cup rp
      PROVE  /\ v \in Archives /\ v.tid \in Nat /\ v.removed \in Nat /\ v.tid >= 1 /\ v.removed >= 1
             /\ Unpacked(v).pkg = v.pkg /\ Unpacked(v).tid = v.tid /\ Unpacked(v).blink = v.blink
  <2>1. v \in Archives
    BY DEF TypeOK
  <2> QED
    BY <1>1, <2>1, ArchiveFields, UnpackedFields
<1> QED
  BY <1>1, <1>2, <1>3, <1>4

(* The settings stay, and a rollback of a failure is the last thing done.   *)
LEMMA SettingsStay ==
  ASSUME Shape, [Next]_vars
  PROVE  opt' = opt /\ (~auto' => ~auto)
<1>1. CASE Transaction
  BY <1>1 DEF Transaction, Begin, rb
<1>2. CASE Save \/ EndTransaction \/ GoalReached \/ NothingToDo \/ Refused \/ Run
  BY <1>2 DEF Save, EndTransaction, GoalReached, NothingToDo, Refused, Run, rb
<1>3. ASSUME NEW h \in adds, InstallElement(h) \/ AddAsserts(h) PROVE opt' = opt /\ (~auto' => ~auto)
  BY <1>3 DEF InstallElement, AddAsserts, rb
<1>4. ASSUME NEW h \in erases, EraseElement(h) PROVE opt' = opt /\ (~auto' => ~auto)
  BY <1>4 DEF EraseElement, rb
<1>5. ASSUME NEW h \in adds \cup erases, ElementFails(h) \/ AutoStart(h) \/ AutoGivesUp(h)
      PROVE  opt' = opt /\ (~auto' => ~auto)
  BY <1>5 DEF ElementFails, AutoStart, AutoGivesUp, rb
<1>6. ASSUME NEW g \in Tids, RollbackTo(g) PROVE opt' = opt /\ (~auto' => ~auto)
  BY <1>6 DEF RollbackTo, Shape
<1>7. CASE SkipExcluded
  BY <1>7 DEF SkipExcluded
<1>8. ASSUME NEW s \in SetToSeqs({v \in rp : v.removed = ThisTid}), BuildLevel(s)
      PROVE  opt' = opt /\ (~auto' => ~auto)
  BY <1>8 DEF BuildLevel
<1>9. CASE EndLevel \/ NotRun
  BY <1>9 DEF EndLevel, NotRun
<1>10. CASE UNCHANGED vars
  BY <1>10 DEF vars, rb
<1> QED
  BY <1>1, <1>2, <1>3, <1>4, <1>5, <1>6, <1>7, <1>8, <1>9, <1>10 DEF Next, Finished, Idle

(* The parts of VaultInv, under its conditions.                             *)
Vaulted ==
  /\ TypeOK /\ Shape /\ ~SameSecond /\ ~auto /\ Clock /\ LevelSaved

(* What is saved is erasures of the transaction; nothing else is lost.      *)
LEMMA Saves ==
  ASSUME Vaulted, Save
  PROVE  /\ pc = "save" /\ pc' = "run" /\ ~RollingBack /\ now \in Tids
         /\ vault' \subseteq vault \cup {Archive(h) : h \in erases}
         /\ vault \subseteq vault'
         /\ Saved /\ ErasedSaved => vault' = vault \cup {Archive(h) : h \in erases}
         /\ \A h \in erases : /\ h \in db /\ h.tid < now
                              /\ Archive(h) \in Archives /\ Unpacked(Archive(h)) = h
                              /\ Archive(h).pkg = h.pkg /\ Archive(h).tid = h.tid
                              /\ Archive(h).blink = h.blink /\ Archive(h).removed = now
         /\ UNCHANGED <<now, db, ts, rb, snap>>
<1> USE DEF Vaulted
<1>1. PICK lost \in SUBSET erases :
        /\ "save" \notin Fails \/ ~repackage => lost = {}
        /\ vault' = IF ~repackage THEN vault
                    ELSE {v \in vault : \A w \in {Archive(h) : h \in erases \ lost} :
                                           v.pkg # w.pkg \/ v.removed # w.removed}
                         \cup {Archive(h) : h \in erases \ lost}
  BY DEF Save
<1>2. /\ pc = "save" /\ pc' = "run" /\ ~RollingBack /\ now \in Tids
      /\ UNCHANGED <<now, db, ts, rb, snap>>
  BY DEF Save, Shape
<1>3. \A h \in erases : /\ h \in db /\ h.tid < now
                        /\ Archive(h) \in Archives /\ Unpacked(Archive(h)) = h
                        /\ Archive(h).pkg = h.pkg /\ Archive(h).tid = h.tid
                        /\ Archive(h).blink = h.blink /\ Archive(h).removed = now
  BY <1>2, ArchiveOf DEF TypeOK, Clock
<1>4. \A v \in vault : v.removed # now
  <2>1. \A v \in vault : v.removed < now
    BY <1>2 DEF Clock, Under
  <2> QED
    BY <2>1, Kinds
<1> DEFINE new == {Archive(h) : h \in erases \ lost}
<1>5. vault' = IF repackage THEN vault \cup new ELSE vault
  <2>1. \A w \in new : w.removed = now
    BY <1>3
  <2>2. vault' = IF ~repackage THEN vault
                 ELSE {v \in vault : \A w \in new : v.pkg # w.pkg \/ v.removed # w.removed} \cup new
    BY <1>1
  <2> HIDE DEF new
  <2> QED
    BY <1>4, <2>1, <2>2
<1>6. new \subseteq {Archive(h) : h \in erases}
  OBVIOUS
<1>7. Saved /\ ErasedSaved => repackage /\ new = {Archive(h) : h \in erases}
  BY <1>1, <1>2 DEF Saved, ErasedSaved
<1> HIDE DEF new
<1>8. vault \subseteq vault' /\ vault' \subseteq vault \cup {Archive(h) : h \in erases}
  BY <1>5, <1>6
<1>9. Saved /\ ErasedSaved => vault' = vault \cup {Archive(h) : h \in erases}
  BY <1>5, <1>7
<1> QED
  BY <1>2, <1>3, <1>8, <1>9

(* A level that has been rolled back is unlinked: what goes is installed.   *)
LEMMA EndsLevel ==
  ASSUME Vaulted, EndLevel, ~failed
  PROVE  /\ pc = "run" /\ pc' = "next" /\ RollingBack /\ level # Never /\ level >= goal
         /\ adds = {} /\ erases = {}
         /\ vault' = {v \in vault : v.removed # level}
         /\ \A v \in vault : v.removed = level => Unpacked(v) \in db
         /\ ip' \subseteq {h \in db : h.tid >= goal}
         /\ \A h \in db : h.tid >= goal /\ h.tid # level => h \in ip'
         /\ UNCHANGED <<opt, now, db, ts, goal, level, rp, auto, snap>>
<1>1. /\ pc = "run" /\ RollingBack /\ adds = {} /\ erases = {} /\ Reload
      /\ UNCHANGED <<opt, now, db, ts, goal, level, rp, auto, snap>>
  BY DEF EndLevel
<1>2. /\ level # Never /\ level >= goal
      /\ \A v \in vault : v.removed = level => Unpacked(v) \in db
  BY <1>1 DEF Vaulted, LevelSaved, LevelUnder
<1> QED
  BY <1>1, <1>2, Reloads

(* The steps that change the database or the vault.                         *)
LEMMA Movers ==
  ASSUME Vaulted, [Next]_vars, ~auto'
  PROVE  \/ UNCHANGED <<db, vault>>
         \/ Save
         \/ \E h \in adds : InstallElement(h)
         \/ \E h \in erases : EraseElement(h)
         \/ EndLevel /\ ~failed
<1>1. CASE Transaction
  BY <1>1, Begins DEF Vaulted
<1>2. CASE EndTransaction \/ GoalReached \/ NothingToDo \/ Refused \/ Run \/ SkipExcluded
  BY <1>2 DEF EndTransaction, GoalReached, NothingToDo, Refused, Run, SkipExcluded
<1>3. ASSUME NEW h \in adds, AddAsserts(h) PROVE UNCHANGED <<db, vault>>
  BY <1>3 DEF AddAsserts
<1>4. ASSUME NEW h \in adds \cup erases, ElementFails(h) \/ AutoStart(h) \/ AutoGivesUp(h)
      PROVE  UNCHANGED <<db, vault>>
  BY <1>4 DEF ElementFails, AutoStart, AutoGivesUp
<1>5. ASSUME NEW g \in Tids, RollbackTo(g) PROVE UNCHANGED <<db, vault>>
  BY <1>5 DEF RollbackTo
<1>6. ASSUME NEW s \in SetToSeqs({v \in rp : v.removed = ThisTid}), BuildLevel(s)
      PROVE  UNCHANGED <<db, vault>>
  BY <1>6 DEF BuildLevel
<1>7. CASE EndLevel /\ failed
  BY <1>7 DEF EndLevel
<1>8. ~NotRun
  BY DEF NotRun, Vaulted
<1>9. CASE UNCHANGED vars
  BY <1>9 DEF vars
<1> QED
  BY <1>1, <1>2, <1>3, <1>4, <1>5, <1>6, <1>7, <1>8, <1>9 DEF Next, Finished, Idle

(* What was installed before a transaction is told the same way after each  *)
(* step, up to the transaction that is under way or rolled back.            *)
LEMMA BeforeKept ==
  ASSUME Vaulted, Saved, ErasedSaved, [Next]_vars, ~auto',
         NEW t \in Nat, t <= now, LevelUnder => t <= level
  PROVE  Before(t)' = Before(t)
<1>1. CASE UNCHANGED <<db, vault>>
  BY <1>1 DEF Before
<1>2. CASE Save
  <2>1. /\ vault' = vault \cup {Archive(h) : h \in erases}
        /\ \A h \in erases : /\ h \in db /\ Archive(h).pkg = h.pkg /\ Archive(h).tid = h.tid
        /\ db' = db
    BY <1>2, Saves
  <2>2. ASSUME NEW p \in Before(t)' PROVE p \in Before(t)
    <3>1. CASE \E h \in db' : h.tid < t /\ h.pkg = p
      BY <2>1, <3>1 DEF Before
    <3>2. ASSUME NEW v \in vault', v.tid < t, t <= v.removed, v.pkg = p PROVE p \in Before(t)
      <4>1. CASE v \in vault
        BY <3>2, <4>1 DEF Before
      <4>2. CASE \E h \in erases : v = Archive(h)
        BY <2>1, <3>2, <4>2 DEF Before
      <4> QED
        BY <2>1, <4>1, <4>2
    <3> QED
      BY <2>2, <3>1, <3>2 DEF Before
  <2>3. Before(t) \subseteq Before(t)'
    BY <2>1 DEF Before
  <2> QED
    BY <2>2, <2>3
<1>3. ASSUME NEW h \in adds, InstallElement(h) PROVE Before(t)' = Before(t)
  <2>1. /\ db' = db \cup {h} /\ vault' = vault /\ pc = "run"
    BY <1>3, TypesOnInstall DEF Vaulted, InstallElement
  <2>2. Before(t) \subseteq Before(t)'
    BY <2>1 DEF Before
  <2>3. h.tid < t => h.pkg \in Before(t)
    <3>1. CASE ~RollingBack
      <4>1. h.tid = now
        BY <2>1, <3>1 DEF Vaulted, Clock, Under
      <4> QED
        BY <4>1, Kinds DEF Vaulted
    <3>2. CASE RollingBack
      <4>1. LevelUnder
        BY <2>1, <3>2 DEF LevelUnder
      <4>2. PICK v \in vault : v.removed = level /\ h = Unpacked(v)
        BY <4>1 DEF Vaulted, LevelSaved
      <4>3. h.pkg = v.pkg /\ h.tid = v.tid
        BY <4>2, Kinds DEF Vaulted
      <4> QED
        BY <4>1, <4>2, <4>3 DEF Before
    <3> QED
      BY <3>1, <3>2
  <2>4. Before(t)' \subseteq Before(t)
    BY <2>1, <2>3 DEF Before
  <2> QED
    BY <2>2, <2>4
<1>4. ASSUME NEW h \in erases, EraseElement(h) PROVE Before(t)' = Before(t)
  <2>1. /\ db' = db \ {h} /\ vault' = vault /\ pc = "run"
    BY <1>4 DEF EraseElement
  <2>2. Before(t)' \subseteq Before(t)
    BY <2>1 DEF Before
  <2>3. h.tid < t => h.pkg \in Before(t)'
    <3>1. CASE ~RollingBack
      <4>1. /\ Archive(h) \in vault /\ h \in Headers /\ now \in Tids
        BY <2>1, <3>1 DEF Vaulted, ErasedSaved, Under, TypeOK, Shape
      <4>2. Archive(h).pkg = h.pkg /\ Archive(h).tid = h.tid /\ Archive(h).removed = now
        BY <4>1, ArchiveOf
      <4> QED
        BY <2>1, <4>1, <4>2 DEF Before
    <3>2. CASE RollingBack
      <4>1. LevelUnder
        BY <2>1, <3>2 DEF LevelUnder
      <4>2. h.tid = level /\ t <= level
        BY <4>1 DEF Vaulted, LevelSaved
      <4> QED
        BY <4>2, Kinds DEF Vaulted
    <3> QED
      BY <3>1, <3>2
  <2>4. Before(t) \subseteq Before(t)'
    BY <2>1, <2>3 DEF Before
  <2> QED
    BY <2>2, <2>4
<1>5. CASE EndLevel /\ ~failed
  <2>1. /\ db' = db /\ vault' = {v \in vault : v.removed # level}
        /\ \A v \in vault : v.removed = level => Unpacked(v) \in db
    BY <1>5, EndsLevel
  <2>2. Before(t)' \subseteq Before(t)
    BY <2>1 DEF Before
  <2>3. ASSUME NEW v \in vault, v.removed = level, v.tid < t PROVE v.pkg \in Before(t)'
    <3>1. Unpacked(v) \in db' /\ Unpacked(v).pkg = v.pkg /\ Unpacked(v).tid = v.tid
      BY <2>1, <2>3, Kinds DEF Vaulted
    <3> QED
      BY <2>3, <3>1 DEF Before
  <2>4. Before(t) \subseteq Before(t)'
    BY <2>1, <2>3 DEF Before
  <2> QED
    BY <2>2, <2>4
<1> QED
  BY <1>1, <1>2, <1>3, <1>4, <1>5, Movers

(* Packages leave the vault when a level has been rolled back.              *)
LEMMA Leavers ==
  ASSUME Vaulted, [Next]_vars
  PROVE  vault \subseteq vault' \/ (EndLevel /\ ~failed)
<1>1. CASE ~auto'
  <2>1. ASSUME NEW h, InstallElement(h) \/ EraseElement(h) PROVE vault' = vault
    BY <2>1 DEF InstallElement, EraseElement
  <2> QED
    BY <1>1, <2>1, Movers, Saves
<1>2. CASE auto'
  <2>1. CASE Save
    BY <2>1, Saves
  <2>2. ASSUME NEW h, \/ InstallElement(h) \/ AddAsserts(h) \/ EraseElement(h) \/ ElementFails(h)
                      \/ AutoStart(h) \/ AutoGivesUp(h)
        PROVE  vault' = vault
    BY <2>2 DEF InstallElement, AddAsserts, EraseElement, ElementFails, AutoStart, AutoGivesUp
  <2>3. CASE EndTransaction \/ GoalReached \/ SkipExcluded \/ NothingToDo \/ Refused \/ Run
    BY <2>3 DEF EndTransaction, GoalReached, SkipExcluded, NothingToDo, Refused, Run
  <2>4. ASSUME NEW g, RollbackTo(g) PROVE vault' = vault
    BY <2>4 DEF RollbackTo
  <2>5. ASSUME NEW s, BuildLevel(s) PROVE vault' = vault
    BY <2>5 DEF BuildLevel
  <2>6. CASE EndLevel /\ failed
    BY <2>6 DEF EndLevel
  <2>7. ~NotRun
    BY DEF NotRun, Vaulted
  <2>8. CASE Transaction
    BY <2>8, Begins DEF Vaulted
  <2> QED
    BY <2>1, <2>2, <2>3, <2>4, <2>5, <2>6, <2>7, <2>8 DEF Next, Finished, Idle, vars
<1> QED
  BY <1>1, <1>2

(* A new entry is what is installed now.                                    *)
LEMMA NowRemembered ==
  ASSUME Vaulted, pc = "idle", Remember, UNCHANGED <<now, db, vault>>
  PROVE  /\ DOMAIN snap' = 1..now /\ now \notin DOMAIN snap
         /\ \A t \in DOMAIN snap : snap'[t] = snap[t]
         /\ snap'[now] = Before(now)'
<1>1. DOMAIN snap = 1..(now - 1) /\ now \in Nat /\ now >= 1
  BY Kinds DEF Vaulted, Clock
<1>2. now \notin DOMAIN snap /\ DOMAIN snap \cup {now} = 1..now
  BY <1>1
<1>3. /\ DOMAIN snap' = 1..now /\ snap'[now] = Installed
      /\ \A t \in DOMAIN snap : snap'[t] = snap[t]
  BY <1>2, Remembers DEF Vaulted
<1>4. /\ \A h \in db : h.tid < now
      /\ \A v \in vault : v.removed < now /\ v.removed \in Nat
  BY Kinds DEF Vaulted, Clock, Under
<1>5. {v \in vault : v.tid < now /\ now <= v.removed} = {}
  BY <1>1, <1>4
<1>6. Before(now) = Installed
  BY <1>4, <1>5 DEF Before, Installed
<1>7. Before(now)' = Before(now)
  BY DEF Before
<1> QED
  BY <1>2, <1>3, <1>6, <1>7

(* Clock, step by step.                                                     *)
LEMMA ClockKept ==
  ASSUME Vaulted, [Next]_vars, ~auto'
  PROVE  Clock'
<1> USE DEF Vaulted
<1>0. /\ now \in Nat /\ goal \in Nat
      /\ \A h \in db : h.tid \in Nat
      /\ \A v \in vault : v.removed \in Nat /\ v.tid \in Nat
  BY Kinds
<1>1. CASE Transaction
  <2>1. /\ pc = "idle" /\ pc' = "save" /\ erases' \subseteq db
        /\ \A h \in adds' : h.tid = now
        /\ Remember
        /\ UNCHANGED <<now, db, vault, rb>>
    BY <1>1, Begins
  <2>2. DOMAIN snap' = 1..now
    BY <2>1, NowRemembered
  <2>3. ~RollingBack /\ ~RollingBack'
    BY <2>1 DEF Shape, RollingBack, rb
  <2> QED
    BY <2>1, <2>2, <2>3 DEF Clock, Under
<1>2. CASE Save
  <2>1. /\ pc = "save" /\ pc' = "run" /\ ~RollingBack
        /\ vault' \subseteq vault \cup {Archive(h) : h \in erases}
        /\ \A h \in erases : /\ h.tid < now
                             /\ Archive(h).tid = h.tid /\ Archive(h).removed = now
        /\ UNCHANGED <<now, db, ts, rb, snap>>
    BY <1>2, Saves
  <2>2. Under' /\ ~RollingBack'
    BY <2>1 DEF Under, RollingBack, rb
  <2>3. /\ \A h \in db' : h.tid <= now
        /\ \A v \in vault' : v.tid < v.removed /\ v.removed <= now
    BY <1>0, <2>1 DEF Clock
  <2> QED
    BY <2>1, <2>2, <2>3 DEF Clock, ts
<1>3. CASE EndTransaction \/ \E h \in adds \cup erases : AutoGivesUp(h)
  <2>1. /\ pc = "run" /\ ~RollingBack /\ pc' = "idle" /\ Tick /\ UNCHANGED <<db, vault, rb, snap>>
    BY <1>3 DEF EndTransaction, AutoGivesUp, RollsBackFailures
  <2>2. now' = now + 1
    BY <2>1 DEF Tick
  <2>3. ~RollingBack'
    BY <2>1 DEF RollingBack, rb
  <2>4. DOMAIN snap' = 1..(now' - 1)
    BY <1>0, <2>1, <2>2 DEF Clock
  <2>5. /\ \A h \in db' : h.tid <= now' /\ h.tid < now'
        /\ \A v \in vault' : v.tid < v.removed /\ v.removed <= now' /\ v.removed < now'
    BY <1>0, <2>1, <2>2 DEF Clock
  <2> QED
    BY <2>1, <2>3, <2>4, <2>5 DEF Clock, Under
<1>4. ASSUME NEW h \in adds, InstallElement(h) PROVE Clock'
  <2>1. /\ db' = db \cup {h} /\ pc = "run" /\ adds' \subseteq adds
        /\ UNCHANGED <<now, vault, erases, rb, pc, snap>>
    BY <1>4, TypesOnInstall DEF InstallElement
  <2>2. RollingBack' = RollingBack /\ Under' = Under /\ goal' = goal
    BY <2>1 DEF RollingBack, Under, rb
  <2>3. h.tid <= now /\ (~Under => h.tid < now)
    <3>1. CASE Under
      BY <1>0, <3>1 DEF Clock
    <3>2. CASE ~Under
      <4>1. LevelUnder
        BY <2>1, <3>2 DEF Under, LevelUnder
      <4>2. PICK v \in vault : h = Unpacked(v)
        BY <4>1 DEF LevelSaved
      <4>3. h.tid = v.tid /\ v.tid < v.removed /\ v.removed < now
        BY <3>2, <4>2, Kinds DEF Clock
      <4> QED
        BY <1>0, <4>3
    <3> QED
      BY <3>1, <3>2
  <2>4. \A g \in db' : g.tid <= now /\ (~Under => g.tid < now)
    BY <2>1, <2>3 DEF Clock
  <2> QED
    BY <2>1, <2>2, <2>4 DEF Clock
<1>5. ASSUME NEW h \in erases, EraseElement(h) PROVE Clock'
  <2>1. /\ db' \subseteq db /\ pc = "run" /\ erases' \subseteq erases
        /\ UNCHANGED <<now, vault, adds, rb, pc, snap>>
    BY <1>5 DEF EraseElement
  <2>2. RollingBack' = RollingBack /\ Under' = Under /\ goal' = goal
    BY <2>1 DEF RollingBack, Under, rb
  <2> QED
    BY <2>1, <2>2 DEF Clock
<1>6. ASSUME NEW h \in adds \cup erases, ElementFails(h) PROVE Clock'
  <2>1. /\ pc = "run" /\ adds' \subseteq adds /\ erases' \subseteq erases
        /\ UNCHANGED <<now, db, vault, rb, pc, snap>>
    BY <1>6 DEF ElementFails
  <2>2. RollingBack' = RollingBack /\ Under' = Under /\ goal' = goal
    BY <2>1 DEF RollingBack, Under, rb
  <2> QED
    BY <2>1, <2>2 DEF Clock
<1>7. ASSUME NEW g \in Tids, RollbackTo(g) PROVE Clock'
  <2>1. /\ pc = "idle" /\ g < now /\ goal' = g /\ pc' = "next" /\ Remember
        /\ UNCHANGED <<now, db, vault>>
    BY <1>7 DEF RollbackTo
  <2>2. DOMAIN snap' = 1..now
    BY <2>1, NowRemembered
  <2> QED
    BY <2>1, <2>2 DEF Clock, Under
<1>8. CASE \/ GoalReached \/ SkipExcluded \/ NothingToDo \/ Refused \/ Run
           \/ \E h \in adds : AddAsserts(h)
           \/ \E s \in SetToSeqs({v \in rp : v.removed = ThisTid}) : BuildLevel(s)
  <2>1. /\ pc \notin {"idle", "save"} /\ pc' \notin {"idle", "save"} /\ RollingBack
        /\ UNCHANGED <<now, db, vault, goal, snap>>
    BY <1>8 DEF GoalReached, SkipExcluded, AtLevel, NothingToDo, Refused, Run, AddAsserts, BuildLevel,
                Shape, rb
  <2>2. ~Under /\ ~Under' /\ RollingBack'
    BY <2>1 DEF Under, RollingBack
  <2> QED
    BY <2>1, <2>2 DEF Clock
<1>9. CASE EndLevel
  <2>1. /\ pc = "run" /\ pc' \in {"stopped", "next"} /\ RollingBack /\ vault' \subseteq vault
        /\ UNCHANGED <<now, db, goal, snap>>
    BY <1>9, Reloads DEF EndLevel
  <2>2. ~Under /\ ~Under' /\ RollingBack'
    BY <2>1 DEF Under, RollingBack
  <2> QED
    BY <2>1, <2>2 DEF Clock
<1>10. ~NotRun /\ \A h \in adds \cup erases : ~AutoStart(h)
  BY DEF NotRun, AutoStart
<1>11. CASE UNCHANGED vars
  BY <1>11 DEF vars, ts, rb, Clock, Under, RollingBack
<1> QED
  BY <1>1, <1>2, <1>3, <1>4, <1>5, <1>6, <1>7, <1>8, <1>9, <1>10, <1>11 DEF Next, Finished, Idle

(* LevelSaved, step by step.                                                *)
LEMMA LevelSavedKept ==
  ASSUME Vaulted, [Next]_vars, ~auto'
  PROVE  LevelSaved'
<1> USE DEF Vaulted
<1>1. CASE pc' \in {"idle", "save", "rolled", "stopped", "aborted"} \/ (pc' = "run" /\ ~RollingBack')
  BY <1>1 DEF LevelSaved, LevelUnder
<1>2. ASSUME NEW h \in adds, InstallElement(h), RollingBack PROVE LevelSaved'
  <2>1. /\ db' = db \cup {h} /\ pc = "run" /\ adds' = adds \ {h}
        /\ UNCHANGED <<vault, erases, failed, opt, level, goal, rp, pc>>
    BY <1>2, TypesOnInstall DEF InstallElement, rb
  <2>2. LevelUnder /\ LevelUnder'
    BY <1>2, <2>1 DEF LevelUnder, RollingBack
  <2>3. Excluded' = Excluded /\ \A v \in vault : Unpacked(v)' = Unpacked(v)
    BY <2>1 DEF Excluded, Unpacked
  <2> QED
    BY <2>1, <2>2, <2>3 DEF LevelSaved
<1>3. ASSUME NEW h \in erases, EraseElement(h), RollingBack PROVE LevelSaved'
  <2>1. /\ db' = db \ {h} /\ pc = "run" /\ erases' = erases \ {h}
        /\ UNCHANGED <<vault, adds, failed, opt, level, goal, rp, pc>>
    BY <1>3 DEF EraseElement, rb
  <2>2. LevelUnder /\ LevelUnder'
    BY <1>3, <2>1 DEF LevelUnder, RollingBack
  <2>3. Excluded' = Excluded
    BY <2>1 DEF Excluded
  <2>4. \A v \in vault : v.removed = level => Unpacked(v) # h
    <3>1. h.tid = level
      BY <2>2 DEF LevelSaved
    <3>2. \A v \in vault : Unpacked(v).tid < v.removed /\ v.removed \in Nat /\ Unpacked(v).tid \in Nat
      BY Kinds DEF Clock
    <3> QED
      BY <3>1, <3>2
  <2> QED
    BY <2>1, <2>2, <2>3, <2>4 DEF LevelSaved
<1>4. ASSUME NEW h \in adds \cup erases, ElementFails(h), RollingBack PROVE LevelSaved'
  <2>1. /\ pc = "run" /\ adds' \subseteq adds /\ erases' \subseteq erases /\ failed' = TRUE
        /\ UNCHANGED <<vault, opt, level, goal, rp, pc>>
    BY <1>4 DEF ElementFails, rb
  <2>2. LevelUnder /\ LevelUnder' /\ Excluded' = Excluded
    BY <1>4, <2>1 DEF LevelUnder, RollingBack, Excluded
  <2> QED
    BY <2>1, <2>2 DEF LevelSaved
<1>5. ASSUME NEW g \in Tids, RollbackTo(g) PROVE LevelSaved'
  BY <1>5 DEF RollbackTo, LevelSaved, LevelUnder, IdtxGlob
<1>6. CASE SkipExcluded
  <2>1. /\ pc = "next" /\ ThisTid \in Excluded /\ rp' = {v \in rp : v.removed # ThisTid}
        /\ UNCHANGED <<opt, vault, goal, pc>>
    BY <1>6 DEF SkipExcluded, AtLevel
  <2>2. Excluded' = Excluded /\ ~LevelUnder /\ ~LevelUnder'
    BY <2>1 DEF Excluded, LevelUnder
  <2>3. /\ rp \subseteq vault /\ \A v \in rp : v.removed >= goal
        /\ \A v \in vault : v.removed >= goal => v \in rp \/ v.removed \in Excluded
    BY <2>1, <2>2 DEF LevelSaved
  <2> QED
    BY <2>1, <2>2, <2>3 DEF LevelSaved
<1>7. ASSUME NEW s \in SetToSeqs({v \in rp : v.removed = ThisTid}), BuildLevel(s)
      PROVE  LevelSaved'
  <2>1. /\ pc = "next" /\ pc' = "built"
        /\ ThisTid \in Tids /\ ThisTid >= goal /\ level' = ThisTid /\ ThisTid \notin Excluded
        /\ adds' = {Unpacked(v) : v \in {x \in rp : x.removed = ThisTid}}
        /\ erases' \subseteq {h \in ip : h.tid = ThisTid}
        /\ rp' = {v \in rp : v.removed # ThisTid}
        /\ UNCHANGED <<opt, vault, goal>>
    BY <1>7, Builds
  <2>2. /\ rp \subseteq vault /\ \A v \in rp : v.removed >= goal
        /\ \A v \in vault : v.removed >= goal => v \in rp \/ v.removed \in Excluded
    BY <2>1 DEF LevelSaved, LevelUnder
  <2>3. LevelUnder' /\ Excluded' = Excluded /\ ThisTid # Never
    BY <2>1, BoundsTyped DEF LevelUnder, Excluded, Tids, Never
  <2>4. /\ rp' \subseteq vault' /\ \A v \in rp' : v.removed >= goal'
        /\ \A v \in vault' : v.removed >= goal' => v \in rp' \/ v.removed \in Excluded' \/ v.removed = level'
    BY <2>1, <2>2, <2>3
  <2>5. /\ \A v \in rp' : v.removed # level'
        /\ \A h \in erases' : h.tid = level'
        /\ level' # Never /\ level' >= goal'
    BY <2>1, <2>3
  <2>6. \A h \in adds' : \E v \in vault' : v.removed = level' /\ h = Unpacked(v)
    BY <2>1, <2>2
  <2>7. \A v \in vault' : v.removed = level' => Unpacked(v) \in adds'
    BY <2>1, <2>2
  <2> QED
    BY <2>3, <2>4, <2>5, <2>6, <2>7 DEF LevelSaved, Never
<1>8. CASE Run
  <2>1. /\ pc = "built" /\ pc' = "run" /\ RollingBack
        /\ UNCHANGED <<vault, db, adds, erases, failed, opt, level, goal, rp>>
    BY <1>8 DEF Run, ts, rb, Shape
  <2>2. LevelUnder /\ LevelUnder' /\ Excluded' = Excluded
    BY <2>1 DEF LevelUnder, RollingBack, Excluded
  <2> QED
    BY <2>1, <2>2 DEF LevelSaved
<1>9. CASE EndLevel /\ ~failed
  <2>1. /\ pc = "run" /\ pc' = "next" /\ RollingBack
        /\ vault' = {v \in vault : v.removed # level}
        /\ UNCHANGED <<opt, goal, rp>>
    BY <1>9, EndsLevel
  <2>2. LevelUnder /\ ~LevelUnder' /\ Excluded' = Excluded
    BY <2>1 DEF LevelUnder, Excluded
  <2> QED
    BY <2>1, <2>2 DEF LevelSaved
<1>10. CASE UNCHANGED vars
  BY <1>10 DEF vars, ts, rb, LevelSaved, LevelUnder, RollingBack, Excluded
<1>11. CASE Transaction \/ Save \/ EndTransaction \/ GoalReached \/ NothingToDo \/ Refused
            \/ (EndLevel /\ failed)
  <2>1. \/ pc' \in {"idle", "save", "rolled", "stopped"}
        \/ pc' = "run" /\ ~RollingBack'
    BY <1>11, Begins, Saves DEF EndTransaction, GoalReached, NothingToDo, Refused, EndLevel, RollingBack, rb
  <2> QED
    BY <1>1, <2>1
<1>12. ASSUME NEW h \in adds, AddAsserts(h) PROVE LevelSaved'
  BY <1>1, <1>12 DEF AddAsserts
<1>13. ASSUME NEW h \in adds \cup erases, AutoGivesUp(h) PROVE LevelSaved'
  BY <1>1, <1>13 DEF AutoGivesUp
<1>14. ASSUME NEW h, InstallElement(h) \/ EraseElement(h) \/ ElementFails(h), ~RollingBack
       PROVE  LevelSaved'
  <2>1. pc' = "run" /\ ~RollingBack'
    BY <1>14 DEF InstallElement, EraseElement, ElementFails, RollingBack, rb
  <2> QED
    BY <1>1, <2>1
<1>15. ~NotRun /\ \A h \in adds \cup erases : ~AutoStart(h)
  BY DEF NotRun, AutoStart
<1> QED
  BY <1>2, <1>3, <1>4, <1>5, <1>6, <1>7, <1>8, <1>9, <1>10, <1>11, <1>12, <1>13, <1>14, <1>15
     DEF Next, Finished, Idle

(* ErasedSaved, step by step.                                               *)
LEMMA ErasedSavedKept ==
  ASSUME Vaulted, Saved, ErasedSaved, [Next]_vars, ~auto'
  PROVE  ErasedSaved'
<1> USE DEF Vaulted
<1>1. CASE Transaction
  <2>1. pc' = "save" /\ repackage' \in Repackages
    BY <1>1, Begins
  <2>2. repackage'
    BY <2>1 DEF Saved
  <2> QED
    BY <2>1, <2>2 DEF ErasedSaved, Under
<1>2. CASE Save
  <2>1. /\ pc' = "run" /\ vault' = vault \cup {Archive(h) : h \in erases}
        /\ UNCHANGED <<now, ts>>
    BY <1>2, Saves
  <2>2. \A h \in erases : Archive(h)' = Archive(h)
    BY <2>1 DEF Archive
  <2> QED
    BY <2>1, <2>2 DEF ErasedSaved, ts
<1>3. ASSUME NEW h, InstallElement(h) \/ EraseElement(h) \/ ElementFails(h) PROVE ErasedSaved'
  <2>1. /\ pc = "run" /\ erases' \subseteq erases /\ UNCHANGED <<now, vault, pc, rb>>
    BY <1>3 DEF InstallElement, EraseElement, ElementFails
  <2>2. Under' = Under /\ \A g \in erases : Archive(g)' = Archive(g)
    BY <2>1 DEF Under, RollingBack, Archive, rb
  <2> QED
    BY <2>1, <2>2 DEF ErasedSaved
<1>4. CASE pc' \notin {"save", "run"} \/ (pc' = "run" /\ RollingBack')
  BY <1>4 DEF ErasedSaved, Under
<1>5. CASE Run
  <2>1. pc' = "run" /\ RollingBack'
    BY <1>5 DEF Run, RollingBack, rb, Shape
  <2> QED
    BY <1>4, <2>1
<1>6. ASSUME NEW h, AddAsserts(h) \/ AutoGivesUp(h) PROVE ErasedSaved'
  BY <1>4, <1>6 DEF AddAsserts, AutoGivesUp
<1>7. CASE EndTransaction \/ GoalReached \/ SkipExcluded \/ NothingToDo \/ Refused \/ EndLevel
  <2>1. pc' \in {"idle", "rolled", "next", "stopped"}
    BY <1>7 DEF EndTransaction, GoalReached, SkipExcluded, AtLevel, NothingToDo, Refused, EndLevel, Reload
  <2> QED
    BY <1>4, <2>1
<1>8. ASSUME NEW g, RollbackTo(g) PROVE ErasedSaved'
  BY <1>4, <1>8 DEF RollbackTo
<1>9. ASSUME NEW s, BuildLevel(s) PROVE ErasedSaved'
  BY <1>4, <1>9 DEF BuildLevel
<1>10. CASE UNCHANGED vars
  <2>1. \A g \in erases : Archive(g)' = Archive(g)
    BY <1>10 DEF Archive, vars
  <2> QED
    BY <1>10, <2>1 DEF vars, ts, rb, ErasedSaved, Under, RollingBack
<1>11. ~NotRun /\ \A h : ~AutoStart(h)
  BY DEF NotRun, AutoStart
<1> QED
  BY <1>1, <1>2, <1>3, <1>5, <1>6, <1>7, <1>8, <1>9, <1>10, <1>11 DEF Next, Finished, Idle

(* The history only grows where a transaction or a rollback begins.         *)
LEMMA HistoryStays ==
  ASSUME [Next]_vars
  PROVE  \/ snap' = snap
         \/ Transaction
         \/ \E g \in Tids : RollbackTo(g)
<1>1. CASE Save \/ EndTransaction \/ GoalReached \/ SkipExcluded \/ NothingToDo \/ Refused \/ Run
           \/ EndLevel \/ NotRun
  BY <1>1 DEF Save, EndTransaction, GoalReached, SkipExcluded, NothingToDo, Refused, Run, EndLevel, NotRun
<1>2. ASSUME NEW h, \/ InstallElement(h) \/ AddAsserts(h) \/ EraseElement(h) \/ ElementFails(h)
                    \/ AutoStart(h) \/ AutoGivesUp(h)
      PROVE  snap' = snap
  BY <1>2 DEF InstallElement, AddAsserts, EraseElement, ElementFails, AutoStart, AutoGivesUp
<1>3. ASSUME NEW s, BuildLevel(s) PROVE snap' = snap
  BY <1>3 DEF BuildLevel
<1> QED
  BY <1>1, <1>2, <1>3 DEF Next, Finished, Idle, vars

LEMMA RememberedKept ==
  ASSUME Vaulted, Saved, ErasedSaved, Remembered(Top), [Next]_vars, ~auto'
  PROVE  Remembered(Top)'
<1> USE DEF Vaulted
<1>0. /\ now \in Nat /\ goal \in Nat /\ level \in Nat
      /\ DOMAIN snap \subseteq 1..now
  BY Kinds DEF TypeOK
<1>1. CASE snap' = snap /\ (RollingBack => RollingBack' /\ goal' = goal)
  <2> SUFFICES ASSUME NEW t \in DOMAIN snap, t <= Top' PROVE snap[t] = Before(t)'
    BY <1>1 DEF Remembered
  <2>1. t \in Nat /\ t <= now
    BY <1>0
  <2>2. t <= Top
    BY <1>1, <2>1 DEF Top
  <2>3. LevelUnder => t <= level
    BY <1>0, <2>1, <2>2 DEF LevelSaved, LevelUnder, Top, Shape
  <2>4. Before(t)' = Before(t)
    BY <2>1, <2>3, BeforeKept
  <2> QED
    BY <2>2, <2>4 DEF Remembered
<1>2. CASE Transaction \/ \E g \in Tids : RollbackTo(g)
  <2>1. /\ pc = "idle" /\ Remember /\ UNCHANGED <<now, db, vault>>
    BY <1>2, Begins DEF RollbackTo
  <2>2. /\ DOMAIN snap' = 1..now /\ now \notin DOMAIN snap /\ DOMAIN snap = 1..(now - 1)
        /\ \A t \in DOMAIN snap : snap'[t] = snap[t]
        /\ snap'[now] = Before(now)'
    BY <2>1, NowRemembered DEF Clock
  <2>3. Top = now
    BY <2>1 DEF Top, Shape
  <2>4. ASSUME NEW t \in DOMAIN snap PROVE snap'[t] = Before(t)'
    <3>1. t <= Top /\ t \in Nat /\ t <= now /\ ~LevelUnder
      BY <1>0, <2>1, <2>3 DEF LevelUnder
    <3> QED
      BY <2>2, <3>1, BeforeKept DEF Remembered
  <2>5. \A t \in DOMAIN snap' : t = now \/ t \in DOMAIN snap
    BY <1>0, <2>2
  <2>6. ASSUME NEW t \in DOMAIN snap', t = now PROVE snap'[t] = Before(t)'
    <3>1. t = now'
      BY <2>1, <2>6
    <3>2. Before(t)' = Before(now)'
      BY <3>1 DEF Before
    <3> QED
      BY ONLY <2>2, <2>6, <3>2
  <2>7. \A t \in DOMAIN snap' : snap'[t] = Before(t)'
    BY <2>4, <2>5, <2>6
  <2> QED
    BY <2>7 DEF Remembered
<1>3. RollingBack => RollingBack' /\ goal' = goal
  <2> SUFFICES ASSUME RollingBack PROVE goal' = goal
    BY DEF RollingBack
  <2>1. pc \notin {"idle", "save"}
    BY DEF Shape
  <2>2. CASE EndTransaction \/ GoalReached \/ SkipExcluded \/ NothingToDo \/ Refused \/ Run
             \/ EndLevel \/ NotRun
    BY <2>2 DEF EndTransaction, GoalReached, SkipExcluded, NothingToDo, Refused, Run, EndLevel,
                NotRun, rb
  <2>3. ASSUME NEW h, \/ InstallElement(h) \/ AddAsserts(h) \/ EraseElement(h) \/ ElementFails(h)
                      \/ AutoStart(h) \/ AutoGivesUp(h)
        PROVE  goal' = goal
    BY <2>3 DEF InstallElement, AddAsserts, EraseElement, ElementFails, AutoStart, AutoGivesUp,
                RollsBackFailures, rb
  <2>4. ASSUME NEW s, BuildLevel(s) PROVE goal' = goal
    BY <2>4 DEF BuildLevel
  <2>5. ~Transaction /\ ~Save /\ \A g \in Tids : ~RollbackTo(g)
    BY <2>1 DEF Transaction, Begin, Save, RollbackTo
  <2> QED
    BY <2>2, <2>3, <2>4, <2>5 DEF Next, Finished, Idle, vars, rb
<1> QED
  BY <1>1, <1>2, <1>3, HistoryStays

LEMMA VaultInit == Init => VaultInv
<1> SUFFICES ASSUME Init PROVE VaultInv
  OBVIOUS
<1>1. /\ pc = "idle" /\ now = 1 /\ db = {} /\ vault = {} /\ adds = {} /\ erases = {}
      /\ goal = Never /\ snap = << >>
  BY DEF Init
<1>2. DOMAIN snap = {} /\ 1..(now - 1) = {}
  BY <1>1
<1>3. ~RollingBack
  BY <1>1 DEF RollingBack
<1>4. Clock
  BY <1>1, <1>2, <1>3 DEF Clock, Under
<1>5. LevelSaved
  BY <1>1 DEF LevelSaved, LevelUnder
<1>6. Remembered(Top)
  BY <1>2 DEF Remembered
<1>7. ErasedSaved
  BY <1>1 DEF ErasedSaved, Under
<1> QED
  BY <1>4, <1>5, <1>6, <1>7 DEF VaultInv

(* VaultInv is inductive.                                                   *)
LEMMA VaultInvKept ==
  ASSUME TypeOK, Shape, VaultInv, [Next]_vars
  PROVE  VaultInv'
<1> SUFFICES ASSUME ~SameSecond', ~auto'
             PROVE  Clock' /\ LevelSaved' /\ (Saved' => ErasedSaved' /\ Remembered(Top)')
  BY DEF VaultInv
<1>1. ~SameSecond /\ ~auto /\ Saved' = Saved
  BY SettingsStay DEF Saved, Repackages, Fails, SameSecond
<1>2. Vaulted /\ (Saved => ErasedSaved /\ Remembered(Top))
  BY <1>1 DEF VaultInv, Vaulted
<1> QED
  BY <1>1, <1>2, ClockKept, LevelSavedKept, ErasedSavedKept, RememberedKept

-----------------------------------------------------------------------------
(* VaultKept.                                                               *)

(* Nothing that was installed is forgotten, by VaultInv: up to the goal of  *)
(* a rollback, the vault tells what was installed.                          *)
LEMMA NotForgotten ==
  ASSUME TypeOK, Shape, VaultInv, ~SameSecond, "save" \notin Fails
  PROVE  NothingForgotten
<1> SUFFICES ASSUME Repackages = {TRUE}, ~auto,
                    NEW t \in DOMAIN snap,
                    RollingBack => \A u \in DOMAIN snap : u >= goal => t <= u
             PROVE  snap[t] \subseteq Installed \cup Archived
  BY DEF NothingForgotten
<1>1. Clock /\ Remembered(Top)
  BY DEF VaultInv, Saved
<1>2. now \in Nat /\ goal \in Nat /\ goal >= 1 /\ DOMAIN snap \subseteq 1..now
  BY Kinds DEF TypeOK
<1>3. t <= Top
  <2>1. CASE ~RollingBack
    BY <1>2, <2>1 DEF Top
  <2>2. CASE RollingBack
    <3>1. goal < now /\ DOMAIN snap = 1..now
      BY <1>1, <2>2 DEF Clock, Shape
    <3>2. goal \in DOMAIN snap
      BY <1>2, <3>1
    <3>3. t <= goal
      BY <1>2, <2>2, <3>2
    <3> QED
      BY <2>2, <3>3 DEF Top
  <2> QED
    BY <2>1, <2>2
<1>4. snap[t] = Before(t)
  BY <1>1, <1>3 DEF Remembered
<1> QED
  BY <1>4 DEF Before, Installed, Archived

(* What is deleted is back, or written again.                               *)
LEMMA DeletedBack ==
  ASSUME TypeOK, Shape, VaultInv, ~SameSecond, [Next]_vars
  PROVE  DeletedWhenBack
<1> SUFFICES ASSUME ~auto, NEW v \in vault, v \notin vault'
             PROVE  v.pkg \in Installed
  BY DEF DeletedWhenBack
<1>1. Vaulted
  BY DEF VaultInv, Vaulted
<1>2. EndLevel /\ ~failed
  BY <1>1, Leavers
<1>3. v.removed = level
  BY <1>1, <1>2, EndsLevel
<1>4. Unpacked(v) \in db /\ Unpacked(v).pkg = v.pkg
  BY <1>1, <1>2, <1>3, EndsLevel, Kinds DEF Vaulted
<1> QED
  BY <1>4 DEF Installed

(* TypeOK, Shape and VaultInv always hold.                                  *)
LEMMA VaultAlways == Spec => [](TypeOK /\ Shape /\ VaultInv)
<1> DEFINE I == TypeOK /\ Shape /\ VaultInv
<1>1. Init => I
  BY TypesInit, VaultInit
<1>2. I /\ [Next]_vars => I'
  BY TypesKept, VaultInvKept
<1> QED
  BY <1>1, <1>2, PTL DEF Spec

(* The type invariant holds for all packages, bounds and settings.          *)
THEOREM TypeCorrect == Spec => []TypeOK
BY VaultAlways, PTL

(* Where no package fails to be repackaged and no two transactions share a  *)
(* second, the vault can always undo what the system did, whatever the      *)
(* other settings and whatever element fails.                               *)
THEOREM VaultIsKept ==
  ASSUME \A o \in Options : ~o.second /\ "save" \notin o.fails
  PROVE  Spec => VaultKept
<1> DEFINE I == TypeOK /\ Shape /\ VaultInv
<1>1. TypeOK => ~SameSecond /\ "save" \notin Fails
  BY DEF TypeOK, SameSecond, Fails
<1>2. I => NothingForgotten
  BY <1>1, NotForgotten
<1>3. I /\ I' /\ [Next]_vars => [NothingForgotten' /\ DeletedWhenBack]_vars
  <2>1. I /\ [Next]_vars => DeletedWhenBack
    BY <1>1, DeletedBack
  <2>2. I' => NothingForgotten'
    BY <1>2, PTL
  <2> QED
    BY <2>1, <2>2
<1>4. Spec => []I
  BY VaultAlways
<1> QED
  BY <1>3, <1>4, PTL DEF Spec, VaultKept

-----------------------------------------------------------------------------
(* LevelInv: every level takes the system back by one transaction.          *)

(* The parts of LevelInv and VaultInv, under their conditions.              *)
Leveled ==
  /\ Vaulted /\ Undoable /\ ErasedSaved
  /\ Older /\ Remembered(Here) /\ Chained /\ Apart /\ NoneEmpty /\ Lists /\ Achieved

LEMMA LeveledIs ==
  ASSUME Leveled
  PROVE  /\ TypeOK /\ Shape /\ ~SameSecond /\ ~auto /\ Clock /\ LevelSaved /\ Saved /\ Excluded = {}
         /\ now \in Nat /\ level \in Nat /\ goal \in Nat /\ Here \in Nat /\ Here >= 1 /\ Here <= now
         /\ UnsafeRollbacks \in Nat
         /\ RollingBack => goal < now /\ DOMAIN snap = 1..now
<1>1. /\ TypeOK /\ Shape /\ ~SameSecond /\ ~auto /\ Clock /\ LevelSaved
  BY DEF Leveled, Vaulted
<1>2. Saved /\ Excluded = {}
  BY DEF Leveled, Undoable, Saved
<1>3. /\ now \in Nat /\ level \in Nat /\ goal \in Nat /\ level >= 1 /\ now >= 1
  BY <1>1, Kinds
<1>4. Here \in Nat /\ Here >= 1 /\ Here <= now
  BY <1>3 DEF Leveled, Older, Here
<1>5. RollingBack => goal < now /\ DOMAIN snap = 1..now
  BY <1>1 DEF Clock, Shape
<1>6. UnsafeRollbacks \in Nat
  BY <1>1, Settings
<1> QED
  BY <1>1, <1>2, <1>3, <1>4, <1>5, <1>6

(* The steps that are possible where all can be undone.                     *)
UndoStep ==
  \/ Transaction \/ Save \/ EndTransaction
  \/ \E h \in adds : InstallElement(h) \/ AddAsserts(h)
  \/ \E h \in erases : EraseElement(h)
  \/ \E h \in adds \cup erases : ElementFails(h) /\ RollingBack
  \/ \E g \in Tids : RollbackTo(g)
  \/ GoalReached
  \/ \E s \in SetToSeqs({v \in rp : v.removed = ThisTid}) : BuildLevel(s)
  \/ NothingToDo \/ Run \/ EndLevel

(* In a history that can be undone, only elements of a rollback fail.       *)
LEMMA UndoSteps ==
  ASSUME Leveled, [Next]_vars
  PROVE  /\ UndoStep \/ UNCHANGED vars
         /\ ~auto' /\ opt' = opt
<1>1. /\ Shape /\ ~auto /\ Excluded = {} /\ Fails \subseteq {"rollback"}
  BY LeveledIs DEF Leveled, Undoable
<1>2. ASSUME NEW h, AutoStart(h) \/ AutoGivesUp(h) PROVE FALSE
  BY <1>1, <1>2 DEF AutoStart, AutoGivesUp, MayFail, RollsBackFailures
<1>3. ASSUME NEW h, ElementFails(h) PROVE RollingBack
  BY <1>1, <1>3 DEF ElementFails, MayFail
<1>4. ~SkipExcluded /\ ~NotRun
  BY <1>1 DEF SkipExcluded, NotRun
<1>5. ~Refused
  <2> SUFFICES ASSUME Refused PROVE FALSE
    OBVIOUS
  <2>1. pc = "built" /\ Total # 0 /\ (NoElements \/ AlreadyInstalled)
    BY DEF Refused
  <2>a. ~NoElements
    <3>1. unlinked = {}
      BY <2>1 DEF Leveled, Lists
    <3>2. CASE adds = {}
      <4>1. Cardinality(adds) = 0 /\ Cardinality(unlinked) = 0
        BY <3>1, <3>2, FS_EmptySet
      <4> QED
        BY <2>1, <4>1 DEF Total
    <3> QED
      BY <3>2 DEF NoElements
  <2>2. PICK a \in adds, h \in db : a.pkg = h.pkg
    BY <2>1, <2>a DEF AlreadyInstalled, Installed
  <2>3. PICK v \in vault : v.removed = level /\ a = Unpacked(v)
    BY <2>1 DEF Leveled, Lists
  <2>4. v.pkg = h.pkg /\ v.removed \in Nat /\ h.tid \in Nat /\ level \in Nat
    BY <2>2, <2>3, LeveledIs, Kinds
  <2>5. RollingBack /\ level # Never
    BY <1>1, <2>1, LeveledIs DEF Shape, LevelSaved, LevelUnder
  <2>6. ~Moving(v, h)
    BY <2>1, <2>5 DEF Moving
  <2>7. v.removed < h.tid
    BY <2>4, <2>6 DEF Leveled, Apart
  <2>8. h.tid <= level
    BY <2>5 DEF Leveled, Older, Here
  <2> QED
    BY <2>3, <2>4, <2>7, <2>8
<1>6. opt' = opt
  BY <1>1, SettingsStay
<1>7. ~auto'
  <2>1. CASE Transaction
    BY <1>1, <2>1, Begins, LeveledIs DEF rb
  <2>2. CASE Save \/ EndTransaction \/ GoalReached \/ NothingToDo \/ Run \/ EndLevel
    BY <1>1, <2>2 DEF Save, EndTransaction, GoalReached, NothingToDo, Run, EndLevel, rb
  <2>3. ASSUME NEW h, InstallElement(h) \/ AddAsserts(h) \/ EraseElement(h) \/ ElementFails(h)
        PROVE  ~auto'
    BY <1>1, <2>3 DEF InstallElement, AddAsserts, EraseElement, ElementFails, rb
  <2>4. ASSUME NEW g, RollbackTo(g) PROVE ~auto'
    BY <1>1, <2>4 DEF RollbackTo
  <2>5. ASSUME NEW s, BuildLevel(s) PROVE ~auto'
    BY <1>1, <2>5 DEF BuildLevel
  <2>6. CASE UNCHANGED vars
    BY <1>1, <2>6 DEF vars, rb
  <2> QED
    BY <1>2, <1>4, <1>5, <2>1, <2>2, <2>3, <2>4, <2>5, <2>6 DEF Next, Finished, Idle
<1> QED
  BY <1>1, <1>2, <1>3, <1>4, <1>5, <1>6, <1>7 DEF Next, Finished, Idle, UndoStep

(* No identifier is left out: the next level is that of the transaction     *)
(* before, or there is nothing after the goal any more.                     *)
LEMMA NextIsBefore ==
  ASSUME Leveled, pc = "next"
  PROVE  IF Here - 1 >= goal THEN ThisTid = Here - 1 ELSE ThisTid = 0
<1>1. /\ ip = {h \in db : h.tid >= goal}
      /\ rp \subseteq vault /\ \A v \in rp : v.removed >= goal
      /\ \A v \in vault : v.removed >= goal => v \in rp
      /\ \A h \in db : h.tid < Here
      /\ \A v \in vault : v.removed < Here
      /\ \A v \in vault : v.tid < v.removed
      /\ \A t \in 1..(Here - 1) : Used(t)
  BY LeveledIs DEF Leveled, Lists, LevelSaved, LevelUnder, Older, Between, NoneEmpty, Clock
<1>2. /\ Here \in Nat /\ goal \in Nat /\ goal >= 1 /\ TypeOK /\ MaxTid \in Nat
      /\ ip \subseteq Headers /\ rp \subseteq Archives
      /\ \A h \in db : h.tid \in Nat
      /\ \A v \in vault : v.tid \in Nat /\ v.removed \in Nat
  BY LeveledIs, Kinds DEF TypeOK
<1>3. /\ ThisTid \in 0..MaxTid
      /\ \A h \in ip : h.tid <= ThisTid
      /\ \A v \in rp : v.removed <= ThisTid
      /\ \/ ThisTid = 0
         \/ \E h \in ip : h.tid = ThisTid
         \/ \E v \in rp : v.removed = ThisTid
  BY <1>2, NextLevel
<1>4. ThisTid \in Nat /\ (ThisTid = 0 \/ (ThisTid >= goal /\ ThisTid < Here))
  BY <1>1, <1>2, <1>3
<1>5. CASE Here - 1 >= goal
  <2>1. Here - 1 \in 1..(Here - 1) /\ Here - 1 \in Nat
    BY <1>2, <1>5
  <2>2. Used(Here - 1)
    BY <1>1, <2>1
  <2>3. \A v \in vault : v.tid # Here - 1
    BY <1>1, <1>2
  <2>4. (\E h \in db : h.tid = Here - 1) \/ (\E v \in vault : v.removed = Here - 1)
    BY <2>2, <2>3 DEF Used
  <2>5. Here - 1 <= ThisTid
    BY <1>1, <1>3, <1>5, <2>4
  <2> QED
    BY <1>2, <1>4, <1>5, <2>1, <2>5
<1>6. CASE ~(Here - 1 >= goal)
  BY <1>2, <1>4, <1>6
<1> QED
  BY <1>5, <1>6

(* At the beginning of a level the system is as before its successor.       *)
LEMMA AsRemembered ==
  ASSUME Leveled, pc = "next"
  PROVE  Here \in DOMAIN snap /\ Installed = snap[Here]
<1>1. RollingBack
  BY LeveledIs DEF Shape
<1>2. Here \in DOMAIN snap
  BY <1>1, LeveledIs
<1>3. snap[Here] = Before(Here)
  BY <1>2, LeveledIs DEF Leveled, Remembered
<1>4. /\ \A h \in db : h.tid < Here
      /\ \A v \in vault : v.removed < Here
  BY DEF Leveled, Older, Between
<1>5. {v \in vault : v.tid < Here /\ Here <= v.removed} = {}
  <2>1. \A v \in vault : v.removed \in Nat
    BY LeveledIs, Kinds
  <2> QED
    BY <1>4, <2>1, LeveledIs
<1>6. Before(Here) = Installed
  BY <1>4, <1>5 DEF Before, Installed
<1> QED
  BY <1>2, <1>3, <1>6

(* A level: everything its transaction erased is added, and everything it   *)
(* added is erased.                                                         *)
LEMMA LevelBuilt ==
  ASSUME Leveled,
         NEW s \in SetToSeqs({v \in rp : v.removed = ThisTid}), BuildLevel(s)
  PROVE  /\ pc = "next" /\ pc' = "built" /\ RollingBack
         /\ ThisTid = Here - 1 /\ ThisTid >= goal /\ ThisTid \in Nat /\ ThisTid # Never /\ level' = ThisTid
         /\ Here' = Here - 1 /\ UnsafeRollbacks < ThisTid
         /\ adds' = {Unpacked(v) : v \in {x \in vault : x.removed = ThisTid}}
         /\ erases' = {h \in db : h.tid = ThisTid}
         /\ unlinked' = {} /\ failed' = FALSE
         /\ UNCHANGED <<opt, now, db, vault, goal, auto, snap>>
<1>1. /\ pc = "next" /\ pc' = "built" /\ RollingBack
      /\ ThisTid \in Tids /\ ThisTid >= goal /\ level' = ThisTid
      /\ UnsafeRollbacks # 0 => ThisTid > UnsafeRollbacks
      /\ adds' = {Unpacked(v) : v \in {x \in rp : x.removed = ThisTid}}
      /\ erases' \subseteq {h \in ip : h.tid = ThisTid}
      /\ unlinked' = {h \in ip : h.tid = ThisTid} \ erases'
      /\ \A h \in ip : /\ h.tid = ThisTid
                       /\ \/ h.blink = {}
                          \/ \E v \in rp : v.removed = ThisTid /\ v.pkg \in h.blink
                       => h \in erases'
      /\ failed' = FALSE
      /\ UNCHANGED <<opt, now, db, vault, goal, auto, snap>>
  BY LeveledIs, Builds
<1>2. ThisTid \in Nat /\ ThisTid >= 1 /\ ThisTid # Never
  BY <1>1, BoundsTyped DEF Tids, Never
<1>3. ThisTid = Here - 1
  BY <1>1, <1>2, NextIsBefore, LeveledIs
<1>4. /\ ip = {h \in db : h.tid >= goal}
      /\ rp \subseteq vault /\ \A v \in vault : v.removed >= goal => v \in rp
  BY <1>1, LeveledIs DEF Leveled, Lists, LevelSaved, LevelUnder
<1>5. {x \in rp : x.removed = ThisTid} = {x \in vault : x.removed = ThisTid}
  BY <1>1, <1>4
<1>6. {h \in ip : h.tid = ThisTid} = {h \in db : h.tid = ThisTid}
  BY <1>1, <1>4
<1>7. ASSUME NEW h \in db, h.tid = ThisTid PROVE h \in erases'
  <2>1. h \in ip
    BY <1>6, <1>7
  <2>2. CASE h.blink = {}
    BY <1>1, <1>7, <2>1, <2>2
  <2>3. ASSUME NEW p \in h.blink PROVE h \in erases'
    <3>1. PICK v \in vault : v.pkg = p /\ v.removed = h.tid
      BY DEF Leveled, Chained, Followed
    <3>2. v \in rp
      BY <1>5, <1>7, <3>1
    <3> QED
      BY <1>1, <1>7, <2>1, <2>3, <3>1, <3>2
  <2> QED
    BY <2>2, <2>3
<1>8. erases' = {h \in db : h.tid = ThisTid} /\ unlinked' = {}
  BY <1>1, <1>6, <1>7
<1>9. Here' = Here - 1
  BY <1>1, <1>2, <1>3 DEF Here, Never
<1>10. UnsafeRollbacks < ThisTid
  BY <1>1, <1>2, LeveledIs
<1> QED
  BY <1>1, <1>2, <1>3, <1>5, <1>8, <1>9, <1>10

(* The steps of an element, in an ordinary transaction and in a rollback.   *)
LEMMA Installs ==
  ASSUME Leveled, NEW h \in adds, InstallElement(h)
  PROVE  /\ pc = "run" /\ db' = db \cup {h} /\ h \notin db /\ adds' = adds \ {h}
         /\ h.pkg \notin Installed /\ h.tid \in Nat
         /\ IF RollingBack THEN \E v \in vault : v.removed = level /\ h = Unpacked(v)
                           ELSE h.tid = now
         /\ UNCHANGED <<now, vault, erases, failed, rb, pc, snap>>
<1>1. /\ pc = "run" /\ adds' = adds \ {h}
      /\ UNCHANGED <<now, vault, erases, link, repackage, gone, failed, rb, pc, snap>>
  BY DEF InstallElement
<1>2. db' = db \cup {h} /\ h \notin db /\ h.pkg \notin Installed
  BY <1>1, LeveledIs, TypesOnInstall DEF Shape
<1>3. h.tid \in Nat
  BY LeveledIs, Kinds
<1>4. RollingBack => \E v \in vault : v.removed = level /\ h = Unpacked(v)
  BY <1>1, LeveledIs DEF LevelSaved, LevelUnder
<1>5. ~RollingBack => h.tid = now
  BY <1>1, LeveledIs DEF Clock, Under
<1> QED
  BY <1>1, <1>2, <1>3, <1>4, <1>5

LEMMA Erases ==
  ASSUME Leveled, NEW h \in erases, EraseElement(h)
  PROVE  /\ pc = "run" /\ db' = db \ {h} /\ h \in db /\ erases' = erases \ {h}
         /\ IF RollingBack THEN h.tid = level
            ELSE \E v \in vault : v.pkg = h.pkg /\ v.tid = h.tid /\ v.removed = now
         /\ UNCHANGED <<now, vault, adds, failed, rb, pc, snap>>
<1>1. /\ pc = "run" /\ db' = db \ {h} /\ erases' = erases \ {h}
      /\ UNCHANGED <<now, vault, adds, link, repackage, failed, rb, pc, snap>>
  BY DEF EraseElement
<1>2. h \in db
  BY LeveledIs DEF TypeOK
<1>3. CASE RollingBack
  BY <1>1, <1>2, <1>3, LeveledIs DEF LevelSaved, LevelUnder
<1>4. CASE ~RollingBack
  <2>1. Archive(h) \in vault
    BY <1>1, <1>4 DEF Leveled, ErasedSaved, Under
  <2>2. Archive(h).pkg = h.pkg /\ Archive(h).tid = h.tid /\ Archive(h).removed = now
    BY DEF Archive
  <2> QED
    BY <1>1, <1>2, <1>4, <2>1, <2>2
<1> QED
  BY <1>1, <1>2, <1>3, <1>4

(* The steps that leave the headers and the vault alone, and the            *)
(* transaction before which the system is.                                  *)
LEMMA Stays ==
  ASSUME Leveled,
         \/ \E h \in adds : AddAsserts(h)
         \/ \E h \in adds \cup erases : ElementFails(h) /\ RollingBack
         \/ GoalReached \/ NothingToDo \/ Run \/ (EndLevel /\ failed)
  PROVE  /\ RollingBack /\ RollingBack'
         /\ pc \in {"run", "next", "built"} /\ pc' \in {"run", "rolled", "stopped", "aborted"}
         /\ pc = "run" => pc' # "rolled"
         /\ pc = "next" => pc' = "rolled"
         /\ adds' \subseteq adds /\ erases' \subseteq erases
         /\ UNCHANGED <<opt, now, db, vault, goal, level, snap>> /\ Here' = Here
<1>1. Shape
  BY LeveledIs
<1>2. CASE \E h \in adds : AddAsserts(h)
  BY <1>2 DEF AddAsserts, ts, rb, RollingBack, Here
<1>3. CASE \E h \in adds \cup erases : ElementFails(h) /\ RollingBack
  BY <1>3 DEF ElementFails, rb, RollingBack, Here
<1>4. CASE GoalReached \/ NothingToDo \/ Run
  BY <1>1, <1>4 DEF GoalReached, NothingToDo, Run, ts, rb, RollingBack, Here, Shape
<1>5. CASE EndLevel /\ failed
  BY <1>5 DEF EndLevel, ts, RollingBack, Here
<1> QED
  BY <1>2, <1>3, <1>4, <1>5


LEMMA Starts ==
  ASSUME Leveled, Transaction
  PROVE  /\ pc = "idle" /\ pc' = "save" /\ ~RollingBack /\ ~RollingBack'
         /\ level = Never /\ level' = Never /\ Here = now /\ Here' = now
         /\ adds' # {} \/ erases' # {}
         /\ erases' \subseteq db
         /\ \A h \in adds' : \A p \in h.blink : \E x \in erases' : x.pkg = p
         /\ Remember /\ UNCHANGED <<opt, now, db, vault, rb>>
<1>1. /\ pc = "idle" /\ pc' = "save" /\ Remember
      /\ adds' # {} \/ erases' # {}
      /\ erases' \subseteq db
      /\ \A h \in adds' : \A p \in h.blink : \E x \in erases' : x.pkg = p
      /\ UNCHANGED <<now, db, vault, rb>>
  BY LeveledIs, Begins
<1>2. ~RollingBack /\ level = Never
  BY <1>1, LeveledIs DEF Shape
<1>3. ~RollingBack' /\ level' = Never /\ opt' = opt
  BY <1>1, <1>2 DEF rb, RollingBack
<1>4. Here = now /\ Here' = now
  BY <1>1, <1>2, <1>3 DEF Here
<1> QED
  BY <1>1, <1>2, <1>3, <1>4

LEMMA Saving ==
  ASSUME Leveled, Save
  PROVE  /\ pc = "save" /\ pc' = "run" /\ ~RollingBack /\ ~RollingBack' /\ Under'
         /\ level = Never /\ level' = Never /\ Here = now /\ Here' = now
         /\ vault' = vault \cup {Archive(h) : h \in erases}
         /\ \A h \in erases : /\ h \in db /\ h.tid < now
                              /\ Archive(h) \in Archives /\ Unpacked(Archive(h)) = h
                              /\ Archive(h).pkg = h.pkg /\ Archive(h).tid = h.tid
                              /\ Archive(h).blink = h.blink /\ Archive(h).removed = now
         /\ UNCHANGED <<opt, now, db, ts, rb, snap>>
<1>1. /\ pc = "save" /\ pc' = "run" /\ ~RollingBack
      /\ vault' = vault \cup {Archive(h) : h \in erases}
      /\ \A h \in erases : /\ h \in db /\ h.tid < now
                           /\ Archive(h) \in Archives /\ Unpacked(Archive(h)) = h
                           /\ Archive(h).pkg = h.pkg /\ Archive(h).tid = h.tid
                           /\ Archive(h).blink = h.blink /\ Archive(h).removed = now
      /\ UNCHANGED <<now, db, ts, rb, snap>>
  BY LeveledIs, Saves DEF Leveled
<1>2. level = Never
  BY <1>1, LeveledIs DEF Shape
<1>3. ~RollingBack' /\ level' = Never /\ opt' = opt /\ Under'
  BY <1>1, <1>2 DEF rb, RollingBack, Under
<1>4. Here = now /\ Here' = now
  BY <1>1, <1>2, <1>3 DEF Here
<1> QED
  BY <1>1, <1>2, <1>3, <1>4

LEMMA Ends ==
  ASSUME Leveled, EndTransaction
  PROVE  /\ pc = "run" /\ pc' = "idle" /\ ~RollingBack /\ ~RollingBack' /\ Under
         /\ level = Never /\ level' = Never /\ now' = now + 1 /\ Here = now /\ Here' = now + 1
         /\ adds = {} /\ erases = {} /\ adds' = {} /\ erases' = {}
         /\ DOMAIN snap = 1..now
         /\ UNCHANGED <<opt, db, vault, ts, rb, snap>>
<1>1. /\ pc = "run" /\ adds = {} /\ erases = {} /\ ~RollingBack /\ pc' = "idle" /\ Tick
      /\ UNCHANGED <<db, vault, ts, rb, snap>>
  BY DEF EndTransaction
<1>2. level = Never /\ now' = now + 1 /\ DOMAIN snap = 1..now
  BY <1>1, LeveledIs DEF Shape, Tick, Clock
<1>3. ~RollingBack' /\ level' = Never /\ opt' = opt /\ adds' = {} /\ erases' = {} /\ Under
  BY <1>1, <1>2 DEF rb, ts, RollingBack, Under
<1>4. Here = now /\ Here' = now + 1
  BY <1>1, <1>2, <1>3 DEF Here
<1> QED
  BY <1>1, <1>2, <1>3, <1>4

LEMMA RollsBack ==
  ASSUME Leveled, NEW g \in Tids, RollbackTo(g)
  PROVE  /\ pc = "idle" /\ pc' = "next" /\ RollingBack'
         /\ level = Never /\ level' = Never /\ Here = now /\ Here' = now
         /\ goal' = g /\ g < now /\ ip' = {h \in db : h.tid >= g}
         /\ Remember /\ UNCHANGED <<opt, now, db, vault, ts>>
<1>1. /\ pc = "idle" /\ pc' = "next" /\ goal' = g /\ g < now /\ level' = Never
      /\ ip' = {h \in db : h.tid >= g}
      /\ Remember /\ UNCHANGED <<opt, now, db, vault, ts>>
  BY DEF RollbackTo, IdtxLoad
<1>2. level = Never
  BY <1>1, LeveledIs DEF Shape
<1>3. g # Never
  BY BoundsTyped DEF Tids, Never
<1>4. Here = now /\ Here' = now /\ RollingBack'
  BY <1>1, <1>2, <1>3 DEF Here, RollingBack, Never
<1> QED
  BY <1>1, <1>2, <1>4

(* The end of a level of which nothing failed.                              *)
LEMMA LevelEnds ==
  ASSUME Leveled, EndLevel, ~failed
  PROVE  /\ pc = "run" /\ pc' = "next" /\ RollingBack /\ RollingBack'
         /\ level # Never /\ Here = level /\ Here' = level
         /\ adds = {} /\ erases = {} /\ adds' = {} /\ erases' = {}
         /\ vault' = {v \in vault : v.removed # level}
         /\ \A v \in vault : v.removed = level => Unpacked(v) \in db
         /\ \A h \in db : h.tid < level
         /\ ip' = {h \in db : h.tid >= goal}
         /\ UNCHANGED <<opt, now, db, ts, goal, level, snap>>
<1>1. /\ pc = "run" /\ pc' = "next" /\ RollingBack /\ level # Never
      /\ adds = {} /\ erases = {}
      /\ vault' = {v \in vault : v.removed # level}
      /\ \A v \in vault : v.removed = level => Unpacked(v) \in db
      /\ ip' \subseteq {h \in db : h.tid >= goal}
      /\ \A h \in db : h.tid >= goal /\ h.tid # level => h \in ip'
      /\ UNCHANGED <<opt, now, db, ts, goal, level, rp, auto, snap>>
  BY EndsLevel DEF Leveled
<1>2. RollingBack' /\ adds' = {} /\ erases' = {} /\ Here = level /\ Here' = level
  BY <1>1 DEF RollingBack, ts, Here, Never
<1>3. \A h \in db : h.tid < level
  <2>1. LevelUnder
    BY <1>1 DEF LevelUnder
  <2>2. \A h \in db : h.tid # level
    BY <1>1, <2>1 DEF Leveled, Lists
  <2>3. \A h \in db : h.tid <= level /\ h.tid \in Nat
    BY <1>2, LeveledIs, Kinds DEF Leveled, Older
  <2> QED
    BY <2>2, <2>3, LeveledIs
<1>4. ip' = {h \in db : h.tid >= goal}
  BY <1>1, <1>3, LeveledIs
<1> QED
  BY <1>1, <1>2, <1>3, <1>4

(* Older, step by step.                                                     *)
LEMMA OlderKept ==
  ASSUME Leveled, UndoStep
  PROVE  Older'
<1> USE DEF Leveled
<1>0. /\ \A h \in db : h.tid \in Nat
      /\ \A v \in vault : v.removed \in Nat /\ v.tid \in Nat
  BY LeveledIs, Kinds
<1>1. CASE Transaction
  <2>1. /\ Between /\ level' = Never /\ Here' = Here /\ UNCHANGED <<db, vault>>
    BY <1>1, Starts DEF Between
  <2> QED
    BY <2>1 DEF Older, Never
<1>2. CASE Save
  <2>1. /\ ~Between' /\ level' = Never /\ Here = now /\ Here' = now /\ db' = db
        /\ vault' = vault \cup {Archive(h) : h \in erases}
        /\ \A h \in erases : Archive(h).removed = now
    BY <1>2, Saving DEF Between
  <2>2. \A v \in vault' : v.removed <= now
    BY <2>1, LeveledIs DEF Older
  <2> QED
    BY <2>1, <2>2 DEF Older, Never
<1>3. CASE EndTransaction
  <2>1. level' = Never /\ Here = now /\ Here' = now + 1 /\ UNCHANGED <<db, vault>>
    BY <1>3, Ends
  <2>2. /\ \A h \in db : h.tid <= now + 1 /\ h.tid < now + 1
        /\ \A v \in vault : v.removed <= now + 1 /\ v.removed < now + 1
    BY <1>0, <2>1, LeveledIs DEF Older
  <2> QED
    BY <2>1, <2>2 DEF Older, Never
<1>4. ASSUME NEW g \in Tids, RollbackTo(g) PROVE Older'
  <2>1. Between /\ level' = Never /\ Here' = Here /\ UNCHANGED <<db, vault>>
    BY <1>4, RollsBack DEF Between
  <2> QED
    BY <2>1 DEF Older, Never
<1>5. ASSUME NEW s \in SetToSeqs({v \in rp : v.removed = ThisTid}), BuildLevel(s) PROVE Older'
  <2>1. /\ Between /\ ~Between' /\ ThisTid = Here - 1 /\ ThisTid >= goal /\ level' = ThisTid
        /\ Here' = Here - 1 /\ UnsafeRollbacks < ThisTid
        /\ UNCHANGED <<opt, now, db, vault, goal>>
    BY <1>5, LevelBuilt DEF Between
  <2>2. /\ \A h \in db : h.tid <= Here - 1
        /\ \A v \in vault : v.removed <= Here - 1
    BY <1>0, <2>1, LeveledIs DEF Older
  <2>3. Here - 1 < now /\ UnsafeRollbacks' = UnsafeRollbacks
    BY <2>1, LeveledIs DEF UnsafeRollbacks
  <2> QED
    BY <2>1, <2>2, <2>3 DEF Older
<1>6. ASSUME NEW h \in adds, InstallElement(h) PROVE Older'
  <2>1. /\ pc = "run" /\ pc' = "run" /\ db' = db \cup {h}
        /\ IF RollingBack THEN \E v \in vault : v.removed = level /\ h = Unpacked(v)
                          ELSE h.tid = now
        /\ UNCHANGED <<opt, now, vault, goal, level>>
    BY <1>6, Installs DEF rb
  <2>2. h.tid <= Here
    <3>1. CASE RollingBack
      <4>1. PICK v \in vault : v.removed = level /\ h = Unpacked(v)
        BY <2>1, <3>1
      <4>2. h.tid = v.tid /\ v.tid < v.removed /\ v.removed <= Here
        BY <4>1, LeveledIs, Kinds DEF Older, Clock
      <4> QED
        BY <1>0, <4>2, LeveledIs
    <3>2. CASE ~RollingBack
      BY <2>1, <3>2, LeveledIs DEF Here, Shape
    <3> QED
      BY <3>1, <3>2
  <2>3. Here' = Here /\ ~Between' /\ UnsafeRollbacks' = UnsafeRollbacks
    BY <2>1 DEF Here, Between, UnsafeRollbacks, Never
  <2> QED
    BY <2>1, <2>2, <2>3 DEF Older, Never
<1>7. ASSUME NEW h \in erases, EraseElement(h) PROVE Older'
  <2>1. /\ pc = "run" /\ pc' = "run" /\ db' \subseteq db
        /\ UNCHANGED <<opt, now, vault, goal, level>>
    BY <1>7, Erases DEF rb
  <2>2. Here' = Here /\ ~Between' /\ UnsafeRollbacks' = UnsafeRollbacks
    BY <2>1 DEF Here, Between, UnsafeRollbacks, Never
  <2> QED
    BY <2>1, <2>2 DEF Older, Never
<1>8. CASE \/ \E h \in adds : AddAsserts(h)
           \/ \E h \in adds \cup erases : ElementFails(h) /\ RollingBack
           \/ GoalReached \/ NothingToDo \/ Run \/ (EndLevel /\ failed)
  <2>1. /\ pc' \in {"run", "rolled", "stopped", "aborted"}
        /\ UNCHANGED <<opt, now, db, vault, goal, level>> /\ Here' = Here
    BY <1>8, Stays
  <2>2. ~Between' /\ UnsafeRollbacks' = UnsafeRollbacks
    BY <2>1 DEF Between, UnsafeRollbacks
  <2> QED
    BY <2>1, <2>2 DEF Older, Never
<1>9. CASE EndLevel /\ ~failed
  <2>1. /\ level # Never /\ Here = level /\ Here' = level
        /\ vault' = {v \in vault : v.removed # level}
        /\ \A h \in db : h.tid < level
        /\ UNCHANGED <<opt, now, db, goal, level>>
    BY <1>9, LevelEnds
  <2>2. UnsafeRollbacks' = UnsafeRollbacks
    BY <2>1 DEF UnsafeRollbacks
  <2>3. \A v \in vault' : v.removed <= level /\ v.removed < level
    BY <1>0, <2>1, LeveledIs DEF Older
  <2>4. \A h \in db' : h.tid <= level /\ h.tid < level
    BY <1>0, <2>1, LeveledIs
  <2> QED
    BY <2>1, <2>2, <2>3, <2>4 DEF Older
<1> QED
  BY <1>1, <1>2, <1>3, <1>4, <1>5, <1>6, <1>7, <1>8, <1>9 DEF UndoStep

(* What was installed is told up to the level, step by step.                *)
LEMMA HereRememberedKept ==
  ASSUME Leveled, UndoStep, [Next]_vars, ~auto'
  PROVE  Remembered(Here)'
<1>0. /\ Vaulted /\ Saved /\ ErasedSaved /\ TypeOK /\ Clock
      /\ now \in Nat /\ level \in Nat /\ Here \in Nat /\ Here <= now
      /\ DOMAIN snap \subseteq 1..now
  BY LeveledIs DEF Leveled, TypeOK
<1>1. ASSUME NEW t \in DOMAIN snap, t <= Here PROVE snap[t] = Before(t)'
  <2>1. t \in Nat /\ t <= now
    BY <1>0
  <2>2. LevelUnder => t <= level
    BY <1>0, <1>1, <2>1, LeveledIs DEF LevelSaved, Here
  <2>3. Before(t)' = Before(t)
    BY <1>0, <2>1, <2>2, BeforeKept
  <2> QED
    BY <1>1, <2>3 DEF Leveled, Remembered
<1>2. CASE Transaction \/ \E g \in Tids : RollbackTo(g)
  <2>1. /\ pc = "idle" /\ Remember /\ Here = now /\ Here' = now
        /\ UNCHANGED <<now, db, vault>>
    BY <1>2, Starts, RollsBack
  <2>2. /\ DOMAIN snap' = 1..now /\ DOMAIN snap = 1..(now - 1)
        /\ \A t \in DOMAIN snap : snap'[t] = snap[t]
        /\ snap'[now] = Before(now)'
    BY <1>0, <2>1, NowRemembered DEF Clock
  <2>3. ASSUME NEW t \in DOMAIN snap PROVE snap'[t] = Before(t)'
    BY <1>0, <1>1, <2>1, <2>2
  <2>4. ASSUME NEW t \in DOMAIN snap', t = now PROVE snap'[t] = Before(t)'
    <3>1. t = now'
      BY <2>1, <2>4
    <3>2. Before(t)' = Before(now)'
      BY <3>1 DEF Before
    <3> QED
      BY ONLY <2>2, <2>4, <3>2
  <2>5. \A t \in DOMAIN snap' : t = now \/ t \in DOMAIN snap
    BY <1>0, <2>2
  <2> QED
    BY <2>3, <2>4, <2>5 DEF Remembered
<1>3. CASE snap' = snap
  <2>1. ASSUME NEW t \in DOMAIN snap, t <= Here' PROVE t <= Here
    <3>1. t \in Nat /\ t <= now
      BY <1>0
    <3>2. CASE Save
      BY <2>1, <3>2, Saving
    <3>3. CASE EndTransaction
      BY <3>1, <3>3, Ends
    <3>4. ASSUME NEW s \in SetToSeqs({v \in rp : v.removed = ThisTid}), BuildLevel(s) PROVE t <= Here
      <4>1. Here' = Here - 1
        BY <3>4, LevelBuilt
      <4> QED
        BY ONLY <1>0, <2>1, <3>1, <4>1
    <3>5. CASE (\E h \in adds : InstallElement(h)) \/ (\E h \in erases : EraseElement(h))
      <4>1. UNCHANGED <<now, rb>>
        BY <3>5, Installs, Erases
      <4>2. Here' = Here
        BY <4>1 DEF Here, rb, Never
      <4> QED
        BY <2>1, <4>2
    <3>6. CASE \/ \E h \in adds : AddAsserts(h)
               \/ \E h \in adds \cup erases : ElementFails(h) /\ RollingBack
               \/ GoalReached \/ NothingToDo \/ Run \/ (EndLevel /\ failed)
      BY <2>1, <3>6, Stays
    <3>7. CASE EndLevel /\ ~failed
      BY <2>1, <3>7, LevelEnds
    <3>8. CASE Transaction \/ \E g \in Tids : RollbackTo(g)
      BY <2>1, <3>8, Starts, RollsBack
    <3> QED
      BY <3>2, <3>3, <3>4, <3>5, <3>6, <3>7, <3>8 DEF UndoStep
  <2> QED
    BY <1>1, <1>3, <2>1 DEF Remembered
<1> QED
  BY <1>2, <1>3, HistoryStays

(* Lists, step by step.                                                     *)
LEMMA ListsKept ==
  ASSUME Leveled, UndoStep
  PROVE  Lists'
<1>1. CASE Transaction
  BY <1>1, Starts DEF Lists, LevelUnder
<1>2. CASE Save
  BY <1>2, Saving DEF Lists, LevelUnder
<1>3. CASE EndTransaction
  BY <1>3, Ends DEF Lists, LevelUnder
<1>4. ASSUME NEW g \in Tids, RollbackTo(g) PROVE Lists'
  BY <1>4, RollsBack DEF Lists, LevelUnder
<1>5. ASSUME NEW s \in SetToSeqs({v \in rp : v.removed = ThisTid}), BuildLevel(s) PROVE Lists'
  <2>1. /\ pc = "next" /\ pc' = "built" /\ ThisTid = Here - 1 /\ level' = ThisTid
        /\ adds' = {Unpacked(v) : v \in {x \in vault : x.removed = ThisTid}}
        /\ erases' = {h \in db : h.tid = ThisTid}
        /\ unlinked' = {}
        /\ UNCHANGED <<db, vault, snap>>
    BY <1>5, LevelBuilt
  <2>2. \A v \in vault : Unpacked(v)' = Unpacked(v)
    BY DEF Unpacked
  <2>3. level' + 1 = Here
    BY <2>1, LeveledIs
  <2>4. Installed' = snap'[level' + 1]
    BY <2>1, <2>3, AsRemembered DEF Installed
  <2>5. \A h \in db' : h.tid = level' => h \in erases'
    BY <2>1
  <2>6. adds' = {Unpacked(v) : v \in {x \in vault' : x.removed = level'}}
    BY <2>1
  <2> QED
    BY <2>1, <2>4, <2>5, <2>6 DEF Lists
<1>6. ASSUME NEW h \in adds, InstallElement(h) PROVE Lists'
  <2>1. /\ pc = "run" /\ pc' = "run" /\ db' = db \cup {h}
        /\ RollingBack => \E v \in vault : v.removed = level /\ h = Unpacked(v)
        /\ UNCHANGED <<erases, failed, goal, level>>
    BY <1>6, Installs DEF rb
  <2>2. RollingBack => h.tid # level
    <3> SUFFICES ASSUME RollingBack PROVE h.tid # level
      OBVIOUS
    <3>1. PICK v \in vault : v.removed = level /\ h = Unpacked(v)
      BY <2>1
    <3>2. h.tid = v.tid /\ v.tid < v.removed /\ v.tid \in Nat /\ v.removed \in Nat
      BY <3>1, LeveledIs, Kinds DEF Clock
    <3> QED
      BY <3>1, <3>2
  <2>3. LevelUnder' => LevelUnder /\ RollingBack
    BY <2>1 DEF LevelUnder, RollingBack
  <2> QED
    BY <2>1, <2>2, <2>3 DEF Lists, Leveled
<1>7. ASSUME NEW h \in erases, EraseElement(h) PROVE Lists'
  <2>1. /\ pc = "run" /\ pc' = "run" /\ db' = db \ {h} /\ erases' = erases \ {h}
        /\ UNCHANGED <<failed, goal, level>>
    BY <1>7, Erases DEF rb
  <2>2. LevelUnder' => LevelUnder
    BY <2>1 DEF LevelUnder, RollingBack
  <2> QED
    BY <2>1, <2>2 DEF Lists, Leveled
<1>8. CASE \E h \in adds \cup erases : ElementFails(h) /\ RollingBack
  <2>1. pc' = "run" /\ failed' = TRUE
    BY <1>8 DEF ElementFails
  <2> QED
    BY <2>1 DEF Lists
<1>9. CASE Run
  <2>1. /\ pc = "built" /\ pc' = "run" /\ UNCHANGED <<db, erases, failed, level>>
    BY <1>9 DEF Run, ts, rb
  <2> QED
    BY <2>1 DEF Lists, Leveled, LevelUnder
<1>10. CASE EndLevel /\ failed
  BY <1>10 DEF EndLevel, Lists, LevelUnder, ts
<1>11. CASE GoalReached \/ NothingToDo \/ \E h \in adds : AddAsserts(h)
  <2>1. pc' \in {"rolled", "aborted"}
    BY <1>11 DEF GoalReached, NothingToDo, AddAsserts
  <2> QED
    BY <2>1 DEF Lists, LevelUnder
<1>12. CASE EndLevel /\ ~failed
  BY <1>12, LevelEnds DEF Lists, LevelUnder
<1> QED
  BY <1>1, <1>2, <1>3, <1>4, <1>5, <1>6, <1>7, <1>8, <1>9, <1>10, <1>11, <1>12 DEF UndoStep

(* NoneEmpty, step by step.                                                 *)
LEMMA NoneEmptyKept ==
  ASSUME Leveled, UndoStep
  PROVE  NoneEmpty'
<1>0. /\ Here \in Nat /\ now \in Nat /\ Here >= 1 /\ level \in Nat
      /\ \A t \in 1..(Here - 1) : Used(t)
      /\ pc = "save" => adds # {} \/ erases # {}
      /\ Under => adds # {} \/ Used(now)
  BY LeveledIs DEF Leveled, NoneEmpty
<1>1. ASSUME NEW t, Used(t), db \subseteq db', vault \subseteq vault' PROVE Used(t)'
  BY <1>1 DEF Used
<1>2. CASE Transaction
  <2>1. /\ ~Under' /\ Here' = Here /\ UNCHANGED <<db, vault>>
        /\ adds' # {} \/ erases' # {}
    BY <1>2, Starts DEF Under
  <2> QED
    BY <1>0, <1>1, <2>1 DEF NoneEmpty
<1>3. CASE Save
  <2>1. /\ pc = "save" /\ pc' = "run" /\ Here' = Here
        /\ vault' = vault \cup {Archive(h) : h \in erases}
        /\ \A h \in erases : Archive(h).removed = now
        /\ UNCHANGED <<now, db, ts>>
    BY <1>3, Saving
  <2>2. \A t \in 1..(Here' - 1) : Used(t)'
    BY <1>0, <1>1, <2>1
  <2>3. adds' # {} \/ Used(now)'
    <3>1. CASE adds # {}
      BY <2>1, <3>1 DEF ts
    <3>2. ASSUME NEW h \in erases PROVE Used(now)'
      <4>1. Archive(h) \in vault' /\ Archive(h).removed = now'
        BY <2>1
      <4> QED
        BY <4>1 DEF Used
    <3> QED
      BY <1>0, <2>1, <3>1, <3>2
  <2> QED
    BY <2>1, <2>2, <2>3 DEF NoneEmpty
<1>4. CASE EndTransaction
  <2>1. /\ pc' = "idle" /\ Under /\ adds = {} /\ Here = now /\ Here' = now + 1
        /\ UNCHANGED <<db, vault>>
    BY <1>4, Ends
  <2>2. Used(now)
    BY <1>0, <2>1
  <2>3. ASSUME NEW t \in 1..(Here' - 1) PROVE Used(t)'
    <3>1. Used(t)
      BY <1>0, <2>1, <2>2
    <3> QED
      BY <1>1, <2>1, <3>1
  <2> QED
    BY <2>1, <2>3 DEF NoneEmpty, Under
<1>5. CASE \/ \E g \in Tids : RollbackTo(g)
           \/ \E s \in SetToSeqs({v \in rp : v.removed = ThisTid}) : BuildLevel(s)
  <2>1. /\ pc' \in {"next", "built"} /\ Here' \in {Here, Here - 1}
        /\ UNCHANGED <<db, vault>>
    BY <1>5, RollsBack, LevelBuilt
  <2>2. ASSUME NEW t \in 1..(Here' - 1) PROVE Used(t)'
    <3>0. Here \in Nat /\ (Here' = Here \/ Here' = Here - 1)
      BY <1>0, <2>1
    <3>1. t \in 1..(Here - 1)
      <4>1. CASE Here' = Here
        BY <4>1
      <4>2. CASE Here' = Here - 1
        <5>1. t \in 1..((Here - 1) - 1)
          BY ONLY <4>2, <2>2
        <5> QED
          BY ONLY <3>0, <5>1
      <4> QED
        BY <3>0, <4>1, <4>2
    <3>2. Used(t)
      BY <1>0, <3>1
    <3> QED
      BY <1>1, <2>1, <3>2
  <2> QED
    BY <2>1, <2>2 DEF NoneEmpty, Under
<1>6. ASSUME NEW h \in adds, InstallElement(h) PROVE NoneEmpty'
  <2>1. /\ pc = "run" /\ pc' = "run" /\ db' = db \cup {h}
        /\ ~RollingBack => h.tid = now
        /\ UNCHANGED <<now, vault, goal, level>>
    BY <1>6, Installs DEF rb
  <2>2. Here' = Here /\ (Under' => ~RollingBack)
    BY <2>1 DEF Here, Under, RollingBack, Never
  <2>3. ~RollingBack => Used(now)'
    BY <2>1 DEF Used
  <2>4. ASSUME NEW t \in 1..(Here' - 1) PROVE Used(t)'
    BY <1>0, <1>1, <2>1, <2>2
  <2> QED
    BY <2>1, <2>2, <2>3, <2>4 DEF NoneEmpty
<1>7. ASSUME NEW h \in erases, EraseElement(h) PROVE NoneEmpty'
  <2>1. /\ pc = "run" /\ pc' = "run" /\ db' = db \ {h}
        /\ IF RollingBack THEN h.tid = level
           ELSE \E v \in vault : v.pkg = h.pkg /\ v.tid = h.tid /\ v.removed = now
        /\ UNCHANGED <<now, vault, adds, goal, level>>
    BY <1>7, Erases DEF rb
  <2>2. Here' = Here /\ (Under' => Under /\ ~RollingBack)
    BY <2>1 DEF Here, Under, RollingBack, Never
  <2>3. ASSUME NEW t, Used(t), RollingBack => t # level PROVE Used(t)'
    <3>1. CASE t = h.tid
      <4>1. PICK v \in vault : v.tid = t
        BY <2>1, <2>3, <3>1
      <4> QED
        BY <2>1, <4>1 DEF Used
    <3>2. CASE t # h.tid
      BY <2>1, <2>3, <3>2 DEF Used
    <3> QED
      BY <3>1, <3>2
  <2>4. ASSUME NEW t \in 1..(Here' - 1) PROVE Used(t)'
    <3>1. RollingBack => Here = level
      <4> SUFFICES ASSUME RollingBack PROVE Here = level
        OBVIOUS
      <4>1. LevelUnder
        BY <2>1 DEF LevelUnder
      <4> QED
        BY <4>1, LeveledIs DEF LevelSaved, Here
    <3>2. Used(t) /\ (RollingBack => t # level)
      BY <1>0, <2>2, <3>1
    <3> QED
      BY <2>3, <3>2
  <2>5. Under' => adds' # {} \/ Used(now)'
    <3> SUFFICES ASSUME Under', adds' = {} PROVE Used(now)'
      OBVIOUS
    <3>1. Used(now) /\ ~RollingBack
      BY <1>0, <2>1, <2>2
    <3>2. CASE now = h.tid
      <4>1. PICK v \in vault' : v.tid = now'
        BY <2>1, <3>1, <3>2
      <4> QED
        BY <4>1 DEF Used
    <3>3. CASE now # h.tid
      BY <2>1, <3>1, <3>3 DEF Used
    <3> QED
      BY <3>2, <3>3
  <2> QED
    BY <2>1, <2>4, <2>5 DEF NoneEmpty
<1>8. CASE \/ \E h \in adds : AddAsserts(h)
           \/ \E h \in adds \cup erases : ElementFails(h) /\ RollingBack
           \/ GoalReached \/ NothingToDo \/ Run \/ (EndLevel /\ failed)
  <2>1. /\ RollingBack' /\ pc' # "save" /\ UNCHANGED <<db, vault>> /\ Here' = Here
    BY <1>8, Stays
  <2>2. ~Under'
    BY <2>1 DEF Under
  <2> QED
    BY <1>0, <1>1, <2>1, <2>2 DEF NoneEmpty
<1>9. CASE EndLevel /\ ~failed
  <2>1. /\ pc' = "next" /\ Here = level /\ Here' = level
        /\ vault' = {v \in vault : v.removed # level}
        /\ \A v \in vault : v.removed = level => Unpacked(v) \in db
        /\ UNCHANGED db
    BY <1>9, LevelEnds
  <2>2. ASSUME NEW t \in 1..(Here' - 1) PROVE Used(t)'
    <3>1. Used(t) /\ t # level
      BY <1>0, <2>1
    <3>2. ASSUME NEW v \in vault, v.tid = t \/ v.removed = t PROVE Used(t)'
      <4>1. CASE v.removed = level
        <5>1. v.tid = t /\ Unpacked(v) \in db' /\ Unpacked(v).tid = t
          BY <2>1, <3>1, <3>2, <4>1, LeveledIs, Kinds
        <5> QED
          BY <5>1 DEF Used
      <4>2. CASE v.removed # level
        <5>1. v \in vault'
          BY <2>1, <4>2
        <5> QED
          BY <3>2, <5>1 DEF Used
      <4> QED
        BY <4>1, <4>2
    <3> QED
      BY <2>1, <3>1, <3>2 DEF Used
  <2> QED
    BY <2>1, <2>2 DEF NoneEmpty, Under
<1> QED
  BY <1>2, <1>3, <1>4, <1>5, <1>6, <1>7, <1>8, <1>9 DEF UndoStep

(* Chained, step by step.                                                   *)
LEMMA ChainedKept ==
  ASSUME Leveled, UndoStep
  PROVE  Chained'
<1>0. /\ \A h \in db \cup vault : Followed(h)
      /\ pc \in {"run", "built"} => \A h \in adds : Followed(h)
      /\ pc = "save" => \A h \in adds : \A p \in h.blink : \E x \in erases : x.pkg = p
  BY DEF Leveled, Chained
<1>1. ASSUME NEW h, Followed(h), vault \subseteq vault' PROVE Followed(h)'
  BY <1>1 DEF Followed
<1>2. CASE Transaction
  <2>1. /\ pc' = "save" /\ UNCHANGED <<db, vault>>
        /\ \A h \in adds' : \A p \in h.blink : \E x \in erases' : x.pkg = p
    BY <1>2, Starts
  <2>2. \A h \in db' \cup vault' : Followed(h)'
    BY <1>0, <1>1, <2>1
  <2> QED
    BY <2>1, <2>2 DEF Chained
<1>3. CASE Save
  <2>1. /\ pc = "save" /\ pc' = "run"
        /\ vault' = vault \cup {Archive(h) : h \in erases}
        /\ \A h \in erases : /\ h \in db
                             /\ Archive(h).pkg = h.pkg /\ Archive(h).tid = h.tid
                             /\ Archive(h).blink = h.blink /\ Archive(h).removed = now
        /\ UNCHANGED <<now, db, ts>>
    BY <1>3, Saving
  <2>2. \A h \in db' \cup vault : Followed(h)'
    BY <1>0, <1>1, <2>1
  <2>3. ASSUME NEW h \in erases, NEW x, x = Archive(h) PROVE Followed(x)'
    <3>1. Followed(h)' /\ x.blink = h.blink /\ x.tid = h.tid
      BY <2>1, <2>2, <2>3
    <3> QED
      BY <3>1 DEF Followed
  <2>4. ASSUME NEW h \in adds PROVE Followed(h)'
    <3> SUFFICES ASSUME NEW p \in h.blink PROVE \E v \in vault' : v.pkg = p /\ v.removed = h.tid
      BY DEF Followed
    <3>1. PICK x \in erases : x.pkg = p
      BY <1>0, <2>1
    <3>2. h.tid = now
      BY <2>1, LeveledIs DEF Clock
    <3> QED
      BY <2>1, <3>1, <3>2
  <2>5. \A h \in db' \cup vault' : Followed(h)'
    <3>1. \A h \in vault' : h \in vault \/ \E x \in erases : h = Archive(x)
      BY <2>1
    <3> QED
      BY <2>2, <2>3, <3>1
  <2>6. \A h \in adds' : Followed(h)'
    BY <2>1, <2>4 DEF ts
  <2> QED
    BY <2>1, <2>5, <2>6 DEF Chained
<1>4. CASE EndTransaction \/ \E g \in Tids : RollbackTo(g)
  <2>1. pc' \in {"idle", "next"} /\ UNCHANGED <<db, vault>>
    BY <1>4, Ends, RollsBack
  <2>2. \A h \in db' \cup vault' : Followed(h)'
    BY <1>0, <1>1, <2>1
  <2> QED
    BY <2>1, <2>2 DEF Chained
<1>5. ASSUME NEW s \in SetToSeqs({v \in rp : v.removed = ThisTid}), BuildLevel(s) PROVE Chained'
  <2>1. /\ pc' = "built"
        /\ adds' = {Unpacked(v) : v \in {x \in vault : x.removed = ThisTid}}
        /\ UNCHANGED <<db, vault>>
    BY <1>5, LevelBuilt
  <2>2. \A h \in db' \cup vault' : Followed(h)'
    BY <1>0, <1>1, <2>1
  <2>3. ASSUME NEW h \in adds' PROVE Followed(h)'
    <3>1. PICK v \in vault : h = Unpacked(v)
      BY <2>1
    <3>2. h.blink = v.blink /\ h.tid = v.tid
      BY <3>1, LeveledIs, Kinds
    <3>3. Followed(v)'
      BY <2>1, <2>2
    <3> QED
      BY <3>2, <3>3 DEF Followed
  <2> QED
    BY <2>1, <2>2, <2>3 DEF Chained
<1>6. ASSUME NEW h \in adds, InstallElement(h) PROVE Chained'
  <2>1. /\ pc = "run" /\ pc' = "run" /\ db' = db \cup {h} /\ adds' \subseteq adds /\ vault' = vault
    BY <1>6, Installs
  <2>2. \A g \in db \cup vault \cup adds : Followed(g)'
    BY <1>0, <1>1, <2>1
  <2> QED
    BY <2>1, <2>2 DEF Chained
<1>7. ASSUME NEW h \in erases, EraseElement(h) PROVE Chained'
  <2>1. /\ pc = "run" /\ pc' = "run" /\ db' \subseteq db /\ UNCHANGED <<adds, vault>>
    BY <1>7, Erases
  <2>2. \A g \in db \cup vault \cup adds : Followed(g)'
    BY <1>0, <1>1, <2>1
  <2> QED
    BY <2>1, <2>2 DEF Chained
<1>8. CASE \/ \E h \in adds : AddAsserts(h)
           \/ \E h \in adds \cup erases : ElementFails(h) /\ RollingBack
           \/ GoalReached \/ NothingToDo \/ Run \/ (EndLevel /\ failed)
  <2>1. /\ pc \in {"run", "next", "built"} /\ pc' \in {"run", "rolled", "stopped", "aborted"}
        /\ pc = "next" => pc' = "rolled"
        /\ adds' \subseteq adds /\ UNCHANGED <<db, vault>>
    BY <1>8, Stays
  <2>2. \A g \in db \cup vault : Followed(g)'
    BY <1>0, <1>1, <2>1
  <2>3. pc' = "run" => \A g \in adds : Followed(g)'
    BY <1>0, <1>1, <2>1
  <2> QED
    BY <2>1, <2>2, <2>3 DEF Chained
<1>9. CASE EndLevel /\ ~failed
  <2>1. /\ pc' = "next" /\ Here = level
        /\ vault' = {v \in vault : v.removed # level}
        /\ \A h \in db : h.tid < level
        /\ UNCHANGED db
    BY <1>9, LevelEnds
  <2>2. ASSUME NEW h \in db' \cup vault' PROVE Followed(h)'
    <3>1. h.tid # level
      <4>1. CASE h \in db
        BY <2>1, <4>1, LeveledIs, Kinds
      <4>2. CASE h \in vault'
        <5>1. h.tid < h.removed /\ h.removed <= level
          BY <2>1, <4>2, LeveledIs DEF Leveled, Older, Clock
        <5>2. h.tid \in Nat /\ h.removed \in Nat /\ level \in Nat
          BY <2>1, <4>2, LeveledIs, Kinds
        <5> QED
          BY <5>1, <5>2
      <4> QED
        BY <2>1, <4>1, <4>2
    <3>2. Followed(h)
      BY <1>0, <2>1
    <3> QED
      BY <2>1, <3>1, <3>2 DEF Followed
  <2> QED
    BY <2>1, <2>2 DEF Chained
<1> QED
  BY <1>2, <1>3, <1>4, <1>5, <1>6, <1>7, <1>8, <1>9 DEF UndoStep

(* Apart, step by step.                                                     *)
LEMMA ApartKept ==
  ASSUME Leveled, UndoStep
  PROVE  Apart'
<1>0. /\ \A v, w \in vault : v.pkg = w.pkg /\ v # w => v.removed < w.tid \/ w.removed < v.tid
      /\ \A v \in vault, h \in db : v.pkg = h.pkg => v.removed < h.tid \/ Moving(v, h)
      /\ Under => \A v \in vault, h \in adds : v.pkg = h.pkg => v.removed < now
  BY DEF Leveled, Apart
<1>1. ASSUME \A v \in vault, h \in db : ~Moving(v, h), UNCHANGED <<db, vault>>, ~Under'
      PROVE  Apart'
  <2>1. \A v \in vault, h \in db : v.pkg = h.pkg => v.removed < h.tid
    BY <1>0, <1>1
  <2> QED
    BY <1>0, <1>1, <2>1 DEF Apart
<1>2. CASE \/ Transaction \/ EndTransaction
           \/ \E g \in Tids : RollbackTo(g)
           \/ \E s \in SetToSeqs({v \in rp : v.removed = ThisTid}) : BuildLevel(s)
  <2>1. CASE Transaction
    BY <1>1, <2>1, Starts DEF Moving, Under
  <2>2. CASE EndTransaction
    BY <1>1, <2>2, Ends DEF Moving, Under
  <2>3. CASE \E g \in Tids : RollbackTo(g)
    BY <1>1, <2>3, RollsBack DEF Moving, Under
  <2>4. CASE \E s \in SetToSeqs({v \in rp : v.removed = ThisTid}) : BuildLevel(s)
    BY <1>1, <2>4, LevelBuilt DEF Moving, Under
  <2> QED
    BY <1>2, <2>1, <2>2, <2>3, <2>4
<1>3. CASE Save
  <2>1. /\ pc = "save" /\ pc' = "run" /\ ~RollingBack /\ ~RollingBack'
        /\ Here = now /\ Here' = now
        /\ vault' = vault \cup {Archive(h) : h \in erases}
        /\ \A h \in erases : /\ h \in db /\ h.tid < now
                             /\ Unpacked(Archive(h)) = h
                             /\ Archive(h).pkg = h.pkg /\ Archive(h).tid = h.tid
                             /\ Archive(h).removed = now
        /\ UNCHANGED <<now, db, ts>>
    BY <1>3, Saving
  <2>2. \A v \in vault, h \in db : v.pkg = h.pkg => v.removed < h.tid
    BY <1>0, <2>1 DEF Moving
  <2>3. \A g, h \in db : g.pkg = h.pkg => g = h
    BY LeveledIs DEF TypeOK
  <2>4. ASSUME NEW v \in vault', NEW w \in vault', v.pkg = w.pkg, v # w
        PROVE  v.removed < w.tid \/ w.removed < v.tid
    <3>1. CASE v \in vault /\ w \in vault
      BY <1>0, <2>4, <3>1
    <3>2. ASSUME v \in vault, NEW h \in erases, w = Archive(h)
          PROVE  v.removed < w.tid
      BY <2>1, <2>2, <2>4, <3>2
    <3>3. ASSUME w \in vault, NEW h \in erases, v = Archive(h)
          PROVE  w.removed < v.tid
      BY <2>1, <2>2, <2>4, <3>3
    <3>4. ASSUME NEW g \in erases, NEW h \in erases, v = Archive(g), w = Archive(h)
          PROVE  FALSE
      BY <2>1, <2>3, <2>4, <3>4
    <3> QED
      BY <2>1, <3>1, <3>2, <3>3, <3>4
  <2>5. ASSUME NEW v \in vault', NEW h \in db', v.pkg = h.pkg
        PROVE  v.removed < h.tid \/ Moving(v, h)'
    <3>1. CASE v \in vault
      BY <2>1, <2>2, <2>5, <3>1
    <3>2. ASSUME NEW g \in erases, v = Archive(g) PROVE Moving(v, h)'
      <4>1. g = h
        BY <2>1, <2>3, <2>5, <3>2
      <4>2. Unpacked(v)' = h /\ h \in erases' /\ v.removed = Here'
        BY <2>1, <3>2, <4>1 DEF Unpacked, ts
      <4> QED
        BY <2>1, <4>2 DEF Moving
    <3> QED
      BY <2>1, <3>1, <3>2
  <2>6. ASSUME NEW v \in vault', NEW x \in adds', v.pkg = x.pkg PROVE v.removed < now'
    <3>1. x \in adds /\ x.pkg \notin Installed
      BY <2>1, LeveledIs DEF Shape, ts
    <3>2. v \in vault
      BY <2>1, <2>6, <3>1 DEF Installed
    <3> QED
      BY <2>1, <3>2, LeveledIs DEF Clock, Under
  <2> QED
    BY <2>4, <2>5, <2>6 DEF Apart
<1>4. ASSUME NEW h \in adds, InstallElement(h) PROVE Apart'
  <2>1. /\ pc = "run" /\ pc' = "run" /\ db' = db \cup {h} /\ adds' \subseteq adds
        /\ IF RollingBack THEN \E v \in vault : v.removed = level /\ h = Unpacked(v)
                          ELSE h.tid = now
        /\ UNCHANGED <<now, vault, erases, goal, level>>
    BY <1>4, Installs DEF rb
  <2>2. Here' = Here /\ RollingBack' = RollingBack /\ Under' = Under
    BY <2>1 DEF Here, RollingBack, Under, Never
  <2>3. ASSUME NEW v \in vault, NEW g \in db, v.pkg = g.pkg
        PROVE  v.removed < g.tid \/ Moving(v, g)'
    <3>1. Moving(v, g) => Moving(v, g)'
      BY <2>1, <2>2 DEF Moving, Unpacked
    <3> QED
      BY <1>0, <2>3, <3>1
  <2>4. ASSUME NEW v \in vault, v.pkg = h.pkg, ~RollingBack PROVE v.removed < h.tid
    BY <1>0, <2>1, <2>4 DEF Under
  <2>5. ASSUME NEW v \in vault, v.pkg = h.pkg, RollingBack
        PROVE  v.removed < h.tid \/ Moving(v, h)'
    <3>1. PICK w \in vault : w.removed = level /\ h = Unpacked(w)
      BY <2>1, <2>5
    <3>2. h.pkg = w.pkg /\ h.tid = w.tid
      BY <3>1, LeveledIs, Kinds
    <3>3. Here = level
      BY <2>1, <2>5, LeveledIs DEF LevelSaved, LevelUnder, Here
    <3>4. CASE v = w
      <4>1. v.removed = Here' /\ h = Unpacked(v)'
        BY <2>2, <3>1, <3>3, <3>4 DEF Unpacked
      <4> QED
        BY <2>1, <2>2, <2>5, <4>1 DEF Moving
    <3>5. CASE v # w
      <4>1. v.removed < w.tid \/ w.removed < v.tid
        BY <1>0, <2>5, <3>2, <3>5
      <4>2. v.tid < v.removed /\ v.removed <= level
        BY <3>3, LeveledIs DEF Leveled, Older, Clock
      <4>3. v.tid \in Nat /\ v.removed \in Nat /\ level \in Nat
        BY LeveledIs, Kinds
      <4> QED
        BY <3>1, <3>2, <4>1, <4>2, <4>3
    <3> QED
      BY <3>4, <3>5
  <2>6. \A v \in vault', g \in db' : v.pkg = g.pkg => v.removed < g.tid \/ Moving(v, g)'
    BY <2>1, <2>3, <2>4, <2>5
  <2>7. Under' => \A v \in vault', x \in adds' : v.pkg = x.pkg => v.removed < now'
    BY <1>0, <2>1, <2>2
  <2>8. \A v, w \in vault' : v.pkg = w.pkg /\ v # w => v.removed < w.tid \/ w.removed < v.tid
    BY <1>0, <2>1
  <2> QED
    BY <2>6, <2>7, <2>8 DEF Apart
<1>5. ASSUME NEW h \in erases, EraseElement(h) PROVE Apart'
  <2>1. /\ pc = "run" /\ pc' = "run" /\ db' = db \ {h} /\ erases' = erases \ {h}
        /\ UNCHANGED <<now, vault, adds, goal, level>>
    BY <1>5, Erases DEF rb
  <2>2. Here' = Here /\ RollingBack' = RollingBack /\ Under' = Under
    BY <2>1 DEF Here, RollingBack, Under, Never
  <2>3. ASSUME NEW v \in vault', NEW g \in db', v.pkg = g.pkg
        PROVE  v.removed < g.tid \/ Moving(v, g)'
    <3>1. Moving(v, g) => Moving(v, g)'
      BY <2>1, <2>2 DEF Moving, Unpacked
    <3> QED
      BY <1>0, <2>1, <2>3, <3>1
  <2>4. Under' => \A v \in vault', x \in adds' : v.pkg = x.pkg => v.removed < now'
    BY <1>0, <2>1, <2>2
  <2> QED
    BY <1>0, <2>1, <2>3, <2>4 DEF Apart
<1>6. CASE \/ \E h \in adds : AddAsserts(h)
           \/ \E h \in adds \cup erases : ElementFails(h) /\ RollingBack
           \/ GoalReached \/ NothingToDo \/ Run \/ (EndLevel /\ failed)
  <2>1. /\ RollingBack /\ RollingBack'
        /\ pc \in {"run", "next", "built"} /\ pc' \in {"run", "rolled", "stopped", "aborted"}
        /\ pc = "run" => pc' # "rolled"
        /\ UNCHANGED <<db, vault>> /\ Here' = Here
    BY <1>6, Stays
  <2>2. ~Under'
    BY <2>1 DEF Under
  <2>3. ASSUME NEW v \in vault', NEW g \in db', v.pkg = g.pkg
        PROVE  v.removed < g.tid \/ Moving(v, g)'
    <3>1. Moving(v, g) => Moving(v, g)'
      BY <2>1 DEF Moving, Unpacked
    <3> QED
      BY <1>0, <2>1, <2>3, <3>1
  <2> QED
    BY <1>0, <2>1, <2>2, <2>3 DEF Apart
<1>7. CASE EndLevel /\ ~failed
  <2>1. /\ RollingBack' /\ Here = level
        /\ vault' = {v \in vault : v.removed # level}
        /\ UNCHANGED db
    BY <1>7, LevelEnds
  <2>2. ~Under'
    BY <2>1 DEF Under
  <2>3. \A v \in vault', g \in db' : v.pkg = g.pkg => v.removed < g.tid
    BY <1>0, <2>1 DEF Moving
  <2> QED
    BY <1>0, <2>1, <2>2, <2>3 DEF Apart
<1> QED
  BY <1>2, <1>3, <1>4, <1>5, <1>6, <1>7 DEF UndoStep

(* There are finitely many headers.                                         *)
LEMMA FiniteHeaders == IsFiniteSet(Headers)
<1> DEFINE f == [v \in Archives |-> Unpacked(v)]
<1>1. f \in [Archives -> Headers]
  BY UnpackedFields
<1>2. ASSUME NEW h \in Headers PROVE \E v \in Archives : f[v] = h
  <2> DEFINE v == [pkg |-> h.pkg, tid |-> h.tid, blink |-> h.blink, removed |-> h.tid]
  <2>1. v \in Archives
    BY HeaderFields DEF Archives
  <2>2. Unpacked(v) = h
    BY HeaderFields DEF Unpacked
  <2> QED
    BY <2>1, <2>2
<1>3. f \in Surjection(Archives, Headers)
  BY <1>1, <1>2 DEF Surjection
<1> QED
  BY <1>3, FiniteArchives, FS_Surjection

(* A rollback that stops at the goal is at the goal.                        *)
LEMMA GoalIsRestored ==
  ASSUME Leveled, GoalReached
  PROVE  GoalRestored
<1> DEFINE after == {t \in DOMAIN snap : t >= goal /\ t > UnsafeRollbacks}
<1>1. /\ pc = "next"
      /\ ThisTid < goal \/ (UnsafeRollbacks # 0 /\ ThisTid <= UnsafeRollbacks)
  BY DEF GoalReached
<1>2. /\ Here \in Nat /\ now \in Nat /\ goal \in Nat /\ UnsafeRollbacks \in Nat /\ Here >= 1 /\ Here <= now
      /\ level \in Nat /\ DOMAIN snap = 1..now
  BY <1>1, LeveledIs DEF Shape
<1>3. Here \in DOMAIN snap /\ Installed = snap[Here]
  BY <1>1, AsRemembered
<1>4. \A t \in after : t \in Nat /\ t >= Here /\ t <= now
  <2> SUFFICES ASSUME NEW t \in 1..now, t >= goal, t > UnsafeRollbacks PROVE t >= Here
    BY <1>2
  <2>1. CASE Here - 1 >= goal
    <3>1. ThisTid = Here - 1
      BY <1>1, <2>1, NextIsBefore
    <3>2. Here - 1 <= UnsafeRollbacks
      BY <1>1, <1>2, <2>1, <3>1
    <3> QED
      BY <1>2, <3>2
  <2>2. CASE ~(Here - 1 >= goal)
    BY <1>2, <2>2
  <2> QED
    BY <2>1, <2>2
<1>5. CASE Here \in after
  <2>1. after \in SUBSET Nat /\ after # {}
    BY <1>4, <1>5
  <2>2. Min(after) \in after /\ \A t \in after : Min(after) <= t
    BY <2>1, Earliest
  <2>3. Min(after) = Here
    <3> HIDE DEF after
    <3>1. Min(after) \in Nat /\ Min(after) >= Here
      BY <1>4, <2>2
    <3>2. Min(after) <= Here
      BY <1>5, <2>2
    <3> QED
      BY ONLY <1>2, <3>1, <3>2
  <2> QED
    BY <1>3, <2>3 DEF GoalRestored
<1>6. CASE Here \notin after
  <2>1. level = Never
    <3> SUFFICES ASSUME level # Never PROVE FALSE
      OBVIOUS
    <3>1. Here = level /\ goal <= level /\ UnsafeRollbacks < level
      BY DEF Leveled, Older, Here
    <3> QED
      BY <1>2, <1>3, <1>6, <3>1
  <2>2. Here = now
    BY <2>1 DEF Here
  <2>3. after = {}
    <3>1. \A t \in after : t = Here
      BY <1>2, <1>4, <2>2
    <3> QED
      BY <1>6, <3>1
  <2> QED
    BY <2>3 DEF GoalRestored
<1> QED
  BY <1>5, <1>6

(* A rollback that finds nothing to install is where the transaction to     *)
(* undo had only installed packages.                                        *)
LEMMA StopsShort ==
  ASSUME Leveled, NothingToDo
  PROVE  GoalRestored
<1>1. pc = "built" /\ Total = 0
  BY DEF NothingToDo
<1>2. /\ adds = {Unpacked(v) : v \in {x \in vault : x.removed = level}}
      /\ unlinked = {} /\ Installed = snap[level + 1]
  BY <1>1 DEF Leveled, Lists
<1>3. adds = {}
  <2>1. IsFiniteSet(adds)
    BY LeveledIs, FiniteHeaders, FS_Subset DEF TypeOK
  <2>2. Cardinality(adds) \in Nat /\ Cardinality(unlinked) = 0
    BY <1>2, <2>1, FS_CardinalityType, FS_EmptySet
  <2>3. Cardinality(adds) = 0
    BY <1>1, <2>2 DEF Total
  <2> QED
    BY <2>1, <2>3, FS_EmptySet
<1>4. \A v \in vault : v.removed # level
  BY <1>2, <1>3
<1>5. /\ level # Never /\ level >= goal /\ goal >= 1
      /\ level \in Nat /\ now \in Nat /\ goal \in Nat /\ UnsafeRollbacks \in Nat
      /\ DOMAIN snap = 1..now
  <2>1. RollingBack
    BY <1>1, LeveledIs DEF Shape
  <2> QED
    BY <1>1, <2>1, LeveledIs, Kinds DEF LevelSaved, LevelUnder
<1>6. Here = level /\ level < now /\ UnsafeRollbacks < level
  BY <1>5 DEF Leveled, Older, Here
<1> DEFINE after == {t \in DOMAIN snap : t >= goal /\ t > UnsafeRollbacks}
<1>7. level \in after /\ level + 1 \in after
  BY <1>5, <1>6
<1>8. level < level + 1 /\ ~(\E x \in after : level < x /\ x < level + 1)
  BY <1>5
<1>9. snap[level] \subseteq snap[level + 1]
  <2>1. snap[level] = Before(level)
    BY <1>5, <1>6, <1>7 DEF Leveled, Remembered
  <2>2. ASSUME NEW v \in vault, level <= v.removed PROVE FALSE
    <3>1. v.removed <= level /\ v.removed \in Nat
      BY <1>6, LeveledIs, Kinds DEF Leveled, Older
    <3> QED
      BY <1>4, <1>5, <2>2, <3>1
  <2>3. Before(level) \subseteq Installed
    BY <2>2 DEF Before, Installed
  <2> QED
    BY <1>2, <2>1, <2>3
<1> HIDE DEF after
<1>10. \E t, u \in after : /\ t < u /\ ~(\E x \in after : t < x /\ x < u)
                           /\ snap[t] \subseteq snap[u] /\ Installed = snap[u]
  BY <1>2, <1>7, <1>8, <1>9
<1> QED
  BY <1>10 DEF GoalRestored, after

(* Achieved, step by step.                                                  *)
LEMMA AchievedKept ==
  ASSUME Leveled, UndoStep, opt' = opt
  PROVE  Achieved'
<1>1. CASE GoalReached \/ NothingToDo
  <2>1. GoalRestored
    BY <1>1, GoalIsRestored, StopsShort
  <2>2. UNCHANGED <<opt, db, goal, snap>>
    BY <1>1 DEF GoalReached, NothingToDo, rb
  <2>3. GoalRestored'
    BY <2>1, <2>2 DEF GoalRestored, UnsafeRollbacks, Installed
  <2> QED
    BY <2>3 DEF Achieved
<1>2. CASE pc' # "rolled"
  BY <1>2 DEF Achieved
<1>3. CASE Transaction \/ Save \/ EndTransaction \/ EndLevel \/ Run
  <2>1. pc' # "rolled"
    BY <1>3, Starts, Saving, Ends DEF EndLevel, Reload, Run
  <2> QED
    BY <1>2, <2>1
<1>4. ASSUME NEW h, InstallElement(h) \/ AddAsserts(h) \/ EraseElement(h) \/ ElementFails(h)
      PROVE  pc' # "rolled"
  BY <1>4 DEF InstallElement, AddAsserts, EraseElement, ElementFails
<1>5. ASSUME NEW g, RollbackTo(g) PROVE pc' # "rolled"
  BY <1>5 DEF RollbackTo
<1>6. ASSUME NEW s, BuildLevel(s) PROVE pc' # "rolled"
  BY <1>6 DEF BuildLevel
<1> QED
  BY <1>1, <1>2, <1>3, <1>4, <1>5, <1>6 DEF UndoStep

LEMMA LevelInit == Init => LevelInv
<1> SUFFICES ASSUME Init PROVE LevelInv
  OBVIOUS
<1>1. /\ pc = "idle" /\ now = 1 /\ db = {} /\ vault = {} /\ adds = {} /\ erases = {}
      /\ goal = Never /\ level = Never /\ snap = << >> /\ auto = FALSE
  BY DEF Init
<1>2. Here = 1
  BY <1>1 DEF Here
<1>3. Older
  BY <1>1 DEF Older
<1>4. Remembered(Here)
  BY <1>1 DEF Remembered
<1>5. Chained
  BY <1>1 DEF Chained
<1>6. Apart
  BY <1>1 DEF Apart, Under
<1>7. NoneEmpty
  <2>1. 1..(Here - 1) = {}
    BY <1>2
  <2> QED
    BY <1>1, <2>1 DEF NoneEmpty, Under
<1>8. Lists
  BY <1>1 DEF Lists, LevelUnder
<1>9. Achieved
  BY <1>1 DEF Achieved
<1> QED
  BY <1>1, <1>3, <1>4, <1>5, <1>6, <1>7, <1>8, <1>9 DEF LevelInv

(* The invariant under its conditions.                                      *)
LEMMA LeveledWhen ==
  ASSUME RollbackInv, Undoable, ~SameSecond
  PROVE  Leveled
<1>1. /\ TypeOK /\ Shape /\ VaultInv /\ LevelInv
  BY DEF RollbackInv
<1>2. /\ ~auto /\ Older /\ Remembered(Here) /\ Chained /\ Apart /\ NoneEmpty /\ Lists /\ Achieved
  BY <1>1 DEF LevelInv
<1>3. Saved
  BY DEF Undoable, Saved
<1> QED
  BY <1>1, <1>2, <1>3 DEF Leveled, Vaulted, VaultInv

(* LevelInv is inductive.                                                   *)
LEMMA LevelInvKept ==
  ASSUME RollbackInv, [Next]_vars
  PROVE  LevelInv'
<1> SUFFICES ASSUME Undoable', ~SameSecond'
             PROVE  /\ ~auto' /\ Older' /\ Remembered(Here)' /\ Chained' /\ Apart' /\ NoneEmpty'
                    /\ Lists' /\ Achieved'
  BY DEF LevelInv
<1>1. Undoable /\ ~SameSecond
  BY SettingsStay DEF RollbackInv, Undoable, Repackages, Fails, Excluded, SameSecond
<1>2. Leveled
  BY <1>1, LeveledWhen
<1>3. UndoStep \/ UNCHANGED vars
  BY <1>2, UndoSteps
<1>4. ~auto' /\ opt' = opt
  BY <1>2, UndoSteps
<1>5. CASE UndoStep
  BY <1>2, <1>4, <1>5, OlderKept, HereRememberedKept, ChainedKept, ApartKept, NoneEmptyKept,
     ListsKept, AchievedKept
<1>6. CASE UNCHANGED vars
  <2>1. /\ Older /\ Remembered(Here) /\ Chained /\ Apart /\ NoneEmpty /\ Lists /\ Achieved
    BY <1>2 DEF Leveled
  <2>2. UNCHANGED <<now, db, vault, adds, erases, failed, opt, goal, level, ip, unlinked, pc, snap>>
    BY <1>6 DEF vars, ts, rb
  <2>3. Here' = Here /\ RollingBack' = RollingBack /\ Under' = Under /\ LevelUnder' = LevelUnder
        /\ Between' = Between /\ Installed' = Installed /\ UnsafeRollbacks' = UnsafeRollbacks
    BY <2>2 DEF Here, RollingBack, Under, LevelUnder, Between, Installed, UnsafeRollbacks, Never
  <2>4. Older'
    BY <2>1, <2>2, <2>3 DEF Older, Never
  <2>5. Remembered(Here)'
    BY <2>1, <2>2, <2>3 DEF Remembered, Before
  <2>6. Chained'
    BY <2>1, <2>2 DEF Chained, Followed
  <2>7. Apart'
    BY <2>1, <2>2, <2>3 DEF Apart, Moving, Unpacked
  <2>8. NoneEmpty'
    BY <2>1, <2>2, <2>3 DEF NoneEmpty, Used
  <2>9. Lists'
    BY <2>1, <2>2, <2>3 DEF Lists, Unpacked
  <2>10. Achieved'
    BY <2>1, <2>2, <2>3 DEF Achieved, GoalRestored, Undoable, Repackages, Excluded, Fails
  <2> QED
    BY <1>4, <2>4, <2>5, <2>6, <2>7, <2>8, <2>9, <2>10
<1> QED
  BY <1>3, <1>5, <1>6

-----------------------------------------------------------------------------
(* The theorems about RollbackInv.                                          *)

(* The inductive invariant holds for all packages, bounds and settings: the *)
(* vault and the database tell the history, and every level of a rollback   *)
(* takes the system back by one transaction.                                *)
THEOREM InvariantHolds == Spec => []RollbackInv
<1>1. Init => RollbackInv
  BY TypesInit, VaultInit, LevelInit DEF RollbackInv
<1>2. RollbackInv /\ [Next]_vars => RollbackInv'
  <2> SUFFICES ASSUME RollbackInv, [Next]_vars PROVE RollbackInv'
    OBVIOUS
  <2>1. TypeOK' /\ Shape'
    BY TypesKept DEF RollbackInv
  <2>2. VaultInv'
    BY VaultInvKept DEF RollbackInv
  <2>3. LevelInv'
    BY LevelInvKept
  <2> QED
    BY <2>1, <2>2, <2>3 DEF RollbackInv
<1> QED
  BY <1>1, <1>2, PTL DEF Spec

(* Where no two transactions share a second, a rollback takes the system    *)
(* back by one transaction with each of its levels, one that ends well has  *)
(* restored its goal, and none is turned away of which nothing failed, in   *)
(* every history in which all erasures were repackaged and no transaction   *)
(* is left out.                                                             *)
THEOREM RollbackCorrect ==
  ASSUME \A o \in Options : ~o.second
  PROVE  Spec => []Restores
<1>1. RollbackInv => Restores
  <2> SUFFICES ASSUME RollbackInv, Undoable PROVE Restores
    BY DEF Restores, StepwiseRestored, Achieved, NeverRefused
  <2>1. ~SameSecond
    BY DEF RollbackInv, TypeOK, SameSecond
  <2>2. Leveled
    BY <2>1, LeveledWhen
  <2>3. Achieved /\ NeverRefused
    BY <2>2 DEF Leveled, Lists, NeverRefused
  <2>4. ASSUME pc = "next", level # Never PROVE Installed = snap[level]
    BY <2>2, <2>4, AsRemembered DEF Here
  <2> QED
    BY <2>3, <2>4 DEF Restores, StepwiseRestored
<1> QED
  BY <1>1, InvariantHolds, PTL
=============================================================================
