------------------------------ MODULE FsmProofs ------------------------------
(***************************************************************************)
(* Proofs about Fsm, for packages of any number of files with any sets of  *)
(* hard links.                                                             *)
(***************************************************************************)
EXTENDS Fsm, FiniteSetTheorems, SequenceTheorems, WellFoundedInduction, TLAPS

-----------------------------------------------------------------------------
(* Numbers, and the places of a set.                                        *)

(* The least and the greatest of an interval.                               *)
LEMMA Ends ==
  ASSUME NEW a \in Int, NEW b \in Int, a <= b
  PROVE  Min(a .. b) = a /\ Max(a .. b) = b
<1>1. /\ a \in a .. b /\ \A y \in a .. b : a =< y
      /\ \A x \in a .. b : (\A y \in a .. b : x =< y) => x = a
  OBVIOUS
<1>2. /\ b \in a .. b /\ \A y \in a .. b : b >= y
      /\ \A x \in a .. b : (\A y \in a .. b : x >= y) => x = b
  OBVIOUS
<1> QED
  BY <1>1, <1>2 DEF Min, Max

(* A set of integers from -1 to a number has a greatest.                    *)
LEMMA Greatest ==
  ASSUME NEW n \in Nat, NEW S, S \subseteq -1 .. n, S # {}
  PROVE  Max(S) \in S /\ \A y \in S : Max(S) >= y
<1> DEFINE T == {n - x : x \in S}
<1>1. T \subseteq Nat /\ T # {}
  <2>1. ASSUME NEW x \in S PROVE n - x \in Nat
    BY x \in -1 .. n
  <2> QED
    BY <2>1
<1>2. PICK m \in T : \A y \in T : ~(<<y, m>> \in OpToRel(<, Nat))
  BY <1>1, NatLessThanWellFounded, WFMin
<1>3. PICK x \in S : m = n - x
  OBVIOUS
<1>4. \A y \in S : x >= y
  <2> SUFFICES ASSUME NEW y \in S PROVE x >= y
    OBVIOUS
  <2>1. n - y \in T /\ n - y \in Nat /\ m \in Nat
    BY <1>1
  <2>2. ~(n - y < m)
    BY <1>2, <2>1 DEF OpToRel
  <2> QED
    BY <1>3, <2>1, <2>2
<1> QED
  BY <1>4 DEF Max

(* The places of a set of m names.                                          *)
LEMMA PlacesFromZero ==
  ASSUME NEW m \in Nat, m > 1
  PROVE  /\ 0 .. m - 1 = {0} \cup 1 .. m - 1 /\ Cardinality(0 .. m - 1) = m
         /\ m - 1 \in Int /\ 1 <= m - 1 + 1
<1>1. 0 .. m - 1 = {0} \cup 1 .. m - 1
  OBVIOUS
<1>2. 0 \in Int /\ m - 1 \in Int /\ ~(0 > m - 1) /\ m - 1 - 0 + 1 = m
  OBVIOUS
<1>3. Cardinality(0 .. m - 1) = m
  BY ONLY <1>2, FS_Interval
<1> QED
  BY <1>1, <1>2, <1>3

(* Every member of a set once, in m places, and 0 in the last.              *)
Listed(o, S, m) ==
    /\ o \in [1 .. m -> S]
    /\ \A k, l \in 1 .. m : o[k] = o[l] => k = l
    /\ \A x \in S : \E k \in 1 .. m : o[k] = x
    /\ \A k \in 1 .. m : o[k] = 0 <=> k = m

(* The places of a set in descending order.                                 *)
LEMMA FromTheEnd ==
  ASSUME NEW a \in Nat, NEW b \in Int, 1 <= a, a <= b + 1,
         NEW S, S = {0} \cup a .. b
  PROVE  Cardinality(S) = b - a + 2 /\ Listed(Descending(S), S, b - a + 2)
<1> DEFINE m == b - a + 2
           Order(o) == o \in [1 .. m -> S] /\ \A k, l \in 1 .. m : k < l => o[k] > o[l]
           here == [k \in 1 .. m |-> IF k = m THEN 0 ELSE b - k + 1]
<1>1. IsFiniteSet(S) /\ Cardinality(S) = m
  <2>1. IsFiniteSet(a .. b) /\ Cardinality(a .. b) = b - a + 1
    <3>1. a \in Int /\ b \in Int
      OBVIOUS
    <3>2. IsFiniteSet(a .. b) /\ Cardinality(a .. b) = IF a > b THEN 0 ELSE b - a + 1
      BY <3>1, FS_Interval
    <3> QED
      BY <3>1, <3>2
  <2>2. S = a .. b \cup {0} /\ 0 \notin a .. b
    OBVIOUS
  <2>3. IsFiniteSet(S) /\ Cardinality(S) = Cardinality(a .. b) + 1
    BY <2>1, <2>2, FS_AddElement, Zenon
  <2>4. Cardinality(a .. b) + 1 = m
    BY <2>1
  <2> QED
    BY <2>3, <2>4
<1>2. Order(here)
  <2>1. ASSUME NEW k \in 1 .. m PROVE here[k] \in S /\ here[k] = IF k = m THEN 0 ELSE b - k + 1
    OBVIOUS
  <2>2. here \in [1 .. m -> S]
    BY <2>1
  <2>3. ASSUME NEW k \in 1 .. m, NEW l \in 1 .. m, k < l PROVE here[k] > here[l]
    BY <2>1, <2>3
  <2> QED
    BY <2>2, <2>3
<1> DEFINE o == Descending(S)
<1>3. o = CHOOSE order \in [1 .. m -> S] : \A k, l \in DOMAIN order : k < l => order[k] > order[l]
  BY <1>1 DEF Descending
<1>4. Order(o)
  <2>1. \E order \in [1 .. m -> S] : \A k, l \in DOMAIN order : k < l => order[k] > order[l]
    <3>1. here \in [1 .. m -> S] /\ DOMAIN here = 1 .. m
      BY <1>2
    <3>2. \A k, l \in DOMAIN here : k < l => here[k] > here[l]
      BY <1>2, <3>1
    <3> HIDE DEF here
    <3> QED
      BY <3>1, <3>2
  <2>2. o \in [1 .. m -> S] /\ \A k, l \in DOMAIN o : k < l => o[k] > o[l]
    <3> HIDE DEF o, m
    <3> QED
      BY <1>3, <2>1
  <2> QED
    BY <2>2
<1>5. \A k \in 1 .. m : o[k] \in S
  BY <1>4
<1>6. S \subseteq Int
  OBVIOUS
<1> HIDE DEF o
<1>7. \A k, l \in 1 .. m : o[k] = o[l] => k = l
  <2> SUFFICES ASSUME NEW k \in 1 .. m, NEW l \in 1 .. m, k < l PROVE o[k] # o[l]
    OBVIOUS
  <2>1. o[k] > o[l] /\ o[k] \in Int /\ o[l] \in Int
    BY <1>4, <1>5, <1>6
  <2> QED
    BY <2>1
<1>8. \A x \in S : \E k \in 1 .. m : o[k] = x
  <2>1. o \in Injection(1 .. m, S)
    BY <1>4, <1>7 DEF Injection, IsInjective
  <2>2. IsFiniteSet(1 .. m) /\ Cardinality(1 .. m) = m
    <3>1. m \in Int /\ m >= 1
      OBVIOUS
    <3> QED
      BY <3>1, FS_Interval
  <2>3. o \in Surjection(1 .. m, S)
    BY <1>1, <2>1, <2>2, FS_Injection
  <2> QED
    BY <2>3 DEF Surjection
<1>9. \A k \in 1 .. m : o[k] = 0 <=> k = m
  <2>1. PICK z \in 1 .. m : o[z] = 0
    BY <1>8
  <2>2. z = m
    <3> SUFFICES ASSUME z # m PROVE FALSE
      OBVIOUS
    <3>1. z + 1 \in 1 .. m /\ z < z + 1
      OBVIOUS
    <3>2. o[z] > o[z + 1] /\ o[z + 1] \in S
      BY <1>4, <1>5, <3>1
    <3> QED
      BY <2>1, <3>2
  <2> QED
    BY <1>7, <2>1, <2>2
<1> QED
  BY <1>1, <1>4, <1>7, <1>8, <1>9 DEF o, Listed

-----------------------------------------------------------------------------
(* Sets of hard links, and their list.                                      *)

(* What a set has.                                                          *)
LEMMA HardLink ==
  ASSUME NEW s \in HardLinks
  PROVE  /\ s.ino \in Files /\ s.nlink \in 0 .. NFiles + 1 /\ s.left \in Int /\ s.index \in Int
         /\ s.filex \in [Places(s) -> 0 .. NFiles]
         /\ s = [ino |-> s.ino, nlink |-> s.nlink, left |-> s.left, index |-> s.index,
                 filex |-> s.filex]
BY DEF HardLinks, Places

(* What makes a set.                                                        *)
LEMMA AHardLink ==
  ASSUME NEW n \in Files, NEW m \in 0 .. NFiles + 1, NEW l \in Int, NEW x \in Int,
         NEW g \in [0 .. m - 1 -> 0 .. NFiles]
  PROVE  [ino |-> n, nlink |-> m, left |-> l, index |-> x, filex |-> g] \in HardLinks
<1> DEFINE s == [ino |-> n, nlink |-> m, left |-> l, index |-> x, filex |-> g]
<1>1. s.filex = g /\ s.nlink = m
  OBVIOUS
<1>2. g \in UNION {[0 .. k - 1 -> 0 .. NFiles] : k \in 0 .. NFiles + 1}
  OBVIOUS
<1>3. s \in [ino : Files, nlink : 0 .. NFiles + 1, left : Int, index : Int,
             filex : UNION {[0 .. k - 1 -> 0 .. NFiles] : k \in 0 .. NFiles + 1}]
  BY <1>2
<1>4. s.filex \in [Places(s) -> 0 .. NFiles]
  BY <1>1 DEF Places
<1> HIDE DEF s
<1>5. s \in HardLinks
  BY <1>3, <1>4 DEF HardLinks
<1> QED
  BY <1>5 DEF s

(* A name is recorded from the end.                                         *)
LEMMA CountedDown ==
  ASSUME NEW s \in HardLinks, NEW f \in Files, s.left \in 1 .. s.nlink, NEW t, t = Counted(s, f)
  PROVE  /\ t \in HardLinks /\ t.ino = s.ino /\ t.nlink = s.nlink /\ t.left = s.left - 1
         /\ t.filex = [s.filex EXCEPT ![s.left - 1] = f]
         /\ Members(t) = Members(s) \cup {s.left - 1}
<1>1. s.left - 1 \in Places(s) /\ s.left - 1 \in Int /\ s.nlink \in Nat /\ f \in 0 .. NFiles /\ f # Free
  BY HardLink, FsmAssumption DEF Places, Files, Free
<1> DEFINE g == [s.filex EXCEPT ![s.left - 1] = f]
<1>2. t = [ino |-> s.ino, nlink |-> s.nlink, left |-> s.left - 1, index |-> s.index, filex |-> g]
  <2>1. PICK n \in Files, m \in 0 .. NFiles + 1, l \in Int, x \in Int, h \in [Places(s) -> 0 .. NFiles] :
            s = [ino |-> n, nlink |-> m, left |-> l, index |-> x, filex |-> h]
    BY HardLink
  <2> QED
    BY <2>1 DEF Counted
<1>3. g \in [0 .. s.nlink - 1 -> 0 .. NFiles]
  BY <1>1, HardLink DEF Places
<1>4. t \in HardLinks
  <2> HIDE DEF g
  <2> QED
    BY <1>1, <1>2, <1>3, HardLink, AHardLink
<1>5. Members(t) = {k \in 0 .. s.nlink - 1 : g[k] # Free}
  BY <1>2 DEF Members
<1>6. \A k \in 0 .. s.nlink - 1 : g[k] = IF k = s.left - 1 THEN f ELSE s.filex[k]
  BY <1>1, HardLink DEF Places
<1>7. Members(t) = Members(s) \cup {s.left - 1}
  BY <1>1, <1>5, <1>6 DEF Members, Places
<1> QED
  BY <1>2, <1>4, <1>7

(* A name is recorded from the start.                                       *)
LEMMA CountedUp ==
  ASSUME NEW s \in HardLinks, NEW f \in Files, s.left \in 0 .. s.nlink - 1, NEW t, t = Arrived(s, f)
  PROVE  /\ t \in HardLinks /\ t.ino = s.ino /\ t.nlink = s.nlink /\ t.left = s.left + 1
         /\ t.filex = [s.filex EXCEPT ![s.left] = f]
         /\ Members(t) = Members(s) \cup {s.left}
<1>1. s.left \in Places(s) /\ s.left + 1 \in Int /\ s.nlink \in Nat /\ f \in 0 .. NFiles /\ f # Free
  BY HardLink, FsmAssumption DEF Places, Files, Free
<1> DEFINE g == [s.filex EXCEPT ![s.left] = f]
<1>2. t = [ino |-> s.ino, nlink |-> s.nlink, left |-> s.left + 1, index |-> s.index, filex |-> g]
  <2>1. PICK n \in Files, m \in 0 .. NFiles + 1, l \in Int, x \in Int, h \in [Places(s) -> 0 .. NFiles] :
            s = [ino |-> n, nlink |-> m, left |-> l, index |-> x, filex |-> h]
    BY HardLink
  <2> QED
    BY <2>1 DEF Arrived
<1>3. g \in [0 .. s.nlink - 1 -> 0 .. NFiles]
  BY <1>1, HardLink DEF Places
<1>4. t \in HardLinks
  <2> HIDE DEF g
  <2> QED
    BY <1>1, <1>2, <1>3, HardLink, AHardLink
<1>5. Members(t) = {k \in 0 .. s.nlink - 1 : g[k] # Free}
  BY <1>2 DEF Members
<1>6. \A k \in 0 .. s.nlink - 1 : g[k] = IF k = s.left THEN f ELSE s.filex[k]
  BY <1>1, HardLink DEF Places
<1>7. Members(t) = Members(s) \cup {s.left}
  BY <1>1, <1>5, <1>6 DEF Members, Places
<1> QED
  BY <1>2, <1>4, <1>7

(* The name to be extracted of a set is decided.                            *)
LEMMA IndexSet ==
  ASSUME NEW s \in HardLinks, NEW j \in Int, NEW t, t = [s EXCEPT !.index = j]
  PROVE  /\ t \in HardLinks /\ t.ino = s.ino /\ t.nlink = s.nlink /\ t.left = s.left
         /\ t.index = j /\ t.filex = s.filex /\ Members(t) = Members(s)
<1>1. t = [ino |-> s.ino, nlink |-> s.nlink, left |-> s.left, index |-> j, filex |-> s.filex]
  <2>1. PICK n \in Files, m \in 0 .. NFiles + 1, l \in Int, x \in Int, h \in [Places(s) -> 0 .. NFiles] :
            s = [ino |-> n, nlink |-> m, left |-> l, index |-> x, filex |-> h]
    BY HardLink
  <2> QED
    BY <2>1
<1>2. t \in HardLinks
  BY <1>1, HardLink, AHardLink DEF Places
<1>3. t.filex = s.filex /\ t.ino = s.ino /\ t.nlink = s.nlink /\ t.left = s.left /\ t.index = j
  BY <1>1
<1> QED
  BY <1>2, <1>3 DEF Members

(* A new set is empty.                                                      *)
LEMMA ANewSet ==
  ASSUME NEW n \in Files, NEW m \in 0 .. NFiles + 1, NEW l \in Int, NEW s, s = NewSet(n, m, l)
  PROVE  /\ s \in HardLinks /\ s.ino = n /\ s.nlink = m /\ s.left = l
         /\ Members(s) = {} /\ s.filex \in [Places(s) -> {Free}]
<1> DEFINE g == [k \in 0 .. m - 1 |-> Free]
<1>1. g \in [0 .. m - 1 -> 0 .. NFiles]
  BY FsmAssumption DEF Free
<1>2. s = [ino |-> n, nlink |-> m, left |-> l, index |-> -1, filex |-> g]
  BY DEF NewSet
<1>3. s \in HardLinks
  <2> HIDE DEF g
  <2> QED
    BY <1>1, <1>2, AHardLink
<1> QED
  BY <1>2, <1>3 DEF Members, Places

(* No two sets have one inode.                                              *)
Distinct(list) == \A k, l \in DOMAIN list : list[k].ino = list[l].ino => k = l

(* A list in which the set of n is s.                                       *)
Stores(list, n, s) ==
    /\ list \in Seq(HardLinks) /\ Distinct(list)
    /\ \E k \in DOMAIN list : list[k] = s
    /\ \A k \in DOMAIN list :
          list[k] = s \/ \E j \in DOMAIN links : links[j].ino # n /\ list[k] = links[j]
    /\ \A j \in DOMAIN links : links[j].ino # n => \E k \in DOMAIN list : list[k] = links[j]

(* A list from which the set of n is gone.                                  *)
Forgets(list, n) ==
    /\ list \in Seq(HardLinks) /\ Distinct(list)
    /\ \A k \in DOMAIN list : \E j \in DOMAIN links : links[j].ino # n /\ list[k] = links[j]
    /\ \A j \in DOMAIN links : links[j].ino # n => \E k \in DOMAIN list : list[k] = links[j]

(* The set of n is in place k; a new one has room for m names.              *)
Found(known, k, n, m, l) ==
    /\ k \in DOMAIN known /\ known[k].ino = n
    /\ Known(n) => known = links
    /\ ~Known(n) => known[k] = NewSet(n, m, l)
    /\ \A t : t \in HardLinks /\ t.ino = n => Stores([known EXCEPT ![k] = t], n, t)

(* The set of an inode is found, or it is new and the first.                *)
LEMMA SetFound ==
  ASSUME links \in Seq(HardLinks), Distinct(links),
         NEW n \in Files, NEW m \in 0 .. NFiles + 1, NEW l \in Int,
         NEW known, known = WithSet(n, m, l), NEW k, k = IF Known(n) THEN SetOf(n) ELSE 1
  PROVE  Found(known, k, n, m, l)
<1>1. CASE Known(n)
  <2>1. known = links /\ k = SetOf(n)
    BY <1>1 DEF WithSet
  <2>2. k \in DOMAIN links /\ links[k].ino = n
    BY <1>1, <2>1 DEF Known, SetOf
  <2>3. ASSUME NEW t \in HardLinks, t.ino = n PROVE Stores([known EXCEPT ![k] = t], n, t)
    <3> DEFINE list == [links EXCEPT ![k] = t]
    <3>1. list \in Seq(HardLinks) /\ DOMAIN list = DOMAIN links /\ DOMAIN links = 1 .. Len(links)
      BY <2>2, <2>3
    <3>2. \A x \in DOMAIN links : list[x] = IF x = k THEN t ELSE links[x]
      BY <2>2
    <3>3. \A x \in DOMAIN links : x # k => links[x].ino # n
      BY <2>2 DEF Distinct
    <3> HIDE DEF list
    <3>4. Stores(list, n, t)
      BY <2>2, <2>3, <3>1, <3>2, <3>3 DEF Stores, Distinct
    <3> QED
      BY <2>1, <3>4 DEF list
  <2> QED
    BY <1>1, <2>1, <2>2, <2>3 DEF Found
<1>2. CASE ~Known(n)
  <2> DEFINE first == NewSet(n, m, l)
  <2>1. known = <<first>> \o links /\ k = 1
    BY <1>2 DEF WithSet
  <2>2. first \in HardLinks /\ first.ino = n
    BY ANewSet
  <2> HIDE DEF first
  <2>3. /\ known \in Seq(HardLinks) /\ Len(known) = Len(links) + 1 /\ DOMAIN known = 1 .. Len(links) + 1
        /\ DOMAIN links = 1 .. Len(links) /\ Len(links) \in Nat
        /\ \A x \in 1 .. Len(links) + 1 : known[x] = IF x = 1 THEN first ELSE links[x - 1]
    BY <2>1, <2>2
  <2>4. \A x \in DOMAIN links : links[x].ino # n
    BY <1>2 DEF Known
  <2>5. Distinct(known)
    <3> SUFFICES ASSUME NEW x \in 1 .. Len(links) + 1, NEW y \in 1 .. Len(links) + 1,
                        known[x].ino = known[y].ino
                 PROVE  x = y
      BY <2>3 DEF Distinct
    <3>1. x # 1 => x - 1 \in DOMAIN links /\ known[x] = links[x - 1]
      BY <2>3
    <3>2. y # 1 => y - 1 \in DOMAIN links /\ known[y] = links[y - 1]
      BY <2>3
    <3>3. known[1] = first
      BY <2>3
    <3>4. x - 1 = y - 1 => x = y
      OBVIOUS
    <3> QED
      BY <2>2, <2>4, <3>1, <3>2, <3>3, <3>4 DEF Distinct
  <2>6. ASSUME NEW t \in HardLinks, t.ino = n PROVE Stores([known EXCEPT ![k] = t], n, t)
    <3> DEFINE list == [known EXCEPT ![k] = t]
    <3>1. list \in Seq(HardLinks) /\ DOMAIN list = 1 .. Len(links) + 1
      BY <2>1, <2>3, <2>6
    <3>2. \A x \in 1 .. Len(links) + 1 : list[x] = IF x = 1 THEN t ELSE known[x]
      BY <2>1, <2>3
    <3> HIDE DEF list
    <3>3. \A x \in 1 .. Len(links) + 1 : list[x].ino = known[x].ino
      BY <2>2, <2>3, <2>6, <3>2
    <3>4. Distinct(list)
      BY <2>3, <2>5, <3>1, <3>3 DEF Distinct
    <3>5. 1 \in DOMAIN list /\ list[1] = t
      BY <2>3, <3>1, <3>2
    <3>6. ASSUME NEW x \in DOMAIN list, x # 1 PROVE x - 1 \in DOMAIN links /\ list[x] = links[x - 1]
      BY <2>3, <3>1, <3>2, <3>6
    <3>7. ASSUME NEW y \in DOMAIN links PROVE y + 1 \in DOMAIN list /\ list[y + 1] = links[y]
      BY <2>3, <3>1, <3>2
    <3>8. Stores(list, n, t)
      BY <2>4, <3>1, <3>4, <3>5, <3>6, <3>7 DEF Stores
    <3> QED
      BY <3>8 DEF list
  <2> QED
    <3>1. k \in DOMAIN known /\ known[k] = first
      BY <2>1, <2>3
    <3> QED
      BY <1>2, <2>1, <2>2, <2>3, <2>5, <2>6, <3>1 DEF first, Found
<1> QED
  BY <1>1, <1>2

(* A set is taken out of the list.                                          *)
LEMMA SetRemoved ==
  ASSUME links \in Seq(HardLinks), Distinct(links), NEW k \in DOMAIN links,
         NEW list, list = SubSeq(links, 1, k - 1) \o SubSeq(links, k + 1, Len(links))
  PROVE  Forgets(list, links[k].ino)
<1> DEFINE n == Len(links)
<1>1. n \in Nat /\ DOMAIN links = 1 .. n /\ k \in 1 .. n
  OBVIOUS
<1>2. /\ SubSeq(links, 1, k - 1) \in Seq(HardLinks) /\ Len(SubSeq(links, 1, k - 1)) = k - 1
      /\ \A x \in 1 .. k - 1 : SubSeq(links, 1, k - 1)[x] = links[x]
  BY <1>1
<1>3. /\ SubSeq(links, k + 1, n) \in Seq(HardLinks) /\ Len(SubSeq(links, k + 1, n)) = n - k
      /\ \A x \in 1 .. n - k : SubSeq(links, k + 1, n)[x] = links[x + k]
  <2>1. links \in Seq(HardLinks)
    OBVIOUS
  <2>2. SubSeq(links, k + 1, n) \in Seq(HardLinks)
    BY ONLY <1>1, <2>1
  <2>3. Len(SubSeq(links, k + 1, n)) = n - k
    BY ONLY <1>1, <2>1
  <2>4. \A x \in 1 .. n - k : SubSeq(links, k + 1, n)[x] = links[x + k]
    BY ONLY <1>1, <2>1
  <2> QED
    BY ONLY <2>2, <2>3, <2>4
<1>4. /\ list \in Seq(HardLinks) /\ Len(list) = n - 1 /\ DOMAIN list = 1 .. n - 1
      /\ \A x \in 1 .. n - 1 : list[x] = IF x < k THEN links[x] ELSE links[x + 1]
  <2> DEFINE p == SubSeq(links, 1, k - 1)
             q == SubSeq(links, k + 1, n)
  <2>1. /\ p \in Seq(HardLinks) /\ Len(p) = k - 1 /\ \A x \in 1 .. k - 1 : p[x] = links[x]
        /\ q \in Seq(HardLinks) /\ Len(q) = n - k /\ \A x \in 1 .. n - k : q[x] = links[x + k]
        /\ list = p \o q
    BY <1>2, <1>3
  <2> HIDE DEF p, q, n
  <2>2. /\ list \in Seq(HardLinks) /\ Len(list) = k - 1 + (n - k)
        /\ \A x \in 1 .. k - 1 + (n - k) : list[x] = IF x <= k - 1 THEN p[x] ELSE q[x - (k - 1)]
    <3>1. /\ p \o q \in Seq(HardLinks) /\ Len(p \o q) = Len(p) + Len(q)
          /\ \A x \in 1 .. Len(p) + Len(q) : (p \o q)[x] = IF x <= Len(p) THEN p[x] ELSE q[x - Len(p)]
      BY <2>1, ConcatProperties, Zenon
    <3> QED
      BY <2>1, <3>1, Zenon
  <2>3. Len(list) = n - 1 /\ DOMAIN list = 1 .. n - 1
    BY <1>1, <2>2, LenProperties
  <2>4. ASSUME NEW x \in 1 .. n - 1 PROVE list[x] = IF x < k THEN links[x] ELSE links[x + 1]
    <3>1. x \in 1 .. k - 1 + (n - k)
      BY <1>1
    <3>2. CASE x < k
      <4>1. x \in 1 .. k - 1
        BY <1>1, <3>2
      <4> QED
        BY <1>1, <2>1, <2>2, <3>1, <3>2, <4>1
    <3>3. CASE ~(x < k)
      <4>1. x - (k - 1) \in 1 .. n - k /\ x - (k - 1) + k = x + 1 /\ ~(x <= k - 1)
        <5>1. n \in Nat /\ k \in 1 .. n /\ x \in 1 .. n - 1 /\ ~(x < k)
          BY <1>1, <3>3
        <5> QED
          BY ONLY <5>1
      <4>2. list[x] = q[x - (k - 1)]
        BY <2>2, <3>1, <4>1
      <4> QED
        BY <2>1, <3>3, <4>1, <4>2
    <3> QED
      BY <3>2, <3>3
  <2> QED
    BY <2>2, <2>3, <2>4
<1> DEFINE to(x) == IF x < k THEN x ELSE x + 1
<1>5. ASSUME NEW x \in 1 .. n - 1 PROVE to(x) \in 1 .. n /\ to(x) # k /\ list[x] = links[to(x)]
  <2>1. list[x] = links[to(x)]
    BY <1>4
  <2>2. to(x) \in 1 .. n /\ to(x) # k
    BY <1>1
  <2> QED
    BY <2>1, <2>2
<1>6. ASSUME NEW x \in 1 .. n - 1, NEW y \in 1 .. n - 1, to(x) = to(y) PROVE x = y
  BY <1>1, <1>6
<1>7. ASSUME NEW y \in 1 .. n, y # k PROVE \E x \in 1 .. n - 1 : to(x) = y
  <2>1. CASE y < k
    BY <1>1, <2>1
  <2>2. CASE y > k
    <3>1. y - 1 \in 1 .. n - 1 /\ to(y - 1) = y
      BY <1>1, <2>2
    <3> QED
      BY <3>1
  <2> QED
    BY <1>1, <1>7, <2>1, <2>2
<1> HIDE DEF to, n
<1>8. ASSUME NEW x \in DOMAIN list
      PROVE  \E j \in DOMAIN links : links[j].ino # links[k].ino /\ list[x] = links[j]
  BY <1>1, <1>4, <1>5 DEF Distinct
<1>9. ASSUME NEW j \in DOMAIN links, links[j].ino # links[k].ino
      PROVE  \E x \in DOMAIN list : list[x] = links[j]
  <2>1. PICK x \in 1 .. n - 1 : to(x) = j
    BY <1>1, <1>7, <1>9
  <2> QED
    BY <1>4, <1>5, <2>1
<1>10. Distinct(list)
  <2> SUFFICES ASSUME NEW x \in 1 .. n - 1, NEW y \in 1 .. n - 1, list[x].ino = list[y].ino
               PROVE  x = y
    BY <1>4 DEF Distinct
  <2>1. /\ list[x] = links[to(x)] /\ list[y] = links[to(y)]
        /\ to(x) \in DOMAIN links /\ to(y) \in DOMAIN links
    BY <1>1, <1>5
  <2>2. to(x) = to(y)
    BY <2>1 DEF Distinct
  <2> QED
    BY <1>6, <2>2
<1> QED
  BY <1>4, <1>8, <1>9, <1>10 DEF Forgets

-----------------------------------------------------------------------------
(* The payload.                                                             *)

Headers == [file : Files, ino : 0 .. NFiles, nlink : Nat, full : BOOLEAN]

(* What is known of a payload that does not change.                         *)
LEMMA PayloadStays ==
  ASSUME UNCHANGED payload, UNCHANGED <<gone, ino, empty>>, NEW n
  PROVE  /\ Same(n)' = Same(n) /\ AllNames(n)' = AllNames(n) /\ Archived' = Archived
         /\ Block(n)' <=> Block(n)
<1>1. Same(n)' = Same(n) /\ AllNames(n)' = AllNames(n) /\ Archived' = Archived
  BY DEF Same, AllNames, Archived
<1>2. Content(n)' <=> Content(n)
  BY DEF Content
<1> QED
  BY <1>1, <1>2 DEF Block

(* Nor do its entries.                                                      *)
LEMMA EntriesStay ==
  ASSUME Entries, UNCHANGED payload, UNCHANGED <<gone, ino, empty>>
  PROVE  Entries'
<1>1. \A p \in DOMAIN payload' : LET e == payload'[p] IN
          /\ e.file \in Files
          /\ IF e.file \in gone' THEN e.ino = NoFile /\ e.nlink = 0 /\ ~e.full
             ELSE e.ino = ino'[e.file]
          /\ \A q \in DOMAIN payload' : e.file = payload'[q].file => p = q
  BY DEF Entries
<1>2. ASSUME NEW n \in Files, Same(n)' # {} PROVE Block(n)' /\ AllNames(n)' \subseteq Archived'
  BY <1>2, PayloadStays DEF Entries
<1> QED
  BY ONLY <1>1, <1>2 DEF Entries

(* m headers are appended to l.                                             *)
Appended(w, l, m) ==
    /\ DOMAIN payload = 1 .. l /\ DOMAIN payload' = 1 .. l + m
    /\ \A p \in 1 .. l : payload'[p] = payload[p]
    /\ \A x \in 1 .. m : payload'[l + x] = w[x]
    /\ \A p \in 1 .. l + m : p \notin 1 .. l => p - l \in 1 .. m /\ payload'[p] = w[p - l]

(* The headers of some names of an inode, the content with the last.        *)
HeadersOf(w, m, n, S) ==
    /\ {w[x].file : x \in 1 .. m} = S
    /\ \A x, y \in 1 .. m : w[x].file = w[y].file => x = y
    /\ \A x \in 1 .. m : /\ w[x].ino = n /\ w[x].nlink = m
                         /\ w[x].full <=> x = m /\ Content(n)

(* The headers of a payload that was extended.                              *)
LEMMA PayloadExtended ==
  ASSUME payload \in Seq(Headers), NEW w \in Seq(Headers), payload' = payload \o w
  PROVE  /\ payload' \in Seq(Headers) /\ Len(payload) \in Nat /\ Len(w) \in Nat
         /\ Len(payload') = Len(payload) + Len(w)
         /\ Appended(w, Len(payload), Len(w))
<1>1. Len(payload) \in Nat /\ Len(w) \in Nat /\ DOMAIN payload = 1 .. Len(payload)
  BY LenProperties
<1>2. /\ payload \o w \in Seq(Headers) /\ Len(payload \o w) = Len(payload) + Len(w)
      /\ \A p \in 1 .. Len(payload) + Len(w) : (payload \o w)[p] =
             IF p <= Len(payload) THEN payload[p] ELSE w[p - Len(payload)]
  BY ConcatProperties, Zenon
<1>3. DOMAIN (payload \o w) = 1 .. Len(payload) + Len(w)
  BY <1>2, LenProperties
<1>4. \A p \in 1 .. Len(payload) : payload'[p] = payload[p]
  BY <1>1, <1>2
<1>5. ASSUME NEW p \in 1 .. Len(w) PROVE payload'[Len(payload) + p] = w[p]
  <2>1. /\ Len(payload) + p \in 1 .. Len(payload) + Len(w) /\ ~(Len(payload) + p <= Len(payload))
        /\ Len(payload) + p - Len(payload) = p
    BY <1>1
  <2> QED
    BY <1>2, <2>1
<1>6. ASSUME NEW p \in 1 .. Len(payload) + Len(w), p \notin 1 .. Len(payload)
      PROVE  p - Len(payload) \in 1 .. Len(w) /\ payload'[p] = w[p - Len(payload)]
  BY <1>1, <1>2, <1>6
<1> QED
  BY <1>1, <1>2, <1>3, <1>4, <1>5, <1>6 DEF Appended

(* All names of an inode are appended, the content with the last.           *)
LEMMA BlockAppended ==
  ASSUME Entries, UNCHANGED given, NEW n \in Files, NEW w, NEW l \in Nat, NEW m \in Nat, m >= 1,
         Appended(w, l, m), HeadersOf(w, m, n, AllNames(n)), AllNames(n) \cap Archived = {}
  PROVE  Entries' /\ Archived' = Archived \cup AllNames(n)
<1>1. /\ l \in Nat /\ m \in Nat /\ m >= 1
      /\ DOMAIN payload = 1 .. l /\ DOMAIN payload' = 1 .. l + m
      /\ \A p \in 1 .. l : payload'[p] = payload[p]
      /\ \A x \in 1 .. m : payload'[l + x] = w[x]
      /\ \A p \in 1 .. l + m : p \notin 1 .. l => p - l \in 1 .. m /\ payload'[p] = w[p - l]
      /\ {w[x].file : x \in 1 .. m} = AllNames(n) /\ AllNames(n) \cap Archived = {}
      /\ \A x, y \in 1 .. m : w[x].file = w[y].file => x = y
      /\ \A x \in 1 .. m : /\ w[x].ino = n /\ w[x].nlink = m
                           /\ w[x].full <=> x = m /\ Content(n)
  BY DEF Appended, HeadersOf
<1>2. Archived' = Archived \cup AllNames(n)
  <2>1. ASSUME NEW p \in 1 .. l + m PROVE payload'[p].file \in Archived \cup AllNames(n)
    BY <1>1 DEF Archived
  <2>2. Archived \subseteq Archived'
    <3>1. \A p \in 1 .. l : p \in 1 .. l + m
      BY <1>1
    <3> QED
      BY <1>1, <3>1 DEF Archived
  <2>3. AllNames(n) \subseteq Archived'
    <3>1. \A x \in 1 .. m : l + x \in 1 .. l + m
      BY <1>1
    <3> QED
      BY <1>1, <3>1 DEF Archived
  <2>4. Archived' = {payload'[p].file : p \in 1 .. l + m}
    BY <1>1 DEF Archived
  <2> QED
    <3>1. Archived' \subseteq Archived \cup AllNames(n)
      BY ONLY <2>1, <2>4
    <3> QED
      BY ONLY <2>2, <2>3, <3>1
<1>3. \A k \in Files : AllNames(k)' = AllNames(k) /\ Content(k)' = Content(k)
  BY DEF AllNames, Content, given
<1>4. AllNames(n) # {} /\ \A p \in 1 .. l : payload[p].ino # n
  <2>1. w[1].file \in AllNames(n)
    BY <1>1
  <2>2. ASSUME NEW p \in 1 .. l, payload[p].ino = n PROVE FALSE
    <3>1. n # NoFile
      BY DEF NoFile, Files
    <3>2. AllNames(n) \subseteq Archived
      <4>1. p \in Same(n)
        BY <1>1, <2>2 DEF Same
      <4> QED
        BY <4>1 DEF Entries
    <3> QED
      BY <2>1, <3>2
  <2> QED
    BY <2>1, <2>2
<1>5. Same(n)' = l + 1 .. l + m
  <2>1. Same(n)' = {p \in 1 .. l + m : payload'[p].ino = n}
    BY <1>1 DEF Same
  <2>2. \A p \in 1 .. l + m : payload'[p].ino = n <=> p \notin 1 .. l
    BY <1>1, <1>4
  <2>3. {p \in 1 .. l + m : p \notin 1 .. l} = l + 1 .. l + m
    BY <1>1
  <2> QED
    BY <2>1, <2>2, <2>3
<1>6. Block(n)'
  <2>1. l + 1 \in DOMAIN payload' /\ l + m \in DOMAIN payload' /\ l + 1 <= l + m
    BY <1>1
  <2>2. ASSUME NEW p \in l + 1 .. l + m
        PROVE  /\ payload'[p].nlink = l + m - (l + 1) + 1
               /\ payload'[p].full <=> p = l + m /\ Content(n)'
    <3>1. p - l \in 1 .. m /\ payload'[p] = w[p - l]
      BY <1>1
    <3>2. l + m - (l + 1) + 1 = m /\ (p - l = m <=> p = l + m)
      BY <1>1
    <3>3. w[p - l].nlink = m /\ (w[p - l].full <=> p - l = m /\ Content(n))
      BY <1>1, <3>1
    <3> QED
      BY <1>3, <3>1, <3>2, <3>3
  <2> QED
    BY ONLY <1>5, <2>1, <2>2 DEF Block
<1>7. ASSUME NEW k \in Files, k # n PROVE Same(k)' = Same(k) /\ (Block(k) => Block(k)')
  <2>1. Same(k)' = Same(k)
    <3>1. Same(k)' = {p \in 1 .. l + m : payload'[p].ino = k} /\ Same(k) = {p \in 1 .. l : payload[p].ino = k}
      BY <1>1 DEF Same
    <3>2. \A p \in 1 .. l + m : payload'[p].ino = k <=> p \in 1 .. l /\ payload[p].ino = k
      BY <1>1, <1>7
    <3>3. \A p \in 1 .. l : p \in 1 .. l + m
      BY <1>1
    <3> QED
      BY <3>1, <3>2, <3>3
  <2>2. ASSUME Block(k) PROVE Block(k)'
    <3>1. PICK a, b \in DOMAIN payload :
              /\ a <= b /\ Same(k) = a .. b
              /\ \A p \in a .. b : payload[p].nlink = b - a + 1 /\ (payload[p].full <=> p = b /\ Content(k))
      BY <2>2 DEF Block
    <3>2. a \in 1 .. l /\ b \in 1 .. l
      BY <1>1
    <3>3. a \in DOMAIN payload' /\ b \in DOMAIN payload' /\ a <= b
      BY <1>1, <3>1, <3>2
    <3>4. \A p \in a .. b : p \in 1 .. l
      BY <1>1, <3>2
    <3>5. \A p \in a .. b : payload'[p].nlink = b - a + 1 /\ (payload'[p].full <=> p = b /\ Content(k)')
      BY <1>1, <1>3, <3>1, <3>4
    <3>6. Same(k)' = a .. b
      BY <2>1, <3>1
    <3> QED
      BY ONLY <3>3, <3>5, <3>6 DEF Block
  <2> QED
    BY <2>1, <2>2
<1>8. ASSUME NEW p \in 1 .. l + m, NEW q \in 1 .. l + m, payload'[p].file = payload'[q].file PROVE p = q
  <2>1. CASE p \in 1 .. l /\ q \in 1 .. l
    BY <1>1, <1>8, <2>1 DEF Entries
  <2>2. CASE p \notin 1 .. l /\ q \notin 1 .. l
    <3>1. /\ p - l \in 1 .. m /\ payload'[p] = w[p - l]
          /\ q - l \in 1 .. m /\ payload'[q] = w[q - l]
      BY <1>1, <2>2
    <3>2. p - l = q - l
      BY <1>1, <1>8, <3>1
    <3> QED
      BY <1>1, <3>2
  <2>3. ASSUME NEW x \in 1 .. l, NEW y \in 1 .. l + m, y \notin 1 .. l PROVE payload'[x].file # payload'[y].file
    <3>1. payload'[x].file \in Archived
      BY <1>1 DEF Archived
    <3>2. payload'[y].file \in AllNames(n)
      BY <1>1, <2>3
    <3> QED
      BY <3>1, <3>2
  <2> QED
    BY <1>8, <2>1, <2>2, <2>3
<1>9. ASSUME NEW p \in 1 .. l + m
      PROVE  /\ payload'[p].file \in Files
             /\ IF payload'[p].file \in gone
                THEN payload'[p].ino = NoFile /\ payload'[p].nlink = 0 /\ ~payload'[p].full
                ELSE payload'[p].ino = ino[payload'[p].file]
  <2>1. CASE p \in 1 .. l
    <3>1. p \in DOMAIN payload /\ payload'[p] = payload[p]
      BY <1>1, <2>1
    <3>2. LET e == payload[p] IN
          /\ e.file \in Files
          /\ IF e.file \in gone THEN e.ino = NoFile /\ e.nlink = 0 /\ ~e.full ELSE e.ino = ino[e.file]
      BY <3>1 DEF Entries
    <3> QED
      BY <3>1, <3>2
  <2>2. CASE p \notin 1 .. l
    <3>1. p - l \in 1 .. m /\ payload'[p] = w[p - l]
      BY <1>1, <2>2
    <3>2. payload'[p].file \in AllNames(n) /\ payload'[p].ino = n
      BY <1>1, <3>1
    <3> QED
      BY <3>2 DEF AllNames
  <2> QED
    BY <2>1, <2>2
<1>10. ASSUME NEW k \in Files, Same(k)' # {} PROVE Block(k)' /\ AllNames(k)' \subseteq Archived'
  <2>1. CASE k = n
    BY <1>2, <1>3, <1>6, <2>1
  <2>2. CASE k # n
    <3>1. Same(k) # {}
      BY <1>7, <1>10, <2>2
    <3>2. Block(k) /\ AllNames(k) \subseteq Archived
      BY <3>1 DEF Entries
    <3> QED
      BY <1>2, <1>3, <1>7, <2>2, <3>2
  <2> QED
    BY <2>1, <2>2
<1>11. Entries'
  <2>1. gone' = gone /\ ino' = ino
    BY DEF given
  <2> QED
    BY ONLY <1>1, <1>8, <1>9, <1>10, <2>1 DEF Entries
<1> QED
  BY <1>2, <1>11

(* The header of a file that is gone is appended.                           *)
LEMMA GoneAppended ==
  ASSUME Entries, UNCHANGED given, NEW f \in gone, f \in Files, NEW l \in Nat,
         DOMAIN payload = 1 .. l, DOMAIN payload' = 1 .. l + 1,
         \A p \in 1 .. l : payload'[p] = payload[p],
         payload'[l + 1] = Entry(f, NoFile, 0, FALSE), f \notin Archived
  PROVE  Entries' /\ Archived' = Archived \cup {f}
<1>1. /\ payload'[l + 1].file = f /\ payload'[l + 1].ino = NoFile /\ payload'[l + 1].nlink = 0
      /\ ~payload'[l + 1].full
  BY DEF Entry
<1>2. \A p \in 1 .. l + 1 : p \in 1 .. l \/ p = l + 1
  OBVIOUS
<1>3. \A p \in 1 .. l : p \in 1 .. l + 1 /\ p # l + 1
  OBVIOUS
<1>4. Archived' = Archived \cup {f}
  <2>1. Archived' = {payload'[p].file : p \in 1 .. l + 1} /\ Archived = {payload[p].file : p \in 1 .. l}
    BY DEF Archived
  <2>2. l + 1 \in 1 .. l + 1
    OBVIOUS
  <2>3. Archived' \subseteq Archived \cup {f}
    BY <1>1, <1>2, <2>1
  <2>4. Archived \subseteq Archived'
    BY <1>3, <2>1
  <2>5. f \in Archived'
    BY <1>1, <2>1, <2>2
  <2> QED
    BY <2>3, <2>4, <2>5
<1>5. ASSUME NEW n \in Files
      PROVE  /\ Same(n)' = Same(n) /\ AllNames(n)' = AllNames(n)
             /\ Block(n) => Block(n)'
  <2>1. AllNames(n)' = AllNames(n) /\ Content(n)' = Content(n)
    BY DEF AllNames, Content, given
  <2>2. Same(n)' = Same(n)
    <3>1. Same(n)' = {p \in 1 .. l + 1 : payload'[p].ino = n} /\ Same(n) = {p \in 1 .. l : payload[p].ino = n}
      BY DEF Same
    <3>2. n # NoFile
      BY DEF NoFile, Files
    <3>3. \A p \in 1 .. l + 1 : payload'[p].ino = n <=> p \in 1 .. l /\ payload[p].ino = n
      BY <1>1, <1>2, <1>3, <3>2
    <3> QED
      BY <1>3, <3>1, <3>3
  <2>3. ASSUME Block(n) PROVE Block(n)'
    <3>1. PICK a, b \in DOMAIN payload :
              /\ a <= b /\ Same(n) = a .. b
              /\ \A p \in a .. b : payload[p].nlink = b - a + 1 /\ (payload[p].full <=> p = b /\ Content(n))
      BY <2>3 DEF Block
    <3>2. a \in 1 .. l /\ b \in 1 .. l
      OBVIOUS
    <3>3. a \in DOMAIN payload' /\ b \in DOMAIN payload' /\ a <= b
      BY <1>3, <3>1, <3>2
    <3>4. \A p \in a .. b : p \in 1 .. l
      BY <3>2
    <3>5. \A p \in a .. b : payload'[p].nlink = b - a + 1 /\ (payload'[p].full <=> p = b /\ Content(n)')
      BY <2>1, <3>1, <3>4
    <3>6. Same(n)' = a .. b
      BY <2>2, <3>1
    <3> QED
      BY ONLY <3>3, <3>5, <3>6 DEF Block
  <2> QED
    BY <2>1, <2>2, <2>3
<1>6. ASSUME NEW p \in 1 .. l + 1
      PROVE  /\ payload'[p].file \in Files
             /\ IF payload'[p].file \in gone
                THEN payload'[p].ino = NoFile /\ payload'[p].nlink = 0 /\ ~payload'[p].full
                ELSE payload'[p].ino = ino[payload'[p].file]
             /\ \A q \in 1 .. l + 1 : payload'[p].file = payload'[q].file => p = q
  <2>1. \A q \in 1 .. l : payload'[q].file \in Archived
    BY DEF Archived
  <2>2. CASE p \in 1 .. l
    <3>1. /\ payload'[p].file \in Files
          /\ IF payload'[p].file \in gone
             THEN payload'[p].ino = NoFile /\ payload'[p].nlink = 0 /\ ~payload'[p].full
             ELSE payload'[p].ino = ino[payload'[p].file]
          /\ \A q \in 1 .. l : payload'[p].file = payload'[q].file => p = q
      BY <2>2 DEF Entries
    <3> QED
      BY <1>1, <1>2, <2>1, <2>2, <3>1
  <2>3. CASE p = l + 1
    BY <1>1, <1>2, <2>1, <2>3
  <2> QED
    BY <1>2, <2>2, <2>3
<1>7. ASSUME NEW n \in Files, Same(n)' # {} PROVE Block(n)' /\ AllNames(n)' \subseteq Archived'
  BY <1>4, <1>5, <1>7 DEF Entries
<1>8. Entries'
  <2>1. gone' = gone /\ ino' = ino /\ DOMAIN payload' = 1 .. l + 1
    BY DEF given
  <2> QED
    BY ONLY <1>6, <1>7, <2>1 DEF Entries
<1> QED
  BY <1>4, <1>8

(* A set is written: all its names, the content with the last.              *)
LEMMA SetWritten ==
  ASSUME NEW s \in HardLinks, NEW a \in Nat, NEW b \in Int, 1 <= a, a <= b + 1,
         Members(s) = {0} \cup a .. b,
         \A p, q \in Members(s) : s.filex[p] = s.filex[q] => p = q,
         NEW m, m = Cardinality(Members(s)), NEW w, w = WriteLinked(s, m)
  PROVE  /\ m \in Nat /\ m >= 1 /\ w \in Seq(Headers) /\ Len(w) = m
         /\ HeadersOf(w, m, s.ino, Recorded(s))
<1>1. PICK S : S = Members(s)
  OBVIOUS
<1>2. PICK o : o = Descending(S)
  OBVIOUS
<1>3. S = {0} \cup a .. b
  BY <1>1
<1>4. Cardinality(S) = b - a + 2 /\ Listed(Descending(S), S, b - a + 2)
  BY <1>3, FromTheEnd
<1>5. m = b - a + 2 /\ m \in Nat /\ m >= 1
  BY <1>1, <1>4
<1>6. /\ o \in [1 .. m -> S]
      /\ \A k, l \in 1 .. m : o[k] = o[l] => k = l
      /\ \A x \in S : \E k \in 1 .. m : o[k] = x
      /\ \A k \in 1 .. m : o[k] = 0 <=> k = m
  BY ONLY <1>2, <1>4, <1>5 DEF Listed
<1>7. PICK n, g : n = s.ino /\ g = s.filex /\ n \in 0 .. NFiles /\ \A k \in S : g[k] \in Files
  <2>1. s.ino \in 0 .. NFiles
    BY HardLink, FsmAssumption DEF Files
  <2>2. \A k \in S : s.filex[k] \in Files
    BY <1>1, HardLink, FsmAssumption DEF Members, Places, Files, Free
  <2> QED
    BY <2>1, <2>2
<1>8. w = [k \in 1 .. m |-> Entry(g[o[k]], n, m, o[k] = 0 /\ Content(n))]
  <2>1. w = [k \in DOMAIN o |-> Entry(g[o[k]], n, m, o[k] = 0 /\ Content(n))]
    BY <1>1, <1>2, <1>7 DEF WriteLinked
  <2>2. DOMAIN o = 1 .. m
    BY <1>6
  <2> QED
    BY ONLY <2>1, <2>2
<1>9. PICK c \in BOOLEAN : c = Content(n)
  BY DEF Content
<1>10. ASSUME NEW k \in 1 .. m
       PROVE  /\ w[k].file = g[o[k]] /\ w[k].ino = n /\ w[k].nlink = m
              /\ w[k].full <=> k = m /\ c
              /\ w[k] \in Headers /\ o[k] \in S
  <2>1. o[k] \in S /\ (o[k] = 0 <=> k = m) /\ g[o[k]] \in Files
    BY ONLY <1>6, <1>7, k \in 1 .. m
  <2>2. PICK h \in BOOLEAN : h = (o[k] = 0 /\ c)
    OBVIOUS
  <2>3. w[k] = [file |-> g[o[k]], ino |-> n, nlink |-> m, full |-> h]
    BY ONLY <1>8, <1>9, <2>2, k \in 1 .. m DEF Entry
  <2>4. w[k] \in Headers
    BY ONLY <1>5, <1>7, <2>1, <2>2, <2>3 DEF Headers
  <2>5. w[k].full = h
    BY ONLY <2>3
  <2>6. w[k].full <=> k = m /\ c
    BY ONLY <2>1, <2>2, <2>5, Zenon
  <2>7. w[k].file = g[o[k]] /\ w[k].ino = n /\ w[k].nlink = m
    BY ONLY <2>3
  <2> QED
    BY ONLY <2>1, <2>4, <2>6, <2>7
<1>11. w \in Seq(Headers) /\ Len(w) = m
  <2>1. w \in [1 .. m -> Headers]
    BY ONLY <1>8, <1>10
  <2> QED
    BY ONLY <1>5, <2>1
<1>12. {w[x].file : x \in 1 .. m} = Recorded(s)
  <2>1. Recorded(s) = {g[k] : k \in S}
    BY <1>1, <1>7 DEF Recorded
  <2>2. ASSUME NEW x \in 1 .. m PROVE w[x].file \in {g[k] : k \in S}
    BY ONLY <1>10, x \in 1 .. m
  <2>3. ASSUME NEW k \in S PROVE g[k] \in {w[x].file : x \in 1 .. m}
    BY ONLY <1>6, <1>10, k \in S
  <2> QED
    BY ONLY <2>1, <2>2, <2>3
<1>13. ASSUME NEW x \in 1 .. m, NEW y \in 1 .. m, w[x].file = w[y].file PROVE x = y
  <2>1. g[o[x]] = g[o[y]] /\ o[x] \in S /\ o[y] \in S
    BY ONLY <1>10, <1>13
  <2>2. \A p, q \in S : g[p] = g[q] => p = q
    BY <1>1, <1>7
  <2> QED
    BY ONLY <1>6, <2>1, <2>2
<1>14. ASSUME NEW x \in 1 .. m
       PROVE  w[x].ino = s.ino /\ w[x].nlink = m /\ (w[x].full <=> x = m /\ Content(s.ino))
  BY ONLY <1>7, <1>9, <1>10, x \in 1 .. m
<1> QED
  BY ONLY <1>5, <1>11, <1>12, <1>13, <1>14 DEF HeadersOf

-----------------------------------------------------------------------------
(* While the payload is made.                                               *)

(* What TypeOK says of one set.                                             *)
SetOK(s) ==
    /\ s.left \in 0 .. s.nlink
    /\ \A p, q \in Members(s) :
           /\ ino[s.filex[p]] = s.ino
           /\ s.filex[p] = s.filex[q] => p = q
    /\ pc = "build" => Members(s) = s.left .. s.nlink - 1

(* What BuildSets says of one set.                                          *)
Built(s, n) ==
    /\ s.nlink = NLink(n) /\ s.nlink > 1
    /\ s.left = s.nlink - Cardinality(Seen(n)) /\ s.left < s.nlink
    /\ goal = "save" => s.left > 0
    /\ Recorded(s) = Seen(n)

(* The names of an inode are finitely many, and st_nlink is their number,   *)
(* and one more for those outside of the package.                           *)
LEMMA NamesCounted ==
  ASSUME gone \subseteq Files, NEW n
  PROVE  /\ IsFiniteSet(AllNames(n)) /\ Cardinality(AllNames(n)) \in 0 .. NFiles
         /\ NLink(n) = Cardinality(AllNames(n)) + (IF n \in more THEN 1 ELSE 0)
         /\ NLink(n) \in 0 .. NFiles + 1
         /\ \A f : f \in AllNames(n) => NLink(n) >= 1
         /\ NLink(n) = 1 => \A f, g : f \in AllNames(n) /\ g \in AllNames(n) => f = g /\ n \notin more
<1>1. IsFiniteSet(Files) /\ Cardinality(Files) = NFiles
  BY FS_Interval, FsmAssumption DEF Files
<1>2. AllNames(n) \subseteq Files
  BY DEF AllNames
<1>3. IsFiniteSet(AllNames(n)) /\ Cardinality(AllNames(n)) <= NFiles
  BY <1>1, <1>2, FS_Subset, Zenon
<1>4. Cardinality(AllNames(n)) \in Nat
  BY <1>3, FS_CardinalityType
<1>5. NLink(n) = Cardinality(AllNames(n)) + (IF n \in more THEN 1 ELSE 0)
  BY DEF NLink, AllNames
<1>6. ASSUME NEW f, f \in AllNames(n) PROVE Cardinality(AllNames(n)) >= 1
  <2>1. Cardinality(AllNames(n)) # 0
    BY <1>3, <1>6, FS_EmptySet
  <2> QED
    BY <1>4, <2>1
<1>7. ASSUME NLink(n) = 1, NEW f, NEW g, f \in AllNames(n), g \in AllNames(n) PROVE f = g /\ n \notin more
  <2>1. Cardinality(AllNames(n)) = 1 /\ n \notin more
    BY <1>4, <1>5, <1>6, <1>7
  <2>2. PICK x : AllNames(n) = {x}
    BY <1>3, <2>1, FS_Singleton
  <2> QED
    BY <1>7, <2>1, <2>2
<1> QED
  BY <1>3, <1>4, <1>5, <1>6, <1>7, FsmAssumption

(* The names seen are as many as the inode has at most, and then all.       *)
LEMMA NamesSeen ==
  ASSUME gone \subseteq Files, NEW n
  PROVE  /\ IsFiniteSet(Seen(n)) /\ Cardinality(Seen(n)) \in Nat
         /\ Seen(n) \subseteq AllNames(n)
         /\ Cardinality(Seen(n)) <= Cardinality(AllNames(n))
         /\ Cardinality(Seen(n)) = Cardinality(AllNames(n)) => Seen(n) = AllNames(n)
<1>1. Seen(n) \subseteq AllNames(n)
  BY DEF Seen
<1>2. IsFiniteSet(AllNames(n))
  BY NamesCounted
<1>3. IsFiniteSet(Seen(n)) /\ Cardinality(Seen(n)) <= Cardinality(AllNames(n))
  BY <1>1, <1>2, FS_Subset, Zenon
<1>4. Cardinality(Seen(n)) = Cardinality(AllNames(n)) => Seen(n) = AllNames(n)
  BY <1>1, <1>2, FS_Subset, Zenon
<1> QED
  BY <1>1, <1>3, <1>4, FS_CardinalityType

(* The next file is one more that was seen of its inode.                    *)
LEMMA OneMoreSeen ==
  ASSUME gone \subseteq Files, ix \in Nat, ix' = ix + 1, UNCHANGED given, NEW n
  PROVE  /\ AllNames(n)' = AllNames(n) /\ NLink(n)' = NLink(n)
         /\ ix \notin AllNames(n) => Seen(n)' = Seen(n)
         /\ ix \in AllNames(n) =>
                /\ Seen(n)' = Seen(n) \cup {ix} /\ ix \notin Seen(n)
                /\ Cardinality(Seen(n)') = Cardinality(Seen(n)) + 1
                /\ Cardinality(Seen(n)) + 1 <= Cardinality(AllNames(n))
                /\ Cardinality(Seen(n)) + 1 = Cardinality(AllNames(n)) => Seen(n)' = AllNames(n)
<1>1. AllNames(n)' = AllNames(n) /\ NLink(n)' = NLink(n)
  BY DEF AllNames, NLink, given
<1>2. AllNames(n) \subseteq Files
  BY DEF AllNames
<1>3. Seen(n)' = {f \in AllNames(n) : f < ix + 1}
  BY <1>1 DEF Seen
<1>4. Seen(n) = {f \in AllNames(n) : f < ix}
  BY DEF Seen
<1>5. \A f \in AllNames(n) : f < ix + 1 <=> f < ix \/ f = ix
  BY <1>2, FsmAssumption DEF Files
<1>6. ix \notin AllNames(n) => Seen(n)' = Seen(n)
  BY <1>3, <1>4, <1>5
<1>7. ASSUME ix \in AllNames(n)
      PROVE  /\ Seen(n)' = Seen(n) \cup {ix} /\ ix \notin Seen(n)
             /\ Cardinality(Seen(n)') = Cardinality(Seen(n)) + 1
             /\ Cardinality(Seen(n)) + 1 <= Cardinality(AllNames(n))
             /\ Cardinality(Seen(n)) + 1 = Cardinality(AllNames(n)) => Seen(n)' = AllNames(n)
  <2>1. Seen(n)' = Seen(n) \cup {ix} /\ ix \notin Seen(n)
    <3>1. ix \notin Seen(n)
      BY <1>4, ix \in Nat
    <3>2. \A f : f \in Seen(n)' <=> f \in AllNames(n) /\ (f \in Seen(n) \/ f = ix)
      BY <1>3, <1>4, <1>5
    <3>3. Seen(n) \subseteq AllNames(n)
      BY <1>4
    <3> QED
      BY ONLY <1>7, <3>1, <3>2, <3>3
  <2>2. Cardinality(Seen(n)') = Cardinality(Seen(n)) + 1
    BY <2>1, NamesSeen, FS_AddElement, Zenon
  <2>3. PICK S : S = Seen(n)'
    OBVIOUS
  <2>4. S \subseteq AllNames(n)
    BY <1>3, <2>3
  <2>5. Cardinality(S) <= Cardinality(AllNames(n))
    BY <2>4, NamesCounted, FS_Subset, Zenon
  <2>6. Cardinality(S) = Cardinality(AllNames(n)) => S = AllNames(n)
    BY <2>4, NamesCounted, FS_Subset, Zenon
  <2> QED
    BY <2>1, <2>2, <2>3, <2>5, <2>6
<1> QED
  BY <1>1, <1>6, <1>7

(* What a step of the build has to keep.                                    *)
LEMMA BuildKept ==
  ASSUME FsmInv, pc = "build", UNCHANGED <<given, pc, i, pos, system, ec, blamed, result>>,
         ix' \in 1 .. NFiles + 1, payload' \in Seq(Headers), Len(payload) <= Len(payload'),
         Entries', Archived' = {f \in 1 .. ix' - 1 : ~InSet(f)'},
         goal = "save" => \A f \in Archived' \ gone : ino[f] \notin more,
         links' \in Seq(HardLinks), Distinct(links'),
         \A k \in DOMAIN links' : \A s : s = links'[k] => SetOK(s)' /\ Built(s, s.ino)'
  PROVE  FsmInv'
<1>1. TypeOK'
  <2>1. Len(payload) \in Nat /\ Len(payload') \in Nat
    BY DEF FsmInv, Shapes, Headers
  <2>2. pos' \in 1 .. Len(payload') + 1
    <3>1. pos \in 1 .. Len(payload) + 1
      BY DEF FsmInv, TypeOK
    <3> QED
      BY <2>1, <3>1
  <2>3. \A f \in Files : {tmp[f], disk[f], saved[f], new[f]}' \subseteq Old .. Len(payload')
    <3>1. Old .. Len(payload) \subseteq Old .. Len(payload')
      BY <2>1 DEF Old
    <3>2. \A f \in Files : {tmp[f], disk[f], saved[f], new[f]} \subseteq Old .. Len(payload)
      BY DEF FsmInv, TypeOK
    <3> QED
      BY <3>1, <3>2 DEF system
  <2>4. \A k, l \in DOMAIN links' : links'[k].ino = links'[l].ino => k = l
    BY DEF Distinct
  <2>5. ASSUME NEW k \in DOMAIN links', NEW s, s = links'[k]
        PROVE  /\ s.left \in 0 .. s.nlink
               /\ \A p, q \in Members(s) :
                      /\ ino'[s.filex[p]] = s.ino
                      /\ s.filex[p] = s.filex[q] => p = q
               /\ pc' = "build" => Members(s) = s.left .. s.nlink - 1
    BY <2>5 DEF SetOK
  <2>6. pc' = pc /\ i' = i /\ i \in 0 .. NFiles + 1
    BY DEF FsmInv, TypeOK
  <2> QED
    BY <2>2, <2>3, <2>4, <2>5, <2>6 DEF TypeOK
<1>2. Shapes'
  <2>1. payload' \in Seq([file : Files, ino : 0 .. NFiles, nlink : Nat, full : BOOLEAN])
    BY DEF Headers
  <2>2. Shapes
    BY DEF FsmInv
  <2> QED
    BY <2>1, <2>2 DEF Shapes, given, system
<1>3. BuildSets'
  <2>1. ASSUME NEW k \in DOMAIN links', NEW n \in Files, NEW s, s = links'[k], s.ino = n
        PROVE  Built(s, n)'
    BY <2>1
  <2>2. pos' = 1
    BY DEF FsmInv, BuildSets
  <2>3. ASSUME NEW k \in DOMAIN links', NEW n \in Files, NEW s, s = links'[k], s.ino = n
        PROVE  /\ s.nlink = NLink(n)' /\ s.nlink > 1
               /\ s.left = s.nlink - Cardinality(Seen(n)') /\ s.left < s.nlink
               /\ goal' = "save" => s.left > 0
               /\ Recorded(s) = Seen(n)'
    BY <2>1, <2>3 DEF Built
  <2> QED
    BY <2>2, <2>3 DEF BuildSets
<1>4. PayloadKnown'
  BY DEF PayloadKnown, given
<1>5. InstallSets' /\ AtSet'
  BY DEF InstallSets, AtSet
<1>6. "rename" \notin Faults => FilesKnown' /\ ErrorsKnown'
  <2>1. result = "none"
    BY DEF FsmInv, Shapes
  <2>2. "rename" \notin Faults => FilesKnown'
    BY DEF FsmInv, FilesKnown, Fresh, system
  <2>3. "rename" \notin Faults => ErrorsKnown'
    BY <2>1 DEF FsmInv, ErrorsKnown
  <2> QED
    BY <2>2, <2>3
<1> QED
  BY <1>1, <1>2, <1>3, <1>4, <1>5, <1>6 DEF FsmInv

(* The sets while the payload is made, one by one.                          *)
LEMMA BuiltSets ==
  ASSUME FsmInv, pc = "build"
  PROVE  /\ links \in Seq(HardLinks) /\ Distinct(links)
         /\ \A k \in DOMAIN links : \A s : s = links[k] =>
               s \in HardLinks /\ s.ino \in Files /\ SetOK(s) /\ Built(s, s.ino)
<1>1. links \in Seq(HardLinks) /\ Distinct(links)
  BY DEF FsmInv, TypeOK, Shapes, Distinct
<1>2. ASSUME NEW k \in DOMAIN links, NEW s, s = links[k]
      PROVE  s \in HardLinks /\ s.ino \in Files /\ SetOK(s) /\ Built(s, s.ino)
  <2>1. s \in HardLinks
    BY <1>1, <1>2
  <2>2. s.ino \in Files
    BY <2>1, HardLink
  <2>3. SetOK(s)
    BY <1>2 DEF FsmInv, TypeOK, SetOK
  <2>4. Built(s, s.ino)
    <3>1. \A n \in Files : s.ino = n => Built(s, n)
      BY <1>2 DEF FsmInv, BuildSets, Built
    <3> QED
      BY <2>2, <3>1
  <2> QED
    BY <2>1, <2>2, <2>3, <2>4
<1> QED
  BY <1>1, <1>2

(* While an inode has names to come, those that were seen are in its set,   *)
(* and no name of an inode that has a set is in the payload.                *)
LEMMA WhereNamesAre ==
  ASSUME FsmInv, pc = "build", NEW n \in Files, NLink(n) > 1
  PROVE  /\ ~Known(n) /\ ix \in AllNames(n) => Seen(n) = {}
         /\ Known(n) => AllNames(n) \cap Archived = {}
<1>1. Archived = {f \in 1 .. ix - 1 : ~InSet(f)} /\ Entries /\ ix \in Nat
  BY FsmAssumption DEF FsmInv, PayloadKnown, TypeOK
<1>2. \A f \in AllNames(n) : InSet(f) <=> Known(n)
  BY DEF AllNames, InSet
<1>3. ASSUME ~Known(n), ix \in AllNames(n), NEW f \in Seen(n) PROVE FALSE
  <2>1. f \in AllNames(n) /\ f \in 1 .. ix - 1
    BY <1>1 DEF Seen, AllNames, Files
  <2>2. f \in Archived
    BY <1>1, <1>2, <1>3, <2>1
  <2>3. PICK p \in DOMAIN payload : payload[p].file = f
    BY <2>2 DEF Archived
  <2>4. p \in Same(n)
    <3>1. f \notin gone /\ ino[f] = n
      BY <2>1 DEF AllNames
    <3> QED
      BY <1>1, <2>3, <3>1 DEF Entries, Same
  <2>5. AllNames(n) \subseteq Archived
    BY <1>1, <2>4 DEF Entries
  <2> QED
    BY <1>1, <1>3, <2>5
<1> QED
  BY <1>1, <1>2, <1>3

(* A set has the names of n that were seen, each once.                      *)
Counts(s, n) ==
    /\ s.ino = n /\ s.nlink = NLink(n) /\ s.nlink > 1
    /\ s.left = s.nlink - Cardinality(Seen(n)) /\ Members(s) = s.left .. s.nlink - 1
    /\ Recorded(s) = Seen(n)
    /\ \A p, q \in Members(s) : s.filex[p] = s.filex[q] => p = q

(* A name is recorded in the set of its inode.                              *)
LEMMA NameRecorded ==
  ASSUME gone \subseteq Files, ix \in Files, ix' = ix + 1, UNCHANGED <<given, pc>>, pc = "build",
         NEW n \in Files, ix \in AllNames(n),
         NEW s \in HardLinks, Counts(s, n), NEW t, t = Counted(s, ix)
  PROVE  /\ t \in HardLinks /\ t.ino = n /\ t.nlink = s.nlink /\ t.left = s.left - 1
         /\ s.left \in 1 .. s.nlink
         /\ SetOK(t)' /\ Members(t) = t.left .. t.nlink - 1 /\ Recorded(t) = Seen(n)'
         /\ (goal = "save" => t.left > 0) => Built(t, n)'
         /\ t.left = 0 => n \notin more /\ Seen(n)' = AllNames(n)
<1> USE DEF Counts
<1>1. PICK c : c = Cardinality(Seen(n)) /\ c \in Nat
  BY NamesSeen
<1>2. PICK all : all = Cardinality(AllNames(n)) /\ all \in Nat
  BY NamesCounted
<1>3. s.nlink = all + (IF n \in more THEN 1 ELSE 0) /\ s.left = s.nlink - c /\ s.nlink \in Nat
  BY <1>1, <1>2, NamesCounted
<1>4. /\ Seen(n)' = Seen(n) \cup {ix} /\ ix \notin Seen(n) /\ Cardinality(Seen(n)') = c + 1
      /\ c + 1 <= all /\ (c + 1 = all => Seen(n)' = AllNames(n)) /\ NLink(n)' = NLink(n)
  BY <1>1, <1>2, OneMoreSeen DEF Files
<1>5. s.left \in 1 .. s.nlink /\ s.left - 1 \in 0 .. s.nlink - 1
  BY ONLY <1>1, <1>2, <1>3, <1>4
<1>6. /\ t \in HardLinks /\ t.ino = n /\ t.nlink = s.nlink /\ t.left = s.left - 1
      /\ t.filex = [s.filex EXCEPT ![s.left - 1] = ix]
      /\ Members(t) = Members(s) \cup {s.left - 1}
  <2>1. PICK f \in Files : f = ix
    OBVIOUS
  <2>2. t = Counted(s, f)
    BY <2>1
  <2>3. /\ t \in HardLinks /\ t.ino = s.ino /\ t.nlink = s.nlink /\ t.left = s.left - 1
        /\ t.filex = [s.filex EXCEPT ![s.left - 1] = f]
        /\ Members(t) = Members(s) \cup {s.left - 1}
    BY ONLY <1>5, <2>2, CountedDown, s \in HardLinks, f \in Files
  <2> QED
    BY <2>1, <2>3
<1>7. Members(t) = t.left .. t.nlink - 1 /\ s.left - 1 \notin Members(s)
  <2>1. PICK a, b : a = s.left /\ b = s.nlink
    OBVIOUS
  <2>2. a \in 1 .. b /\ b \in Nat /\ Members(s) = a .. b - 1
    BY <1>3, <1>5, <2>1
  <2>3. Members(t) = (a .. b - 1) \cup {a - 1}
    BY <1>6, <2>1, <2>2
  <2>4. (a .. b - 1) \cup {a - 1} = a - 1 .. b - 1 /\ a - 1 \notin a .. b - 1
    BY ONLY <2>2
  <2> QED
    BY <1>6, <2>1, <2>2, <2>3, <2>4
<1>8. t.filex[s.left - 1] = ix /\ \A p \in Members(s) : t.filex[p] = s.filex[p]
  <2>1. s.left - 1 \in DOMAIN s.filex /\ Members(s) \subseteq DOMAIN s.filex
    BY <1>5, HardLink DEF Members, Places
  <2> QED
    BY <1>6, <1>7, <2>1
<1>9. Recorded(t) = Seen(n)'
  <2>1. Recorded(t) = {t.filex[p] : p \in Members(s) \cup {s.left - 1}}
    BY <1>6 DEF Recorded
  <2>2. Recorded(s) = {s.filex[p] : p \in Members(s)}
    BY DEF Recorded
  <2>3. Recorded(t) = Recorded(s) \cup {ix}
    BY ONLY <1>8, <2>1, <2>2
  <2> QED
    BY <1>4, <2>3
<1>10. ASSUME NEW p \in Members(t), NEW q \in Members(t)
       PROVE  ino[t.filex[p]] = n /\ (t.filex[p] = t.filex[q] => p = q)
  <2>1. t.filex[p] \in AllNames(n)
    <3>1. t.filex[p] \in Seen(n) \cup {ix}
      BY <1>4, <1>9 DEF Recorded
    <3> QED
      BY <3>1 DEF Seen
  <2>2. \A x \in Members(s) : s.filex[x] # ix
    BY <1>4 DEF Recorded
  <2>3. t.filex[p] = t.filex[q] => p = q
    BY <1>6, <1>8, <2>2
  <2> QED
    BY <2>1, <2>3 DEF AllNames
<1>11. SetOK(t)'
  <2>1. t.left \in 0 .. t.nlink
    BY <1>3, <1>5, <1>6
  <2>2. ino' = ino
    BY DEF given
  <2> QED
    BY <1>6, <1>7, <1>10, <2>1, <2>2 DEF SetOK
<1>12. ASSUME goal = "save" => t.left > 0 PROVE Built(t, n)'
  <2>1. t.left = t.nlink - Cardinality(Seen(n)') /\ t.left < t.nlink
    BY <1>1, <1>3, <1>4, <1>5, <1>6
  <2>2. goal' = goal
    BY DEF given
  <2> QED
    BY <1>4, <1>6, <1>9, <1>12, <2>1, <2>2 DEF Built
<1>13. ASSUME t.left = 0 PROVE n \notin more /\ Seen(n)' = AllNames(n)
  <2>1. c + 1 = s.nlink
    BY <1>1, <1>3, <1>6, <1>13
  <2> QED
    BY <1>2, <1>3, <1>4, <2>1
<1> QED
  BY <1>5, <1>6, <1>7, <1>9, <1>11, <1>12, <1>13

(* A set is what it was when the next file is none of its names.            *)
LEMMA SetStays ==
  ASSUME gone \subseteq Files, ix \in Nat, ix' = ix + 1, UNCHANGED <<given, pc>>,
         NEW s, ix \notin AllNames(s.ino), SetOK(s), Built(s, s.ino)
  PROVE  SetOK(s)' /\ Built(s, s.ino)'
<1>1. PICK n : n = s.ino
  OBVIOUS
<1>2. NLink(n)' = NLink(n) /\ Seen(n)' = Seen(n)
  BY <1>1, OneMoreSeen
<1>3. Built(s, n)'
  BY <1>1, <1>2 DEF Built, given
<1>4. SetOK(s)'
  BY DEF SetOK, given
<1> QED
  BY <1>1, <1>3, <1>4

(* A file that is gone is built.                                            *)
LEMMA BuildGone ==
  ASSUME FsmInv, pc = "build", ix <= NFiles, ix' = ix + 1, ix \in gone,
         payload' = Append(payload, Entry(ix, NoFile, 0, FALSE)), UNCHANGED links,
         UNCHANGED <<given, pc, i, pos, system, ec, blamed, result>>
  PROVE  FsmInv'
<1>1. /\ gone \subseteq Files /\ ix \in Files /\ Entries /\ payload \in Seq(Headers)
      /\ Archived = {f \in 1 .. ix - 1 : ~InSet(f)}
      /\ goal = "save" => \A f \in Archived \ gone : ino[f] \notin more
  BY FsmAssumption DEF FsmInv, Shapes, PayloadKnown, TypeOK, Files, Headers
<1>2. PICK h : h = Entry(ix, NoFile, 0, FALSE)
  OBVIOUS
<1>3. h \in Headers
  BY <1>1, <1>2, FsmAssumption DEF Entry, Headers, NoFile, Files
<1>4. PICK l \in Nat : l = Len(payload)
  BY <1>1
<1>5. /\ payload' \in Seq(Headers) /\ Len(payload') = l + 1
      /\ DOMAIN payload = 1 .. l /\ DOMAIN payload' = 1 .. l + 1
      /\ \A p \in 1 .. l : payload'[p] = payload[p]
      /\ payload'[l + 1] = h
  <2>1. payload' = Append(payload, h)
    BY <1>2
  <2> QED
    BY ONLY <1>1, <1>3, <1>4, <2>1
<1>6. Entries' /\ Archived' = Archived \cup {ix}
  <2>1. PICK f \in Files : f = ix
    BY <1>1
  <2>2. f \in gone /\ f \notin Archived
    BY <1>1, <2>1 DEF Files
  <2>3. payload'[l + 1] = Entry(f, NoFile, 0, FALSE)
    BY <1>2, <1>5, <2>1
  <2>4. Entries' /\ Archived' = Archived \cup {f}
    BY <1>1, <1>5, <2>2, <2>3, GoneAppended
  <2> QED
    BY <2>1, <2>4
<1>7. \A f : InSet(f)' <=> InSet(f)
  BY DEF InSet, NLink, Known, given
<1>8. Archived' = {f \in 1 .. ix' - 1 : ~InSet(f)'}
  <2>1. ~InSet(ix)
    BY DEF InSet
  <2>2. \A f : f \in 1 .. ix' - 1 <=> f \in 1 .. ix - 1 \/ f = ix
    BY <1>1 DEF Files
  <2> QED
    BY <1>1, <1>6, <1>7, <2>1, <2>2
<1>9. goal = "save" => \A f \in Archived' \ gone : ino[f] \notin more
  BY <1>1, <1>6
<1>10. links' \in Seq(HardLinks) /\ Distinct(links')
  BY BuiltSets
<1>11. ASSUME NEW k \in DOMAIN links', NEW s, s = links'[k] PROVE SetOK(s)' /\ Built(s, s.ino)'
  <2>1. SetOK(s) /\ Built(s, s.ino)
    BY <1>11, BuiltSets
  <2>2. ix \notin AllNames(s.ino)
    BY DEF AllNames
  <2>3. UNCHANGED <<given, pc>> /\ ix \in Nat
    BY <1>1 DEF Files
  <2> QED
    BY <1>1, <2>1, <2>2, <2>3, SetStays
<1>12. ix' \in 1 .. NFiles + 1 /\ Len(payload) <= Len(payload')
  BY <1>1, <1>4, <1>5, FsmAssumption DEF Files
<1> QED
  BY <1>5, <1>6, <1>8, <1>9, <1>10, <1>11, <1>12, BuildKept

(* A file that has no other name is built.                                  *)
LEMMA BuildSingle ==
  ASSUME FsmInv, pc = "build", ix <= NFiles, ix' = ix + 1, ix \notin gone,
         NLink(ino[ix]) = 1,
         payload' = Append(payload, Entry(ix, ino[ix], 1, Content(ino[ix]))), UNCHANGED links,
         UNCHANGED <<given, pc, i, pos, system, ec, blamed, result>>
  PROVE  FsmInv'
<1>1. /\ gone \subseteq Files /\ ix \in Files /\ Entries /\ payload \in Seq(Headers)
      /\ Archived = {f \in 1 .. ix - 1 : ~InSet(f)}
      /\ goal = "save" => \A f \in Archived \ gone : ino[f] \notin more
      /\ ino \in [Files -> Files]
  <2>1. TypeOK /\ Shapes /\ PayloadKnown
    BY DEF FsmInv
  <2>2. ix \in Files
    BY <2>1, FsmAssumption DEF TypeOK, Files
  <2>3. gone \subseteq Files /\ ino \in [Files -> Files] /\ payload \in Seq(Headers)
    BY <2>1 DEF Shapes, Headers
  <2> QED
    BY <2>1, <2>2, <2>3 DEF PayloadKnown
<1>2. PICK f \in Files, n \in Files : f = ix /\ n = ino[ix]
  BY <1>1
<1>3. PICK h : h = Entry(f, n, 1, Content(n))
  OBVIOUS
<1>4. /\ h \in Headers /\ h.file = f /\ h.ino = n /\ h.nlink = 1
      /\ h.full <=> Content(n)
  <2>1. PICK c \in BOOLEAN : c = Content(n)
    BY DEF Content
  <2>2. h = [file |-> f, ino |-> n, nlink |-> 1, full |-> c]
    BY <1>3, <2>1 DEF Entry
  <2>3. h \in Headers
    BY <2>2, FsmAssumption DEF Headers, Files
  <2>4. h.file = f /\ h.ino = n /\ h.nlink = 1 /\ h.full = c
    BY ONLY <2>2
  <2> QED
    BY ONLY <2>1, <2>3, <2>4
<1>5. PICK l \in Nat : l = Len(payload)
  BY <1>1
<1>6. payload' = Append(payload, h)
  BY <1>2, <1>3
<1>7. /\ payload' \in Seq(Headers) /\ Len(payload') = l + 1
      /\ DOMAIN payload = 1 .. l /\ DOMAIN payload' = 1 .. l + 1
      /\ \A p \in 1 .. l : payload'[p] = payload[p]
      /\ payload'[l + 1] = h
  BY ONLY <1>1, <1>4, <1>5, <1>6
<1>8. AllNames(n) = {f} /\ n \notin more
  <2>1. f \in AllNames(n)
    BY <1>1, <1>2 DEF AllNames
  <2> QED
    BY <1>1, <1>2, <2>1, NamesCounted
<1>9. Entries' /\ Archived' = Archived \cup {f}
  <2>1. PICK w : w = <<h>>
    OBVIOUS
  <2>2. w[1] = h /\ 1 .. 1 = {1}
    BY <2>1
  <2>3. \A x \in 1 .. 1 : x = 1
    OBVIOUS
  <2>4. Appended(w, l, 1)
    <3>1. ASSUME NEW p \in 1 .. l + 1, p \notin 1 .. l PROVE p - l \in 1 .. 1 /\ payload'[p] = w[p - l]
      <4>1. p = l + 1 /\ p - l = 1
        BY <3>1
      <4> QED
        BY <1>7, <2>2, <4>1
    <3> QED
      BY <1>7, <2>2, <2>3, <3>1 DEF Appended
  <2>5. HeadersOf(w, 1, n, AllNames(n))
    BY <1>4, <1>8, <2>2, <2>3 DEF HeadersOf
  <2>6. AllNames(n) \cap Archived = {}
    BY <1>1, <1>2, <1>8 DEF Files
  <2>7. Entries' /\ Archived' = Archived \cup AllNames(n)
    <3>1. UNCHANGED given /\ 1 \in Nat /\ 1 >= 1
      OBVIOUS
    <3> QED
      BY <1>1, <2>4, <2>5, <2>6, <3>1, BlockAppended
  <2> QED
    BY <1>8, <2>7
<1>10. \A g : InSet(g)' <=> InSet(g)
  BY DEF InSet, NLink, Known, given
<1>11. Archived' = {g \in 1 .. ix' - 1 : ~InSet(g)'}
  <2>1. ~InSet(f)
    BY <1>2 DEF InSet
  <2>2. \A g : g \in 1 .. ix' - 1 <=> g \in 1 .. ix - 1 \/ g = f
    BY <1>1, <1>2 DEF Files
  <2> QED
    BY <1>1, <1>9, <1>10, <2>1, <2>2
<1>12. goal = "save" => \A g \in Archived' \ gone : ino[g] \notin more
  BY <1>1, <1>2, <1>8, <1>9
<1>13. links' \in Seq(HardLinks) /\ Distinct(links')
  BY BuiltSets
<1>14. ASSUME NEW k \in DOMAIN links', NEW s, s = links'[k] PROVE SetOK(s)' /\ Built(s, s.ino)'
  <2>1. SetOK(s) /\ Built(s, s.ino)
    BY <1>14, BuiltSets
  <2>2. ix \notin AllNames(s.ino)
    <3>1. NLink(s.ino) > 1
      BY <2>1 DEF Built
    <3>2. s.ino # n
      BY <1>2, <3>1
    <3> QED
      BY <1>2, <3>2 DEF AllNames
  <2>3. UNCHANGED <<given, pc>> /\ ix \in Nat
    BY <1>1 DEF Files
  <2> QED
    BY <1>1, <2>1, <2>2, <2>3, SetStays
<1>15. ix' \in 1 .. NFiles + 1 /\ Len(payload) <= Len(payload')
  BY <1>1, <1>5, <1>7, FsmAssumption DEF Files
<1> QED
  BY <1>7, <1>9, <1>11, <1>12, <1>13, <1>14, <1>15, BuildKept

(* The next file is recorded in the set s of n, which was in place k.       *)
NextRecorded(n, known, k, s) ==
    /\ n \in Files /\ ix \in Files /\ ix \in AllNames(n)
    /\ s \in HardLinks /\ s.ino = n /\ s.nlink = NLink(n) /\ s.left \in 0 .. s.nlink - 1
    /\ SetOK(s)' /\ Members(s) = s.left .. s.nlink - 1 /\ Recorded(s) = Seen(n)'
    /\ (goal = "save" => s.left > 0) => Built(s, n)'
    /\ s.left = 0 => /\ n \notin more /\ Seen(n)' = AllNames(n)
                     /\ Known(n) /\ known = links /\ k \in DOMAIN links /\ links[k].ino = n
    /\ Stores([known EXCEPT ![k] = s], n, s)
    /\ AllNames(n) \cap Archived = {}

(* The set in which the next file, which has other names, is recorded.      *)
LEMMA SetOfNext ==
  ASSUME FsmInv, pc = "build", ix <= NFiles, ix' = ix + 1, ix \notin gone, UNCHANGED <<given, pc>>,
         NEW n, n = ino[ix], NLink(n) > 1,
         NEW known, known = WithSet(n, NLink(n), NLink(n)),
         NEW k, k = IF Known(n) THEN SetOf(n) ELSE 1,
         NEW s, s = Counted(known[k], ix)
  PROVE  NextRecorded(n, known, k, s)
<1>1. /\ gone \subseteq Files /\ ix \in Files /\ n \in Files
      /\ Archived = {f \in 1 .. ix - 1 : ~InSet(f)}
  <2>1. TypeOK /\ Shapes /\ PayloadKnown
    BY DEF FsmInv
  <2>2. ix \in Files
    BY <2>1, FsmAssumption DEF TypeOK, Files
  <2>3. gone \subseteq Files /\ ino \in [Files -> Files]
    BY <2>1 DEF Shapes
  <2> QED
    BY <2>1, <2>2, <2>3 DEF PayloadKnown
<1>2. ix \in AllNames(n)
  BY <1>1 DEF AllNames
<1>3. links \in Seq(HardLinks) /\ Distinct(links)
  BY BuiltSets
<1>4. PICK m \in 0 .. NFiles + 1 : m = NLink(n)
  BY <1>1, NamesCounted
<1>5. /\ k \in DOMAIN known /\ known[k].ino = n
      /\ Known(n) => known = links
      /\ ~Known(n) => known[k] = NewSet(n, m, m)
      /\ \A t : t \in HardLinks /\ t.ino = n => Stores([known EXCEPT ![k] = t], n, t)
  <2>1. m \in Int /\ known = WithSet(n, m, m)
    BY <1>4, FsmAssumption
  <2>2. Found(known, k, n, m, m)
    BY <1>1, <1>3, <2>1, SetFound
  <2> QED
    BY <2>2 DEF Found
<1>6. PICK u : u = known[k]
  OBVIOUS
<1>7. /\ u \in HardLinks /\ u.ino = n /\ u.nlink = NLink(n) /\ u.nlink > 1
      /\ u.left = u.nlink - Cardinality(Seen(n)) /\ Members(u) = u.left .. u.nlink - 1
      /\ Recorded(u) = Seen(n)
      /\ \A p, q \in Members(u) : u.filex[p] = u.filex[q] => p = q
  <2>1. CASE Known(n)
    <3>1. k \in DOMAIN links /\ u = links[k] /\ u.ino = n
      BY <1>5, <1>6, <2>1
    <3>2. u \in HardLinks /\ SetOK(u) /\ Built(u, n)
      BY <3>1, BuiltSets
    <3> QED
      BY <3>1, <3>2 DEF SetOK, Built
  <2>2. CASE ~Known(n)
    <3>1. u = NewSet(n, m, m)
      BY <1>5, <1>6, <2>2
    <3>2. u \in HardLinks /\ u.ino = n /\ u.nlink = m /\ u.left = m /\ Members(u) = {}
      BY <1>1, <3>1, ANewSet
    <3>3. Seen(n) = {}
      BY <1>1, <1>2, <2>2, WhereNamesAre
    <3>4. Recorded(u) = {}
      BY <3>2 DEF Recorded
    <3>5. Cardinality(Seen(n)) = 0
      BY <3>3, FS_EmptySet
    <3>6. m = m - 0 /\ m .. m - 1 = {}
      BY FsmAssumption
    <3> QED
      BY <1>4, <3>2, <3>3, <3>4, <3>5, <3>6
  <2> QED
    BY <2>1, <2>2
<1>8. s = Counted(u, ix)
  BY <1>6
<1>9. /\ s \in HardLinks /\ s.ino = n /\ s.nlink = u.nlink /\ s.left = u.left - 1
      /\ u.left \in 1 .. u.nlink
      /\ SetOK(s)' /\ Members(s) = s.left .. s.nlink - 1 /\ Recorded(s) = Seen(n)'
      /\ (goal = "save" => s.left > 0) => Built(s, n)'
      /\ s.left = 0 => n \notin more /\ Seen(n)' = AllNames(n)
  <2>1. UNCHANGED <<given, pc>> /\ pc = "build"
    OBVIOUS
  <2> QED
    <3>1. Counts(u, n) /\ u \in HardLinks /\ u.nlink > 1
      BY <1>7 DEF Counts
    <3> QED
      BY <1>1, <1>2, <1>8, <2>1, <3>1, NameRecorded
<1>10. Stores([known EXCEPT ![k] = s], n, s)
  BY <1>5, <1>9
<1>11. s.left \in 0 .. s.nlink - 1
  <2>1. u.nlink \in Nat
    BY <1>7, HardLink, FsmAssumption
  <2> QED
    BY ONLY <1>9, <2>1
<1>12. s.left = 0 => Known(n) /\ known = links /\ k \in DOMAIN links /\ links[k].ino = n
  <2> SUFFICES ASSUME s.left = 0 PROVE Known(n)
    BY <1>5
  <2>1. SUFFICES ASSUME ~Known(n) PROVE FALSE
    OBVIOUS
  <2>2. Seen(n) = {}
    BY <1>1, <1>2, <2>1, WhereNamesAre
  <2>3. u.left = u.nlink - 0
    BY <1>7, <2>2, FS_EmptySet
  <2>4. u.nlink \in Nat /\ u.nlink > 1 /\ 0 = u.left - 1
    BY <1>7, <1>9, HardLink, FsmAssumption
  <2> QED
    BY ONLY <2>3, <2>4
<1>13. AllNames(n) \cap Archived = {}
  <2>1. CASE Known(n)
    BY <1>1, <2>1, WhereNamesAre
  <2>2. CASE ~Known(n)
    <3>1. Seen(n) = {}
      BY <1>1, <1>2, <2>2, WhereNamesAre
    <3>2. \A f \in 1 .. ix - 1 : f < ix
      BY <1>1 DEF Files
    <3> QED
      BY <1>1, <3>1, <3>2 DEF Seen
  <2> QED
    BY <2>1, <2>2
<1> QED
  BY <1>1, <1>2, <1>7, <1>9, <1>10, <1>11, <1>12, <1>13 DEF NextRecorded

(* A name is recorded, and its set waits for more.                          *)
LEMMA BuildStored ==
  ASSUME FsmInv, pc = "build", ix <= NFiles, ix' = ix + 1, ix \notin gone,
         NEW n, n = ino[ix], NLink(n) > 1,
         NEW known, known = WithSet(n, NLink(n), NLink(n)),
         NEW k, k = IF Known(n) THEN SetOf(n) ELSE 1,
         NEW s, s = Counted(known[k], ix), goal = "save" => s.left # 0,
         links' = [known EXCEPT ![k] = s], UNCHANGED payload,
         UNCHANGED <<given, pc, i, pos, system, ec, blamed, result>>
  PROVE  FsmInv'
<1>1. /\ n \in Files /\ ix \in Files /\ ix \in AllNames(n)
      /\ s \in HardLinks /\ s.ino = n /\ s.left \in 0 .. s.nlink - 1
      /\ SetOK(s)' /\ ((goal = "save" => s.left > 0) => Built(s, n)')
      /\ Stores([known EXCEPT ![k] = s], n, s) /\ AllNames(n) \cap Archived = {}
  <2>1. UNCHANGED <<given, pc>>
    OBVIOUS
  <2> QED
    <3>1. NextRecorded(n, known, k, s)
      BY <2>1, SetOfNext
    <3> QED
      BY <3>1 DEF NextRecorded
<1>2. /\ gone \subseteq Files /\ Entries /\ payload \in Seq(Headers)
      /\ Archived = {f \in 1 .. ix - 1 : ~InSet(f)}
      /\ goal = "save" => \A f \in Archived \ gone : ino[f] \notin more
  BY DEF FsmInv, Shapes, PayloadKnown, Headers
<1>3. PICK list : list = links' /\ Stores(list, n, s)
  BY <1>1
<1>4. Built(s, n)'
  <2>1. goal = "save" => s.left > 0
    <3>1. s.left \in Nat
      BY ONLY <1>1, HardLink
    <3> QED
      BY <3>1
  <2> QED
    BY <1>1, <2>1
<1>5. ASSUME NEW x \in DOMAIN links', NEW t, t = links'[x] PROVE SetOK(t)' /\ Built(t, t.ino)'
  <2>1. CASE t = s
    BY <1>1, <1>4, <2>1
  <2>2. CASE t # s
    <3>1. PICK j \in DOMAIN links : links[j].ino # n /\ t = links[j]
      BY ONLY <1>3, <1>5, <2>2, x \in DOMAIN links' DEF Stores
    <3>2. SetOK(t) /\ Built(t, t.ino)
      BY <3>1, BuiltSets
    <3>3. ix \notin AllNames(t.ino)
      BY <3>1 DEF AllNames
    <3>4. UNCHANGED <<given, pc>> /\ ix \in Nat
      BY ONLY <1>1, UNCHANGED given, UNCHANGED pc DEF Files
    <3> QED
      BY <1>2, <3>2, <3>3, <3>4, SetStays
  <2> QED
    BY <2>1, <2>2
<1>6. NLink(n)' = NLink(n) /\ AllNames(n)' = AllNames(n)
  BY DEF NLink, AllNames, given
<1>7. \A g \in Files : g \notin AllNames(n) => (InSet(g)' <=> InSet(g))
  <2> SUFFICES ASSUME NEW g \in Files, g \notin AllNames(n), g \notin gone PROVE InSet(g)' <=> InSet(g)
    BY DEF InSet, given
  <2>1. PICK h : h = ino[g]
    OBVIOUS
  <2>2. h # n
    BY <2>1 DEF AllNames
  <2>3. Known(h)' <=> Known(h)
    <3>1. Known(h)' <=> \E x \in DOMAIN list : list[x].ino = h
      BY <1>3 DEF Known
    <3>2. \A x \in DOMAIN list : list[x].ino = h => \E j \in DOMAIN links : list[x] = links[j]
      BY ONLY <1>1, <1>3, <2>2 DEF Stores
    <3>3. \A j \in DOMAIN links : links[j].ino = h => \E x \in DOMAIN list : list[x] = links[j]
      BY ONLY <1>3, <2>2 DEF Stores
    <3> QED
      BY ONLY <3>1, <3>2, <3>3 DEF Known
  <2>4. NLink(h)' = NLink(h)
    BY DEF NLink, given
  <2> QED
    BY <2>1, <2>3, <2>4 DEF InSet, given
<1>8. \A g \in AllNames(n) : InSet(g)'
  <2>1. Known(n)'
    BY ONLY <1>1, <1>3 DEF Stores, Known
  <2> QED
    BY <1>1, <1>6, <2>1 DEF InSet, AllNames, given
<1>9. Archived' = {g \in 1 .. ix' - 1 : ~InSet(g)'}
  <2>1. Archived' = Archived
    BY DEF Archived
  <2>2. \A g : g \in 1 .. ix' - 1 <=> g \in 1 .. ix - 1 \/ g = ix
    BY ONLY <1>1, ix' = ix + 1 DEF Files
  <2>3. 1 .. ix - 1 \subseteq Files
    BY ONLY <1>1, FsmAssumption DEF Files
  <2>4. \A g : g = ix => InSet(g)'
    BY <1>1, <1>8
  <2>5. \A g \in 1 .. ix - 1 : g \in Archived <=> ~InSet(g)'
    BY <1>1, <1>2, <1>7, <1>8, <2>3
  <2>6. Archived \subseteq 1 .. ix - 1
    BY <1>2
  <2> QED
    BY ONLY <2>1, <2>2, <2>4, <2>5, <2>6
<1>10. Entries' /\ (goal = "save" => \A g \in Archived' \ gone : ino[g] \notin more)
  <2>1. Entries'
    <3>1. Entries /\ UNCHANGED payload /\ UNCHANGED <<gone, ino, empty>>
      BY <1>2 DEF given
    <3> QED
      BY <3>1, EntriesStay
  <2> QED
    BY <1>2, <2>1 DEF Archived
<1>11. ix' \in 1 .. NFiles + 1 /\ payload' \in Seq(Headers) /\ Len(payload) <= Len(payload')
  BY ONLY <1>1, <1>2, FsmAssumption, ix' = ix + 1, UNCHANGED payload DEF Files
<1>12. links' \in Seq(HardLinks) /\ Distinct(links')
  BY <1>3 DEF Stores
<1> QED
  BY <1>5, <1>9, <1>10, <1>11, <1>12, BuildKept

(* The sets that are left when the set of n is taken out.                   *)
LEMMA InSetForgotten ==
  ASSUME NEW n, Forgets(links', n), UNCHANGED given, ino \in [Files -> Files], NEW g \in Files
  PROVE  InSet(g)' <=> InSet(g) /\ ino[g] # n
<1>1. PICK list : list = links' /\ Forgets(list, n)
  OBVIOUS
<1>2. PICK h : h = ino[g]
  OBVIOUS
<1>3. Known(h)' <=> Known(h) /\ h # n
  <2>1. Known(h)' <=> \E x \in DOMAIN list : list[x].ino = h
    BY <1>1 DEF Known
  <2>2. \A x \in DOMAIN list : \E j \in DOMAIN links : links[j].ino # n /\ list[x] = links[j]
    BY <1>1 DEF Forgets
  <2>3. \A j \in DOMAIN links : links[j].ino # n => \E x \in DOMAIN list : list[x] = links[j]
    BY <1>1 DEF Forgets
  <2> QED
    BY ONLY <2>1, <2>2, <2>3 DEF Known
<1>4. NLink(h)' = NLink(h) /\ ino' = ino /\ gone' = gone
  BY DEF NLink, given
<1>5. InSet(g) <=> g \notin gone /\ NLink(h) > 1 /\ Known(h)
  <2>1. h \in Files
    BY <1>2
  <2> QED
    BY <1>2, <2>1 DEF InSet
<1>6. InSet(g)' <=> g \notin gone /\ NLink(h)' > 1 /\ Known(h)'
  <2>1. h \in Files /\ h = ino'[g] /\ gone' = gone
    BY <1>2, <1>4
  <2> QED
    BY ONLY <2>1 DEF InSet
<1> QED
  BY <1>2, <1>3, <1>4, <1>5, <1>6

(* A set that has all names of its inode is appended.                       *)
LEMMA SetAppended ==
  ASSUME Entries, payload \in Seq(Headers), UNCHANGED given, NEW n \in Files,
         NEW s \in HardLinks, s.ino = n, NEW a \in Nat, NEW b \in Int, 1 <= a, a <= b + 1,
         Members(s) = {0} \cup a .. b,
         \A p, q \in Members(s) : s.filex[p] = s.filex[q] => p = q,
         Recorded(s) = AllNames(n), AllNames(n) \cap Archived = {},
         payload' = payload \o WriteLinked(s, Cardinality(Members(s)))
  PROVE  /\ payload' \in Seq(Headers) /\ Len(payload) <= Len(payload')
         /\ Entries' /\ Archived' = Archived \cup AllNames(n)
<1>1. PICK m, w : m = Cardinality(Members(s)) /\ w = WriteLinked(s, m)
  OBVIOUS
<1>2. PICK S : S = Members(s) /\ S = {0} \cup a .. b
  OBVIOUS
<1>3. m \in Nat /\ m >= 1 /\ w \in Seq(Headers) /\ Len(w) = m /\ HeadersOf(w, m, n, AllNames(n))
  <2>1. m \in Nat /\ m >= 1 /\ w \in Seq(Headers) /\ Len(w) = m /\ HeadersOf(w, m, s.ino, Recorded(s))
    BY <1>1, SetWritten, Zenon
  <2> QED
    BY <2>1
<1>4. PICK l \in Nat : l = Len(payload)
  OBVIOUS
<1>5. payload' \in Seq(Headers) /\ Len(payload') = l + m /\ Appended(w, l, m)
  <2>1. payload' = payload \o w /\ payload \in Seq(Headers)
    BY <1>1
  <2> QED
    BY ONLY <1>3, <1>4, <2>1, PayloadExtended
<1>6. Entries /\ UNCHANGED given /\ n \in Files /\ AllNames(n) \cap Archived = {}
  OBVIOUS
<1>7. Entries' /\ Archived' = Archived \cup AllNames(n)
  BY ONLY <1>3, <1>4, <1>5, <1>6, BlockAppended
<1> QED
  BY ONLY <1>3, <1>4, <1>5, <1>7

(* The last name of a set is recorded, and the set is written.              *)
LEMMA BuildComplete ==
  ASSUME FsmInv, pc = "build", ix <= NFiles, ix' = ix + 1, ix \notin gone,
         NEW n, n = ino[ix], NLink(n) > 1,
         NEW known, known = WithSet(n, NLink(n), NLink(n)),
         NEW k, k = IF Known(n) THEN SetOf(n) ELSE 1,
         NEW s, s = Counted(known[k], ix), goal = "save", s.left = 0,
         payload' = payload \o WriteLinked(s, s.nlink),
         links' = SubSeq(known, 1, k - 1) \o SubSeq(known, k + 1, Len(known)),
         UNCHANGED <<given, pc, i, pos, system, ec, blamed, result>>
  PROVE  FsmInv'
<1>1. /\ n \in Files /\ ix \in Files /\ ix \in AllNames(n)
      /\ s \in HardLinks /\ s.ino = n /\ s.nlink = NLink(n)
      /\ SetOK(s)' /\ Members(s) = 0 .. s.nlink - 1 /\ Recorded(s) = AllNames(n)
      /\ n \notin more /\ known = links /\ k \in DOMAIN links /\ links[k].ino = n
      /\ AllNames(n) \cap Archived = {} /\ Recorded(s) = Seen(n)'
  <2>1. /\ FsmInv /\ pc = "build" /\ ix <= NFiles /\ ix' = ix + 1 /\ ix \notin gone
        /\ UNCHANGED <<given, pc>> /\ n = ino[ix] /\ NLink(n) > 1
        /\ known = WithSet(n, NLink(n), NLink(n)) /\ k = IF Known(n) THEN SetOf(n) ELSE 1
        /\ s = Counted(known[k], ix)
    OBVIOUS
  <2>2. /\ n \in Files /\ ix \in Files /\ ix \in AllNames(n)
        /\ s \in HardLinks /\ s.ino = n /\ s.nlink = NLink(n)
        /\ SetOK(s)' /\ Members(s) = s.left .. s.nlink - 1 /\ Recorded(s) = Seen(n)'
        /\ s.left = 0 => /\ n \notin more /\ Seen(n)' = AllNames(n)
                         /\ Known(n) /\ known = links /\ k \in DOMAIN links /\ links[k].ino = n
        /\ AllNames(n) \cap Archived = {}
    <3>1. NextRecorded(n, known, k, s)
      BY ONLY <2>1, SetOfNext
    <3> QED
      BY <3>1 DEF NextRecorded
  <2> QED
    BY <2>2
<1>2. /\ gone \subseteq Files /\ Entries /\ payload \in Seq(Headers) /\ ino \in [Files -> Files]
      /\ Archived = {f \in 1 .. ix - 1 : ~InSet(f)}
      /\ goal = "save" => \A f \in Archived \ gone : ino[f] \notin more
  BY DEF FsmInv, Shapes, PayloadKnown, Headers
<1>3. /\ payload' \in Seq(Headers) /\ Len(payload) <= Len(payload')
      /\ Entries' /\ Archived' = Archived \cup AllNames(n)
  <2>1. PICK m : m \in Nat /\ m = s.nlink /\ m > 1
    <3>1. s.nlink \in 0 .. NFiles + 1 /\ NFiles \in Nat
      BY ONLY <1>1, HardLink, FsmAssumption
    <3>2. s.nlink > 1
      BY <1>1
    <3> QED
      BY ONLY <3>1, <3>2
  <2>2. /\ 0 .. m - 1 = {0} \cup 1 .. m - 1 /\ Cardinality(0 .. m - 1) = m
        /\ m - 1 \in Int /\ 1 <= m - 1 + 1
    BY ONLY <2>1, PlacesFromZero
  <2>3. Members(s) = {0} \cup 1 .. m - 1 /\ Cardinality(Members(s)) = s.nlink
    BY <1>1, <2>1, <2>2
  <2>4. \A p, q \in Members(s) : s.filex[p] = s.filex[q] => p = q
    BY ONLY <1>1 DEF SetOK
  <2>5. payload' = payload \o WriteLinked(s, Cardinality(Members(s)))
    BY <2>3
  <2>6. 1 \in Nat /\ 1 <= 1
    BY ONLY 1 \in {1}
  <2>7. UNCHANGED given
    OBVIOUS
  <2> QED
    BY ONLY <1>1, <1>2, <2>2, <2>3, <2>7, <2>4, <2>5, <2>6, SetAppended
<1>4. Forgets(links', n)
  <2>1. PICK list : list = links'
    OBVIOUS
  <2>2. list = SubSeq(links, 1, k - 1) \o SubSeq(links, k + 1, Len(links))
    BY <1>1, <2>1
  <2>3. links \in Seq(HardLinks) /\ Distinct(links)
    BY BuiltSets
  <2> QED
    BY ONLY <1>1, <2>1, <2>2, <2>3, SetRemoved
<1>5. ASSUME NEW x \in DOMAIN links', NEW t, t = links'[x] PROVE SetOK(t)' /\ Built(t, t.ino)'
  <2>1. PICK j \in DOMAIN links : links[j].ino # n /\ links'[x] = links[j]
    <3>1. x \in DOMAIN links'
      OBVIOUS
    <3> QED
      BY ONLY <1>4, <3>1 DEF Forgets
  <2>2. SetOK(t) /\ Built(t, t.ino)
    BY <1>5, <2>1, BuiltSets
  <2>3. ix \notin AllNames(t.ino)
    BY <1>5, <2>1 DEF AllNames
  <2>4. UNCHANGED <<given, pc>> /\ ix \in Nat
    BY ONLY <1>1, UNCHANGED given, UNCHANGED pc DEF Files
  <2> QED
    BY <1>2, <2>2, <2>3, <2>4, SetStays
<1>6. \A g \in Files : InSet(g)' <=> InSet(g) /\ ino[g] # n
  BY <1>2, <1>4, InSetForgotten
<1>7. Archived' = {g \in 1 .. ix' - 1 : ~InSet(g)'}
  <2>1. \A g : g \in 1 .. ix' - 1 <=> g \in 1 .. ix - 1 \/ g = ix
    BY ONLY <1>1, ix' = ix + 1 DEF Files
  <2>2. 1 .. ix - 1 \subseteq Files
    BY ONLY <1>1, FsmAssumption DEF Files
  <2>3. \A g \in AllNames(n) : ino[g] = n /\ g \in Files /\ g \notin gone
    BY DEF AllNames
  <2>4. \A g \in Files : ino[g] = n /\ g \notin AllNames(n) => g \in gone
    BY DEF AllNames
  <2>5. \A g \in gone : ~InSet(g)
    BY DEF InSet
  <2>6. Recorded(s) = Seen(n)'
    BY <1>1
  <2>7. AllNames(n) \subseteq 1 .. ix' - 1
    <3>1. \A g \in Seen(n)' : g \in Files /\ g < ix'
      BY DEF Seen, AllNames
    <3> QED
      BY ONLY <1>1, <2>6, <3>1, ix' = ix + 1 DEF Files
  <2>8. \A g \in 1 .. ix' - 1 : g \in Files
    BY <1>1, <2>1, <2>2
  <2>9. ix \in AllNames(n)
    BY <1>1
  <2> QED
    BY ONLY <1>2, <1>3, <1>6, <2>1, <2>3, <2>4, <2>5, <2>7, <2>8, <2>9
<1>8. goal = "save" => \A g \in Archived' \ gone : ino[g] \notin more
  BY <1>1, <1>2, <1>3 DEF AllNames
<1>9. ix' \in 1 .. NFiles + 1
  BY ONLY <1>1, FsmAssumption, ix' = ix + 1 DEF Files
<1>10. links' \in Seq(HardLinks) /\ Distinct(links')
  BY <1>4 DEF Forgets
<1> QED
  BY <1>3, <1>5, <1>7, <1>8, <1>9, <1>10, BuildKept

(* A file is built.                                                         *)
LEMMA BuildFileKeeps ==
  ASSUME FsmInv, BuildFile
  PROVE  FsmInv'
<1> DEFINE n == ino[ix]
           known == WithSet(n, NLink(n), NLink(n))
           k == IF Known(n) THEN SetOf(n) ELSE 1
           s == Counted(known[k], ix)
<1>1. \/ /\ ix \in gone
         /\ payload' = Append(payload, Entry(ix, NoFile, 0, FALSE))
         /\ UNCHANGED links
      \/ /\ ix \notin gone /\ NLink(n) = 1
         /\ payload' = Append(payload, Entry(ix, n, 1, Content(n)))
         /\ UNCHANGED links
      \/ /\ ix \notin gone /\ NLink(n) > 1
         /\ IF goal = "save" /\ s.left = 0
            THEN /\ payload' = payload \o WriteLinked(s, s.nlink)
                 /\ links' = SubSeq(known, 1, k - 1) \o SubSeq(known, k + 1, Len(known))
            ELSE /\ links' = [known EXCEPT ![k] = s]
                 /\ UNCHANGED payload
  BY Zenon DEF BuildFile
<1>2. PICK nn : nn = n
  OBVIOUS
<1>3. PICK kn : kn = known /\ kn = WithSet(nn, NLink(nn), NLink(nn))
  BY <1>2
<1>4. PICK kk : kk = k /\ kk = IF Known(nn) THEN SetOf(nn) ELSE 1
  BY <1>2
<1> HIDE DEF k
<1>5. PICK ss : ss = s /\ ss = Counted(kn[kk], ix)
  BY <1>3, <1>4
<1>6. /\ pc = "build" /\ ix <= NFiles /\ ix' = ix + 1
      /\ UNCHANGED <<given, pc, i, pos, system, ec, blamed, result>>
  BY DEF BuildFile
<1> HIDE DEF s, known
<1>7. CASE ix \in gone /\ payload' = Append(payload, Entry(ix, NoFile, 0, FALSE)) /\ UNCHANGED links
  BY ONLY <1>6, <1>7, BuildGone, FsmInv
<1>8. CASE /\ ix \notin gone /\ NLink(n) = 1
           /\ payload' = Append(payload, Entry(ix, n, 1, Content(n))) /\ UNCHANGED links
  BY ONLY <1>6, <1>8, BuildSingle, FsmInv
<1> HIDE DEF n
<1>9. CASE /\ ix \notin gone /\ NLink(n) > 1 /\ goal = "save" /\ s.left = 0
           /\ payload' = payload \o WriteLinked(s, s.nlink)
           /\ links' = SubSeq(known, 1, k - 1) \o SubSeq(known, k + 1, Len(known))
  <2>1. /\ ix \notin gone /\ NLink(nn) > 1 /\ goal = "save" /\ ss.left = 0
        /\ payload' = payload \o WriteLinked(ss, ss.nlink)
        /\ links' = SubSeq(kn, 1, kk - 1) \o SubSeq(kn, kk + 1, Len(kn))
    BY ONLY <1>2, <1>3, <1>4, <1>5, <1>9
  <2>2. nn = ino[ix]
    BY <1>2 DEF n
  <2> QED
    BY ONLY <1>3, <1>4, <1>5, <1>6, <2>1, <2>2, BuildComplete, FsmInv
<1>10. CASE /\ ix \notin gone /\ NLink(n) > 1 /\ ~(goal = "save" /\ s.left = 0)
           /\ links' = [known EXCEPT ![k] = s] /\ UNCHANGED payload
  <2>1. /\ ix \notin gone /\ NLink(nn) > 1 /\ (goal = "save" => ss.left # 0)
        /\ links' = [kn EXCEPT ![kk] = ss] /\ UNCHANGED payload
    BY ONLY <1>2, <1>3, <1>4, <1>5, <1>10
  <2>2. nn = ino[ix]
    BY <1>2 DEF n
  <2> QED
    BY ONLY <1>3, <1>4, <1>5, <1>6, <2>1, <2>2, BuildStored, FsmInv
<1> QED
  BY <1>1, <1>7, <1>8, <1>9, <1>10, Zenon

(* The names of a set are moved to its start: it has the same names.        *)
LEMMA MovedToStart ==
  ASSUME NEW h \in HardLinks, h.left \in 0 .. h.nlink - 1, Members(h) = h.left .. h.nlink - 1,
         \A p, q \in Members(h) : h.filex[p] = h.filex[q] => p = q,
         NEW s, s = Renumbered(h)
  PROVE  /\ s \in HardLinks /\ s.ino = h.ino
         /\ Members(s) = {0} \cup h.left + 1 .. h.nlink - 1
         /\ \A p, q \in Members(s) : s.filex[p] = s.filex[q] => p = q
         /\ Recorded(s) = Recorded(h)
<1>1. PICK n \in Files, m \in 0 .. NFiles + 1, l \in Int, x \in Int, g \in [Places(h) -> 0 .. NFiles] :
          h = [ino |-> n, nlink |-> m, left |-> l, index |-> x, filex |-> g]
  BY HardLink
<1>2. /\ h.ino = n /\ h.nlink = m /\ h.left = l /\ h.index = x /\ h.filex = g
      /\ g \in [0 .. m - 1 -> 0 .. NFiles] /\ m \in Nat /\ l \in 0 .. m - 1
      /\ Members(h) = l .. m - 1
  BY <1>1, FsmAssumption DEF Places
<1>3. Min(Members(h)) = l
  BY <1>2, Ends
<1>4. PICK y \in 0 .. NFiles : y = g[l]
  BY <1>2
<1>5. PICK r : r = [[g EXCEPT ![l] = Free] EXCEPT ![0] = y]
  OBVIOUS
<1>6. r \in [0 .. m - 1 -> 0 .. NFiles] /\ \A k \in 0 .. m - 1 :
          r[k] = IF k = 0 THEN y ELSE IF k = l THEN Free ELSE g[k]
  BY ONLY <1>2, <1>4, <1>5, FsmAssumption DEF Free
<1>7. s = [ino |-> n, nlink |-> m, left |-> l, index |-> x, filex |-> r]
  <2>1. s = [h EXCEPT !.filex = [@ EXCEPT ![l] = Free, ![0] = h.filex[l]]]
    BY <1>3 DEF Renumbered
  <2>2. s = [h EXCEPT !.filex = [[g EXCEPT ![l] = Free] EXCEPT ![0] = y]]
    BY <1>2, <1>4, <2>1
  <2> QED
    BY <1>1, <1>5, <2>2
<1>8. s \in HardLinks /\ s.ino = n /\ s.nlink = m /\ s.filex = r
  BY <1>6, <1>7, AHardLink
<1>9. \A k \in 0 .. m - 1 : g[k] # Free <=> k \in l .. m - 1
  BY <1>2 DEF Members
<1>10. Members(s) = {0} \cup l + 1 .. m - 1
  <2>1. Members(s) = {k \in 0 .. m - 1 : r[k] # Free}
    BY <1>8 DEF Members
  <2>2. y # Free
    BY <1>2, <1>4, <1>9
  <2>3. \A k \in 0 .. m - 1 : r[k] # Free <=> k = 0 \/ k \in l + 1 .. m - 1
    BY <1>2, <1>6, <1>9, <2>2
  <2> QED
    BY ONLY <1>2, <2>1, <2>3
<1>11. ASSUME NEW p \in Members(s), NEW q \in Members(s), s.filex[p] = s.filex[q] PROVE p = q
  <2> DEFINE at(k) == IF k = 0 THEN l ELSE k
  <2>1. ASSUME NEW k \in Members(s) PROVE at(k) \in Members(h) /\ s.filex[k] = h.filex[at(k)]
    <3>1. CASE k = 0
      BY ONLY <1>2, <1>4, <1>6, <1>8, <1>10, <3>1
    <3>2. CASE k # 0
      <4>1. k \in l + 1 .. m - 1
        BY <1>2, <1>10, <3>2
      <4> QED
        BY ONLY <1>2, <1>6, <1>8, <3>2, <4>1
    <3> QED
      BY <3>1, <3>2
  <2>2. at(p) = at(q)
    BY <1>11, <2>1
  <2> QED
    BY ONLY <1>2, <1>10, <2>2, p \in Members(s), q \in Members(s)
<1>12. Recorded(s) = Recorded(h)
  <2>1. \A k \in Members(s) : \E z \in Members(h) : s.filex[k] = h.filex[z]
    BY ONLY <1>2, <1>4, <1>6, <1>8, <1>10
  <2>2. \A z \in Members(h) : \E k \in Members(s) : s.filex[k] = h.filex[z]
    <3> SUFFICES ASSUME NEW z \in Members(h) PROVE \E k \in Members(s) : s.filex[k] = h.filex[z]
      OBVIOUS
    <3>1. CASE z = l
      BY ONLY <1>2, <1>4, <1>6, <1>8, <1>10, <3>1
    <3>2. CASE z # l
      <4>1. z \in Members(s) /\ z # 0
        BY ONLY <1>2, <1>10, <3>2, z \in Members(h)
      <4> QED
        BY ONLY <1>2, <1>6, <1>8, <1>10, <3>2, <4>1
    <3> QED
      BY <3>1, <3>2
  <2> QED
    BY ONLY <2>1, <2>2 DEF Recorded
<1> QED
  BY <1>2, <1>8, <1>10, <1>11, <1>12

(* The first set is taken out of the list.                                  *)
LEMMA FirstRemoved ==
  ASSUME links \in Seq(HardLinks), Distinct(links), links # <<>>, NEW h, h = Head(links)
  PROVE  1 \in DOMAIN links /\ links[1] = h /\ Forgets(Tail(links), h.ino)
<1>1. PICK n \in Nat : n = Len(links) /\ DOMAIN links = 1 .. n /\ n >= 1
  OBVIOUS
<1>2. h = links[1]
  OBVIOUS
<1>3. PICK list : list = Tail(links)
  OBVIOUS
<1>4. /\ list \in Seq(HardLinks) /\ DOMAIN list = 1 .. n - 1
      /\ \A x \in 1 .. n - 1 : list[x] = links[x + 1]
  BY <1>1, <1>3
<1>5. \A x \in 1 .. n - 1 : x + 1 \in 1 .. n /\ x + 1 # 1
  BY <1>1
<1>6. \A y \in 1 .. n : y # 1 => y - 1 \in 1 .. n - 1 /\ y - 1 + 1 = y
  BY <1>1
<1>7. \A x, y \in 1 .. n - 1 : x + 1 = y + 1 => x = y
  OBVIOUS
<1>8. 1 \in 1 .. n
  BY <1>1
<1>9. \A x, y \in 1 .. n : links[x].ino = links[y].ino => x = y
  BY <1>1 DEF Distinct
<1>10. Distinct(list)
  <2>1. ASSUME NEW x \in 1 .. n - 1, NEW y \in 1 .. n - 1, list[x].ino = list[y].ino
        PROVE  x = y
    <3>1. x + 1 \in 1 .. n /\ y + 1 \in 1 .. n /\ links[x + 1].ino = links[y + 1].ino
      BY <1>4, <1>5, <2>1
    <3>2. x + 1 = y + 1
      BY ONLY <1>9, <3>1
    <3> QED
      BY <1>7, <3>2
  <2> QED
    BY ONLY <1>4, <2>1 DEF Distinct
<1>11. ASSUME NEW x \in 1 .. n - 1 PROVE \E j \in 1 .. n : links[j].ino # h.ino /\ list[x] = links[j]
  BY ONLY <1>2, <1>4, <1>5, <1>8, <1>9, x \in 1 .. n - 1
<1>12. ASSUME NEW j \in 1 .. n, links[j].ino # h.ino PROVE \E x \in 1 .. n - 1 : list[x] = links[j]
  BY ONLY <1>2, <1>4, <1>6, <1>12
<1>13. Forgets(list, h.ino)
  <2>1. DOMAIN list = 1 .. n - 1 /\ DOMAIN links = 1 .. n
    BY ONLY <1>1, <1>4
  <2>2. \A k \in DOMAIN list : \E j \in DOMAIN links : links[j].ino # h.ino /\ list[k] = links[j]
    BY ONLY <1>11, <2>1, Zenon
  <2>3. \A j \in DOMAIN links : links[j].ino # h.ino => \E k \in DOMAIN list : list[k] = links[j]
    BY ONLY <1>12, <2>1, Zenon
  <2> QED
    BY ONLY <1>4, <1>10, <2>2, <2>3 DEF Forgets
<1> QED
  BY ONLY <1>1, <1>2, <1>3, <1>8, <1>13

(* A set that is left is written.                                           *)
LEMMA FlushSetKeeps ==
  ASSUME FsmInv, FlushSet
  PROVE  FsmInv'
<1>1. PICK h, s : h = Head(links) /\ s = Renumbered(h)
  OBVIOUS
<1>2. /\ pc = "build" /\ ix > NFiles /\ goal = "build" /\ links # <<>>
      /\ payload' = payload \o WriteLinked(s, Cardinality(Members(s)))
      /\ links' = Tail(links) /\ UNCHANGED ix
      /\ UNCHANGED <<given, pc, i, pos, system, ec, blamed, result>>
  BY <1>1 DEF FlushSet
<1>3. links \in Seq(HardLinks) /\ Distinct(links)
  BY <1>2, BuiltSets
<1>4. 1 \in DOMAIN links /\ links[1] = h /\ Forgets(Tail(links), h.ino)
  BY <1>1, <1>2, <1>3, FirstRemoved
<1>5. PICK n \in Files : n = h.ino /\ h \in HardLinks /\ SetOK(h) /\ Built(h, n)
  BY <1>2, <1>4, BuiltSets
<1>6. /\ gone \subseteq Files /\ Entries /\ payload \in Seq(Headers) /\ ino \in [Files -> Files]
      /\ Archived = {f \in 1 .. ix - 1 : ~InSet(f)} /\ ix = NFiles + 1
  <2>1. ix = NFiles + 1
    BY <1>2, FsmAssumption DEF FsmInv, TypeOK
  <2> QED
    BY <1>2, <2>1 DEF FsmInv, Shapes, PayloadKnown, Headers
<1>7. Seen(n) = AllNames(n)
  BY <1>6, FsmAssumption DEF Seen, AllNames, Files
<1>8. /\ h.left \in 0 .. h.nlink - 1 /\ Members(h) = h.left .. h.nlink - 1
      /\ h.nlink \in Nat /\ Recorded(h) = AllNames(n) /\ NLink(n) > 1
      /\ \A p, q \in Members(h) : h.filex[p] = h.filex[q] => p = q
  <2>1. h.nlink \in Nat
    BY <1>5, HardLink, FsmAssumption
  <2> QED
    BY <1>2, <1>5, <1>7, <2>1 DEF SetOK, Built
<1>9. /\ s \in HardLinks /\ s.ino = n
      /\ Members(s) = {0} \cup h.left + 1 .. h.nlink - 1
      /\ \A p, q \in Members(s) : s.filex[p] = s.filex[q] => p = q
      /\ Recorded(s) = AllNames(n)
  <2>1. s = Renumbered(h) /\ h \in HardLinks
    BY <1>1, <1>5
  <2> QED
    BY ONLY <1>5, <1>8, <2>1, MovedToStart
<1>10. Known(n) /\ AllNames(n) \cap Archived = {}
  <2>1. Known(n)
    BY <1>4, <1>5 DEF Known
  <2> QED
    BY <1>2, <1>8, <2>1, WhereNamesAre
<1>11. /\ payload' \in Seq(Headers) /\ Len(payload) <= Len(payload')
       /\ Entries' /\ Archived' = Archived \cup AllNames(n)
  <2>1. PICK a \in Nat, b \in Int : a = h.left + 1 /\ b = h.nlink - 1 /\ 1 <= a /\ a <= b + 1
    BY <1>8
  <2>2. Members(s) = {0} \cup a .. b
    BY <1>9, <2>1
  <2>3. UNCHANGED given /\ payload' = payload \o WriteLinked(s, Cardinality(Members(s)))
    BY <1>2
  <2> QED
    BY ONLY <1>6, <1>9, <1>10, <2>1, <2>2, <2>3, n \in Files, SetAppended
<1>12. Forgets(links', n)
  BY <1>2, <1>4, <1>5
<1>13. ASSUME NEW x \in DOMAIN links', NEW t, t = links'[x] PROVE SetOK(t)' /\ Built(t, t.ino)'
  <2>1. PICK j \in DOMAIN links : links[j].ino # n /\ t = links[j]
    BY <1>12, <1>13 DEF Forgets
  <2>2. SetOK(t) /\ Built(t, t.ino)
    BY <1>2, <2>1, BuiltSets
  <2>3. Seen(t.ino)' = Seen(t.ino) /\ NLink(t.ino)' = NLink(t.ino)
    BY <1>2 DEF Seen, AllNames, NLink, given
  <2>4. goal' = goal /\ ino' = ino /\ pc' = pc
    BY <1>2 DEF given
  <2> QED
    BY ONLY <2>2, <2>3, <2>4 DEF SetOK, Built
<1>14. \A g \in Files : InSet(g)' <=> InSet(g) /\ ino[g] # n
  BY <1>2, <1>6, <1>12, InSetForgotten
<1>15. Archived' = {g \in 1 .. ix' - 1 : ~InSet(g)'}
  <2>1. \A g \in AllNames(n) : ino[g] = n /\ g \in Files /\ g \notin gone
    BY DEF AllNames
  <2>2. \A g \in Files : ino[g] = n /\ g \notin AllNames(n) => g \in gone
    BY DEF AllNames
  <2>3. \A g \in gone : ~InSet(g)
    BY DEF InSet
  <2>4. 1 .. ix' - 1 = Files /\ 1 .. ix - 1 = Files
    BY <1>2, <1>6, FsmAssumption DEF Files
  <2> QED
    BY ONLY <1>6, <1>11, <1>14, <2>1, <2>2, <2>3, <2>4
<1>16. links' \in Seq(HardLinks) /\ Distinct(links')
  BY <1>12 DEF Forgets
<1>17. ix' \in 1 .. NFiles + 1 /\ (goal = "save" => \A f \in Archived' \ gone : ino[f] \notin more)
  BY <1>2, <1>6, FsmAssumption
<1> QED
  BY ONLY <1>2, <1>11, <1>13, <1>15, <1>16, <1>17, FsmInv, BuildKept

-----------------------------------------------------------------------------
(* The payload that was made.                                               *)

(* The headers of an inode are from its first to its last.                  *)
Framed(n) ==
    /\ First(n) \in DOMAIN payload /\ Last(n) \in DOMAIN payload /\ First(n) <= Last(n)
    /\ Same(n) = First(n) .. Last(n)
    /\ \A p \in First(n) .. Last(n) :
          /\ p \in DOMAIN payload /\ payload[p].ino = n /\ payload[p].nlink = Last(n) - First(n) + 1
          /\ payload[p].full <=> p = Last(n) /\ Content(n)

(* A payload frames the inodes it has.                                      *)
LEMMA Frames ==
  ASSUME payload \in Seq(Headers), Entries, NEW n \in Files, Same(n) # {}
  PROVE  Framed(n) /\ AllNames(n) \subseteq Archived
<1>1. Block(n) /\ AllNames(n) \subseteq Archived
  BY DEF Entries
<1>2. PICK a \in DOMAIN payload, b \in DOMAIN payload :
          /\ a <= b /\ Same(n) = a .. b
          /\ \A p \in a .. b :
                /\ payload[p].nlink = b - a + 1
                /\ payload[p].full <=> p = b /\ Content(n)
  BY <1>1 DEF Block
<1>3. PICK l \in Nat : DOMAIN payload = 1 .. l
  BY LenProperties
<1>4. a \in Int /\ b \in Int
  BY <1>3
<1>5. First(n) = a /\ Last(n) = b
  BY <1>2, <1>4, Ends DEF First, Last
<1>6. \A p \in a .. b : p \in DOMAIN payload /\ payload[p].ino = n
  BY <1>2 DEF Same
<1> QED
  BY ONLY <1>1, <1>2, <1>5, <1>6 DEF Framed

(* Headers without a type and frames, from the header.                      *)
LEMMA Header ==
  ASSUME payload \in Seq(Headers), Entries, ino \in [Files -> Files], NEW p \in DOMAIN payload
  PROVE  /\ payload[p] \in Headers /\ payload[p].file \in Files /\ p \in Nat \ {0} /\ p <= Len(payload)
         /\ payload[p].ino = NoFile =>
               payload[p].file \in gone /\ payload[p].nlink = 0 /\ ~payload[p].full
         /\ payload[p].ino # NoFile =>
               /\ payload[p].file \notin gone /\ ino[payload[p].file] = payload[p].ino
               /\ payload[p].ino \in Files /\ Same(payload[p].ino) # {}
               /\ p \in First(payload[p].ino) .. Last(payload[p].ino)
<1>1. payload[p] \in Headers /\ payload[p].file \in Files /\ p \in Nat \ {0} /\ p <= Len(payload)
  <2>1. DOMAIN payload = 1 .. Len(payload) /\ Len(payload) \in Nat /\ payload[p] \in Headers
    BY LenProperties, ElementOfSeq
  <2>2. payload[p].file \in Files
    BY <2>1 DEF Headers
  <2> QED
    BY ONLY <2>1, <2>2, p \in DOMAIN payload
<1>2. PICK e : e = payload[p]
  OBVIOUS
<1>3. IF e.file \in gone THEN e.ino = NoFile /\ e.nlink = 0 /\ ~e.full ELSE e.ino = ino[e.file]
  BY <1>2 DEF Entries
<1>4. e.ino # NoFile => e.file \notin gone /\ ino[e.file] = e.ino
  BY <1>3
<1>5. e.ino = NoFile => e.file \in gone /\ e.nlink = 0 /\ ~e.full
  <2>1. ASSUME e.file \notin gone PROVE e.ino # NoFile
    <3>1. ino[e.file] \in Files
      BY <1>1, <1>2
    <3>2. e.ino \in Files
      BY <1>3, <2>1, <3>1
    <3> QED
      BY <3>2 DEF Files, NoFile
  <2> QED
    BY <1>3, <2>1
<1>6. ASSUME e.ino # NoFile
      PROVE  e.ino \in Files /\ Same(e.ino) # {} /\ p \in First(e.ino) .. Last(e.ino)
  <2>1. e.ino \in Files
    BY <1>1, <1>2, <1>4, <1>6
  <2>2. p \in Same(e.ino)
    BY <1>2 DEF Same
  <2>3. Same(e.ino) = First(e.ino) .. Last(e.ino)
    BY <2>1, <2>2, Frames DEF Framed
  <2> QED
    BY <2>1, <2>2, <2>3
<1> QED
  BY <1>1, <1>2, <1>4, <1>5, <1>6

(* Nothing of this changes with the payload.                                *)
LEMMA FramesStay ==
  ASSUME UNCHANGED payload, NEW n
  PROVE  /\ Same(n)' = Same(n) /\ First(n)' = First(n) /\ Last(n)' = Last(n)
         /\ End(n)' = End(n) /\ Place(n)' = Place(n)
<1>1. Same(n)' = Same(n)
  BY DEF Same
<1>2. First(n)' = First(n) /\ Last(n)' = Last(n)
  BY <1>1 DEF First, Last
<1>3. End(n)' = End(n) /\ Place(n)' = Place(n)
  BY DEF End, Place, First, Last, Same
<1> QED
  BY <1>1, <1>2, <1>3

(* The last header of what a header is of.                                  *)
LEMMA EndsAt ==
  ASSUME payload \in Seq(Headers), Entries, ino \in [Files -> Files], NEW p \in DOMAIN payload
  PROVE  End(p) \in DOMAIN payload /\ End(p) \in Nat \ {0} /\ p <= End(p) /\ End(p) <= Len(payload)
<1>1. CASE payload[p].ino = NoFile
  BY <1>1, Header DEF End
<1>2. CASE payload[p].ino # NoFile
  <2>1. PICK n : n = payload[p].ino
    OBVIOUS
  <2>2. n \in Files /\ Same(n) # {} /\ p \in First(n) .. Last(n)
    BY <1>2, <2>1, Header
  <2>3. Last(n) \in DOMAIN payload
    BY <2>2, Frames DEF Framed
  <2>4. End(p) = Last(n)
    BY <1>2, <2>1 DEF End
  <2> QED
    BY <2>2, <2>3, <2>4
<1> QED
  BY <1>1, <1>2

(* The payload is written, without the sets that cannot be complete.        *)
LEMMA WrittenKeeps ==
  ASSUME FsmInv, Written
  PROVE  FsmInv'
<1>1. /\ pc = "build" /\ ix > NFiles /\ (goal = "build" => links = <<>>)
      /\ links' = <<>> /\ pc' = "next"
      /\ UNCHANGED <<given, payload, ix, i, pos, system, ec, blamed, result>>
  BY DEF Written
<1>2. /\ TypeOK /\ Shapes /\ PayloadKnown /\ pos = 1 /\ ix = NFiles + 1 /\ result = "none"
      /\ gone \subseteq Files /\ Entries /\ payload \in Seq(Headers) /\ ino \in [Files -> Files]
      /\ Archived = {f \in 1 .. ix - 1 : ~InSet(f)}
      /\ goal = "save" => \A f \in Archived \ gone : ino[f] \notin more
  <2>1. TypeOK /\ Shapes /\ BuildSets /\ PayloadKnown
    BY DEF FsmInv
  <2>2. ix = NFiles + 1
    BY <1>1, <2>1, FsmAssumption DEF TypeOK
  <2>3. pos = 1
    BY <1>1, <2>1 DEF BuildSets
  <2> QED
    BY <1>1, <2>1, <2>2, <2>3 DEF Shapes, PayloadKnown, Headers
<1>3. DOMAIN links' = {}
  BY <1>1
<1>4. TypeOK'
  <2>1. \A f \in Files : {tmp[f], disk[f], saved[f], new[f]}' = {tmp[f], disk[f], saved[f], new[f]}
    BY <1>1 DEF system
  <2>2. Len(payload') = Len(payload) /\ pos' = pos /\ i' = i /\ ix' = ix
    BY <1>1
  <2> QED
    <3>1. /\ ix \in 1 .. NFiles + 1 /\ pos \in 1 .. Len(payload) + 1 /\ i \in 0 .. NFiles + 1
          /\ \A f \in Files : {tmp[f], disk[f], saved[f], new[f]} \subseteq Old .. Len(payload)
      BY <1>2 DEF TypeOK
    <3>2. \A f \in Files : {tmp[f], disk[f], saved[f], new[f]}' \subseteq Old .. Len(payload')
      BY ONLY <2>1, <2>2, <3>1
    <3> QED
      BY ONLY <1>1, <1>3, <2>2, <3>1, <3>2 DEF TypeOK
<1>5. Shapes'
  <2>1. links' \in Seq(HardLinks)
    BY <1>1
  <2> QED
    BY <1>1, <1>2, <2>1 DEF Shapes, given, system
<1>6. BuildSets' /\ AtSet'
  BY <1>1 DEF BuildSets, AtSet
<1>7. PayloadKnown'
  <2>1. UNCHANGED payload /\ UNCHANGED <<gone, ino, empty, more, goal>>
    BY <1>1 DEF given
  <2>2. Entries' /\ Archived' = Archived
    BY <1>2, <2>1, EntriesStay, PayloadStays
  <2>3. 1 .. ix - 1 = Files
    BY <1>2, FsmAssumption DEF Files
  <2>4. ASSUME NEW f \in Files PROVE InSet(f) <=> Lost(f)
    <3>1. CASE goal = "build"
      <4>1. ~InSet(f)
        BY <1>1, <3>1 DEF InSet, Known
      <4> QED
        BY <3>1, <4>1 DEF Lost
    <3>2. CASE goal # "build"
      <4>1. goal = "save"
        BY <1>2, <3>2, FsmAssumption DEF Shapes
      <4>2. ASSUME InSet(f) PROVE Lost(f)
        <5>1. PICK n \in Files : n = ino[f] /\ f \notin gone /\ NLink(n) > 1 /\ Known(n)
          BY <4>2 DEF InSet
        <5>2. PICK k, s : k \in DOMAIN links /\ s = links[k] /\ s.ino = n
          BY <5>1 DEF Known
        <5>3. Built(s, n)
          BY <1>1, <5>2, BuiltSets
        <5>4. Seen(n) = AllNames(n)
          BY <1>2, FsmAssumption DEF Seen, AllNames, Files
        <5>5. PICK c \in Nat : c = Cardinality(AllNames(n))
          BY <1>2, NamesCounted
        <5>6. NLink(n) = c + (IF n \in more THEN 1 ELSE 0)
          BY <1>2, <5>5, NamesCounted
        <5>7. NLink(n) - c > 0
          BY <4>1, <5>3, <5>4, <5>5 DEF Built
        <5>8. n \in more
          BY <5>5, <5>6, <5>7
        <5> QED
          BY <4>1, <5>1, <5>8 DEF Lost
      <4>3. ASSUME Lost(f), ~InSet(f) PROVE FALSE
        <5>1. f \in Archived \ gone
          BY <1>2, <2>3, <4>3 DEF Lost
        <5> QED
          BY <1>2, <4>1, <4>3, <5>1 DEF Lost
      <4> QED
        BY <4>2, <4>3
    <3> QED
      BY <3>1, <3>2
  <2>5. Archived' = {f \in Files : ~Lost(f)'}
    <3>1. \A f : Lost(f)' <=> Lost(f)
      BY <2>1 DEF Lost
    <3> QED
      BY ONLY <1>2, <2>2, <2>3, <2>4, <3>1
  <2> QED
    BY <1>1, <1>2, <2>1, <2>2, <2>5 DEF PayloadKnown
<1>8. InstallSets'
  <2>1. Current' = 0
    BY <1>1, <1>2 DEF Current
  <2>2. ASSUME NEW n \in Files PROVE ~Known(n)' /\ (Same(n)' # {} => ~(First(n)' <= Current'))
    <3>1. ~Known(n)'
      BY <1>3 DEF Known
    <3>2. Same(n)' = Same(n) /\ First(n)' = First(n)
      BY <1>1, FramesStay
    <3>3. Same(n) # {} => First(n) \in DOMAIN payload
      BY <1>2, Frames DEF Framed
    <3>4. \A p \in DOMAIN payload : p \in Nat /\ p # 0
      BY <1>2, Header
    <3>5. Same(n)' # {} => ~(First(n)' <= 0)
      BY ONLY <3>2, <3>3, <3>4
    <3> QED
      BY <2>1, <3>1, <3>5
  <2> QED
    BY ONLY <1>3, <2>2 DEF InstallSets
<1>9. ASSUME "rename" \notin Faults PROVE FilesKnown' /\ ErrorsKnown'
  <2>1. \A f \in Files : Fresh(f)'
    BY <1>1, <1>9 DEF FsmInv, FilesKnown, Fresh, system
  <2>2. ASSUME NEW p \in DOMAIN payload' PROVE ~(End(p)' < pos')
    <3>1. End(p) \in Nat \ {0}
      BY <1>1, <1>2, EndsAt
    <3> QED
      BY <1>1, <1>2, <3>1, FramesStay
  <2>3. ASSUME NEW p \in DOMAIN payload' PROVE payload'[p].file \in Files /\ AtHand(p)'
    <3>1. PICK f \in Files : f = payload[p].file
      BY <1>1, <1>2, Header
    <3>2. payload'[p].file = f /\ pc' = "next" /\ result' = "none"
      BY <1>1, <1>2, <3>1
    <3> QED
      BY ONLY <2>1, <3>2 DEF AtHand, Fresh
  <2>4. FilesKnown'
    BY <1>1, <2>1, <2>2, <2>3 DEF FilesKnown, Fresh
  <2>5. ErrorsKnown'
    BY <1>1, <1>2, <1>9 DEF FsmInv, ErrorsKnown
  <2> QED
    BY <2>4, <2>5
<1> QED
  BY <1>4, <1>5, <1>6, <1>7, <1>8, <1>9 DEF FsmInv

-----------------------------------------------------------------------------
(* The first states.                                                        *)
LEMMA InitKnown ==
  ASSUME Init
  PROVE  FsmInv
<1>1. /\ payload = <<>> /\ pc = "build" /\ ix = 1 /\ links = <<>> /\ i = 0 /\ pos = 1
      /\ tmp = [f \in Files |-> None] /\ disk = [f \in Files |-> Old]
      /\ saved = [f \in Files |-> None] /\ new = [f \in Files |-> None]
      /\ ec = FALSE /\ blamed = FALSE /\ result = "none"
  BY DEF Init
<1>2. DOMAIN payload = {} /\ Len(payload) = 0 /\ DOMAIN links = {}
  BY <1>1
<1>3. TypeOK
  <2>1. \A f \in Files : {tmp[f], disk[f], saved[f], new[f]} \subseteq Old .. Len(payload)
    BY <1>1, <1>2 DEF None, Old
  <2>2. /\ ix \in 1 .. NFiles + 1 /\ pos \in 1 .. Len(payload) + 1 /\ i \in 0 .. NFiles + 1
    BY <1>1, <1>2, FsmAssumption
  <2> QED
    BY <1>1, <1>2, <2>1, <2>2 DEF TypeOK
<1>4. Shapes
  <2>1. goal \in Goals /\ ino \in [Files -> Files] /\ act \in [Files -> Actions]
    BY DEF Init
  <2>2. gone \subseteq Files /\ (goal = "build" => gone = {})
    BY DEF Init
  <2>3. \A f \in Files : ino[ino[f]] = ino[f]
    BY DEF Init
  <2>4. \A f \in gone, g \in Files : ino[g] = f <=> g = f
    BY DEF Init
  <2>5. {tmp, disk, saved, new} \subseteq [Files -> Int]
    BY <1>1 DEF None, Old
  <2>6. payload \in Seq([file : Files, ino : 0 .. NFiles, nlink : Nat, full : BOOLEAN]) /\ links \in Seq(HardLinks)
    BY <1>1
  <2> QED
    BY <1>1, <2>1, <2>2, <2>3, <2>4, <2>5, <2>6 DEF Shapes
<1>5. BuildSets /\ InstallSets /\ AtSet
  BY <1>1, <1>2 DEF BuildSets, InstallSets, AtSet
<1>6. PayloadKnown
  <2>1. Archived = {}
    BY <1>2 DEF Archived
  <2>2. Entries
    BY <1>2 DEF Entries, Same
  <2>3. 1 .. ix - 1 = {}
    BY <1>1
  <2> QED
    BY <1>1, <2>1, <2>2, <2>3 DEF PayloadKnown
<1>7. FilesKnown /\ ErrorsKnown
  <2>1. \A f \in Files : Fresh(f)
    BY <1>1 DEF Fresh
  <2> QED
    BY <1>1, <1>2, <2>1 DEF FilesKnown, ErrorsKnown
<1> QED
  BY <1>3, <1>4, <1>5, <1>6, <1>7 DEF FsmInv

-----------------------------------------------------------------------------
(* While the payload is installed.                                          *)

(* What InstallSets says of one set.                                        *)
Holds(s, n) ==
    /\ s.nlink = Last(n) - First(n) + 1
    /\ \A q \in Members(s) : s.filex[q] = payload[First(n) + q].file
    /\ Current < Last(n) =>
           /\ s.left = Current - First(n) + 1
           /\ Members(s) = 0 .. s.left - 1

Began(n) == Same(n) # {} /\ First(n) < Last(n) /\ First(n) <= Current

(* What the system has at the names of the files.                           *)
Contents == Old .. Len(payload)

(* What is known at install.                                                *)
LEMMA AtInstall ==
  ASSUME FsmInv, pc # "build"
  PROVE  /\ payload \in Seq(Headers) /\ Entries /\ ino \in [Files -> Files] /\ gone \subseteq Files
         /\ Len(payload) \in Nat /\ DOMAIN payload = 1 .. Len(payload)
         /\ links \in Seq(HardLinks) /\ Distinct(links)
         /\ \A k \in DOMAIN links : \A s : s = links[k] =>
               s \in HardLinks /\ s.ino \in Files /\ SetOK(s) /\ Holds(s, s.ino) /\ Began(s.ino)
         /\ \A n \in Files : Known(n) <=> Began(n)
         /\ {tmp, disk, saved, new} \subseteq [Files -> Contents]
         /\ pos \in Nat \ {0} /\ pos <= Len(payload) + 1
<1>1. TypeOK /\ Shapes /\ PayloadKnown /\ InstallSets
  BY DEF FsmInv
<1>2. /\ payload \in Seq(Headers) /\ Entries /\ ino \in [Files -> Files] /\ gone \subseteq Files
      /\ links \in Seq(HardLinks) /\ Distinct(links)
  BY <1>1 DEF TypeOK, Shapes, PayloadKnown, Headers, Distinct
<1>3. Len(payload) \in Nat /\ DOMAIN payload = 1 .. Len(payload)
  BY <1>2, LenProperties
<1>4. \A n \in Files : Known(n) <=> Began(n)
  BY <1>1 DEF InstallSets, Began
<1>5. ASSUME NEW k \in DOMAIN links, NEW s, s = links[k]
      PROVE  s \in HardLinks /\ s.ino \in Files /\ SetOK(s) /\ Holds(s, s.ino) /\ Began(s.ino)
  <2>1. s \in HardLinks
    BY <1>2, <1>5
  <2>2. PICK n \in Files : n = s.ino
    BY <2>1, HardLink
  <2>3. SetOK(s)
    BY <1>1, <1>5 DEF TypeOK, SetOK
  <2>4. Holds(s, n)
    BY <1>1, <1>5, <2>2 DEF InstallSets, Holds
  <2>5. Known(n)
    BY <1>5, <2>2 DEF Known
  <2> QED
    BY <1>4, <2>1, <2>2, <2>3, <2>4, <2>5
<1>6. {tmp, disk, saved, new} \subseteq [Files -> Contents]
  <2>1. /\ tmp \in [Files -> Int] /\ disk \in [Files -> Int]
        /\ saved \in [Files -> Int] /\ new \in [Files -> Int]
    BY <1>1 DEF Shapes
  <2>2. \A f \in Files : tmp[f] \in Contents /\ disk[f] \in Contents /\ saved[f] \in Contents /\ new[f] \in Contents
    BY <1>1 DEF TypeOK, Contents
  <2> QED
    BY <2>1, <2>2
<1>7. pos \in Nat \ {0} /\ pos <= Len(payload) + 1
  BY <1>1, <1>3 DEF TypeOK
<1> QED
  BY <1>2, <1>3, <1>4, <1>5, <1>6, <1>7

(* The names of a set are names of its inode, each once.                    *)
LEMMA NamesOfSet ==
  ASSUME payload \in Seq(Headers), Entries, ino \in [Files -> Files], NEW n \in Files, Same(n) # {},
         NEW s, s.ino = n, Members(s) \subseteq Places(s), s.left \in 0 .. s.nlink, pc # "build",
         s.nlink = Last(n) - First(n) + 1,
         \A q \in Members(s) : s.filex[q] = payload[First(n) + q].file
  PROVE  SetOK(s)
<1>1. Framed(n)
  BY Frames
<1>2. PICK a, b : a = First(n) /\ b = Last(n) /\ a \in Int /\ b \in Int
  <2>1. DOMAIN payload \subseteq Int
    BY LenProperties
  <2> QED
    BY <1>1, <2>1 DEF Framed
<1>3. \A q \in Members(s) : a + q \in a .. b
  BY <1>2 DEF Places
<1>4. \A q \in Members(s) : a + q \in DOMAIN payload /\ payload[a + q].ino = n
  BY <1>1, <1>2, <1>3 DEF Framed
<1>5. n # NoFile
  BY DEF Files, NoFile
<1>6. \A q \in Members(s) : ino[payload[a + q].file] = n
  BY <1>4, <1>5, Header
<1>7. ASSUME NEW p \in Members(s), NEW q \in Members(s), s.filex[p] = s.filex[q] PROVE p = q
  <2>1. a + p = a + q
    BY <1>2, <1>4, <1>7 DEF Entries
  <2>2. p \in Int /\ q \in Int
    BY DEF Places
  <2> QED
    BY <1>2, <2>1, <2>2
<1> QED
  BY <1>2, <1>6, <1>7 DEF SetOK

(* What a step of the install has to keep.                                  *)
LEMMA InstallKept ==
  ASSUME FsmInv, pc # "build", UNCHANGED <<given, payload>>,
         pc' \in {"next", "process", "link", "commit", "done"}, ix' \in 1 .. NFiles + 1,
         pos' \in 1 .. Len(payload) + 1, i' \in 0 .. NFiles + 1,
         links' \in Seq(HardLinks), Distinct(links'),
         \A k \in DOMAIN links' : \A s : s = links'[k] => SetOK(s)' /\ Holds(s, s.ino)',
         \A n \in Files : Known(n)' <=> Began(n)',
         {tmp', disk', saved', new'} \subseteq [Files -> Contents],
         ec' \in BOOLEAN, blamed' \in BOOLEAN,
         result' \in {"none", "ok", "header", "extract", "link", "rename"},
         result' = "none" <=> pc' # "done",
         AtSet', "rename" \notin Faults => FilesKnown' /\ ErrorsKnown'
  PROVE  FsmInv'
<1>1. TypeOK'
  <2>1. \A f \in Files : {tmp'[f], disk'[f], saved'[f], new'[f]} \subseteq Old .. Len(payload)
    BY DEF Contents
  <2>2. \A k, l \in DOMAIN links' : links'[k].ino = links'[l].ino => k = l
    BY DEF Distinct
  <2>3. ASSUME NEW k \in DOMAIN links', NEW s, s = links'[k]
        PROVE  /\ s.left \in 0 .. s.nlink
               /\ \A p, q \in Members(s) :
                      /\ ino'[s.filex[p]] = s.ino
                      /\ s.filex[p] = s.filex[q] => p = q
               /\ pc' = "build" => Members(s) = s.left .. s.nlink - 1
    BY <2>3 DEF SetOK
  <2> QED
    BY <2>1, <2>2, <2>3 DEF TypeOK
<1>2. Shapes'
  <2>1. [Files -> Contents] \subseteq [Files -> Int]
    <3>1. Contents \subseteq Int
      BY DEF Contents, Old
    <3> QED
      BY <3>1
  <2>2. {tmp', disk', saved', new'} \subseteq [Files -> Int]
    BY <2>1
  <2> QED
    BY <2>2 DEF FsmInv, Shapes, given
<1>3. PayloadKnown'
  <2>1. UNCHANGED payload /\ UNCHANGED <<gone, ino, empty, more, goal>>
    BY DEF given
  <2>2. Entries' /\ Archived' = Archived
    BY <2>1, AtInstall, EntriesStay, PayloadStays
  <2>3. \A f : Lost(f)' <=> Lost(f)
    BY <2>1 DEF Lost
  <2> QED
    BY <2>1, <2>2, <2>3 DEF FsmInv, PayloadKnown
<1>4. BuildSets'
  BY DEF BuildSets
<1>5. InstallSets'
  <2>1. ASSUME NEW n \in Files
        PROVE  Known(n)' <=> Same(n)' # {} /\ First(n)' < Last(n)' /\ First(n)' <= Current'
    BY DEF Began
  <2>2. ASSUME NEW k \in DOMAIN links', NEW n \in Files, NEW s, s = links'[k], s.ino = n
        PROVE  Holds(s, n)'
    BY <2>2
  <2>3. ASSUME NEW k \in DOMAIN links', NEW n \in Files, NEW s, s = links'[k], s.ino = n
        PROVE  /\ s.nlink = Last(n)' - First(n)' + 1
               /\ \A q \in Members(s) : s.filex[q] = payload'[First(n)' + q].file
               /\ Current' < Last(n)' =>
                      /\ s.left = Current' - First(n)' + 1
                      /\ Members(s) = 0 .. s.left - 1
    BY <2>2, <2>3 DEF Holds
  <2> QED
    BY ONLY <2>1, <2>3 DEF InstallSets
<1> QED
  BY <1>1, <1>2, <1>3, <1>4, <1>5 DEF FsmInv

(* The sets are what they were when nothing is read.                        *)
LEMMA SetsStay ==
  ASSUME FsmInv, pc # "build", pc' # "build", UNCHANGED <<given, payload, links>>, Current' = Current
  PROVE  /\ links' \in Seq(HardLinks) /\ Distinct(links')
         /\ \A k \in DOMAIN links' : \A s : s = links'[k] => SetOK(s)' /\ Holds(s, s.ino)'
         /\ \A n \in Files : Known(n)' <=> Began(n)'
<1>1. ASSUME NEW k \in DOMAIN links', NEW s, s = links'[k] PROVE SetOK(s)' /\ Holds(s, s.ino)'
  <2>1. SetOK(s) /\ Holds(s, s.ino)
    BY <1>1, AtInstall
  <2>2. First(s.ino)' = First(s.ino) /\ Last(s.ino)' = Last(s.ino)
    BY FramesStay
  <2> QED
    BY <2>1, <2>2 DEF SetOK, Holds, given
<1>2. ASSUME NEW n \in Files PROVE Known(n)' <=> Began(n)'
  <2>1. Same(n)' = Same(n) /\ First(n)' = First(n) /\ Last(n)' = Last(n)
    BY FramesStay
  <2>2. Known(n)' <=> Known(n)
    BY DEF Known
  <2> QED
    BY <2>1, <2>2, AtInstall DEF Began
<1> QED
  BY <1>1, <1>2, AtInstall

(* Places are counted from 0.                                               *)
LEMMA PlaceOf ==
  ASSUME payload \in Seq(Headers), Entries, ino \in [Files -> Files], NEW p \in DOMAIN payload,
         payload[p].ino # NoFile
  PROVE  Place(p) \in Nat /\ payload[p].file \in AllNames(payload[p].ino)
<1>1. PICK n \in Files : n = payload[p].ino /\ Same(n) # {} /\ p \in First(n) .. Last(n)
  BY Header
<1>2. First(n) \in Int
  <2>1. DOMAIN payload \subseteq Int
    BY LenProperties
  <2> QED
    BY <1>1, <2>1, Frames DEF Framed
<1>3. Place(p) \in Nat
  BY <1>1, <1>2 DEF Place
<1> QED
  BY <1>3, Header DEF AllNames

(* Two headers that end at one place are of one inode, or are one header.   *)
LEMMA EndsTogether ==
  ASSUME payload \in Seq(Headers), Entries, ino \in [Files -> Files],
         NEW p \in DOMAIN payload, NEW r \in DOMAIN payload, End(p) = r
  PROVE  /\ payload[p].ino = payload[r].ino
         /\ payload[r].ino = NoFile => p = r
         /\ payload[r].ino # NoFile =>
               /\ payload[r].ino \in Files /\ Framed(payload[r].ino)
               /\ Last(payload[r].ino) = r
               /\ p \in First(payload[r].ino) .. r /\ Place(p) = p - First(payload[r].ino)
<1>1. CASE payload[p].ino = NoFile
  <2>1. p = r
    BY <1>1 DEF End
  <2> QED
    BY <1>1, <2>1
<1>2. CASE payload[p].ino # NoFile
  <2>1. PICK n : n = payload[p].ino
    OBVIOUS
  <2>2. n \in Files /\ Same(n) # {} /\ p \in First(n) .. Last(n)
    BY <1>2, <2>1, Header
  <2>3. Last(n) = r
    BY <1>2, <2>1 DEF End
  <2>4. Framed(n)
    BY <2>2, Frames
  <2>5. r \in First(n) .. Last(n)
    <3>1. First(n) <= Last(n) /\ First(n) \in DOMAIN payload /\ Last(n) \in DOMAIN payload
      BY <2>4 DEF Framed
    <3>2. DOMAIN payload \subseteq Int
      BY LenProperties
    <3> QED
      BY <2>2, <2>3, <3>1, <3>2
  <2>6. payload[r].ino = n
    BY <2>4, <2>5 DEF Framed
  <2>7. Place(p) = p - First(n)
    BY <2>1 DEF Place
  <2> QED
    BY <1>2, <2>1, <2>2, <2>3, <2>4, <2>6, <2>7
<1> QED
  BY <1>1, <1>2

(* The system has at the names of a file what it had.                       *)
Untouched(f) == tmp'[f] = tmp[f] /\ disk'[f] = disk[f] /\ saved'[f] = saved[f] /\ new'[f] = new[f]

(* A file that is now installed, and is not to be skipped.                  *)
Dealt(p) == p \in DOMAIN payload /\ ~Skipped(payload[p].file) /\ End(p) = pos

(* A step in which only files that are installed change.                    *)
LEMMA FilesKept ==
  ASSUME FsmInv, pc # "build", pc' # "build", UNCHANGED <<given, payload, pos>>, FilesKnown,
         \A f \in Files : Untouched(f) \/ \E p : Dealt(p) /\ f = payload[p].file,
         \A p : Dealt(p) => AtHand(p)'
  PROVE  FilesKnown'
<1>1. \A p \in DOMAIN payload : payload[p].file \in Files
  BY AtInstall, Header
<1>2. \A p, q \in DOMAIN payload : payload[p].file = payload[q].file => p = q
  BY AtInstall DEF Entries
<1>3. Archived' = Archived /\ \A f \in Files : Skipped(f)' <=> Skipped(f)
  BY DEF Archived, Skipped, given
<1>4. ASSUME NEW f \in Files \ Archived PROVE Fresh(f)'
  <2>1. Fresh(f)
    BY <1>4 DEF FilesKnown
  <2>2. Untouched(f)
    BY <1>4 DEF Dealt, Archived
  <2> QED
    BY <2>1, <2>2 DEF Fresh, Untouched
<1>5. ASSUME NEW p \in DOMAIN payload, NEW f, f = payload[p].file, NEW e, e = End(p)
      PROVE  /\ End(p)' = e
             /\ Skipped(f)' \/ e > pos' => Fresh(f)'
             /\ ~Skipped(f)' /\ e < pos' => payload'[p].ino # NoFile /\ Placed(f, e)'
             /\ ~Skipped(f)' /\ e = pos' => AtHand(p)'
  <2>1. e = End(p)
    BY <1>5
  <2>2. End(p)' = e /\ e \in Nat /\ pos \in Nat
    BY <2>1, FramesStay, EndsAt, AtInstall
  <2>3. f \in Files /\ (Skipped(f)' <=> Skipped(f))
    BY <1>1, <1>3, <1>5
  <2>4. CASE Dealt(p)
    <3>1. ~Skipped(f) /\ e = pos /\ AtHand(p)'
      BY <1>5, <2>1, <2>4 DEF Dealt
    <3> QED
      BY <2>2, <2>3, <3>1
  <2>5. CASE ~Dealt(p)
    <3>1. Untouched(f)
      BY <1>2, <1>5, <2>3, <2>5 DEF Dealt
    <3>2. Skipped(f) \/ e # pos
      BY <1>5, <2>1, <2>5 DEF Dealt
    <3>3. /\ Skipped(f) \/ e > pos => Fresh(f)
          /\ ~Skipped(f) /\ e < pos => payload[p].ino # NoFile /\ Placed(f, e)
      BY <1>5, <2>1 DEF FilesKnown
    <3>4. Fresh(f) => Fresh(f)'
      BY <3>1 DEF Fresh, Untouched
    <3>5. Placed(f, e) => Placed(f, e)'
      BY <3>1 DEF Placed, Untouched, given
    <3> QED
      BY <2>2, <2>3, <3>2, <3>3, <3>4, <3>5
  <2> QED
    BY <2>4, <2>5
<1>6. DOMAIN payload' = DOMAIN payload /\ \A p \in DOMAIN payload : payload'[p].file = payload[p].file
  OBVIOUS
<1> QED
  BY ONLY <1>3, <1>4, <1>5, <1>6, pc' # "build" DEF FilesKnown, Fresh, Placed, Skipped

(* The types of the numbers.                                                *)
LEMMA Numbers ==
  ASSUME FsmInv
  PROVE  /\ ix \in 1 .. NFiles + 1 /\ pos \in 1 .. Len(payload) + 1 /\ i \in 0 .. NFiles + 1
         /\ ec \in BOOLEAN /\ blamed \in BOOLEAN /\ 0 \in 0 .. NFiles + 1
         /\ Files \subseteq 1 .. NFiles + 1
         /\ pc # "done" => result = "none"
<1>1. TypeOK /\ Shapes
  BY DEF FsmInv
<1>2. 0 \in 0 .. NFiles + 1 /\ Files \subseteq 1 .. NFiles + 1
  BY FsmAssumption DEF Files
<1> QED
  BY <1>1, <1>2 DEF TypeOK, Shapes

(* The payload ends, or its next header cannot be read.                     *)
LEMMA StopKeeps ==
  ASSUME FsmInv, EndOfPayload \/ BadHeader
  PROVE  FsmInv'
<1>1. /\ pc = "next" /\ pc' = "done" /\ result' \in {"ok", "header"}
      /\ result' = "ok" => pos > Len(payload)
      /\ UNCHANGED <<given, payload, ix, links, i, pos, system, ec, blamed>>
  BY DEF EndOfPayload, BadHeader, Finish
<1>2. TypeOK /\ Shapes /\ result = "none"
  BY <1>1 DEF FsmInv, Shapes
<1>3. Current' = Current
  BY <1>1 DEF Current
<1>4. AtSet'
  BY <1>1 DEF AtSet
<1>5. {tmp', disk', saved', new'} \subseteq [Files -> Contents]
  BY <1>1, AtInstall DEF system
<1>6. ASSUME "rename" \notin Faults PROVE FilesKnown' /\ ErrorsKnown'
  <2>1. FilesKnown /\ ErrorsKnown
    BY <1>6 DEF FsmInv
  <2>2. \A f \in Files : Untouched(f)
    BY <1>1 DEF Untouched, system
  <2>3. ASSUME NEW p, Dealt(p) PROVE AtHand(p)'
    <3>1. AtHand(p)
      BY <1>1, <2>1, <2>3 DEF FilesKnown, Dealt
    <3> QED
      BY <1>1, <3>1 DEF AtHand, Fresh, system
  <2>4. FilesKnown'
    BY <1>1, <2>1, <2>2, <2>3, FilesKept
  <2>5. ErrorsKnown'
    BY <1>1 DEF ErrorsKnown
  <2> QED
    BY <2>4, <2>5
<1>7. /\ ix' \in 1 .. NFiles + 1 /\ pos' \in 1 .. Len(payload) + 1 /\ i' \in 0 .. NFiles + 1
      /\ ec' \in BOOLEAN /\ blamed' \in BOOLEAN /\ UNCHANGED <<given, payload>>
  BY <1>1, <1>2 DEF TypeOK, Shapes
<1>8. /\ links' \in Seq(HardLinks) /\ Distinct(links')
      /\ \A k \in DOMAIN links' : \A s : s = links'[k] => SetOK(s)' /\ Holds(s, s.ino)'
      /\ \A n \in Files : Known(n)' <=> Began(n)'
  BY <1>1, <1>3, SetsStay
<1> QED
  BY <1>1, <1>4, <1>5, <1>6, <1>7, <1>8, InstallKept

(* A file that was gone has nothing to extract.                             *)
LEMMA ProcessGoneKeeps ==
  ASSUME FsmInv, ProcessGone
  PROVE  FsmInv'
<1>1. /\ pc = "process" /\ payload[pos].ino = NoFile /\ pc' = "commit" /\ i' = 0 /\ ec' = FALSE
      /\ UNCHANGED <<given, payload, ix, links, pos, system, blamed, result>>
  BY DEF ProcessGone
<1>2. TypeOK /\ Shapes /\ AtSet /\ result = "none"
  BY <1>1 DEF FsmInv, Shapes
<1>3. Current' = Current
  BY <1>1, <1>2 DEF Current
<1>4. pos \in DOMAIN payload /\ payload[pos].nlink = 0 /\ ~Linked
  <2>1. pos \in DOMAIN payload
    BY <1>1, <1>2, AtInstall DEF AtSet
  <2>2. payload[pos].nlink = 0
    BY <1>1, <2>1, AtInstall, Header
  <2> QED
    BY <2>1, <2>2 DEF Linked
<1>5. AtSet'
  <2>1. /\ pos <= Len(payload) /\ ix \in Files /\ ~Skipped(ix) /\ ix = payload[pos].file
    BY <1>1, <1>2, <1>4 DEF AtSet
  <2>2. ~Linked' /\ pos' = pos /\ payload' = payload /\ ix' = ix /\ act' = act /\ pc' # "link"
    BY <1>1, <1>4 DEF Linked, given
  <2> QED
    BY ONLY <2>1, <2>2 DEF AtSet, Skipped
<1>6. {tmp', disk', saved', new'} \subseteq [Files -> Contents]
  BY <1>1, AtInstall DEF system
<1>7. ASSUME "rename" \notin Faults PROVE FilesKnown' /\ ErrorsKnown'
  <2>1. FilesKnown /\ ErrorsKnown
    BY <1>7 DEF FsmInv
  <2>2. \A f \in Files : Untouched(f)
    BY <1>1 DEF Untouched, system
  <2>3. ASSUME NEW p, Dealt(p) PROVE AtHand(p)'
    <3>1. AtHand(p)
      BY <1>1, <2>1, <2>3 DEF FilesKnown, Dealt
    <3>2. payload[p].ino = NoFile
      BY <1>1, <1>4, <2>3, AtInstall, EndsTogether DEF Dealt
    <3> QED
      BY <1>1, <1>2, <3>1, <3>2 DEF AtHand, Fresh, system
  <2>4. FilesKnown'
    BY <1>1, <2>1, <2>2, <2>3, FilesKept
  <2>5. ErrorsKnown'
    BY <1>1, <1>2 DEF ErrorsKnown
  <2> QED
    BY <2>4, <2>5
<1>8. /\ ix' \in 1 .. NFiles + 1 /\ pos' \in 1 .. Len(payload) + 1 /\ i' \in 0 .. NFiles + 1
      /\ ec' \in BOOLEAN /\ blamed' \in BOOLEAN /\ UNCHANGED <<given, payload>>
  BY <1>1, <1>2, Numbers
<1>9. /\ links' \in Seq(HardLinks) /\ Distinct(links')
      /\ \A k \in DOMAIN links' : \A s : s = links'[k] => SetOK(s)' /\ Holds(s, s.ino)'
      /\ \A n \in Files : Known(n)' <=> Began(n)'
  BY <1>1, <1>3, SetsStay
<1> QED
  BY <1>1, <1>2, <1>5, <1>6, <1>7, <1>8, <1>9, InstallKept

(* The file that is installed, when it has no other name.                   *)
LEMMA SingleAtHand ==
  ASSUME FsmInv, pc \in {"process", "link", "commit"}, ~Linked
  PROVE  /\ pos \in DOMAIN payload /\ payload[pos].file = ix /\ ix \in Files /\ ~Skipped(ix)
         /\ Count = 1 /\ \A p : Dealt(p) <=> p = pos
         /\ payload[pos].ino # NoFile => ino[ix] = payload[pos].ino
<1>1. AtSet /\ payload \in Seq(Headers) /\ Entries /\ ino \in [Files -> Files]
  BY AtInstall DEF FsmInv
<1>2. pos \in DOMAIN payload
  BY <1>1, AtInstall DEF AtSet
<1>3. payload[pos].file = ix /\ ix \in Files /\ ~Skipped(ix) /\ Count = 1
  BY <1>1 DEF AtSet, Count
<1>4. payload[pos].ino # NoFile => ino[ix] = payload[pos].ino
  BY <1>1, <1>2, <1>3, Header
<1>5. End(pos) = pos
  <2>1. CASE payload[pos].ino = NoFile
    BY <2>1 DEF End
  <2>2. CASE payload[pos].ino # NoFile
    <3>1. PICK n \in Files : n = payload[pos].ino /\ Same(n) # {} /\ pos \in First(n) .. Last(n)
      BY <1>1, <1>2, <2>2, Header
    <3>2. Framed(n) /\ payload[pos].nlink = Last(n) - First(n) + 1
      BY <1>1, <3>1, Frames DEF Framed
    <3>3. First(n) \in Int /\ Last(n) \in Int
      <4>1. DOMAIN payload \subseteq Int
        BY <1>1, LenProperties
      <4> QED
        BY <3>2, <4>1 DEF Framed
    <3>4. Last(n) = pos
      BY <3>1, <3>2, <3>3 DEF Linked
    <3> QED
      BY <2>2, <3>1, <3>4 DEF End
  <2> QED
    BY <2>1, <2>2
<1>6. ASSUME NEW p, Dealt(p) PROVE p = pos
  <2>1. CASE payload[pos].ino = NoFile
    BY <1>1, <1>2, <1>6, <2>1, EndsTogether DEF Dealt
  <2>2. CASE payload[pos].ino # NoFile
    <3>1. PICK n : n = payload[pos].ino /\ Framed(n) /\ Last(n) = pos /\ p \in First(n) .. pos
      BY <1>1, <1>2, <1>6, <2>2, EndsTogether DEF Dealt
    <3>2. First(n) \in Int /\ pos \in Int
      <4>1. DOMAIN payload \subseteq Int
        BY <1>1, LenProperties
      <4> QED
        BY <1>2, <3>1, <4>1 DEF Framed
    <3>3. pos \in First(n) .. Last(n)
      BY <3>1, <3>2
    <3>4. payload[pos].nlink = Last(n) - First(n) + 1
      BY <3>1, <3>3 DEF Framed
    <3> QED
      BY <3>1, <3>2, <3>4 DEF Linked
  <2> QED
    BY <2>1, <2>2
<1> QED
  BY <1>2, <1>3, <1>4, <1>5, <1>6 DEF Dealt

(* The set that is installed is s of n, in place k.                         *)
SetNow(k, s, n) ==
    /\ k \in DOMAIN links /\ k = Set /\ s = links[k] /\ n \in Files /\ s.ino = n
    /\ s \in HardLinks /\ SetOK(s) /\ Holds(s, n) /\ Framed(n)
    /\ pos \in DOMAIN payload /\ payload[pos].ino = n /\ pos = Last(n)
    /\ ix \in Files /\ ~Skipped(ix) /\ ino[ix] = n
    /\ s.index \in Places(s) /\ payload[First(n) + s.index].file = ix
    /\ pc \in {"process", "link"} => Members(s) = Places(s)
    /\ pc = "process" => s.left = s.nlink
    /\ pc = "link" => i <= s.nlink /\ s.left >= s.nlink - i + IF i > s.index THEN 1 ELSE 0
    /\ pc = "commit" => i <= s.nlink /\ Members(s) = i .. s.nlink - 1

(* Header p is at place q of the set of n.                                  *)
AtPlace(p, q, n) ==
    /\ p \in DOMAIN payload /\ p = First(n) + q /\ Place(p) = q /\ End(p) = pos /\ payload[p].ino = n

(* Each header that is dealt with has a place in the set.                   *)
LEMMA SetAtHand ==
  ASSUME FsmInv, pc \in {"process", "link", "commit"}, Linked
  PROVE  \E k, s, n :
           /\ SetNow(k, s, n) /\ Count = s.nlink
           /\ \A p : Dealt(p) => \E q \in Places(s) : AtPlace(p, q, n)
           /\ \A q \in Places(s) : AtPlace(First(n) + q, q, n)
           /\ \A p, q, r : AtPlace(p, r, n) /\ AtPlace(q, s.index, n) /\ payload[p].file = ix => r = s.index
<1>1. AtSet /\ payload \in Seq(Headers) /\ Entries /\ ino \in [Files -> Files]
      /\ links \in Seq(HardLinks) /\ Distinct(links)
  BY AtInstall DEF FsmInv
<1>2. pos \in DOMAIN payload /\ ix \in Files /\ ~Skipped(ix)
  BY <1>1, AtInstall DEF AtSet
<1>3. PICK k, n, s :
          /\ k \in DOMAIN links /\ n \in Files
          /\ s = links[k]
          /\ s.ino = n /\ payload[pos].ino = n /\ pos = Last(n)
          /\ s.index \in Places(s) /\ payload[First(n) + s.index].file = ix
          /\ pc \in {"process", "link"} => Members(s) = Places(s)
          /\ pc = "process" => s.left = s.nlink
          /\ pc = "link" => i <= s.nlink /\ s.left >= s.nlink - i + IF i > s.index THEN 1 ELSE 0
          /\ pc = "commit" => i <= s.nlink /\ Members(s) = i .. s.nlink - 1
  BY <1>1 DEF AtSet
<1>4. s \in HardLinks /\ SetOK(s) /\ Holds(s, n) /\ Began(n)
  BY <1>3, AtInstall
<1>5. Framed(n)
  BY <1>1, <1>3, <1>4, Frames DEF Began
<1>6. Set = k
  <2>1. SetOf(n) \in DOMAIN links /\ links[SetOf(n)].ino = n
    BY <1>3 DEF SetOf
  <2> QED
    BY <1>1, <1>3, <2>1 DEF Set, Distinct
<1>7. PICK a \in Int : a = First(n) /\ pos \in Int /\ s.nlink = pos - a + 1
  <2>1. DOMAIN payload \subseteq Int
    BY <1>1, LenProperties
  <2> QED
    BY <1>2, <1>3, <1>4, <1>5, <2>1 DEF Framed, Holds
<1>8. \A q \in Places(s) : a + q \in a .. pos /\ q = a + q - a
  BY <1>7 DEF Places
<1>9. n # NoFile
  BY <1>3 DEF NoFile, Files
<1>10. ASSUME NEW q \in Places(s) PROVE AtPlace(First(n) + q, q, n)
  <2>1. PICK p : p = First(n) + q /\ p \in a .. pos /\ p - a = q
    <3>1. PICK x : x = a + q
      OBVIOUS
    <3>2. x \in a .. pos /\ x - a = q
      BY <1>7, <3>1 DEF Places
    <3> QED
      BY <1>7, <3>1, <3>2
  <2>2. p \in DOMAIN payload /\ payload[p].ino = n
    BY <1>3, <1>5, <1>7, <2>1 DEF Framed
  <2>3. End(p) = pos /\ Place(p) = q
    BY <1>3, <1>7, <1>9, <2>1, <2>2 DEF End, Place
  <2> QED
    BY <2>1, <2>2, <2>3 DEF AtPlace
<1>11. ASSUME NEW p, Dealt(p) PROVE \E q \in Places(s) : AtPlace(p, q, n)
  <2>1. p \in DOMAIN payload /\ End(p) = pos
    BY <1>11 DEF Dealt
  <2>2. p \in First(n) .. pos /\ Place(p) = p - First(n) /\ payload[p].ino = n
    BY <1>1, <1>2, <1>3, <1>9, <2>1, EndsTogether
  <2>3. p - a \in Places(s) /\ p = a + (p - a)
    BY <1>7, <2>2 DEF Places
  <2> QED
    BY <1>7, <2>1, <2>2, <2>3 DEF AtPlace
<1>12. ino[ix] = n
  <2>1. PICK p : p = First(n) + s.index /\ AtPlace(p, s.index, n)
    BY <1>3, <1>10
  <2> QED
    BY <1>1, <1>3, <1>9, <2>1, Header DEF AtPlace
<1>13. SetNow(k, s, n)
  BY <1>2, <1>3, <1>4, <1>5, <1>6, <1>12 DEF SetNow
<1>14. Count = s.nlink
  BY <1>3, <1>6 DEF Count
<1>15. ASSUME NEW p, NEW q, NEW r, AtPlace(p, r, n), AtPlace(q, s.index, n), payload[p].file = ix
       PROVE  r = s.index
  <2>1. payload[q].file = ix
    BY <1>3, <1>15 DEF AtPlace
  <2>2. p = q
    BY <1>1, <1>15, <2>1 DEF AtPlace, Entries
  <2> QED
    BY <1>15, <2>2 DEF AtPlace
<1> QED
  BY <1>10, <1>11, <1>13, <1>14, <1>15

(* How far a set is, at a stage of its installation.                        *)
Stage(s, stage, at) ==
    /\ stage \in {"process", "link"} => Members(s) = Places(s)
    /\ stage = "process" => s.left = s.nlink
    /\ stage = "link" => at <= s.nlink /\ s.left >= s.nlink - at + IF at > s.index THEN 1 ELSE 0
    /\ stage = "commit" => at <= s.nlink /\ Members(s) = at .. s.nlink - 1

(* The set that is installed stays the same.                                *)
LEMMA SetStaysAtHand ==
  ASSUME UNCHANGED <<given, payload, pos, ix>>, Linked, NEW k, NEW s, NEW n, SetNow(k, s, n),
         k \in DOMAIN links', NEW t, t = links'[k], t.ino = n, t.nlink = s.nlink, t.index = s.index,
         Stage(t, pc', i')
  PROVE  AtSet'
<1>1. /\ pos \in DOMAIN payload /\ ix \in Files /\ ~Skipped(ix) /\ n \in Files
      /\ payload[pos].ino = n /\ pos = Last(n)
      /\ s.index \in Places(s) /\ payload[First(n) + s.index].file = ix
  BY DEF SetNow
<1>2. First(n)' = First(n) /\ Last(n)' = Last(n)
  BY FramesStay
<1>3. t.index \in Places(t) /\ payload'[First(n)' + t.index].file = ix'
  BY <1>1, <1>2 DEF Places
<1>4. Linked' /\ ~Skipped(ix)' /\ payload'[pos'].ino = n /\ pos' = Last(n)' /\ ix' \in Files
  BY <1>1, <1>2 DEF Linked, Skipped, given
<1>5. /\ pc' \in {"process", "link"} => Members(t) = Places(t)
      /\ pc' = "process" => t.left = t.nlink
      /\ pc' = "link" => i' <= t.nlink /\ t.left >= t.nlink - i' + IF i' > t.index THEN 1 ELSE 0
      /\ pc' = "commit" => i' <= t.nlink /\ Members(t) = i' .. t.nlink - 1
  BY DEF Stage
<1>6. pos' <= Len(payload')
  BY <1>1, LenProperties DEF SetNow
<1> QED
  BY ONLY <1>1, <1>3, <1>4, <1>5, <1>6, k \in DOMAIN links', t = links'[k], t.ino = n DEF AtSet

(* The file that is installed, without another name, stays the same.        *)
LEMMA SingleStaysAtHand ==
  ASSUME UNCHANGED <<given, payload, pos, ix>>, ~Linked,
         payload[pos].file = ix, ix \in Files, ~Skipped(ix), pos <= Len(payload), pc' # "link"
  PROVE  AtSet'
BY DEF AtSet, Linked, Skipped, given

(* A file is extracted.                                                     *)
LEMMA ExtractKeeps ==
  ASSUME FsmInv, Extract
  PROVE  FsmInv'
<1>1. /\ pc = "process" /\ payload[pos].ino # NoFile /\ tmp' = [tmp EXCEPT ![ix] = pos]
      /\ pc' = IF Linked THEN "link" ELSE "commit"
      /\ i' = 0 /\ ec' = FALSE
      /\ UNCHANGED <<given, payload, ix, links, pos, disk, saved, new, blamed, result>>
  BY DEF Extract
<1>2. result = "none" /\ pc' \in {"link", "commit"} /\ Current' = Current
  BY <1>1, Numbers DEF Current
<1>3. /\ pos \in DOMAIN payload /\ ix \in Files /\ pos \in Contents /\ pos <= Len(payload)
      /\ tmp \in [Files -> Contents] /\ disk \in [Files -> Contents]
      /\ saved \in [Files -> Contents] /\ new \in [Files -> Contents]
  <2>1. AtSet
    BY DEF FsmInv
  <2> QED
    BY <1>1, <2>1, AtInstall DEF AtSet, Contents, Old
<1>4. tmp'[ix] = pos /\ \A f \in Files : f # ix => Untouched(f)
  BY <1>1, <1>3 DEF Untouched
<1>5. {tmp', disk', saved', new'} \subseteq [Files -> Contents]
  BY <1>1, <1>3
<1>6. /\ links' \in Seq(HardLinks) /\ Distinct(links')
      /\ \A k \in DOMAIN links' : \A s : s = links'[k] => SetOK(s)' /\ Holds(s, s.ino)'
      /\ \A n \in Files : Known(n)' <=> Began(n)'
  BY <1>1, <1>2, SetsStay
<1>7. /\ ix' \in 1 .. NFiles + 1 /\ pos' \in 1 .. Len(payload) + 1 /\ i' \in 0 .. NFiles + 1
      /\ ec' \in BOOLEAN /\ blamed' \in BOOLEAN /\ UNCHANGED <<given, payload>>
  BY <1>1, Numbers
<1>8. CASE ~Linked
  <2>1. /\ payload[pos].file = ix /\ ~Skipped(ix) /\ pc' = "commit"
        /\ \A p : Dealt(p) <=> p = pos
    BY <1>1, <1>8, SingleAtHand
  <2>2. AtSet'
    BY <1>1, <1>3, <1>8, <2>1, SingleStaysAtHand
  <2>3. ASSUME "rename" \notin Faults PROVE FilesKnown' /\ ErrorsKnown'
    <3>1. FilesKnown /\ ErrorsKnown
      BY <2>3 DEF FsmInv
    <3>2. AtHand(pos)
      BY <1>1, <2>1, <3>1 DEF FilesKnown, Dealt
    <3>3. Place(pos) \in Nat
      BY <1>1, <1>3, AtInstall, PlaceOf
    <3>4. ASSUME NEW p, Dealt(p) PROVE AtHand(p)'
      <4>1. p = pos /\ payload[p].file = ix /\ payload[p].ino # NoFile /\ Place(p) \in Nat
        BY <1>1, <2>1, <3>3, <3>4
      <4>2. Fresh(ix)
        BY <1>1, <2>1, <3>2 DEF AtHand
      <4>3. ~(Place(p)' < i')
        BY <1>1, <4>1, FramesStay
      <4>4. Ready(ix, pos)'
        BY <1>1, <1>4, <4>2 DEF Fresh, Ready
      <4> QED
        BY <1>1, <1>2, <2>1, <4>1, <4>3, <4>4 DEF AtHand, Ready
    <3>5. FilesKnown'
      BY <1>1, <1>4, <2>1, <3>1, <3>4, FilesKept
    <3>6. ErrorsKnown'
      BY <1>1, <1>2, <1>3, <1>8, <2>1, <3>1, SingleAtHand DEF ErrorsKnown, Linked, Count
    <3> QED
      BY <3>5, <3>6
  <2> QED
    BY <1>1, <1>2, <1>5, <1>6, <1>7, <2>2, <2>3, InstallKept
<1>9. CASE Linked
  <2>1. PICK k, s, n :
           /\ SetNow(k, s, n) /\ Count = s.nlink
           /\ \A p : Dealt(p) => \E q \in Places(s) : AtPlace(p, q, n)
           /\ \A q \in Places(s) : AtPlace(First(n) + q, q, n)
    BY <1>1, <1>9, SetAtHand
  <2>2. pc' = "link" /\ ~Skipped(ix)
    BY <1>1, <1>9, <2>1 DEF SetNow
  <2>3. AtSet'
    <3>1. k \in DOMAIN links' /\ s = links'[k] /\ s.ino = n
      BY <1>1, <2>1 DEF SetNow
    <3>2. Stage(s, pc', i')
      <4>1. Members(s) = Places(s) /\ s.left = s.nlink /\ s.nlink \in Nat /\ s.index \in Places(s)
        BY <1>1, <2>1, HardLink, FsmAssumption DEF SetNow
      <4>2. ~(0 > s.index)
        BY <4>1 DEF Places
      <4> QED
        BY <1>1, <2>2, <4>1, <4>2 DEF Stage
    <3> QED
      BY <1>1, <1>9, <2>1, <3>1, <3>2, SetStaysAtHand
  <2>4. ASSUME "rename" \notin Faults PROVE FilesKnown' /\ ErrorsKnown'
    <3>1. FilesKnown /\ ErrorsKnown
      BY <2>4 DEF FsmInv
    <3>2. ASSUME NEW p, Dealt(p) PROVE AtHand(p)'
      <4>1. p \in DOMAIN payload /\ payload[p].ino # NoFile /\ Place(p) \in Nat
        <5>1. PICK q : AtPlace(p, q, n)
          BY <2>1, <3>2
        <5>2. p \in DOMAIN payload /\ payload[p].ino # NoFile
          BY <2>1, <5>1 DEF AtPlace, SetNow, Files, NoFile
        <5> QED
          BY <5>2, AtInstall, PlaceOf, <1>1
      <4>2. ~(Place(p)' < i')
        BY <1>1, <4>1, FramesStay
      <4>3. PICK f \in Files : f = payload[p].file
        BY <1>1, <4>1, AtInstall, Header
      <4>4. Fresh(f)
        BY <1>1, <3>1, <3>2, <4>3 DEF AtHand, FilesKnown, Dealt
      <4>5. IF f = ix THEN Ready(f, pos)' ELSE Fresh(f)'
        BY <1>1, <1>4, <4>4 DEF Ready, Fresh, Untouched
      <4> QED
        BY <1>1, <1>2, <2>2, <4>2, <4>3, <4>5 DEF AtHand, Ready, Fresh
    <3>3. \A f \in Files : Untouched(f) \/ \E p : Dealt(p) /\ f = payload[p].file
      <4>1. PICK p : AtPlace(p, s.index, n) /\ payload[p].file = ix
        BY <2>1 DEF SetNow
      <4>2. Dealt(p)
        BY <2>1, <2>2, <4>1 DEF Dealt, AtPlace
      <4> QED
        BY <1>4, <4>1, <4>2
    <3>4. FilesKnown'
      BY <1>1, <2>2, <3>1, <3>2, <3>3, FilesKept
    <3>5. ErrorsKnown'
      BY <1>1, <1>2, <2>2, <3>1 DEF ErrorsKnown
    <3> QED
      BY <3>4, <3>5
  <2> QED
    BY <1>1, <1>2, <1>5, <1>6, <1>7, <2>3, <2>4, InstallKept
<1> QED
  BY <1>8, <1>9

(* The name that is extracted is one of a file that is dealt with.          *)
LEMMA NameAtHand ==
  ASSUME FsmInv, pc \in {"process", "link", "commit"}
  PROVE  /\ ix \in Files /\ ~Skipped(ix) /\ pos \in DOMAIN payload
         /\ \E p : Dealt(p) /\ payload[p].file = ix
         /\ payload[pos].ino # NoFile => ino[ix] = payload[pos].ino
         /\ payload[pos].ino = NoFile => ~Linked
<1>1. CASE ~Linked
  BY <1>1, SingleAtHand
<1>2. CASE Linked
  <2>1. PICK k, s, n : SetNow(k, s, n) /\ \A q \in Places(s) : AtPlace(First(n) + q, q, n)
    BY <1>2, SetAtHand
  <2>2. PICK p : AtPlace(p, s.index, n) /\ payload[p].file = ix
    BY <2>1 DEF SetNow
  <2>3. Dealt(p) /\ payload[pos].ino # NoFile
    BY <2>1, <2>2 DEF Dealt, AtPlace, SetNow, Files, NoFile
  <2> QED
    BY <2>1, <2>2, <2>3 DEF SetNow
<1> QED
  BY <1>1, <1>2

(* A file cannot be extracted.                                              *)
LEMMA ExtractFailsKeeps ==
  ASSUME FsmInv, ExtractFails
  PROVE  FsmInv'
<1>1. /\ pc = "process" /\ payload[pos].ino # NoFile /\ tmp' = [tmp EXCEPT ![ix] = None]
      /\ blamed' = TRUE /\ pc' = "done" /\ result' = "extract"
      /\ UNCHANGED <<given, payload, ix, links, i, pos, disk, saved, new, ec>>
  BY DEF ExtractFails, Finish
<1>2. Current' = Current
  BY <1>1, Numbers DEF Current
<1>3. /\ ix \in Files /\ None \in Contents
      /\ tmp \in [Files -> Contents] /\ disk \in [Files -> Contents]
      /\ saved \in [Files -> Contents] /\ new \in [Files -> Contents]
  BY <1>1, NameAtHand, AtInstall DEF Contents, Old, None
<1>4. tmp'[ix] = None /\ \A f \in Files : f # ix => Untouched(f)
  BY <1>1, <1>3 DEF Untouched
<1>5. {tmp', disk', saved', new'} \subseteq [Files -> Contents]
  BY <1>1, <1>3
<1>6. /\ links' \in Seq(HardLinks) /\ Distinct(links')
      /\ \A k \in DOMAIN links' : \A s : s = links'[k] => SetOK(s)' /\ Holds(s, s.ino)'
      /\ \A n \in Files : Known(n)' <=> Began(n)'
  BY <1>1, <1>2, SetsStay
<1>7. /\ ix' \in 1 .. NFiles + 1 /\ pos' \in 1 .. Len(payload) + 1 /\ i' \in 0 .. NFiles + 1
      /\ ec' \in BOOLEAN /\ blamed' \in BOOLEAN /\ UNCHANGED <<given, payload>>
  BY <1>1, Numbers
<1>8. AtSet'
  BY <1>1 DEF AtSet
<1>9. ASSUME "rename" \notin Faults PROVE FilesKnown' /\ ErrorsKnown'
  <2>1. FilesKnown
    BY <1>9 DEF FsmInv
  <2>2. ASSUME NEW p, Dealt(p) PROVE AtHand(p)'
    <3>1. PICK f \in Files : f = payload[p].file
      BY <1>1, <2>2, AtInstall, Header DEF Dealt
    <3>2. Fresh(f)
      BY <1>1, <2>1, <2>2, <3>1 DEF AtHand, FilesKnown, Dealt
    <3>3. Fresh(f)'
      BY <1>1, <1>4, <3>2 DEF Fresh, Untouched
    <3> QED
      BY <1>1, <3>1, <3>3 DEF AtHand, Fresh
  <2>3. FilesKnown'
    BY <1>1, <1>4, <2>1, <2>2, NameAtHand, FilesKept
  <2>4. ErrorsKnown'
    BY <1>1 DEF ErrorsKnown
  <2> QED
    BY <2>3, <2>4
<1> QED
  BY <1>1, <1>5, <1>6, <1>7, <1>8, <1>9, InstallKept

(* All links of a set are made.                                             *)
LEMMA LinksMadeKeeps ==
  ASSUME FsmInv, LinksMade
  PROVE  FsmInv'
<1>1. /\ pc = "link" /\ i = links[Set].nlink /\ ~ec /\ pc' = "commit" /\ i' = 0
      /\ UNCHANGED <<given, payload, ix, links, pos, system, ec, blamed, result>>
  BY DEF LinksMade
<1>2. Current' = Current /\ result = "none"
  BY <1>1, Numbers DEF Current
<1>3. {tmp', disk', saved', new'} \subseteq [Files -> Contents]
  BY <1>1, AtInstall DEF system
<1>4. /\ links' \in Seq(HardLinks) /\ Distinct(links')
      /\ \A k \in DOMAIN links' : \A s : s = links'[k] => SetOK(s)' /\ Holds(s, s.ino)'
      /\ \A n \in Files : Known(n)' <=> Began(n)'
  BY <1>1, <1>2, SetsStay
<1>5. /\ ix' \in 1 .. NFiles + 1 /\ pos' \in 1 .. Len(payload) + 1 /\ i' \in 0 .. NFiles + 1
      /\ ec' \in BOOLEAN /\ blamed' \in BOOLEAN /\ UNCHANGED <<given, payload>>
  BY <1>1, Numbers
<1>6. Linked
  BY <1>1 DEF FsmInv, AtSet
<1>7. FsmInv'
  <2>1. PICK k, s, n :
           /\ SetNow(k, s, n) /\ Count = s.nlink
           /\ \A p : Dealt(p) => \E q \in Places(s) : AtPlace(p, q, n)
           /\ \A q \in Places(s) : AtPlace(First(n) + q, q, n)
    BY <1>1, <1>6, SetAtHand
  <2>2. i = s.nlink /\ s.nlink \in Nat
    BY <1>1, <2>1, HardLink, FsmAssumption DEF SetNow
  <2>3. AtSet'
    <3>1. k \in DOMAIN links' /\ s = links'[k] /\ s.ino = n
      BY <1>1, <2>1 DEF SetNow
    <3>2. Stage(s, pc', i')
      <4>1. Members(s) = Places(s)
        BY <1>1, <2>1 DEF SetNow
      <4> QED
        BY <1>1, <2>2, <4>1 DEF Stage, Places
    <3> QED
      BY <1>1, <1>6, <2>1, <3>1, <3>2, SetStaysAtHand
  <2>4. ASSUME "rename" \notin Faults PROVE FilesKnown' /\ ErrorsKnown'
    <3>1. FilesKnown /\ ErrorsKnown
      BY <2>4 DEF FsmInv
    <3>2. ASSUME NEW p, Dealt(p) PROVE AtHand(p)'
      <4>1. PICK q \in Places(s) : AtPlace(p, q, n)
        BY <2>1, <3>2
      <4>2. q \in Nat /\ q < i /\ Place(p) = q /\ payload[p].ino # NoFile
        BY <2>1, <2>2, <4>1 DEF AtPlace, Places, SetNow, Files, NoFile
      <4>3. PICK f : f = payload[p].file
        OBVIOUS
      <4>4. Ready(f, pos)
        BY <1>1, <3>1, <3>2, <4>2, <4>3 DEF AtHand, FilesKnown, Dealt
      <4>5. Ready(f, pos)' /\ Place(p)' = q
        BY <1>1, <4>2, <4>4, FramesStay DEF Ready, system
      <4> QED
        BY <1>1, <1>2, <4>2, <4>3, <4>5 DEF AtHand, Ready
    <3>3. \A f \in Files : Untouched(f)
      BY <1>1 DEF Untouched, system
    <3>4. FilesKnown'
      BY <1>1, <3>1, <3>2, <3>3, FilesKept
    <3>5. ErrorsKnown'
      <4>1. payload[pos].ino # NoFile /\ ~blamed /\ pos' = pos /\ payload' = payload
        BY <1>1, <1>6, <3>1, NameAtHand DEF ErrorsKnown
      <4>2. Count' = s.nlink
        BY <1>1, <2>1 DEF Count, Linked, Set, SetOf
      <4> QED
        BY <1>1, <1>2, <2>2, <4>1, <4>2 DEF ErrorsKnown
    <3> QED
      BY <3>4, <3>5
  <2> QED
    BY <1>1, <1>2, <1>3, <1>4, <1>5, <2>3, <2>4, InstallKept
<1> QED
  BY <1>7

(* A name could not be linked: the one that was extracted is removed.       *)
LEMMA LinkFailedKeeps ==
  ASSUME FsmInv, LinkFailed
  PROVE  FsmInv'
<1>1. /\ pc = "link" /\ ec /\ tmp' = [tmp EXCEPT ![ix] = None] /\ pc' = "done" /\ result' = "link"
      /\ UNCHANGED <<given, payload, ix, links, i, pos, disk, saved, new, ec, blamed>>
  BY DEF LinkFailed, Finish
<1>2. Current' = Current /\ Linked
  BY <1>1, Numbers DEF Current, FsmInv, AtSet
<1>3. /\ ix \in Files /\ pos \in DOMAIN payload /\ None \in Contents
      /\ tmp \in [Files -> Contents] /\ disk \in [Files -> Contents]
      /\ saved \in [Files -> Contents] /\ new \in [Files -> Contents]
  BY <1>1, NameAtHand, AtInstall DEF Contents, Old, None
<1>4. tmp'[ix] = None /\ \A f \in Files : f # ix => Untouched(f)
  BY <1>1, <1>3 DEF Untouched
<1>5. {tmp', disk', saved', new'} \subseteq [Files -> Contents]
  BY <1>1, <1>3
<1>6. /\ links' \in Seq(HardLinks) /\ Distinct(links')
      /\ \A k \in DOMAIN links' : \A s : s = links'[k] => SetOK(s)' /\ Holds(s, s.ino)'
      /\ \A n \in Files : Known(n)' <=> Began(n)'
  BY <1>1, <1>2, SetsStay
<1>7. /\ ix' \in 1 .. NFiles + 1 /\ pos' \in 1 .. Len(payload) + 1 /\ i' \in 0 .. NFiles + 1
      /\ ec' \in BOOLEAN /\ blamed' \in BOOLEAN /\ UNCHANGED <<given, payload>>
  BY <1>1, Numbers
<1>8. AtSet'
  BY <1>1 DEF AtSet
<1>9. ASSUME "rename" \notin Faults PROVE FilesKnown' /\ ErrorsKnown'
  <2>1. FilesKnown
    BY <1>9 DEF FsmInv
  <2>2. ASSUME NEW p, Dealt(p) PROVE AtHand(p)'
    <3>1. PICK f \in Files : f = payload[p].file
      BY <1>1, <2>2, AtInstall, Header DEF Dealt
    <3>2. IF f = ix THEN Ready(f, pos) ELSE Fresh(f) \/ Ready(f, pos)
      BY <1>1, <2>1, <2>2, <3>1 DEF AtHand, FilesKnown, Dealt
    <3>3. Fresh(f)' \/ (f # ix /\ Ready(f, pos)')
      BY <1>1, <1>4, <3>2 DEF Fresh, Ready, Untouched
    <3> QED
      BY <1>1, <3>1, <3>3 DEF AtHand, Fresh, Ready
  <2>3. FilesKnown'
    BY <1>1, <1>4, <2>1, <2>2, NameAtHand, FilesKept
  <2>4. ErrorsKnown'
    <3>1. ino[ix] = payload[pos].ino /\ pos <= Len(payload)
      BY <1>1, <1>2, NameAtHand, AtInstall
    <3> QED
      BY <1>1, <1>3, <3>1 DEF ErrorsKnown, given
  <2> QED
    BY <2>3, <2>4
<1> QED
  BY <1>1, <1>5, <1>6, <1>7, <1>8, <1>9, InstallKept

(* The next header is to be read, as all that ends here was dealt with.     *)
LEMMA NextHeader ==
  ASSUME FsmInv, pc # "build", UNCHANGED <<given, payload, system, result>>, pos' = pos + 1, pc' = "next",
         result = "none", FilesKnown,
         \A p : Dealt(p) => payload[p].ino # NoFile /\ Placed(payload[p].file, pos)
  PROVE  FilesKnown'
<1>1. pos \in Nat /\ payload' = payload
  BY AtInstall
<1>2. \A f : (Fresh(f)' <=> Fresh(f)) /\ (Skipped(f)' <=> Skipped(f)) /\ \A e : Placed(f, e)' <=> Placed(f, e)
  BY DEF Fresh, Skipped, Placed, system, given
<1>3. ASSUME NEW p \in DOMAIN payload, NEW f, f = payload[p].file, NEW e, e = End(p)
      PROVE  /\ End(p)' = e
             /\ Skipped(f)' \/ e > pos' => Fresh(f)'
             /\ ~Skipped(f)' /\ e < pos' => payload'[p].ino # NoFile /\ Placed(f, e)'
             /\ ~Skipped(f)' /\ e = pos' => AtHand(p)'
  <2>1. e = End(p) /\ End(p)' = e /\ e \in Nat
    BY <1>3, FramesStay, EndsAt, AtInstall
  <2>2. /\ Skipped(f) \/ e > pos => Fresh(f)
        /\ ~Skipped(f) /\ e < pos => payload[p].ino # NoFile /\ Placed(f, e)
    BY <1>3 DEF FilesKnown
  <2>3. ~Skipped(f) /\ e = pos => payload[p].ino # NoFile /\ Placed(f, e)
    BY <1>3, <2>1 DEF Dealt
  <2>4. ~Skipped(f) /\ e = pos' => AtHand(p)'
    <3> SUFFICES ASSUME ~Skipped(f), e = pos' PROVE AtHand(p)'
      OBVIOUS
    <3>1. Fresh(f)'
      BY <1>1, <1>2, <2>1, <2>2
    <3> QED
      BY <1>1, <1>3, <3>1 DEF AtHand, Fresh
  <2>5. e > pos' => e > pos
    BY <1>1, <2>1
  <2>6. e < pos' => e < pos \/ e = pos
    BY <1>1, <2>1
  <2> QED
    BY <1>1, <1>2, <2>1, <2>2, <2>3, <2>4, <2>5, <2>6
<1>4. DOMAIN payload' = DOMAIN payload /\ \A p \in DOMAIN payload : payload'[p].file = payload[p].file
  BY <1>1
<1>5. ASSUME NEW f \in Files, f \notin Archived' PROVE Fresh(f)'
  <2>1. Archived' = Archived
    BY <1>1 DEF Archived
  <2> QED
    BY <1>2, <1>5, <2>1 DEF FilesKnown
<1> QED
  BY ONLY pc' = "next", <1>3, <1>4, <1>5 DEF FilesKnown, Fresh, Placed, Skipped

(* All names were renamed.                                                  *)
LEMMA CommittedKeeps ==
  ASSUME FsmInv, Committed
  PROVE  FsmInv'
<1>1. /\ pc = "commit" /\ i = Count /\ ~ec /\ pos' = pos + 1 /\ pc' = "next"
      /\ UNCHANGED <<given, payload, ix, links, i, system, ec, blamed, result>>
  BY DEF Committed
<1>2. Current' = Current /\ result = "none" /\ pos \in DOMAIN payload /\ pos \in Nat
      /\ pos + 1 \in 1 .. Len(payload) + 1
  <2>1. pos \in DOMAIN payload /\ pos \in Nat /\ pos + 1 \in 1 .. Len(payload) + 1 /\ result = "none"
    BY <1>1, NameAtHand, Numbers, AtInstall
  <2> QED
    BY <1>1, <2>1 DEF Current
<1>3. {tmp', disk', saved', new'} \subseteq [Files -> Contents]
  BY <1>1, AtInstall DEF system
<1>4. /\ links' \in Seq(HardLinks) /\ Distinct(links')
      /\ \A k \in DOMAIN links' : \A s : s = links'[k] => SetOK(s)' /\ Holds(s, s.ino)'
      /\ \A n \in Files : Known(n)' <=> Began(n)'
  BY <1>1, <1>2, SetsStay
<1>5. /\ ix' \in 1 .. NFiles + 1 /\ pos' \in 1 .. Len(payload) + 1 /\ i' \in 0 .. NFiles + 1
      /\ ec' \in BOOLEAN /\ blamed' \in BOOLEAN /\ UNCHANGED <<given, payload>>
  BY <1>1, <1>2, Numbers
<1>6. AtSet'
  BY <1>1 DEF AtSet
<1>7. ASSUME "rename" \notin Faults PROVE FilesKnown' /\ ErrorsKnown'
  <2>1. FilesKnown /\ ErrorsKnown
    BY <1>7 DEF FsmInv
  <2>2. payload[pos].ino # NoFile /\ ~blamed
    BY <1>1, <2>1, NameAtHand DEF ErrorsKnown, Count, Linked
  <2>3. ASSUME NEW p, Dealt(p) PROVE Placed(payload[p].file, pos)
    <3>1. AtHand(p) /\ p \in DOMAIN payload
      BY <2>1, <2>3, <1>1 DEF FilesKnown, Dealt
    <3>2. payload[p].ino # NoFile /\ Place(p) < i
      <4>1. CASE ~Linked
        <5>1. p = pos /\ Count = 1
          BY <1>1, <2>3, <4>1, SingleAtHand
        <5>2. PICK n \in Files : n = payload[pos].ino /\ Framed(n) /\ Last(n) = pos /\ Place(pos) = pos - First(n)
          BY <1>2, <2>2, <2>3, <5>1, AtInstall, EndsTogether, <1>1 DEF Dealt
        <5>3. payload[pos].nlink = pos - First(n) + 1 /\ First(n) \in Int /\ First(n) <= pos
          <6>1. First(n) \in Int /\ First(n) <= pos /\ pos \in First(n) .. Last(n)
            BY <1>1, <1>2, <5>2, AtInstall DEF Framed
          <6> QED
            BY <5>2, <6>1 DEF Framed
        <5> QED
          BY <1>1, <1>2, <2>2, <4>1, <5>1, <5>2, <5>3 DEF Linked
      <4>2. CASE Linked
        <5>1. PICK k, s, n :
                 /\ SetNow(k, s, n) /\ Count = s.nlink
                 /\ \A y : Dealt(y) => \E q \in Places(s) : AtPlace(y, q, n)
          BY <1>1, <4>2, SetAtHand
        <5>2. PICK q \in Places(s) : AtPlace(p, q, n)
          BY <2>3, <5>1
        <5>3. q < s.nlink
          BY <5>1, HardLink, FsmAssumption DEF Places, SetNow
        <5> QED
          BY <1>1, <5>1, <5>2, <5>3 DEF AtPlace, SetNow, Files, NoFile
      <4> QED
        BY <4>1, <4>2
    <3> QED
      BY <1>1, <3>1, <3>2 DEF AtHand
  <2>4. ASSUME NEW p, Dealt(p) PROVE payload[p].ino # NoFile
    <3>1. p \in DOMAIN payload /\ End(p) = pos
      BY <2>4 DEF Dealt
    <3> QED
      BY <1>1, <1>2, <2>2, <3>1, AtInstall, EndsTogether
  <2>5. FilesKnown'
    BY <1>1, <1>2, <2>1, <2>3, <2>4, NextHeader
  <2>6. ErrorsKnown'
    BY <1>1, <1>2, <2>2 DEF ErrorsKnown
  <2> QED
    BY <2>5, <2>6
<1> QED
  BY <1>1, <1>2, <1>3, <1>4, <1>5, <1>6, <1>7, InstallKept

(* A name could not be renamed.                                             *)
LEMMA CommitFailedKeeps ==
  ASSUME FsmInv, CommitFailed
  PROVE  FsmInv'
<1>1. /\ pc = "commit" /\ i = Count /\ ec /\ pc' = "done" /\ result' = "rename"
      /\ UNCHANGED <<given, payload, ix, links, i, pos, system, ec, blamed>>
  BY DEF CommitFailed, Finish
<1>2. Current' = Current /\ result = "none" /\ pos \in DOMAIN payload
  BY <1>1, Numbers, NameAtHand DEF Current
<1>3. {tmp', disk', saved', new'} \subseteq [Files -> Contents]
  BY <1>1, AtInstall DEF system
<1>4. /\ links' \in Seq(HardLinks) /\ Distinct(links')
      /\ \A k \in DOMAIN links' : \A s : s = links'[k] => SetOK(s)' /\ Holds(s, s.ino)'
      /\ \A n \in Files : Known(n)' <=> Began(n)'
  BY <1>1, <1>2, SetsStay
<1>5. /\ ix' \in 1 .. NFiles + 1 /\ pos' \in 1 .. Len(payload) + 1 /\ i' \in 0 .. NFiles + 1
      /\ ec' \in BOOLEAN /\ blamed' \in BOOLEAN /\ UNCHANGED <<given, payload>>
  BY <1>1, Numbers
<1>6. AtSet'
  BY <1>1 DEF AtSet
<1>7. ASSUME "rename" \notin Faults PROVE FilesKnown' /\ ErrorsKnown'
  <2>1. FilesKnown /\ ErrorsKnown
    BY <1>7 DEF FsmInv
  <2>2. payload[pos].ino = NoFile /\ ~Linked /\ Count = 1
    <3>1. payload[pos].ino = NoFile
      BY <1>1, <2>1 DEF ErrorsKnown
    <3> QED
      BY <1>1, <3>1, NameAtHand DEF Count
  <2>3. ASSUME NEW p, Dealt(p) PROVE AtHand(p)'
    <3>1. p = pos /\ AtHand(p)
      BY <1>1, <2>1, <2>2, <2>3, SingleAtHand DEF FilesKnown, Dealt
    <3>2. Fresh(payload[p].file)
      BY <1>1, <2>2, <3>1 DEF AtHand
    <3> QED
      BY <1>1, <3>2 DEF AtHand, Fresh, system, given
  <2>4. \A f \in Files : Untouched(f)
    BY <1>1 DEF Untouched, system
  <2>5. FilesKnown'
    BY <1>1, <2>1, <2>3, <2>4, FilesKept
  <2>6. ErrorsKnown'
    BY <1>1, <1>2, <2>2, AtInstall DEF ErrorsKnown
  <2> QED
    BY <2>5, <2>6
<1> QED
  BY <1>1, <1>3, <1>4, <1>5, <1>6, <1>7, InstallKept

(* What a rename does.                                                      *)
LEMMA Renamed ==
  ASSUME NEW f \in Files, Commit(f), UNCHANGED given, blamed \in BOOLEAN,
         tmp \in [Files -> Contents], disk \in [Files -> Contents],
         saved \in [Files -> Contents], new \in [Files -> Contents]
  PROVE  /\ {tmp', disk', saved', new'} \subseteq [Files -> Contents]
         /\ \A g \in Files : g # f => Untouched(g)
         /\ ec' \in BOOLEAN /\ blamed' \in BOOLEAN
         /\ "rename" \notin Faults =>
               /\ \A q : Ready(f, q) /\ q # None /\ payload[pos].ino # NoFile
                       => Placed(f, q)' /\ ~ec' /\ blamed' = blamed
               /\ Fresh(f) /\ payload[pos].ino = NoFile => Fresh(f)' /\ ec'
<1>1. PICK keepFails, failing \in {FALSE, "rename" \in Faults} :
          LET moved == act[f] = "backup" /\ payload[pos].ino # NoFile /\ ~keepFails
              left == IF moved THEN None ELSE disk[f]
              failed == failing \/ tmp[f] = None
              aside == act[f] = "altname"
          IN  /\ saved' = [saved EXCEPT ![f] = IF moved THEN disk[f] ELSE @]
              /\ disk' = [disk EXCEPT ![f] = IF failed \/ aside THEN left ELSE tmp[f]]
              /\ new' = [new EXCEPT ![f] = IF ~failed /\ aside THEN tmp[f] ELSE @]
              /\ tmp' = [tmp EXCEPT ![f] = None]
              /\ ec' = failed /\ blamed' = (blamed \/ failed)
  BY Zenon DEF Commit
<1> DEFINE moved == act[f] = "backup" /\ payload[pos].ino # NoFile /\ ~keepFails
           left == IF moved THEN None ELSE disk[f]
           failed == failing \/ tmp[f] = None
           aside == act[f] = "altname"
<1>2. None \in Contents /\ act' = act
  BY DEF Contents, None, Old, given
<1>3. /\ saved'[f] = IF moved THEN disk[f] ELSE saved[f]
      /\ disk'[f] = IF failed \/ aside THEN left ELSE tmp[f]
      /\ new'[f] = IF ~failed /\ aside THEN tmp[f] ELSE new[f]
      /\ tmp'[f] = None
      /\ \A g \in Files : g # f => Untouched(g)
  BY <1>1 DEF Untouched
<1>4. {tmp', disk', saved', new'} \subseteq [Files -> Contents]
  BY <1>1, <1>2
<1>5. ec' \in BOOLEAN /\ blamed' \in BOOLEAN
  BY <1>1
<1>6. ASSUME "rename" \notin Faults
      PROVE  /\ \A q : Ready(f, q) /\ q # None /\ payload[pos].ino # NoFile
                     => Placed(f, q)' /\ ~ec' /\ blamed' = blamed
             /\ Fresh(f) /\ payload[pos].ino = NoFile => Fresh(f)' /\ ec'
  <2>1. ~keepFails /\ ~failing
    BY <1>1, <1>6
  <2>2. failed <=> tmp[f] = None
    BY <1>1, <2>1
  <2>3. moved <=> act[f] = "backup" /\ payload[pos].ino # NoFile
    BY <1>1, <2>1
  <2>4. ASSUME NEW q, Ready(f, q), q # None, payload[pos].ino # NoFile
        PROVE  Placed(f, q)' /\ ~ec' /\ blamed' = blamed
    <3>1. ~failed
      BY <2>2, <2>4 DEF Ready
    <3>2. ~ec' /\ blamed' = blamed
      BY <1>1, <3>1
    <3>3. Placed(f, q)'
      BY <1>1, <1>2, <1>3, <2>3, <2>4, <3>1 DEF Ready, Placed
    <3> QED
      BY <3>2, <3>3
  <2>5. ASSUME Fresh(f), payload[pos].ino = NoFile PROVE Fresh(f)' /\ ec'
    <3>1. failed
      BY <2>2, <2>5 DEF Fresh
    <3>2. Fresh(f)'
      BY <1>3, <2>3, <2>5, <3>1 DEF Fresh
    <3> QED
      BY <1>1, <3>1, <3>2
  <2> QED
    BY <2>4, <2>5
<1> QED
  BY <1>3, <1>4, <1>5, <1>6

(* A file without another name is renamed.                                  *)
LEMMA CommitSingleKeeps ==
  ASSUME FsmInv, CommitSingle
  PROVE  FsmInv'
<1>1. /\ pc = "commit" /\ ~Linked /\ i = 0 /\ i' = 1 /\ Commit(ix)
      /\ UNCHANGED <<given, payload, pc, ix, links, pos, result>>
  BY DEF CommitSingle
<1>2. Current' = Current /\ result = "none"
  BY <1>1, Numbers DEF Current
<1>3. /\ pos \in DOMAIN payload /\ payload[pos].file = ix /\ ix \in Files /\ ~Skipped(ix)
      /\ Count = 1 /\ \A p : Dealt(p) <=> p = pos
      /\ payload[pos].ino # NoFile => ino[ix] = payload[pos].ino
  BY <1>1, SingleAtHand
<1>4. /\ tmp \in [Files -> Contents] /\ disk \in [Files -> Contents]
      /\ saved \in [Files -> Contents] /\ new \in [Files -> Contents]
      /\ blamed \in BOOLEAN /\ pos # None /\ pos <= Len(payload)
  BY <1>1, <1>3, AtInstall, Numbers DEF None
<1>5. /\ {tmp', disk', saved', new'} \subseteq [Files -> Contents]
      /\ \A g \in Files : g # ix => Untouched(g)
      /\ ec' \in BOOLEAN /\ blamed' \in BOOLEAN
      /\ "rename" \notin Faults =>
            /\ Ready(ix, pos) /\ payload[pos].ino # NoFile
                   => Placed(ix, pos)' /\ ~ec' /\ blamed' = blamed
            /\ Fresh(ix) /\ payload[pos].ino = NoFile => Fresh(ix)' /\ ec'
  <2>1. PICK f : f = ix
    OBVIOUS
  <2>2. f \in Files /\ Commit(f) /\ UNCHANGED given
    BY <1>1, <1>3, <2>1
  <2>3. /\ {tmp', disk', saved', new'} \subseteq [Files -> Contents]
        /\ \A g \in Files : g # f => Untouched(g)
        /\ ec' \in BOOLEAN /\ blamed' \in BOOLEAN
        /\ "rename" \notin Faults =>
              /\ \A q : Ready(f, q) /\ q # None /\ payload[pos].ino # NoFile
                      => Placed(f, q)' /\ ~ec' /\ blamed' = blamed
              /\ Fresh(f) /\ payload[pos].ino = NoFile => Fresh(f)' /\ ec'
    BY <1>4, <2>2, Renamed
  <2>4. f = ix' /\ pos = pos'
    BY <1>1, <2>1
  <2> QED
    BY <1>4, <2>1, <2>3, <2>4 DEF Placed, Fresh
<1>6. /\ links' \in Seq(HardLinks) /\ Distinct(links')
      /\ \A k \in DOMAIN links' : \A s : s = links'[k] => SetOK(s)' /\ Holds(s, s.ino)'
      /\ \A n \in Files : Known(n)' <=> Began(n)'
  BY <1>1, <1>2, SetsStay
<1>7. /\ ix' \in 1 .. NFiles + 1 /\ pos' \in 1 .. Len(payload) + 1 /\ i' \in 0 .. NFiles + 1
      /\ UNCHANGED <<given, payload>>
  BY <1>1, Numbers, FsmAssumption
<1>8. AtSet'
  BY <1>1, <1>3, <1>4, SingleStaysAtHand
<1>9. ASSUME "rename" \notin Faults PROVE FilesKnown' /\ ErrorsKnown'
  <2>1. FilesKnown /\ ErrorsKnown
    BY <1>9 DEF FsmInv
  <2>2. AtHand(pos)
    BY <1>1, <1>3, <2>1 DEF FilesKnown, Dealt
  <2>3. CASE payload[pos].ino = NoFile
    <3>1. Fresh(ix)' /\ ec'
      BY <1>1, <1>3, <1>5, <1>9, <2>2, <2>3 DEF AtHand
    <3>2. ASSUME NEW p, Dealt(p) PROVE AtHand(p)'
      BY <1>1, <1>2, <1>3, <2>3, <3>1, <3>2 DEF AtHand, Fresh
    <3>3. FilesKnown'
      BY <1>1, <1>3, <1>5, <2>1, <3>2, FilesKept
    <3>4. ErrorsKnown'
      BY <1>1, <1>2, <2>3, <3>1 DEF ErrorsKnown
    <3> QED
      BY <3>3, <3>4
  <2>4. CASE payload[pos].ino # NoFile
    <3>1. Place(pos) = 0
      <4>1. PICK n \in Files : n = payload[pos].ino /\ Framed(n) /\ Last(n) = pos /\ Place(pos) = pos - First(n)
        BY <1>1, <1>3, <2>4, AtInstall, EndsTogether DEF Dealt
      <4>2. First(n) \in Int /\ First(n) <= pos /\ pos \in First(n) .. Last(n) /\ pos \in Int
        BY <1>1, <1>3, <4>1, AtInstall DEF Framed
      <4>3. payload[pos].nlink = pos - First(n) + 1
        BY <4>1, <4>2 DEF Framed
      <4> QED
        BY <1>1, <4>1, <4>2, <4>3 DEF Linked
    <3>2. Placed(ix, pos)' /\ ~ec' /\ ~blamed'
      <4>1. Ready(ix, pos)
        BY <1>1, <1>3, <2>2, <2>4, <3>1 DEF AtHand
      <4> QED
        BY <1>1, <1>5, <1>9, <2>1, <2>4, <4>1 DEF ErrorsKnown
    <3>3. ASSUME NEW p, Dealt(p) PROVE AtHand(p)'
      <4>1. p = pos /\ Place(p)' = 0
        BY <1>1, <1>3, <3>1, <3>3, FramesStay
      <4> QED
        BY <1>1, <1>2, <1>3, <2>4, <3>2, <4>1 DEF AtHand, Placed
    <3>4. FilesKnown'
      BY <1>1, <1>3, <1>5, <2>1, <3>3, FilesKept
    <3>5. ErrorsKnown'
      BY <1>1, <1>2, <1>3, <2>4, <3>2 DEF ErrorsKnown, Count, Linked
    <3> QED
      BY <3>4, <3>5
  <2> QED
    BY <2>3, <2>4
<1> QED
  BY <1>1, <1>2, <1>5, <1>6, <1>7, <1>8, <1>9, InstallKept

(* A name of a set is forgotten.                                            *)
LEMMA NameForgotten ==
  ASSUME NEW s \in HardLinks, NEW q \in Places(s), NEW t, t = [s EXCEPT !.filex[q] = Free]
  PROVE  /\ t \in HardLinks /\ t.ino = s.ino /\ t.nlink = s.nlink /\ t.left = s.left /\ t.index = s.index
         /\ Members(t) = Members(s) \ {q} /\ \A p \in Members(t) : t.filex[p] = s.filex[p]
<1> DEFINE g == [s.filex EXCEPT ![q] = Free]
<1>1. t = [ino |-> s.ino, nlink |-> s.nlink, left |-> s.left, index |-> s.index, filex |-> g]
  <2>1. PICK n \in Files, m \in 0 .. NFiles + 1, l \in Int, x \in Int, h \in [Places(s) -> 0 .. NFiles] :
            s = [ino |-> n, nlink |-> m, left |-> l, index |-> x, filex |-> h]
    BY HardLink
  <2> QED
    BY <2>1
<1>2. g \in [0 .. s.nlink - 1 -> 0 .. NFiles]
  BY HardLink, FsmAssumption DEF Places, Free
<1>3. t \in HardLinks
  <2>1. s.ino \in Files /\ s.nlink \in 0 .. NFiles + 1 /\ s.left \in Int /\ s.index \in Int
    BY HardLink
  <2>2. PICK y : y = g
    OBVIOUS
  <2>3. y \in [0 .. s.nlink - 1 -> 0 .. NFiles]
    BY <1>2, <2>2
  <2> HIDE DEF g
  <2>4. t = [ino |-> s.ino, nlink |-> s.nlink, left |-> s.left, index |-> s.index, filex |-> y]
    BY <1>1, <2>2
  <2> QED
    BY ONLY <2>1, <2>3, <2>4, AHardLink
<1>4. \A p \in 0 .. s.nlink - 1 : g[p] = IF p = q THEN Free ELSE s.filex[p]
  BY HardLink DEF Places
<1>5. t.filex = g /\ t.ino = s.ino /\ t.nlink = s.nlink /\ t.left = s.left /\ t.index = s.index
  BY <1>1
<1>6. Members(t) = Members(s) \ {q}
  <2> HIDE DEF g
  <2> QED
    BY <1>4, <1>5 DEF Members
<1>7. \A p \in Members(t) : t.filex[p] = s.filex[p]
  <2> HIDE DEF g
  <2> QED
    BY <1>4, <1>5 DEF Members
<1> QED
  BY <1>3, <1>5, <1>6, <1>7

(* A link of a set is made: there is one less to make.                      *)
LEMMA LinkCounted ==
  ASSUME NEW s \in HardLinks, NEW t, t = [s EXCEPT !.left = @ - 1]
  PROVE  /\ t \in HardLinks /\ t.ino = s.ino /\ t.nlink = s.nlink /\ t.left = s.left - 1
         /\ t.index = s.index /\ t.filex = s.filex /\ Members(t) = Members(s)
<1>1. t = [ino |-> s.ino, nlink |-> s.nlink, left |-> s.left - 1, index |-> s.index, filex |-> s.filex]
  <2>1. PICK n \in Files, m \in 0 .. NFiles + 1, l \in Int, x \in Int, h \in [Places(s) -> 0 .. NFiles] :
            s = [ino |-> n, nlink |-> m, left |-> l, index |-> x, filex |-> h]
    BY HardLink
  <2> QED
    BY <2>1
<1>2. t \in HardLinks
  BY <1>1, HardLink, AHardLink DEF Places
<1>3. t.filex = s.filex /\ t.ino = s.ino /\ t.nlink = s.nlink /\ t.left = s.left - 1 /\ t.index = s.index
  BY <1>1
<1> QED
  BY <1>2, <1>3 DEF Members

(* One set changes, and no header is read.                                  *)
LEMMA OneSetChanges ==
  ASSUME FsmInv, pc # "build", pc' # "build", UNCHANGED <<given, payload>>, Current' = Current,
         NEW k \in DOMAIN links, NEW t \in HardLinks, t.ino = links[k].ino,
         links' = [links EXCEPT ![k] = t], SetOK(t)', Holds(t, t.ino)'
  PROVE  /\ links' \in Seq(HardLinks) /\ Distinct(links')
         /\ \A j \in DOMAIN links' : \A s : s = links'[j] => SetOK(s)' /\ Holds(s, s.ino)'
         /\ \A n \in Files : Known(n)' <=> Began(n)'
         /\ k \in DOMAIN links' /\ links'[k] = t
<1>1. links \in Seq(HardLinks) /\ Distinct(links)
  BY AtInstall
<1>2. DOMAIN links' = DOMAIN links /\ \A j \in DOMAIN links : links'[j] = IF j = k THEN t ELSE links[j]
  OBVIOUS
<1>3. links' \in Seq(HardLinks)
  BY <1>1
<1>4. \A j \in DOMAIN links : links'[j].ino = links[j].ino
  BY <1>2
<1>5. Distinct(links')
  BY <1>1, <1>2, <1>4 DEF Distinct
<1>6. ASSUME NEW j \in DOMAIN links', NEW s, s = links'[j] PROVE SetOK(s)' /\ Holds(s, s.ino)'
  <2>1. CASE j = k
    BY <1>2, <1>6, <2>1
  <2>2. CASE j # k
    <3>1. j \in DOMAIN links /\ s = links[j]
      BY <1>2, <1>6, <2>2
    <3>2. SetOK(s) /\ Holds(s, s.ino)
      BY <3>1, AtInstall
    <3>3. First(s.ino)' = First(s.ino) /\ Last(s.ino)' = Last(s.ino)
      BY FramesStay
    <3> QED
      BY <3>2, <3>3 DEF SetOK, Holds, given
  <2> QED
    BY <2>1, <2>2
<1>7. ASSUME NEW n \in Files PROVE Known(n)' <=> Began(n)'
  <2>1. Same(n)' = Same(n) /\ First(n)' = First(n) /\ Last(n)' = Last(n)
    BY FramesStay
  <2>2. Known(n)' <=> Known(n)
    BY <1>2, <1>4 DEF Known
  <2> QED
    BY <2>1, <2>2, AtInstall DEF Began
<1> QED
  BY <1>2, <1>3, <1>5, <1>6, <1>7

(* A name of the set is renamed, or it is skipped.                          *)
LEMMA CommitNameKeeps ==
  ASSUME FsmInv, CommitName
  PROVE  FsmInv'
<1>1. /\ pc = "commit" /\ Linked /\ i < links[Set].nlink /\ i' = i + 1
      /\ links' = [links EXCEPT ![Set].filex[i] = Free]
      /\ UNCHANGED <<given, payload, pc, ix, pos, result>>
  BY DEF CommitName
<1>2. Current' = Current /\ Current = pos /\ result = "none"
  BY <1>1, Numbers DEF Current
<1>3. PICK k, s, n :
         /\ SetNow(k, s, n) /\ Count = s.nlink
         /\ \A p : Dealt(p) => \E q \in Places(s) : AtPlace(p, q, n)
         /\ \A q \in Places(s) : AtPlace(First(n) + q, q, n)
  BY <1>1, SetAtHand
<1>4. k = Set /\ k \in DOMAIN links /\ s = links[k] /\ s \in HardLinks /\ s.ino = n /\ n \in Files
      /\ SetOK(s) /\ Holds(s, n) /\ pos = Last(n) /\ payload[pos].ino = n /\ pos \in DOMAIN payload
      /\ i <= s.nlink /\ Members(s) = i .. s.nlink - 1 /\ n # NoFile
  BY <1>1, <1>3 DEF SetNow, Files, NoFile
<1>5. i \in Nat /\ s.nlink \in Nat /\ i < s.nlink /\ i \in Places(s) /\ i \in Members(s) /\ i + 1 \in 0 .. NFiles + 1
  BY <1>1, <1>4, Numbers, HardLink, FsmAssumption DEF Places
<1>6. PICK t : t = [s EXCEPT !.filex[i] = Free]
  OBVIOUS
<1>7. /\ t \in HardLinks /\ t.ino = s.ino /\ t.nlink = s.nlink /\ t.left = s.left /\ t.index = s.index
      /\ Members(t) = Members(s) \ {i} /\ \A p \in Members(t) : t.filex[p] = s.filex[p]
  <2>1. PICK j : j = i
    OBVIOUS
  <2> QED
    BY <1>4, <1>5, <1>6, <2>1, NameForgotten
<1>8. links' = [links EXCEPT ![k] = t]
  BY <1>1, <1>4, <1>6
<1>9. SetOK(t)' /\ Holds(t, t.ino)'
  <2>1. First(n)' = First(n) /\ Last(n)' = Last(n)
    BY <1>1, FramesStay
  <2>2. Members(t) \subseteq Members(s)
    BY <1>7
  <2>3. SetOK(t)'
    BY <1>1, <1>4, <1>7, <2>2 DEF SetOK, given
  <2>4. Holds(t, n)'
    <3>1. t.nlink = Last(n)' - First(n)' + 1
      BY <1>4, <1>7, <2>1 DEF Holds
    <3>2. ASSUME NEW q \in Members(t) PROVE t.filex[q] = payload'[First(n)' + q].file
      BY <1>1, <1>4, <1>7, <2>1, <2>2 DEF Holds
    <3>3. ~(Current' < Last(n)')
      BY <1>2, <1>4, <1>1, <2>1, AtInstall
    <3> QED
      BY <3>1, <3>2, <3>3 DEF Holds
  <2> QED
    BY <1>4, <1>7, <2>3, <2>4
<1>10. /\ links' \in Seq(HardLinks) /\ Distinct(links')
       /\ \A j \in DOMAIN links' : \A x : x = links'[j] => SetOK(x)' /\ Holds(x, x.ino)'
       /\ \A m \in Files : Known(m)' <=> Began(m)'
       /\ k \in DOMAIN links' /\ links'[k] = t
  BY <1>1, <1>2, <1>4, <1>7, <1>8, <1>9, OneSetChanges
<1>11. AtSet'
  <2>1. Members(t) = i + 1 .. s.nlink - 1
    BY <1>4, <1>5, <1>7
  <2>2. Stage(t, pc', i')
    BY <1>1, <1>5, <1>7, <2>1 DEF Stage
  <2> QED
    BY <1>1, <1>3, <1>4, <1>7, <1>10, <2>2, SetStaysAtHand
<1>12. PICK f \in Files : f = s.filex[i] /\ f = payload[First(n) + i].file
  <2>1. s.filex[i] = payload[First(n) + i].file /\ First(n) + i \in DOMAIN payload
    BY <1>3, <1>4, <1>5 DEF Holds, AtPlace
  <2> QED
    BY <1>1, <2>1, AtInstall, Header
<1>13. /\ tmp \in [Files -> Contents] /\ disk \in [Files -> Contents]
       /\ saved \in [Files -> Contents] /\ new \in [Files -> Contents]
       /\ ec \in BOOLEAN /\ blamed \in BOOLEAN /\ pos # None
  BY <1>1, <1>4, AtInstall, Numbers DEF None
<1>14. \/ ~Skipped(f) /\ Commit(f)
       \/ Skipped(f) /\ ec' = FALSE /\ UNCHANGED <<system, blamed>>
  <2>1. LET z == links[Set]
        IN  \/ Wanted(z, i) /\ Commit(z.filex[i])
            \/ /\ i \in Members(z) /\ Skipped(z.filex[i])
               /\ ec' = FALSE /\ UNCHANGED <<system, blamed>>
            \/ i \notin Members(z) /\ UNCHANGED <<system, ec, blamed>>
    BY DEF CommitName
  <2>2. \/ Wanted(s, i) /\ Commit(s.filex[i])
        \/ /\ i \in Members(s) /\ Skipped(s.filex[i])
           /\ ec' = FALSE /\ UNCHANGED <<system, blamed>>
        \/ i \notin Members(s) /\ UNCHANGED <<system, ec, blamed>>
    BY <1>4, <2>1
  <2> QED
    BY <1>5, <1>12, <2>2 DEF Wanted
<1>15. /\ {tmp', disk', saved', new'} \subseteq [Files -> Contents]
       /\ \A g \in Files : g # f \/ Skipped(f) => Untouched(g)
       /\ ec' \in BOOLEAN /\ blamed' \in BOOLEAN
       /\ "rename" \notin Faults => (~Skipped(f) /\ Ready(f, pos) => Placed(f, pos)' /\ ~ec' /\ blamed' = blamed)
  <2>1. CASE ~Skipped(f) /\ Commit(f)
    <3>1. /\ {tmp', disk', saved', new'} \subseteq [Files -> Contents]
          /\ \A g \in Files : g # f => Untouched(g)
          /\ ec' \in BOOLEAN /\ blamed' \in BOOLEAN
          /\ "rename" \notin Faults =>
                /\ \A q : Ready(f, q) /\ q # None /\ payload[pos].ino # NoFile
                        => Placed(f, q)' /\ ~ec' /\ blamed' = blamed
                /\ Fresh(f) /\ payload[pos].ino = NoFile => Fresh(f)' /\ ec'
      BY <1>1, <1>13, <2>1, Renamed
    <3>2. payload[pos].ino # NoFile
      BY <1>4 DEF Files, NoFile
    <3> QED
      BY <1>1, <1>13, <2>1, <3>1, <3>2 DEF Placed
  <2>2. CASE Skipped(f) /\ ec' = FALSE /\ UNCHANGED <<system, blamed>>
    BY <1>13, <2>2 DEF system, Untouched
  <2> QED
    BY <1>14, <2>1, <2>2
<1>16. ASSUME "rename" \notin Faults PROVE FilesKnown' /\ ErrorsKnown'
  <2>1. FilesKnown /\ ErrorsKnown
    BY <1>16 DEF FsmInv
  <2>2. ASSUME NEW p, Dealt(p)
        PROVE  \E q \in Places(s) : /\ AtPlace(p, q, n) /\ q \in Nat /\ Place(p)' = q
                                    /\ IF q < i THEN Placed(payload[p].file, pos) ELSE Ready(payload[p].file, pos)
    <3>1. PICK q \in Places(s) : AtPlace(p, q, n)
      BY <1>3, <2>2
    <3>2. AtHand(p) /\ Place(p) = q /\ payload[p].ino # NoFile /\ q \in Nat
      BY <1>1, <1>4, <2>1, <2>2, <3>1 DEF FilesKnown, Dealt, AtPlace, Places
    <3>3. Place(p)' = q
      BY <1>1, <3>2, FramesStay
    <3> QED
      BY <1>1, <3>1, <3>2, <3>3 DEF AtHand
  <2>3. Dealt(First(n) + i) \/ Skipped(f)
    BY <1>3, <1>5, <1>12 DEF Dealt, AtPlace
  <2>4. ~Skipped(f) => Ready(f, pos)
    <3> SUFFICES ASSUME ~Skipped(f) PROVE Ready(f, pos)
      OBVIOUS
    <3>1. PICK p : p = First(n) + i /\ Dealt(p) /\ Place(p) = i
      BY <1>3, <1>5, <2>3 DEF AtPlace
    <3>2. PICK q : AtPlace(p, q, n) /\ ~(q < i) => Ready(payload[p].file, pos)
      BY <2>2, <3>1
    <3>3. AtHand(p) /\ payload[p].ino # NoFile
      BY <1>1, <1>3, <1>4, <1>5, <2>1, <3>1 DEF FilesKnown, Dealt, AtPlace
    <3> QED
      BY <1>1, <1>5, <1>12, <3>1, <3>3 DEF AtHand
  <2>5. ~Skipped(f) => Placed(f, pos)'
    BY <1>15, <1>16, <2>4
  <2>6. ASSUME NEW p, Dealt(p) PROVE AtHand(p)'
    <3>1. PICK q \in Places(s) : /\ AtPlace(p, q, n) /\ q \in Nat /\ Place(p)' = q
                                 /\ IF q < i THEN Placed(payload[p].file, pos) ELSE Ready(payload[p].file, pos)
      BY <2>2, <2>6
    <3>2. PICK g : g = payload[p].file
      OBVIOUS
    <3>3. g \in Files /\ ~Skipped(g) /\ payload[p].ino # NoFile
      BY <1>1, <1>4, <2>6, <3>1, <3>2, AtInstall, Header DEF Dealt, AtPlace
    <3>4. g = f <=> q = i
      <4>1. AtPlace(First(n) + i, i, n)
        BY <1>3, <1>5
      <4>2. g = f => p = First(n) + i
        BY <1>1, <1>12, <3>1, <3>2, <4>1, AtInstall DEF AtPlace, Entries
      <4> QED
        BY <1>12, <3>1, <3>2, <4>1, <4>2 DEF AtPlace
    <3>5. CASE q = i
      <4>1. Placed(g, pos)'
        BY <2>5, <3>3, <3>4, <3>5
      <4>2. Place(p)' < i'
        BY <1>1, <1>5, <3>1, <3>5
      <4> QED
        BY <1>1, <1>2, <3>2, <3>3, <4>1, <4>2 DEF AtHand, Placed
    <3>6. CASE q # i
      <4>1. Untouched(g)
        BY <1>15, <3>3, <3>4, <3>6
      <4>2. IF q < i THEN Placed(g, pos)' ELSE Ready(g, pos)'
        BY <1>1, <3>1, <3>2, <4>1 DEF Placed, Ready, Untouched, given
      <4>3. Place(p)' < i' <=> q < i
        BY <1>1, <1>5, <3>1, <3>6
      <4> QED
        BY <1>1, <1>2, <3>2, <3>3, <4>2, <4>3 DEF AtHand, Placed, Ready
    <3> QED
      BY <3>5, <3>6
  <2>7. \A g \in Files : Untouched(g) \/ \E p : Dealt(p) /\ g = payload[p].file
    BY <1>12, <1>15, <2>3
  <2>8. FilesKnown'
    BY <1>1, <2>1, <2>6, <2>7, FilesKept
  <2>9. ErrorsKnown'
    <3>1. ~ec' /\ ~blamed'
      <4>1. ~blamed /\ ~ec
        BY <1>1, <1>4, <2>1 DEF ErrorsKnown
      <4> QED
        BY <1>14, <1>15, <1>16, <2>4, <4>1
    <3>2. payload' = payload /\ pos' = pos /\ payload[pos].ino # NoFile
      BY <1>1, <1>4
    <3>3. Count' = s.nlink
      <4>1. Set' \in DOMAIN links' /\ links'[Set'].ino = n
        <5>1. \E j \in DOMAIN links' : links'[j].ino = n
          BY <1>4, <1>7, <1>10
        <5> QED
          BY <1>4, <3>2, <5>1 DEF Set, SetOf
      <4>2. Set' = k
        BY <1>4, <1>7, <1>10, <4>1 DEF Distinct
      <4>3. Linked'
        BY <1>1, <3>2 DEF Linked
      <4> QED
        BY <1>7, <1>10, <4>2, <4>3 DEF Count
    <3> QED
      BY <1>1, <1>2, <1>5, <3>1, <3>2, <3>3 DEF ErrorsKnown
  <2> QED
    BY <2>8, <2>9
<1> QED
  BY <1>1, <1>2, <1>5, <1>10, <1>11, <1>15, <1>16, Numbers, InstallKept

(* A name is linked to the one that was extracted, or this fails.           *)
LEMMA MakeLinkKeeps ==
  ASSUME FsmInv, MakeLink
  PROVE  FsmInv'
<1>1. /\ pc = "link" /\ i < links[Set].nlink /\ i' = i + 1
      /\ UNCHANGED <<given, payload, pc, ix, pos, disk, saved, new, result>>
  BY DEF MakeLink
<1>2. Current' = Current /\ Current = pos /\ result = "none" /\ Linked
  BY <1>1, Numbers DEF Current, FsmInv, AtSet
<1>3. PICK k, s, n :
         /\ SetNow(k, s, n) /\ Count = s.nlink
         /\ \A p : Dealt(p) => \E q \in Places(s) : AtPlace(p, q, n)
         /\ \A q \in Places(s) : AtPlace(First(n) + q, q, n)
  BY <1>1, <1>2, SetAtHand
<1>4. k = Set /\ k \in DOMAIN links /\ s = links[k] /\ s \in HardLinks /\ s.ino = n /\ n \in Files
      /\ SetOK(s) /\ Holds(s, n) /\ pos = Last(n) /\ payload[pos].ino = n /\ pos \in DOMAIN payload
      /\ Members(s) = Places(s) /\ n # NoFile
      /\ s.index \in Places(s) /\ payload[First(n) + s.index].file = ix /\ ix \in Files
      /\ s.left >= s.nlink - i + IF i > s.index THEN 1 ELSE 0
  BY <1>1, <1>3 DEF SetNow, Files, NoFile
<1>5. i \in Nat /\ s.nlink \in Nat /\ i < s.nlink /\ i \in Places(s) /\ i + 1 \in 0 .. NFiles + 1
      /\ s.left \in 0 .. s.nlink /\ s.index \in Nat
  BY <1>1, <1>4, Numbers, HardLink, FsmAssumption DEF Places, SetOK
<1>6. PICK f \in Files : f = s.filex[i] /\ f = payload[First(n) + i].file
  <2>1. s.filex[i] = payload[First(n) + i].file /\ First(n) + i \in DOMAIN payload
    BY <1>3, <1>4, <1>5 DEF Holds, AtPlace
  <2> QED
    BY <1>1, <2>1, AtInstall, Header
<1>7. s.filex[s.index] = ix
  BY <1>4 DEF Holds
<1>8. /\ tmp \in [Files -> Contents] /\ disk \in [Files -> Contents]
      /\ saved \in [Files -> Contents] /\ new \in [Files -> Contents]
      /\ ec \in BOOLEAN /\ blamed \in BOOLEAN
  BY <1>1, AtInstall, Numbers
<1> DEFINE Linking == ~Skipped(f) /\ i # s.index
<1>9. IF Linking
      THEN /\ links' = [links EXCEPT ![k].left = @ - 1]
           /\ \/ /\ tmp' = [tmp EXCEPT ![f] = tmp[ix]]
                 /\ UNCHANGED <<ec, blamed>>
              \/ /\ "link" \in Faults
                 /\ ec' = (ec \/ ~blamed) /\ blamed' = TRUE /\ UNCHANGED tmp
      ELSE UNCHANGED <<links, tmp, ec, blamed>>
  <2>1. LET z == links[Set]
        IN  IF Wanted(z, i) /\ i # z.index
            THEN /\ links' = [links EXCEPT ![Set].left = @ - 1]
                 /\ \/ /\ tmp' = [tmp EXCEPT ![z.filex[i]] = tmp[z.filex[z.index]]]
                       /\ UNCHANGED <<ec, blamed>>
                    \/ /\ "link" \in Faults
                       /\ ec' = (ec \/ ~blamed) /\ blamed' = TRUE /\ UNCHANGED tmp
            ELSE UNCHANGED <<links, tmp, ec, blamed>>
    BY DEF MakeLink
  <2>2. Wanted(s, i) /\ i # s.index <=> Linking
    BY <1>4, <1>5, <1>6 DEF Wanted
  <2>3. IF Linking
        THEN /\ links' = [links EXCEPT ![k].left = @ - 1]
             /\ \/ /\ tmp' = [tmp EXCEPT ![s.filex[i]] = tmp[s.filex[s.index]]]
                   /\ UNCHANGED <<ec, blamed>>
                \/ /\ "link" \in Faults
                   /\ ec' = (ec \/ ~blamed) /\ blamed' = TRUE /\ UNCHANGED tmp
        ELSE UNCHANGED <<links, tmp, ec, blamed>>
    <3> HIDE DEF Linking
    <3> QED
      BY <1>4, <2>1, <2>2
  <2> HIDE DEF Linking
  <2> QED
    BY <1>6, <1>7, <2>3
<1>10. \E t : /\ k \in DOMAIN links' /\ t = links'[k] /\ t.ino = n /\ t.nlink = s.nlink /\ t.index = s.index
              /\ Stage(t, pc', i')
              /\ links' \in Seq(HardLinks) /\ Distinct(links')
              /\ \A j \in DOMAIN links' : \A x : x = links'[j] => SetOK(x)' /\ Holds(x, x.ino)'
              /\ \A m \in Files : Known(m)' <=> Began(m)'
  <2>1. CASE Linking
    <3>1. PICK t : t = [s EXCEPT !.left = @ - 1]
      OBVIOUS
    <3>2. /\ t \in HardLinks /\ t.ino = s.ino /\ t.nlink = s.nlink /\ t.left = s.left - 1
          /\ t.index = s.index /\ t.filex = s.filex /\ Members(t) = Members(s)
      BY <1>4, <3>1, LinkCounted
    <3>3. links' = [links EXCEPT ![k] = t]
      BY <1>4, <1>9, <2>1, <3>1
    <3>4. s.left - 1 >= s.nlink - (i + 1) + (IF i + 1 > s.index THEN 1 ELSE 0) /\ s.left - 1 \in 0 .. s.nlink
      <4>1. i # s.index /\ i \in Nat /\ s.index \in Nat /\ s.nlink \in Nat /\ s.left \in 0 .. s.nlink /\ i < s.nlink
            /\ s.left >= s.nlink - i + IF i > s.index THEN 1 ELSE 0
        BY <1>4, <1>5, <2>1
      <4>2. \A l, m, x, y \in Int :
               /\ l \in 0 .. m /\ y < m /\ y # x /\ l >= m - y + (IF y > x THEN 1 ELSE 0)
               => l - 1 >= m - (y + 1) + (IF y + 1 > x THEN 1 ELSE 0) /\ l - 1 \in 0 .. m
        OBVIOUS
      <4> QED
        BY ONLY <4>1, <4>2
    <3>5. Stage(t, pc', i')
      BY <1>1, <1>4, <1>5, <3>2, <3>4 DEF Stage, Places
    <3>6. SetOK(t)' /\ Holds(t, t.ino)'
      <4>1. First(n)' = First(n) /\ Last(n)' = Last(n)
        BY <1>1, FramesStay
      <4>2. SetOK(t)'
        BY <1>1, <1>4, <3>2, <3>4 DEF SetOK, given
      <4>3. ~(Current' < Last(n)')
        BY <1>1, <1>2, <1>4, <4>1, AtInstall
      <4>4. Holds(t, n)'
        BY <1>1, <1>4, <3>2, <4>1, <4>3 DEF Holds
      <4> QED
        BY <1>4, <3>2, <4>2, <4>4
    <3>7. /\ links' \in Seq(HardLinks) /\ Distinct(links')
          /\ \A j \in DOMAIN links' : \A x : x = links'[j] => SetOK(x)' /\ Holds(x, x.ino)'
          /\ \A m \in Files : Known(m)' <=> Began(m)'
          /\ k \in DOMAIN links' /\ links'[k] = t
      BY <1>1, <1>2, <1>4, <3>2, <3>3, <3>6, OneSetChanges
    <3> QED
      BY <1>4, <3>2, <3>5, <3>7
  <2>2. CASE ~Linking
    <3>1. links' = links
      BY <1>9, <2>2
    <3>2. /\ links' \in Seq(HardLinks) /\ Distinct(links')
          /\ \A j \in DOMAIN links' : \A x : x = links'[j] => SetOK(x)' /\ Holds(x, x.ino)'
          /\ \A m \in Files : Known(m)' <=> Began(m)'
      BY <1>1, <1>2, <3>1, SetsStay
    <3>3. s.left >= s.nlink - (i + 1) + (IF i + 1 > s.index THEN 1 ELSE 0)
      BY <1>4, <1>5
    <3>4. Stage(s, pc', i')
      BY <1>1, <1>4, <1>5, <3>3 DEF Stage, Places
    <3> QED
      BY <1>4, <3>1, <3>2, <3>4
  <2> HIDE DEF Linking
  <2> QED
    BY <2>1, <2>2
<1>11. AtSet'
  <2>1. PICK t : /\ k \in DOMAIN links' /\ t = links'[k] /\ t.ino = n /\ t.nlink = s.nlink /\ t.index = s.index
                 /\ Stage(t, pc', i')
    BY <1>10
  <2> QED
    BY <1>1, <1>2, <1>3, <2>1, SetStaysAtHand
<1>12. /\ tmp' \in [Files -> Contents] /\ ec' \in BOOLEAN /\ blamed' \in BOOLEAN
       /\ \A g \in Files : g # f \/ ~Linking => Untouched(g)
  <2>1. CASE Linking
    <3>1. /\ tmp' = [tmp EXCEPT ![f] = tmp[ix]] \/ tmp' = tmp
          /\ ec' = ec \/ ec' = (ec \/ ~blamed)
          /\ blamed' = blamed \/ blamed' = TRUE
      BY <1>9, <2>1
    <3>2. tmp[ix] \in Contents
      BY <1>4, <1>8
    <3>3. tmp' \in [Files -> Contents] /\ \A g \in Files : g # f => tmp'[g] = tmp[g]
      BY <1>8, <3>1, <3>2
    <3> QED
      BY <1>1, <1>8, <2>1, <3>1, <3>3 DEF Untouched
  <2>2. CASE ~Linking
    BY <1>1, <1>8, <1>9, <2>2 DEF Untouched
  <2> HIDE DEF Linking
  <2> QED
    BY <2>1, <2>2
<1>13. ASSUME "rename" \notin Faults PROVE FilesKnown' /\ ErrorsKnown'
  <2>1. FilesKnown /\ ErrorsKnown
    BY <1>13 DEF FsmInv
  <2>2. (blamed <=> ec) /\ (blamed' <=> ec') /\ (ec => ec')
    <3>1. blamed <=> ec
      BY <1>1, <2>1 DEF ErrorsKnown
    <3> HIDE DEF Linking
    <3> QED
      BY <1>8, <1>9, <3>1
  <2>3. ASSUME NEW p, Dealt(p)
        PROVE  \E q \in Places(s) :
                  /\ AtPlace(p, q, n) /\ q \in Nat /\ Place(p)' = q
                  /\ IF payload[p].file = ix THEN Ready(payload[p].file, pos)
                     ELSE \/ Fresh(payload[p].file) /\ (q < i => ec)
                          \/ Ready(payload[p].file, pos) /\ q < i
    <3>1. PICK q \in Places(s) : AtPlace(p, q, n)
      BY <1>3, <2>3
    <3>2. AtHand(p) /\ Place(p) = q /\ q \in Nat
      BY <1>1, <1>4, <2>1, <2>3, <3>1 DEF FilesKnown, Dealt, AtPlace, Places
    <3>3. Place(p)' = q
      BY <1>1, <3>2, FramesStay
    <3> QED
      BY <1>1, <3>1, <3>2, <3>3 DEF AtHand
  <2>4. tmp[ix] = pos
    <3>1. ~Skipped(ix)
      BY <1>3 DEF SetNow
    <3>2. Dealt(First(n) + s.index)
      BY <1>3, <1>4, <3>1 DEF Dealt, AtPlace
    <3> QED
      BY <1>4, <2>3, <3>2 DEF Ready
  <2>5. Linking => Dealt(First(n) + i)
    BY <1>3, <1>5, <1>6 DEF Dealt, AtPlace
  <2>6. ASSUME NEW p, Dealt(p) PROVE AtHand(p)'
    <3>1. PICK q \in Places(s) :
                  /\ AtPlace(p, q, n) /\ q \in Nat /\ Place(p)' = q
                  /\ IF payload[p].file = ix THEN Ready(payload[p].file, pos)
                     ELSE \/ Fresh(payload[p].file) /\ (q < i => ec)
                          \/ Ready(payload[p].file, pos) /\ q < i
      BY <2>3, <2>6
    <3>2. PICK g : g = payload[p].file
      OBVIOUS
    <3>3. g \in Files /\ ~Skipped(g) /\ payload[p].ino # NoFile
      BY <1>1, <1>4, <2>6, <3>1, <3>2, AtInstall, Header DEF Dealt, AtPlace
    <3>4. (g = f <=> q = i) /\ (g = ix <=> q = s.index)
      <4>1. AtPlace(First(n) + i, i, n) /\ AtPlace(First(n) + s.index, s.index, n)
        BY <1>3, <1>4, <1>5
      <4>2. g = f => p = First(n) + i
        BY <1>1, <1>6, <3>1, <3>2, <4>1, AtInstall DEF AtPlace, Entries
      <4>3. g = ix => p = First(n) + s.index
        BY <1>1, <1>4, <3>1, <3>2, <4>1, AtInstall DEF AtPlace, Entries
      <4>4. g = f => q = i
        BY <3>1, <4>1, <4>2 DEF AtPlace
      <4>5. g = ix => q = s.index
        BY <3>1, <4>1, <4>3 DEF AtPlace
      <4>6. q = i => g = f
        BY <1>6, <3>1, <3>2 DEF AtPlace
      <4>7. q = s.index => g = ix
        BY <1>4, <3>1, <3>2 DEF AtPlace
      <4> QED
        BY <4>4, <4>5, <4>6, <4>7
    <3>5. IF g = ix THEN Ready(g, pos)'
          ELSE \/ Fresh(g)' /\ (q < i' => ec')
               \/ Ready(g, pos)' /\ q < i'
      <4>1. CASE Linking /\ g = f
        <5>1. g # ix /\ q = i /\ Fresh(g)
          BY <1>5, <3>1, <3>2, <3>4, <4>1
        <5>2. disk' = disk /\ saved' = saved /\ new' = new /\ pos' = pos
          BY <1>1
        <5>3. CASE tmp' = [tmp EXCEPT ![f] = tmp[ix]]
          <6>1. tmp'[g] = pos
            BY <1>8, <2>4, <3>3, <4>1, <5>3
          <6>2. Ready(g, pos)'
            BY <5>1, <5>2, <6>1 DEF Ready, Fresh
          <6> QED
            BY <1>1, <1>5, <5>1, <6>2
        <5>4. CASE tmp' = tmp /\ ec' = (ec \/ ~blamed)
          <6>1. ec'
            BY <1>8, <2>2, <5>4
          <6>2. Fresh(g)'
            BY <5>1, <5>2, <5>4 DEF Fresh
          <6> QED
            BY <5>1, <6>1, <6>2
        <5> QED
          BY <1>9, <4>1, <5>3, <5>4
      <4>2. CASE ~Linking \/ g # f
        <5>1. Untouched(g)
          BY <1>12, <3>3, <4>2
        <5>2. q = i => g = ix
          BY <3>3, <3>4, <4>2
        <5>3. g # ix /\ q < i' => q < i
          BY <1>1, <1>5, <3>1, <5>2
        <5>4. q < i => q < i'
          BY <1>1, <1>5, <3>1
        <5>5. (Fresh(g) => Fresh(g)') /\ (Ready(g, pos) => Ready(g, pos)')
          BY <1>1, <5>1 DEF Untouched, Fresh, Ready
        <5> HIDE DEF Linking
        <5> QED
          BY <2>2, <3>1, <3>2, <5>3, <5>4, <5>5
      <4> HIDE DEF Linking
      <4> QED
        BY <4>1, <4>2
    <3>6. payload'[p].file = g /\ Place(p)' = q /\ ix' = ix
      BY <1>1, <3>1, <3>2
    <3> QED
      BY <1>1, <1>2, <3>5, <3>6 DEF AtHand, Ready, Fresh
  <2>7. \A g \in Files : Untouched(g) \/ \E p : Dealt(p) /\ g = payload[p].file
    <3> HIDE DEF Linking
    <3> QED
      BY <1>6, <1>12, <2>5
  <2>8. FilesKnown'
    BY <1>1, <2>1, <2>6, <2>7, FilesKept
  <2>9. ErrorsKnown'
    BY <1>1, <1>2, <2>2 DEF ErrorsKnown
  <2> QED
    BY <2>8, <2>9
<1>14. /\ {tmp', disk', saved', new'} \subseteq [Files -> Contents]
       /\ ix' \in 1 .. NFiles + 1 /\ pos' \in 1 .. Len(payload) + 1 /\ i' \in 0 .. NFiles + 1
       /\ UNCHANGED <<given, payload>>
  <2>1. ix' = ix /\ pos' = pos /\ i' = i + 1 /\ UNCHANGED <<given, payload, disk, saved, new>>
    BY <1>1
  <2> QED
    BY <1>5, <1>8, <1>12, <2>1, Numbers
<1> QED
  BY <1>1, <1>2, <1>10, <1>11, <1>12, <1>13, <1>14, InstallKept

(* The sets of which the header that is read is not, and their inodes.      *)
LEMMA OtherSets ==
  ASSUME FsmInv, pc = "next", pos <= Len(payload), UNCHANGED <<given, payload>>,
         pc' # "build", Current' = pos, NEW n, n = payload[pos].ino
  PROVE  /\ \A k \in DOMAIN links : \A s : s = links[k] /\ s.ino # n => SetOK(s)' /\ Holds(s, s.ino)'
         /\ \A m \in Files : m # n => (Known(m) <=> Began(m)')
<1>1. pos \in DOMAIN payload /\ pos \in Nat /\ Current = pos - 1
  BY AtInstall DEF Current
<1>2. ASSUME NEW m \in Files, m # n, Same(m) # {}
      PROVE  First(m) # pos /\ (First(m) <= pos - 1 => Last(m) <= pos - 1) /\ First(m) \in Int /\ Last(m) \in Int
  <2>1. Framed(m)
    BY <1>2, AtInstall, Frames
  <2>2. First(m) \in Int /\ Last(m) \in Int
    BY <2>1, AtInstall DEF Framed
  <2>3. ~(pos \in First(m) .. Last(m))
    BY <1>2, <2>1 DEF Framed
  <2>4. First(m) <= Last(m)
    BY <2>1 DEF Framed
  <2> QED
    BY <1>1, <2>2, <2>3, <2>4
<1>3. ASSUME NEW k \in DOMAIN links, NEW s, s = links[k], s.ino # n PROVE SetOK(s)' /\ Holds(s, s.ino)'
  <2>1. SetOK(s) /\ Holds(s, s.ino) /\ Began(s.ino) /\ s.ino \in Files
    BY <1>3, AtInstall
  <2>2. First(s.ino)' = First(s.ino) /\ Last(s.ino)' = Last(s.ino)
    BY FramesStay
  <2>3. Last(s.ino) <= pos - 1 /\ Last(s.ino) \in Int
    BY <1>1, <1>2, <1>3, <2>1 DEF Began
  <2>4. ~(pos < Last(s.ino))
    BY <1>1, <2>3
  <2>5. SetOK(s)'
    BY <2>1 DEF SetOK, given
  <2>6. Holds(s, s.ino)'
    BY <2>1, <2>2, <2>4 DEF Holds
  <2> QED
    BY <2>5, <2>6
<1>4. ASSUME NEW m \in Files, m # n PROVE Known(m) <=> Began(m)'
  <2>1. Same(m)' = Same(m) /\ First(m)' = First(m) /\ Last(m)' = Last(m)
    BY FramesStay
  <2>2. Known(m) <=> Began(m)
    BY AtInstall
  <2>3. CASE Same(m) = {}
    BY <2>1, <2>2, <2>3 DEF Began
  <2>4. CASE Same(m) # {}
    <3>1. First(m) <= pos - 1 <=> First(m) <= pos
      BY <1>1, <1>2, <1>4, <2>4
    <3> QED
      BY <1>1, <2>1, <2>2, <3>1 DEF Began
  <2> QED
    BY <2>3, <2>4
<1> QED
  BY <1>3, <1>4

(* A header is read, and what ends there is to be processed.                *)
LEMMA ToProcess ==
  ASSUME FsmInv, pc = "next", UNCHANGED <<given, payload, system, result, pos>>, pc' = "process",
         FilesKnown
  PROVE  FilesKnown'
<1>1. result = "none"
  BY Numbers
<1>2. ASSUME NEW p, Dealt(p) PROVE AtHand(p)'
  <2>1. PICK f : f = payload[p].file
    OBVIOUS
  <2>2. Fresh(f)
    BY <1>2, <2>1 DEF AtHand, FilesKnown, Dealt
  <2>3. Fresh(f)'
    BY <2>2 DEF Fresh, system
  <2> QED
    BY <1>1, <2>1, <2>3 DEF AtHand, Fresh
<1>3. \A f \in Files : Untouched(f)
  BY DEF Untouched, system
<1> QED
  BY <1>2, <1>3, FilesKept

(* The header of a file that has no other name is read.                     *)
LEMMA ReadSingleKeeps ==
  ASSUME FsmInv, ReadHeader, payload[pos].nlink <= 1
  PROVE  FsmInv'
<1>1. pc = "next" /\ pos <= Len(payload) /\ UNCHANGED <<given, payload, i, system, ec, blamed, result>>
  BY DEF ReadHeader
<1>2. PICK f : f = payload[pos].file
  OBVIOUS
<1>3. /\ links' = links
      /\ IF Skipped(f) THEN pos' = pos + 1 /\ UNCHANGED <<pc, ix>>
         ELSE ix' = f /\ pc' = "process" /\ UNCHANGED pos
  BY <1>2, Zenon DEF ReadHeader
<1>4. pos \in DOMAIN payload /\ pos \in Nat /\ pos # 0 /\ f \in Files /\ result = "none"
  BY <1>1, <1>2, AtInstall, Header, Numbers
<1>5. Current' = pos /\ pc' # "build"
  BY <1>1, <1>3, <1>4 DEF Current
<1>6. PICK n : n = payload[pos].ino
  OBVIOUS
<1>7. ASSUME n # NoFile PROVE n \in Files /\ First(n) = pos /\ Last(n) = pos
  <2>1. n \in Files /\ Same(n) # {} /\ pos \in First(n) .. Last(n)
    BY <1>1, <1>4, <1>6, <1>7, AtInstall, Header
  <2>2. Framed(n)
    BY <1>1, <2>1, AtInstall, Frames
  <2>3. First(n) \in Int /\ Last(n) \in Int
    BY <1>1, <2>2, AtInstall DEF Framed
  <2>4. payload[pos].nlink = Last(n) - First(n) + 1
    BY <2>1, <2>2 DEF Framed
  <2> QED
    BY <1>4, <2>1, <2>3, <2>4
<1>8. \A m \in Files : Known(m)' <=> Known(m)
  BY <1>3 DEF Known
<1>9. ASSUME NEW m \in Files, m = n PROVE ~Known(m) /\ ~Began(m)'
  <2>1. First(m) = pos /\ Last(m) = pos
    BY <1>7, <1>9 DEF Files, NoFile
  <2>2. First(m)' = pos /\ Last(m)' = pos
    BY <1>1, <2>1, FramesStay
  <2>3. ~Began(m) /\ ~Began(m)'
    BY <1>4, <2>1, <2>2 DEF Began
  <2> QED
    BY <1>1, <2>3, AtInstall
<1>10. /\ \A k \in DOMAIN links : \A s : s = links[k] /\ s.ino # n => SetOK(s)' /\ Holds(s, s.ino)'
       /\ \A m \in Files : m # n => (Known(m) <=> Began(m)')
  BY <1>1, <1>5, <1>6, OtherSets
<1>11. ASSUME NEW k \in DOMAIN links, NEW s, s = links[k] PROVE s.ino # n
  <2>1. s.ino \in Files /\ Known(s.ino)
    BY <1>1, <1>11, AtInstall
  <2> QED
    BY <1>9, <2>1
<1>12. /\ links' \in Seq(HardLinks) /\ Distinct(links')
       /\ \A k \in DOMAIN links' : \A s : s = links'[k] => SetOK(s)' /\ Holds(s, s.ino)'
       /\ \A m \in Files : Known(m)' <=> Began(m)'
  BY <1>1, <1>3, <1>8, <1>9, <1>10, <1>11, AtInstall
<1>13. ASSUME NEW p, Dealt(p) PROVE p = pos
  <2>1. p \in DOMAIN payload /\ End(p) = pos
    BY <1>13 DEF Dealt
  <2>2. CASE n = NoFile
    BY <1>1, <1>4, <1>6, <2>1, <2>2, AtInstall, EndsTogether
  <2>3. CASE n # NoFile
    <3>1. p \in First(n) .. pos
      BY <1>1, <1>4, <1>6, <2>1, <2>3, AtInstall, EndsTogether
    <3> QED
      BY <1>4, <1>7, <2>3, <3>1
  <2> QED
    BY <2>2, <2>3
<1>14. AtSet'
  <2>1. CASE Skipped(f)
    BY <1>1, <1>3, <2>1 DEF AtSet
  <2>2. CASE ~Skipped(f)
    <3>1. pc' = "process" /\ pos' <= Len(payload') /\ ix' \in Files /\ ix' = payload'[pos'].file
      BY <1>1, <1>2, <1>3, <1>4, <2>2
    <3>2. ~Linked'
      <4>1. payload[pos].nlink \in Nat
        BY <1>1, <1>4, AtInstall, Header DEF Headers
      <4> QED
        BY <1>1, <1>3, <2>2, <4>1 DEF Linked
    <3>3. act'[ix'] # "skip"
      BY <1>1, <1>3, <2>2 DEF Skipped, given
    <3> QED
      BY ONLY <3>1, <3>2, <3>3 DEF AtSet, Skipped
  <2> QED
    BY <2>1, <2>2
<1>15. ASSUME "rename" \notin Faults PROVE FilesKnown' /\ ErrorsKnown'
  <2>1. FilesKnown /\ ErrorsKnown
    BY <1>15 DEF FsmInv
  <2>2. FilesKnown'
    <3>1. CASE Skipped(f)
      <4>1. \A p : ~Dealt(p)
        BY <1>2, <1>13, <3>1 DEF Dealt
      <4> QED
        BY <1>1, <1>3, <1>4, <2>1, <3>1, <4>1, NextHeader
    <3>2. CASE ~Skipped(f)
      BY <1>1, <1>3, <2>1, <3>2, ToProcess
    <3> QED
      BY <3>1, <3>2
  <2>3. ErrorsKnown'
    BY <1>1, <1>3, <1>4, <2>1 DEF ErrorsKnown
  <2> QED
    BY <2>2, <2>3
<1>16. /\ pc' \in {"next", "process"} /\ ix' \in 1 .. NFiles + 1 /\ pos' \in 1 .. Len(payload) + 1
       /\ i' \in 0 .. NFiles + 1
       /\ {tmp', disk', saved', new'} \subseteq [Files -> Contents]
       /\ ec' \in BOOLEAN /\ blamed' \in BOOLEAN /\ UNCHANGED <<given, payload, result>>
  <2>1. {tmp', disk', saved', new'} \subseteq [Files -> Contents]
    BY <1>1, AtInstall DEF system
  <2>2. Len(payload) \in Nat
    BY <1>1, AtInstall
  <2> QED
    BY <1>1, <1>3, <1>4, <2>1, <2>2, Numbers
<1> QED
  BY <1>1, <1>4, <1>12, <1>14, <1>15, <1>16, InstallKept

(* A set has no more names than there are files.                            *)
LEMMA NoMoreThanFiles ==
  ASSUME payload \in Seq(Headers), Entries, NEW n, Framed(n)
  PROVE  Last(n) - First(n) + 1 <= NFiles
<1>1. PICK a, b \in Int : a = First(n) /\ b = Last(n) /\ a <= b
  <2>1. DOMAIN payload \subseteq Int
    BY LenProperties
  <2> QED
    BY <2>1 DEF Framed
<1>2. PICK g : g = [p \in a .. b |-> payload[p].file]
  OBVIOUS
<1>3. \A p \in a .. b : p \in DOMAIN payload /\ payload[p].file \in Files
  BY <1>1 DEF Framed, Entries
<1>4. g \in Injection(a .. b, Files)
  <2>1. g \in [a .. b -> Files]
    BY <1>2, <1>3
  <2>2. \A p, q \in a .. b : g[p] = g[q] => p = q
    BY <1>2, <1>3 DEF Entries
  <2> QED
    BY <2>1, <2>2 DEF Injection, IsInjective
<1>5. IsFiniteSet(Files) /\ Cardinality(Files) = NFiles
  BY FS_Interval, FsmAssumption DEF Files
<1>6. Cardinality(a .. b) <= NFiles
  BY <1>4, <1>5, FS_Injection
<1>7. Cardinality(a .. b) = b - a + 1
  BY <1>1, FS_Interval
<1> QED
  BY <1>1, <1>6, <1>7

(* What a set has when the next of its headers is read.                     *)
Arriving(s, n, m) ==
    /\ s \in HardLinks /\ s.ino = n /\ s.nlink = m /\ s.left = pos - First(n)
    /\ Members(s) = 0 .. s.left - 1
    /\ \A q \in Members(s) : s.filex[q] = payload[First(n) + q].file

LEMMA SetOfHeader ==
  ASSUME FsmInv, pc = "next", pos <= Len(payload), NEW n, n = payload[pos].ino,
         NEW m, m = payload[pos].nlink, m > 1,
         NEW known, known = WithSet(n, m, 0), NEW k, k = IF Known(n) THEN SetOf(n) ELSE 1
  PROVE  /\ n \in Files /\ Same(n) # {} /\ Framed(n) /\ First(n) < Last(n) /\ m = Last(n) - First(n) + 1
         /\ pos \in First(n) .. Last(n) /\ First(n) \in Nat /\ Last(n) \in Nat /\ m \in 0 .. NFiles
         /\ payload[pos].full => pos = Last(n)
         /\ Found(known, k, n, m, 0) /\ Arriving(known[k], n, m)
<1>1. pos \in DOMAIN payload /\ pos \in Nat /\ payload \in Seq(Headers) /\ Entries
  BY AtInstall
<1>2. n # NoFile
  BY <1>1, AtInstall, Header
<1>3. n \in Files /\ Same(n) # {} /\ pos \in First(n) .. Last(n)
  BY <1>1, <1>2, AtInstall, Header
<1>4. Framed(n)
  BY <1>1, <1>3, Frames
<1>5. First(n) \in Nat /\ Last(n) \in Nat
  BY <1>4, AtInstall DEF Framed
<1>6. m = Last(n) - First(n) + 1 /\ (payload[pos].full => pos = Last(n))
  BY <1>3, <1>4 DEF Framed
<1>7. First(n) < Last(n)
  BY <1>5, <1>6
<1>8. m \in 0 .. NFiles
  <2>1. m <= NFiles
    BY <1>1, <1>4, <1>6, NoMoreThanFiles
  <2> QED
    BY <1>5, <1>6, <1>7, <2>1
<1>9. m \in 0 .. NFiles + 1
  BY <1>8, FsmAssumption
<1>10. Found(known, k, n, m, 0)
  BY <1>3, <1>9, SetFound, AtInstall
<1>11. Arriving(known[k], n, m)
  <2>1. CASE Known(n)
    <3>1. k \in DOMAIN links /\ known = links /\ links[k].ino = n
      BY <1>10, <2>1 DEF Found
    <3>2. PICK s : s = links[k]
      OBVIOUS
    <3>3. s \in HardLinks /\ Holds(s, n)
      BY <3>1, <3>2, AtInstall
    <3>4. Current = pos - 1 /\ pos - 1 < Last(n)
      BY <1>1, <1>3, <1>5 DEF Current
    <3>5. s.left = pos - First(n)
      BY <1>1, <1>5, <3>3, <3>4 DEF Holds
    <3> QED
      BY <1>6, <3>1, <3>2, <3>3, <3>4, <3>5 DEF Holds, Arriving
  <2>2. CASE ~Known(n)
    <3>1. known[k] = NewSet(n, m, 0)
      BY <1>10, <2>2 DEF Found
    <3>2. PICK s : s = known[k]
      OBVIOUS
    <3>3. s \in HardLinks /\ s.ino = n /\ s.nlink = m /\ s.left = 0 /\ Members(s) = {}
      BY <1>3, <1>9, <3>1, <3>2, ANewSet
    <3>4. First(n) = pos
      <4>1. ~Began(n)
        BY <1>3, <2>2, AtInstall
      <4>2. ~(First(n) <= pos - 1)
        BY <1>3, <1>7, <4>1 DEF Began, Current
      <4> QED
        BY <1>1, <1>3, <1>5, <4>2
    <3>5. s.left = pos - First(n) /\ Members(s) = 0 .. s.left - 1
      BY <1>1, <3>3, <3>4
    <3> QED
      BY <3>2, <3>3, <3>5 DEF Arriving
  <2> QED
    BY <2>1, <2>2
<1> QED
  BY <1>3, <1>4, <1>5, <1>6, <1>7, <1>8, <1>10, <1>11

(* The name that is extracted of a set.                                     *)
LEMMA TheChosen ==
  ASSUME NEW s \in HardLinks, NEW j, j = Chosen(s), s.left = s.nlink, Members(s) = Places(s)
  PROVE  /\ j = -1 \/ (j \in Places(s) /\ ~Skipped(s.filex[j]))
         /\ j = -1 => \A q \in Places(s) : Skipped(s.filex[q])
         /\ j \in Int
<1> DEFINE S == {-1} \cup {k \in Members(s) : k < s.left /\ ~Skipped(s.filex[k])}
<1>1. s.nlink \in Nat /\ S \subseteq -1 .. s.nlink /\ S # {}
  BY HardLink, FsmAssumption DEF Places
<1>2. j = Max(S)
  BY DEF Chosen
<1>3. j \in S /\ \A y \in S : j >= y
  <2> HIDE DEF S
  <2> QED
    BY <1>1, <1>2, Greatest
<1>4. \A q \in Places(s) : q < s.left /\ ~(-1 >= q)
  BY <1>1 DEF Places
<1>5. ASSUME j = -1, NEW q \in Places(s) PROVE Skipped(s.filex[q])
  BY <1>3, <1>4, <1>5
<1> QED
  BY <1>1, <1>3, <1>5

(* The header of a file with other names is read.                           *)
LEMMA ReadLinkedKeeps ==
  ASSUME FsmInv, ReadHeader, payload[pos].nlink > 1
  PROVE  FsmInv'
<1>1. pc = "next" /\ pos <= Len(payload) /\ UNCHANGED <<given, payload, i, system, ec, blamed, result>>
  BY DEF ReadHeader
<1>2. PICK e, n, m : e = payload[pos] /\ n = e.ino /\ m = e.nlink /\ m > 1
  OBVIOUS
<1>3. PICK known, k, s, j :
         /\ known = WithSet(n, m, 0) /\ k = (IF Known(n) THEN SetOf(n) ELSE 1)
         /\ s = Arrived(known[k], e.file)
         /\ j = IF e.full \/ s.left = m THEN Chosen(s) ELSE -1
         /\ links' = [known EXCEPT ![k] = [s EXCEPT !.index = j]]
         /\ IF j = -1 THEN pos' = pos + 1 /\ UNCHANGED <<pc, ix>>
            ELSE ix' = s.filex[j] /\ pc' = "process" /\ UNCHANGED pos
  <2> DEFINE known == WithSet(n, m, 0)
             k == IF Known(n) THEN SetOf(n) ELSE 1
             s == Arrived(known[k], e.file)
             complete == e.full \/ s.left = m
             j == IF complete THEN Chosen(s) ELSE -1
  <2>1. ~(m <= 1)
    <3>1. m \in Nat
      BY <1>1, <1>2, AtInstall, Header DEF Headers
    <3> QED
      BY <1>2, <3>1
  <2>2. /\ links' = [known EXCEPT ![k] = [s EXCEPT !.index = j]]
        /\ IF j = -1 THEN pos' = pos + 1 /\ UNCHANGED <<pc, ix>>
           ELSE ix' = s.filex[j] /\ pc' = "process" /\ UNCHANGED pos
    BY <1>2, <2>1, Zenon DEF ReadHeader
  <2> QED
    BY <2>2, Zenon
<1>4. /\ n \in Files /\ Same(n) # {} /\ Framed(n) /\ First(n) < Last(n) /\ m = Last(n) - First(n) + 1
      /\ pos \in First(n) .. Last(n) /\ First(n) \in Nat /\ Last(n) \in Nat /\ m \in 0 .. NFiles
      /\ e.full => pos = Last(n)
      /\ Found(known, k, n, m, 0) /\ Arriving(known[k], n, m)
  <2>1. /\ n = payload[pos].ino /\ m = payload[pos].nlink /\ m > 1
        /\ known = WithSet(n, m, 0) /\ k = IF Known(n) THEN SetOf(n) ELSE 1
    BY <1>2, <1>3
  <2> QED
    BY <1>1, <1>2, <2>1, SetOfHeader
<1>5. pos \in DOMAIN payload /\ pos \in Nat /\ pos # 0 /\ result = "none" /\ e.file \in Files /\ m \in Nat
  <2>1. pos \in DOMAIN payload /\ pos \in Nat /\ pos # 0 /\ result = "none"
    BY <1>1, AtInstall, Numbers
  <2>2. payload[pos].file \in Files
    BY <1>1, <2>1, AtInstall, Header
  <2> QED
    BY <1>2, <1>4, <2>1, <2>2
<1>6. Current' = pos /\ pc' # "build"
  BY <1>1, <1>3, <1>5 DEF Current
<1>7. First(n)' = First(n) /\ Last(n)' = Last(n)
  BY <1>1, FramesStay
<1>8. PICK z : z = known[k]
  OBVIOUS
<1>9. z \in HardLinks /\ z.ino = n /\ z.nlink = m /\ z.left = pos - First(n) /\ z.left \in 0 .. z.nlink - 1
  BY <1>4, <1>5, <1>8 DEF Arriving
<1>10. PICK y \in Int : y = pos - First(n) /\ y = z.left
  BY <1>4, <1>5, <1>9
<1>11. PICK f \in Files : f = e.file /\ f = payload[pos].file
  BY <1>2, <1>5
<1>12. /\ s \in HardLinks /\ s.ino = n /\ s.nlink = m /\ s.left = y + 1 /\ s.filex = [z.filex EXCEPT ![y] = f]
       /\ Members(s) = Members(z) \cup {y}
  <2>1. s = Arrived(z, f)
    BY <1>3, <1>8, <1>11
  <2> QED
    BY <1>9, <1>10, <2>1, CountedUp
<1>13. s.left = m <=> pos = Last(n)
  BY <1>4, <1>5, <1>10, <1>12
<1>14. Members(s) = 0 .. y /\ \A q \in Members(s) : s.filex[q] = payload[First(n) + q].file
  <2>1. Members(z) = 0 .. y - 1 /\ \A q \in Members(z) : z.filex[q] = payload[First(n) + q].file
    BY <1>4, <1>8, <1>10 DEF Arriving
  <2>2. y \in Nat /\ First(n) + y = pos
    BY <1>4, <1>5, <1>10
  <2>3. z.filex \in [Places(z) -> 0 .. NFiles] /\ y \in Places(z)
    BY <1>9, <1>10, HardLink DEF Places
  <2>4. Members(s) = 0 .. y
    BY <1>12, <2>1, <2>2
  <2>5. ASSUME NEW q \in 0 .. y PROVE s.filex[q] = payload[First(n) + q].file
    <3>1. CASE q = y
      BY <1>11, <1>12, <2>2, <2>3, <3>1
    <3>2. CASE q # y
      <4>1. q \in Members(z)
        BY <2>1, <2>2, <2>5, <3>2
      <4>2. s.filex[q] = z.filex[q]
        BY <1>12, <2>3, <3>2, <4>1 DEF Members, Places
      <4> QED
        BY <2>1, <4>1, <4>2
    <3> QED
      BY <3>1, <3>2
  <2> QED
    BY <2>4, <2>5
<1>15. /\ j \in Int
       /\ j # -1 => pos = Last(n) /\ j \in 0 .. m - 1 /\ ~Skipped(payload[First(n) + j].file)
                    /\ s.filex[j] = payload[First(n) + j].file
       /\ j = -1 /\ pos = Last(n) => \A q \in 0 .. m - 1 : Skipped(payload[First(n) + q].file)
  <2>1. CASE pos = Last(n)
    <3>1. j = Chosen(s)
      BY <1>3, <1>13, <2>1
    <3>2. s.left = s.nlink /\ Places(s) = 0 .. m - 1 /\ Members(s) = Places(s)
      BY <1>4, <1>5, <1>10, <1>12, <1>14, <2>1 DEF Places
    <3>3. /\ j = -1 \/ (j \in Places(s) /\ ~Skipped(s.filex[j]))
          /\ j = -1 => \A q \in Places(s) : Skipped(s.filex[q])
          /\ j \in Int
      BY <1>12, <3>1, <3>2, TheChosen
    <3> QED
      BY <1>12, <1>14, <2>1, <3>2, <3>3
  <2>2. CASE pos # Last(n)
    BY <1>3, <1>4, <1>13, <2>2
  <2> QED
    BY <2>1, <2>2
<1>16. PICK t : t = [s EXCEPT !.index = j]
  OBVIOUS
<1>17. /\ t \in HardLinks /\ t.ino = n /\ t.nlink = m /\ t.left = y + 1 /\ t.index = j
       /\ t.filex = s.filex /\ Members(t) = 0 .. y
       /\ \A q \in Members(t) : t.filex[q] = payload[First(n) + q].file
  <2>1. /\ t \in HardLinks /\ t.ino = s.ino /\ t.nlink = s.nlink /\ t.left = s.left
        /\ t.index = j /\ t.filex = s.filex /\ Members(t) = Members(s)
    <3>1. j \in Int /\ s \in HardLinks
      BY <1>12, <1>15
    <3> QED
      BY ONLY <3>1, <1>16, IndexSet
  <2> QED
    BY <1>12, <1>14, <2>1
<1>18. Stores(links', n, t)
  BY <1>3, <1>4, <1>16, <1>17 DEF Found
<1>19. SetOK(t)' /\ Holds(t, n)'
  <2>1. Holds(t, n)'
    <3>1. y + 1 = pos - First(n) + 1 /\ 0 .. y = 0 .. (y + 1) - 1
      BY <1>4, <1>5, <1>10
    <3> QED
      BY <1>1, <1>4, <1>6, <1>7, <1>17, <3>1 DEF Holds
  <2>2. SetOK(t)
    <3>1. t.left \in 0 .. t.nlink /\ Members(t) \subseteq Places(t)
      BY <1>5, <1>9, <1>10, <1>17 DEF Places
    <3> QED
      BY <1>1, <1>4, <1>17, <3>1, AtInstall, NamesOfSet
  <2>3. SetOK(t)'
    BY <1>1, <1>6, <2>2 DEF SetOK, given
  <2> QED
    BY <2>1, <2>3
<1>20. /\ \A l \in DOMAIN links : \A u : u = links[l] /\ u.ino # n => SetOK(u)' /\ Holds(u, u.ino)'
       /\ \A l \in Files : l # n => (Known(l) <=> Began(l)')
  BY <1>1, <1>2, <1>6, OtherSets
<1>21. /\ links' \in Seq(HardLinks) /\ Distinct(links')
       /\ \A l \in DOMAIN links' : \A u : u = links'[l] => SetOK(u)' /\ Holds(u, u.ino)'
       /\ \A l \in Files : Known(l)' <=> Began(l)'
  <2>1. links' \in Seq(HardLinks) /\ Distinct(links')
    BY <1>18 DEF Stores
  <2>2. ASSUME NEW l \in DOMAIN links', NEW u, u = links'[l] PROVE SetOK(u)' /\ Holds(u, u.ino)'
    <3>1. u = t \/ \E o \in DOMAIN links : links[o].ino # n /\ u = links[o]
      BY <1>18, <2>2 DEF Stores
    <3> QED
      BY <1>17, <1>19, <1>20, <3>1
  <2>3. ASSUME NEW l \in Files PROVE Known(l)' <=> Began(l)'
    <3>1. CASE l = n
      <4>1. Known(l)'
        <5>1. \E o \in DOMAIN links' : links'[o] = t
          BY <1>18 DEF Stores
        <5> QED
          BY <1>17, <3>1, <5>1 DEF Known
      <4>2. Same(l)' # {} /\ First(l)' < Last(l)' /\ First(l)' <= pos
        <5>1. Same(l)' = Same(l) /\ First(l)' = First(l) /\ Last(l)' = Last(l)
          BY <1>1, FramesStay
        <5> QED
          BY <1>4, <3>1, <5>1
      <4> QED
        BY <1>6, <4>1, <4>2 DEF Began
    <3>2. CASE l # n
      <4>1. Known(l)' <=> Known(l)
        BY <1>17, <1>18, <3>2 DEF Known, Stores
      <4> QED
        BY <1>20, <3>2, <4>1
    <3> QED
      BY <3>1, <3>2
  <2> QED
    BY <2>1, <2>2, <2>3
<1>22. AtSet'
  <2>1. CASE j = -1
    BY <1>1, <1>3, <2>1 DEF AtSet
  <2>2. CASE j # -1
    <3>1. pc' = "process" /\ pos' = pos /\ payload' = payload /\ pos = Last(n) /\ j \in 0 .. m - 1
          /\ ix' = payload[First(n) + j].file /\ ~Skipped(ix')
      BY <1>1, <1>3, <1>15, <2>2
    <3>2. ix' \in Files /\ act'[ix'] # "skip" /\ pos' <= Len(payload') /\ Linked'
      <4>1. First(n) + j \in First(n) .. Last(n)
        BY <1>4, <3>1
      <4>2. First(n) + j \in DOMAIN payload
        BY <1>4, <4>1 DEF Framed
      <4>3. payload[First(n) + j].file \in Files
        BY <1>1, <4>2, AtInstall, Header
      <4>4. act' = act
        BY <1>1 DEF given
      <4> QED
        BY <1>1, <1>2, <3>1, <4>3, <4>4 DEF Skipped, Linked
    <3>3. PICK l \in DOMAIN links' : links'[l] = t
      BY <1>18 DEF Stores
    <3>4. t.index \in Places(t) /\ payload'[First(n)' + t.index].file = ix' /\ Members(t) = Places(t) /\ t.left = t.nlink
      BY <1>4, <1>5, <1>7, <1>10, <1>17, <3>1 DEF Places
    <3>5. pos' = Last(n)' /\ payload'[pos'].ino = n
      BY <1>2, <1>7, <3>1
    <3> QED
      BY ONLY <1>4, <1>17, <3>1, <3>2, <3>3, <3>4, <3>5 DEF AtSet, Skipped
  <2> QED
    BY <2>1, <2>2
<1>23. ASSUME "rename" \notin Faults PROVE FilesKnown' /\ ErrorsKnown'
  <2>1. FilesKnown /\ ErrorsKnown
    BY <1>23 DEF FsmInv
  <2>2. FilesKnown'
    <3>1. CASE j = -1
      <4>1. ASSUME NEW p, Dealt(p) PROVE FALSE
        <5>1. p \in DOMAIN payload /\ End(p) = pos /\ ~Skipped(payload[p].file)
          BY <4>1 DEF Dealt
        <5>2. Last(n) = pos /\ p \in First(n) .. pos
          BY <1>1, <1>2, <1>4, <1>5, <5>1, AtInstall, EndsTogether DEF Files, NoFile
        <5>3. p - First(n) \in 0 .. m - 1 /\ First(n) + (p - First(n)) = p
          BY <1>4, <1>5, <5>2
        <5> QED
          BY <1>15, <3>1, <5>1, <5>2, <5>3
      <4> QED
        BY <1>1, <1>3, <1>5, <2>1, <3>1, <4>1, NextHeader
    <3>2. CASE j # -1
      BY <1>1, <1>3, <2>1, <3>2, ToProcess
    <3> QED
      BY <3>1, <3>2
  <2>3. ErrorsKnown'
    BY <1>1, <1>3, <1>5, <2>1 DEF ErrorsKnown
  <2> QED
    BY <2>2, <2>3
<1>24. /\ pc' \in {"next", "process"} /\ ix' \in 1 .. NFiles + 1 /\ pos' \in 1 .. Len(payload) + 1
       /\ i' \in 0 .. NFiles + 1
       /\ {tmp', disk', saved', new'} \subseteq [Files -> Contents]
       /\ ec' \in BOOLEAN /\ blamed' \in BOOLEAN /\ UNCHANGED <<given, payload, result>>
  <2>1. {tmp', disk', saved', new'} \subseteq [Files -> Contents]
    BY <1>1, AtInstall DEF system
  <2>2. Len(payload) \in Nat
    BY <1>1, AtInstall
  <2>3. j # -1 => ix' \in Files
    BY <1>3, <1>22 DEF AtSet
  <2> QED
    BY <1>1, <1>3, <1>5, <2>1, <2>2, <2>3, Numbers
<1> QED
  BY <1>1, <1>5, <1>21, <1>22, <1>23, <1>24, InstallKept

(* Every step of the program keeps what is known.                           *)
LEMMA NextKnown ==
  ASSUME FsmInv, [Next]_vars
  PROVE  FsmInv'
<1>1. CASE BuildFile
  BY <1>1, BuildFileKeeps
<1>2. CASE FlushSet
  BY <1>2, FlushSetKeeps
<1>3. CASE Written
  BY <1>3, WrittenKeeps
<1>4. CASE EndOfPayload \/ BadHeader
  BY <1>4, StopKeeps
<1>5. CASE ReadHeader
  <2>1. payload[pos].nlink \in Nat
    <3>1. pc # "build" /\ pos <= Len(payload)
      BY <1>5 DEF ReadHeader
    <3>2. payload \in Seq(Headers) /\ Entries /\ ino \in [Files -> Files] /\ pos \in DOMAIN payload
      BY <3>1, AtInstall
    <3> QED
      BY <3>2, Header DEF Headers
  <2> QED
    BY <1>5, <2>1, ReadSingleKeeps, ReadLinkedKeeps
<1>6. CASE ProcessGone
  BY <1>6, ProcessGoneKeeps
<1>7. CASE Extract
  BY <1>7, ExtractKeeps
<1>8. CASE ExtractFails
  BY <1>8, ExtractFailsKeeps
<1>9. CASE MakeLink
  BY <1>9, MakeLinkKeeps
<1>10. CASE LinksMade
  BY <1>10, LinksMadeKeeps
<1>11. CASE LinkFailed
  BY <1>11, LinkFailedKeeps
<1>12. CASE CommitSingle
  BY <1>12, CommitSingleKeeps
<1>13. CASE CommitName
  BY <1>13, CommitNameKeeps
<1>14. CASE Committed
  BY <1>14, CommittedKeeps
<1>15. CASE CommitFailed
  BY <1>15, CommitFailedKeeps
<1>16. CASE UNCHANGED vars
  <2>1. UNCHANGED vars
    BY <1>16
  <2>2. TypeOK' <=> TypeOK
    BY ONLY <2>1 DEF vars, given, system, TypeOK
  <2>3. Shapes' <=> Shapes
    BY ONLY <2>1 DEF vars, given, system, Shapes
  <2>4. BuildSets' <=> BuildSets
    BY ONLY <2>1 DEF vars, given, BuildSets, NLink, Seen, AllNames
  <2>5. PayloadKnown => PayloadKnown'
    <3>1. Entries => Entries'
      BY <2>1, EntriesStay DEF vars, given
    <3>2. Archived' = Archived
      BY ONLY <2>1 DEF vars, Archived
    <3>3. \A f : (InSet(f)' <=> InSet(f)) /\ (Lost(f)' <=> Lost(f))
      BY ONLY <2>1 DEF vars, given, InSet, NLink, Known, Lost
    <3> QED
      BY ONLY <2>1, <3>1, <3>2, <3>3 DEF vars, given, PayloadKnown
  <2>6. InstallSets' <=> InstallSets
    BY ONLY <2>1 DEF vars, InstallSets, Known, Same, First, Last, Current
  <2>7. AtSet' <=> AtSet
    BY ONLY <2>1 DEF vars, given, AtSet, Linked, Skipped, Last, First, Same
  <2>8. FilesKnown' <=> FilesKnown
    BY ONLY <2>1 DEF vars, given, system, FilesKnown, Fresh, Archived, Skipped, End, Last, Same, Placed, AtHand, Ready, Place, First
  <2>9. ErrorsKnown' <=> ErrorsKnown
    BY ONLY <2>1 DEF vars, given, ErrorsKnown, Count, Linked, Set, SetOf
  <2> QED
    BY <2>2, <2>3, <2>4, <2>5, <2>6, <2>7, <2>8, <2>9 DEF FsmInv
<1> QED
  BY <1>1, <1>2, <1>3, <1>4, <1>5, <1>6, <1>7, <1>8, <1>9, <1>10, <1>11, <1>12, <1>13, <1>14, <1>15, <1>16
     DEF Next

-----------------------------------------------------------------------------
(* The theorems.                                                            *)

(* The inductive invariant holds in every state, whatever fails.            *)
THEOREM FsmInvariant == Spec => []FsmInv
<1>1. Init => FsmInv
  BY InitKnown
<1>2. FsmInv /\ [Next]_vars => FsmInv'
  BY NextKnown
<1> QED
  BY <1>1, <1>2, PTL DEF Spec

(* Every set of hard links is what the headers said, whatever fails.        *)
THEOREM TypeCorrect == Spec => []TypeOK
<1>1. FsmInv => TypeOK
  BY DEF FsmInv
<1> QED
  BY <1>1, FsmInvariant, PTL

(* A payload whose headers are known is what the install relies on.         *)
LEMMA KnownIsWhole ==
  ASSUME FsmInv
  PROVE  ArchiveWhole
<1> SUFFICES ASSUME pc # "build" PROVE ArchiveWhole
  BY DEF ArchiveWhole
<1>1. payload \in Seq(Headers) /\ Entries /\ ino \in [Files -> Files]
  BY AtInstall
<1>2. Archived = {f \in Files : ~Lost(f)}
  BY DEF FsmInv, PayloadKnown
<1>3. ASSUME NEW f \in Files
      PROVE  Cardinality({p \in DOMAIN payload : payload[p].file = f}) = IF Lost(f) THEN 0 ELSE 1
  <2>1. CASE f \in Archived
    <3>1. PICK q \in DOMAIN payload : payload[q].file = f
      BY <2>1 DEF Archived
    <3>2. {p \in DOMAIN payload : payload[p].file = f} = {q}
      BY <1>1, <3>1 DEF Entries
    <3> QED
      BY <1>2, <2>1, <3>2, FS_Singleton
  <2>2. CASE f \notin Archived
    <3>1. {p \in DOMAIN payload : payload[p].file = f} = {}
      BY <2>2 DEF Archived
    <3> QED
      BY <1>2, <1>3, <2>2, <3>1, FS_EmptySet
  <2> QED
    BY <2>1, <2>2
<1>4. ASSUME NEW p \in DOMAIN payload, NEW e, e = payload[p], e.ino # NoFile,
             NEW same, same = {q \in DOMAIN payload : payload[q].ino = e.ino}
      PROVE  /\ e.ino = ino[e.file] /\ e.nlink = Cardinality(same)
             /\ same = Min(same) .. Max(same)
             /\ e.full = (p = Max(same) /\ Content(e.ino))
  <2>1. PICK n \in Files : n = e.ino /\ Same(n) # {} /\ p \in First(n) .. Last(n) /\ ino[e.file] = n
    BY <1>1, <1>4, Header
  <2>2. same = Same(n)
    BY <1>4, <2>1 DEF Same
  <2>3. Framed(n)
    BY <1>1, <2>1, Frames
  <2>4. PICK a, b \in Int : a = First(n) /\ b = Last(n) /\ a <= b
    <3>1. DOMAIN payload \subseteq Int
      BY <1>1, LenProperties
    <3> QED
      BY <2>3, <3>1 DEF Framed
  <2>5. Min(same) = a /\ Max(same) = b
    BY <2>2, <2>4 DEF First, Last
  <2>6. same = a .. b /\ Cardinality(same) = b - a + 1
    BY <2>2, <2>3, <2>4, FS_Interval DEF Framed
  <2>7. e.nlink = b - a + 1 /\ (e.full <=> p = b /\ Content(n)) /\ e.full \in BOOLEAN
    <3>1. e \in Headers
      BY <1>1, <1>4, Header
    <3> QED
      BY <1>4, <2>1, <2>3, <2>4, <3>1 DEF Framed, Headers
  <2>8. e.full = (p = b /\ Content(n))
    BY <2>7
  <2> QED
    BY <2>1, <2>5, <2>6, <2>7, <2>8
<1> QED
  BY <1>3, <1>4 DEF ArchiveWhole

(* What is built is what the install relies on, for packages of any size    *)
(* with any hard links, and for both ways a payload is made.                *)
THEOREM ArchiveWholeCorrect == Spec => []ArchiveWhole
<1>1. FsmInv => ArchiveWhole
  BY KnownIsWhole
<1> QED
  BY <1>1, FsmInvariant, PTL

(* A file was installed: its header p was dealt with before the install     *)
(* returned.                                                                *)
Done(f, p) == p \in DOMAIN payload /\ payload[p].file = f /\ ~Skipped(f) /\ End(p) < pos

(* What a file is that was installed, and one that was not.                 *)
LEMMA AtTheEnd ==
  ASSUME FsmInv, FilesKnown, ErrorsKnown, pc = "done", NEW f \in Files
  PROVE  /\ \A p : Done(f, p) =>
               /\ Installed(f) /\ Placed(f, Put(f)) /\ f \notin gone /\ Put(f) = Last(ino[f])
               /\ Framed(ino[f]) /\ Same(ino[f]) # {}
         /\ (\A p : ~Done(f, p)) =>
               /\ ~Installed(f)
               /\ \/ Fresh(f)
                  \/ Ready(f, pos) /\ ~Skipped(f) /\ result = "link" /\ f \in Names(ino[ix])
<1>1. /\ payload \in Seq(Headers) /\ Entries /\ ino \in [Files -> Files]
      /\ DOMAIN payload = 1 .. Len(payload) /\ Len(payload) \in Nat /\ pos \in Nat /\ pos <= Len(payload) + 1
  BY AtInstall
<1>2. ASSUME NEW p, Done(f, p)
      PROVE  /\ Installed(f) /\ Placed(f, Put(f)) /\ f \notin gone /\ Put(f) = Last(ino[f])
             /\ Framed(ino[f]) /\ Same(ino[f]) # {}
  <2>1. p \in DOMAIN payload /\ payload[p].file = f /\ ~Skipped(f) /\ End(p) < pos
    BY <1>2 DEF Done
  <2>2. payload[p].ino # NoFile /\ Placed(f, End(p))
    BY <2>1 DEF FilesKnown
  <2>3. End(p) \in Nat \ {0}
    BY <1>1, <2>1, EndsAt
  <2>4. Put(f) = End(p)
    BY <2>2 DEF Put, Placed
  <2>5. Installed(f)
    BY <2>3, <2>4 DEF Installed, None, Old
  <2>6. f \notin gone /\ ino[f] = payload[p].ino /\ ino[f] \in Files /\ Same(ino[f]) # {}
    BY <1>1, <2>1, <2>2, Header
  <2>7. End(p) = Last(ino[f])
    BY <2>2, <2>6 DEF End
  <2>8. Framed(ino[f])
    BY <1>1, <2>6, Frames
  <2> QED
    BY <2>2, <2>4, <2>5, <2>6, <2>7, <2>8
<1>3. ASSUME \A p : ~Done(f, p)
      PROVE  /\ ~Installed(f)
             /\ \/ Fresh(f)
                \/ Ready(f, pos) /\ ~Skipped(f) /\ result = "link" /\ f \in Names(ino[ix])
  <2>1. Fresh(f) => ~Installed(f)
    BY DEF Fresh, Installed, Put
  <2>2. CASE f \notin Archived
    BY <2>1, <2>2 DEF FilesKnown
  <2>3. CASE f \in Archived
    <3>1. PICK p \in DOMAIN payload : payload[p].file = f
      BY <2>3 DEF Archived
    <3>2. End(p) \in Nat
      BY <1>1, EndsAt
    <3>3. CASE Skipped(f) \/ End(p) > pos
      BY <2>1, <3>1, <3>3 DEF FilesKnown
    <3>4. CASE ~Skipped(f) /\ End(p) = pos
      <4>1. AtHand(p)
        BY <3>1, <3>4 DEF FilesKnown
      <4>2. result \in {"ok", "header", "extract", "link", "rename"}
        BY DEF FsmInv, Shapes
      <4>3. CASE result \in {"ok", "header", "extract"}
        BY <2>1, <3>1, <4>1, <4>3 DEF AtHand
      <4>4. CASE result = "rename"
        <5>1. Fresh(f)
          BY <3>1, <4>1, <4>4 DEF AtHand
        <5> QED
          BY <2>1, <5>1
      <4>5. CASE result = "link"
        <5>1. Fresh(f) \/ Ready(f, pos)
          BY <3>1, <4>1, <4>5 DEF AtHand
        <5>2. ~Installed(f)
          BY <5>1 DEF Fresh, Ready, Installed, Put
        <5>3. f \in Names(ino[ix])
          <6>1. ix \in Files /\ pos \in DOMAIN payload /\ ino[ix] = payload[pos].ino
            BY <1>1, <3>1, <3>4, <4>5, EndsAt DEF ErrorsKnown
          <6>2. payload[p].ino = ino[ix]
            BY <1>1, <3>1, <3>4, <6>1, EndsTogether
          <6>3. payload[p].ino # NoFile
            BY <1>1, <6>1, <6>2 DEF Files, NoFile
          <6>4. f \notin gone /\ ino[f] = ino[ix]
            BY <1>1, <3>1, <6>2, <6>3, Header
          <6> QED
            BY <3>4, <6>4 DEF Names
        <5> QED
          BY <3>4, <4>5, <5>1, <5>2, <5>3
      <4> QED
        BY <4>2, <4>3, <4>4, <4>5
    <3>5. CASE ~Skipped(f) /\ End(p) < pos
      BY <1>3, <3>1, <3>5 DEF Done
    <3> QED
      BY <1>1, <3>2, <3>3, <3>4, <3>5
  <2> QED
    BY <2>2, <2>3
<1> QED
  BY <1>2, <1>3

(* Where the last header of a set was dealt with, all of its names were.    *)
LEMMA AllOfASet ==
  ASSUME FsmInv, pc = "done", NEW f \in Files, NEW p, Done(f, p), NEW g \in Names(ino[f]), f \notin gone
  PROVE  \E q : Done(g, q)
<1>1. payload \in Seq(Headers) /\ Entries /\ ino \in [Files -> Files]
  BY AtInstall
<1>2. p \in DOMAIN payload /\ payload[p].file = f /\ End(p) < pos
  BY DEF Done
<1>3. payload[p].ino = ino[f] /\ ino[f] # NoFile
  BY <1>1, <1>2, Header DEF Files, NoFile
<1>4. Same(ino[f]) # {}
  BY <1>2, <1>3 DEF Same
<1>5. g \in AllNames(ino[f]) /\ ~Skipped(g)
  BY DEF Names, AllNames
<1>6. g \in Archived
  BY <1>1, <1>4, <1>5, Frames
<1>7. PICK q \in DOMAIN payload : payload[q].file = g
  BY <1>6 DEF Archived
<1>8. payload[q].ino = ino[f]
  BY <1>1, <1>5, <1>7, Header DEF AllNames
<1>9. End(q) = End(p)
  BY <1>3, <1>8 DEF End
<1> QED
  BY <1>2, <1>5, <1>7, <1>9 DEF Done

(* An install that is known to have gone right as far as it went.           *)
LEMMA KnownIsInstalled ==
  ASSUME FsmInv, FilesKnown, ErrorsKnown
  PROVE  LinksInstalled
<1> SUFFICES ASSUME pc = "done" PROVE LinksInstalled
  <2>1. pc # "done" => result = "none"
    BY Numbers
  <2> QED
    BY <2>1 DEF LinksInstalled, SetsWhole, SucceededWhole
<1>1. payload \in Seq(Headers) /\ Entries /\ ino \in [Files -> Files] /\ Len(payload) \in Nat /\ pos \in Nat
  BY AtInstall
<1>2. \A f \in Files : Installed(f) <=> \E p : Done(f, p)
  BY AtTheEnd
<1>3. ASSUME NEW f \in Files, Installed(f)
      PROVE  /\ Placed(f, Put(f)) /\ f \notin gone /\ Put(f) = Last(ino[f]) /\ Framed(ino[f]) /\ ~Skipped(f)
             /\ Same(ino[f]) # {}
  <2>1. PICK p : Done(f, p)
    BY <1>2, <1>3
  <2> QED
    BY <2>1, AtTheEnd DEF Done
<1>4. SetsWhole
  <2>1. ASSUME NEW n, NEW f \in Names(n), NEW g \in Names(n), Installed(f) PROVE Installed(g)
    <3>1. f \in Files /\ n = ino[f] /\ g \in Files /\ f \notin gone
      BY DEF Names
    <3>2. PICK p : Done(f, p)
      BY <1>2, <2>1, <3>1
    <3>3. \E q : Done(g, q)
      BY <3>1, <3>2, AllOfASet
    <3> QED
      BY <1>2, <3>1, <3>3
  <2> QED
    BY <2>1 DEF SetsWhole
<1>5. SucceededWhole
  <2>1. ASSUME result = "ok", NEW n, NEW f \in Names(n), ~Lost(f) PROVE Installed(f)
    <3>1. f \in Files /\ ~Skipped(f)
      BY DEF Names
    <3>2. f \in Archived
      BY <2>1, <3>1 DEF FsmInv, PayloadKnown
    <3>3. PICK p \in DOMAIN payload : payload[p].file = f
      BY <3>2 DEF Archived
    <3>4. End(p) < pos
      <4>1. End(p) \in Nat /\ End(p) <= Len(payload)
        BY <1>1, EndsAt
      <4>2. pos > Len(payload)
        BY <2>1 DEF ErrorsKnown
      <4> QED
        BY <1>1, <4>1, <4>2
    <3> QED
      BY <1>2, <3>1, <3>3, <3>4 DEF Done
  <2> QED
    BY <2>1 DEF SucceededWhole
<1>6. ASSUME NEW f \in Files, Installed(f) PROVE ~Skipped(f) /\ Right(f)
  <2>1. PICK n \in Files : n = ino[f]
    BY <1>1
  <2>2. ~Skipped(f) /\ Put(f) = Last(n) /\ Framed(n)
    BY <1>3, <1>6, <2>1
  <2>3. PICK b \in DOMAIN payload : b = Last(n) /\ payload[b].ino = n /\ (payload[b].full <=> Content(n))
                                    /\ payload[b].full \in BOOLEAN
    <3>1. Last(n) \in DOMAIN payload /\ Last(n) \in First(n) .. Last(n)
      <4>1. DOMAIN payload \subseteq Int
        BY <1>1, LenProperties
      <4> QED
        BY <2>2, <4>1 DEF Framed
    <3>2. payload[Last(n)] \in Headers
      BY <1>1, <3>1, Header
    <3> QED
      BY <2>2, <3>1, <3>2 DEF Framed, Headers
  <2>4. payload[b].full = Content(n)
    BY <2>3 DEF Content
  <2>5. ASSUME NEW g \in Files, Installed(g) PROVE (Put(f) = Put(g)) = (ino[f] = ino[g])
    <3>1. PICK m \in Files : m = ino[g]
      BY <1>1
    <3>2. Put(g) = Last(m) /\ Framed(m)
      BY <1>3, <2>5, <3>1
    <3>3. Last(n) = Last(m) => n = m
      <4>1. payload[Last(m)].ino = m
        <5>1. Last(m) \in First(m) .. Last(m)
          <6>1. DOMAIN payload \subseteq Int
            BY <1>1, LenProperties
          <6> QED
            BY <3>2, <6>1 DEF Framed
        <5> QED
          BY <3>2, <5>1 DEF Framed
      <4> QED
        BY <2>3, <4>1
    <3>4. Put(f) = Put(g) <=> ino[f] = ino[g]
      BY <2>1, <2>2, <3>1, <3>2, <3>3
    <3> QED
      BY <3>4
  <2> QED
    BY <2>1, <2>2, <2>3, <2>4, <2>5 DEF Right
<1>7. ASSUME NEW f \in Files
      PROVE  /\ Skipped(f) \/ act[f] = "altname" => disk[f] = Old
             /\ act[f] = "backup" => (Installed(f) => saved[f] = Old) /\ Old \in {disk[f], saved[f]}
             /\ tmp[f] # None => result = "link" /\ f \in Names(ino[ix])
  <2>1. CASE Installed(f)
    <3>1. Placed(f, Put(f)) /\ ~Skipped(f)
      BY <1>3, <2>1
    <3> QED
      BY <3>1 DEF Placed
  <2>2. CASE ~Installed(f)
    <3>1. \/ Fresh(f)
          \/ Ready(f, pos) /\ ~Skipped(f) /\ result = "link" /\ f \in Names(ino[ix])
      BY <1>2, <2>2, AtTheEnd
    <3>2. CASE Fresh(f)
      BY <2>2, <3>2 DEF Fresh
    <3>3. CASE Ready(f, pos) /\ ~Skipped(f) /\ result = "link" /\ f \in Names(ino[ix])
      BY <2>2, <3>3 DEF Ready
    <3> QED
      BY <3>1, <3>2, <3>3
  <2> QED
    BY <2>1, <2>2
<1> QED
  BY <1>4, <1>5, <1>6, <1>7 DEF LinksInstalled

(* If no rename fails, files are installed right and sets whole, whatever   *)
(* else fails: the links, the extraction, or the payload.                   *)
THEOREM LinksInstalledCorrect ==
  ASSUME "rename" \notin Faults
  PROVE  Spec => []LinksInstalled
<1>1. FsmInv => LinksInstalled
  BY KnownIsInstalled DEF FsmInv
<1> QED
  BY <1>1, FsmInvariant, PTL

=============================================================================
