---------------------------- MODULE RpmEvrProofs ----------------------------
(***************************************************************************)
(* Proofs about the ranges of RpmEvr, for any set of versions: rpmdsCompare *)
(* finds an overlap only where a version is in both ranges, and finds it   *)
(* if both name a release or none does and none is "!=".                   *)
(***************************************************************************)
EXTENDS RpmEvr, TLAPS

(* All fields of a version that ranges are compared with.                   *)
Point == [e : Between, v : Between, r : Between]

(* A range with a version to compare.                                       *)
Bounded(A) == A.flags # {} /\ A.v # Missing

-----------------------------------------------------------------------------
(* Lemmas about fields and points.                                          *)

(* Versions are apart, and have neighbours to compare them with.            *)
LEMMA Apart ==
  /\ \A n \in Versions : /\ n \in Nat /\ n > 0 /\ n # Missing
                         /\ {n - 1, n, n + 1} \subseteq Between
  /\ \A m, n \in Versions : m < n => m + 1 < n
  /\ \A m, n \in Versions : m # n - 1 /\ m # n + 1
  /\ 0 \in Between /\ Between \subseteq Nat /\ Missing \notin Between
<1>1. \A n \in Versions : n \in Nat /\ n > 0 /\ n # Missing /\ n + 1 \notin Versions
  BY EvrAssumption
<1>2. \A n \in Versions : {n - 1, n, n + 1} \subseteq n - 1..n + 1 /\ n - 1..n + 1 \subseteq Nat
  BY <1>1
<1>3. \A n \in Versions : {n - 1, n, n + 1} \subseteq Between
  BY <1>2 DEF Between
<1>4. Between \subseteq Nat
  BY <1>2 DEF Between
<1>5. \A m, n \in Versions : m < n => m + 1 < n
  BY <1>1
<1>6. \A m, n \in Versions : m # n - 1 /\ m # n + 1
  BY <1>1
<1> QED
  BY <1>1, <1>3, <1>4, <1>5, <1>6, EvrAssumption DEF Between

(* The answer of Sense in terms of the order of the fields: the first one   *)
(* that differs decides, and a missing release does not differ.             *)
LEMMA SenseOrder ==
  ASSUME NEW A, NEW B,
         Epoch(A) \in Nat, Epoch(B) \in Nat, A.v \in Nat, B.v \in Nat,
         A.r \in Nat \cup {Missing}, B.r \in Nat \cup {Missing}
  PROVE  /\ Sense(A, B) \in {-1, 0, 1}
         /\ Sense(A, B) = -1 <=>
               \/ Epoch(A) < Epoch(B)
               \/ Epoch(A) = Epoch(B) /\ A.v < B.v
               \/ /\ Epoch(A) = Epoch(B) /\ A.v = B.v
                  /\ A.r # Missing /\ B.r # Missing /\ A.r < B.r
         /\ Sense(A, B) = 1 <=>
               \/ Epoch(A) > Epoch(B)
               \/ Epoch(A) = Epoch(B) /\ A.v > B.v
               \/ /\ Epoch(A) = Epoch(B) /\ A.v = B.v
                  /\ A.r # Missing /\ B.r # Missing /\ A.r > B.r
<1>1. Missing \notin Nat
  BY EvrAssumption
<1>2. \A p, q \in Nat : /\ Field(p, q) \in {-1, 0, 1}
                        /\ Field(p, q) = -1 <=> p < q
                        /\ Field(p, q) = 1 <=> p > q
  BY <1>1 DEF Field, Sign
<1>3. /\ Field(A.r, B.r) \in {-1, 0, 1}
      /\ Field(A.r, B.r) = -1 <=> A.r # Missing /\ B.r # Missing /\ A.r < B.r
      /\ Field(A.r, B.r) = 1 <=> A.r # Missing /\ B.r # Missing /\ A.r > B.r
  BY <1>1, <1>2 DEF Field
<1>4. DEFINE e == Field(Epoch(A), Epoch(B))
             v == Field(A.v, B.v)
             r == Field(A.r, B.r)
<1>5. Sense(A, B) = IF e # 0 THEN e ELSE IF v # 0 THEN v ELSE r
  BY DEF Sense
<1>6. /\ e \in {-1, 0, 1} /\ (e = -1 <=> Epoch(A) < Epoch(B)) /\ (e = 1 <=> Epoch(A) > Epoch(B))
      /\ v \in {-1, 0, 1} /\ (v = -1 <=> A.v < B.v) /\ (v = 1 <=> A.v > B.v)
  BY <1>2
<1> HIDE DEF e, v, r
<1>7. r \in {-1, 0, 1}
      /\ (r = -1 <=> A.r # Missing /\ B.r # Missing /\ A.r < B.r)
      /\ (r = 1 <=> A.r # Missing /\ B.r # Missing /\ A.r > B.r)
  BY <1>3 DEF r
<1> QED
  BY <1>5, <1>6, <1>7

(* The fields of a bounded range.                                           *)
LEMMA RangeFields ==
  ASSUME NEW A \in Ranges
  PROVE  /\ Epoch(A) \in Versions \cup {0} /\ Epoch(A) \in Between
         /\ A.v # Missing => A.v \in Versions
         /\ A.r \in Versions \cup {Missing}
         /\ A.flags \subseteq Senses /\ A.flags # Senses
<1>1. /\ A.flags \in (SUBSET Senses) \ {Senses}
      /\ A.e \in Fields /\ A.v \in Fields /\ A.r \in Fields
  BY DEF Ranges
<1>2. Epoch(A) \in Versions \cup {0}
  BY <1>1 DEF Fields, Epoch
<1>3. \A n \in Versions \cup {0} : n \in Between
  BY Apart
<1> QED
  BY <1>1, <1>2, <1>3 DEF Fields

(* The fields of a point.                                                   *)
LEMMA PointFields ==
  ASSUME NEW w \in Point
  PROVE  /\ Epoch(w) = w.e /\ w.e \in Nat /\ w.v \in Nat /\ w.r \in Nat
         /\ w.r # Missing
  BY Apart DEF Point, Epoch

(* The points a range is compared with: the version itself, with the        *)
(* release if it has one, and the ones next to it.                          *)
At(A) == [e |-> Epoch(A), v |-> A.v, r |-> IF A.r = Missing THEN 0 ELSE A.r]
Below(A) == [e |-> Epoch(A), v |-> A.v - 1, r |-> 0]
Above(A) == [e |-> Epoch(A), v |-> A.v + 1, r |-> 0]
JustAbove(A) == [e |-> Epoch(A), v |-> A.v, r |-> A.r + 1]

(* They are points, at, below and above it.                                 *)
LEMMA Neighbours ==
  ASSUME NEW A \in Ranges, A.v # Missing
  PROVE  /\ At(A) \in Point /\ Below(A) \in Point /\ Above(A) \in Point
         /\ Sense(At(A), A) = 0 /\ Sense(Below(A), A) = -1 /\ Sense(Above(A), A) = 1
         /\ A.r # Missing => JustAbove(A) \in Point /\ Sense(JustAbove(A), A) = 1
<1>1. /\ Epoch(A) \in Between /\ Epoch(A) \in Nat
      /\ A.v \in Nat /\ A.v > 0 /\ {A.v - 1, A.v, A.v + 1} \subseteq Between
      /\ A.r \in Nat \cup {Missing}
      /\ A.r # Missing => A.r \in Nat /\ {A.r, A.r + 1} \subseteq Between
  BY RangeFields, Apart
<1>2. At(A) \in Point /\ Below(A) \in Point /\ Above(A) \in Point
  BY <1>1, Apart DEF At, Below, Above, Point
<1>3. A.r # Missing => JustAbove(A) \in Point
  BY <1>1 DEF JustAbove, Point
<1>4. Sense(At(A), A) = 0
  BY <1>1, <1>2, SenseOrder, PointFields DEF At
<1>5. Sense(Below(A), A) = -1
  BY <1>1, <1>2, SenseOrder, PointFields DEF Below
<1>6. Sense(Above(A), A) = 1
  BY <1>1, <1>2, SenseOrder, PointFields DEF Above
<1>7. A.r # Missing => Sense(JustAbove(A), A) = 1
  BY <1>1, <1>3, SenseOrder, PointFields DEF JustAbove
<1> QED
  BY <1>2, <1>3, <1>4, <1>5, <1>6, <1>7

(* Some point is in every range, also apart from one that has a version.    *)
LEMMA Inside ==
  ASSUME NEW A \in Ranges
  PROVE  \E w \in Point : In(w, A)
<1>1. CASE ~Bounded(A)
  <2>1. [e |-> 0, v |-> 0, r |-> 0] \in Point
    BY Apart DEF Point
  <2> QED
    BY <1>1, <2>1 DEF In, Bounded
<1>2. CASE Bounded(A)
  <2>1. "<" \in A.flags \/ "=" \in A.flags \/ ">" \in A.flags
    BY <1>2, RangeFields DEF Bounded, Senses
  <2>2. /\ At(A) \in Point /\ Below(A) \in Point /\ Above(A) \in Point
        /\ Sense(At(A), A) = 0 /\ Sense(Below(A), A) = -1 /\ Sense(Above(A), A) = 1
    BY <1>2, Neighbours DEF Bounded
  <2>3. CASE "<" \in A.flags
    BY <2>2, <2>3 DEF In
  <2>4. CASE "=" \in A.flags
    BY <2>2, <2>4 DEF In
  <2>5. CASE ">" \in A.flags
    BY <2>2, <2>5 DEF In
  <2> QED
    BY <2>1, <2>3, <2>4, <2>5
<1> QED
  BY <1>1, <1>2

(* Two versions compare the other way round when they are swapped.          *)
LEMMA SenseSwap ==
  ASSUME NEW A \in Ranges, NEW B \in Ranges, A.v # Missing, B.v # Missing
  PROVE  /\ Sense(A, B) \in {-1, 0, 1}
         /\ Sense(A, B) = -1 <=> Sense(B, A) = 1
         /\ Sense(A, B) = 1 <=> Sense(B, A) = -1
<1>1. \A C \in {A, B} : Epoch(C) \in Nat /\ C.v \in Nat /\ C.r \in Nat \cup {Missing}
  BY RangeFields, Apart
<1> QED
  BY <1>1, SenseOrder

-----------------------------------------------------------------------------
(* Where rpmdsCompare finds an overlap.                                     *)

(* Of two different versions, what is next to the one differs from the      *)
(* other as well, on the side it should.                                    *)
LEMMA NextToOther ==
  ASSUME NEW A \in Ranges, NEW B \in Ranges, A.v # Missing, B.v # Missing
  PROVE  /\ Sense(At(A), B) = 0 => Sense(A, B) = 0 \/ A.r = Missing
         /\ Sense(A, B) = -1 => Sense(At(A), B) = -1 /\ Sense(Below(A), B) = -1
         /\ Sense(A, B) = 1 => Sense(At(A), B) = 1 /\ Sense(Above(A), B) = 1
         /\ Sense(Below(A), B) # 0 /\ Sense(Above(A), B) # 0
<1>1. \A C \in {A, B} : /\ Epoch(C) \in Nat /\ C.v \in Versions /\ C.v \in Nat /\ C.v > 0
                        /\ C.r \in Nat \cup {Missing}
  BY RangeFields, Apart
<1>2. B.v # A.v - 1 /\ B.v # A.v + 1
  BY <1>1, Apart
<1>3. At(A) \in Point /\ Below(A) \in Point /\ Above(A) \in Point
  BY Neighbours
<1>4. /\ Epoch(At(A)) = Epoch(A) /\ At(A).v = A.v /\ At(A).r \in Nat
      /\ A.r # Missing => At(A).r = A.r
      /\ Epoch(Below(A)) = Epoch(A) /\ Below(A).v = A.v - 1 /\ Below(A).v \in Nat /\ Below(A).r \in Nat
      /\ Epoch(Above(A)) = Epoch(A) /\ Above(A).v = A.v + 1 /\ Above(A).v \in Nat /\ Above(A).r \in Nat
  BY <1>1, <1>3, PointFields DEF At, Below, Above
<1>5. Sense(Below(A), B) # 0 /\ Sense(Above(A), B) # 0
  BY <1>1, <1>2, <1>4, SenseOrder
<1>6. ASSUME Sense(A, B) = -1 PROVE Sense(At(A), B) = -1 /\ Sense(Below(A), B) = -1
  BY <1>1, <1>4, <1>6, SenseOrder
<1>7. ASSUME Sense(A, B) = 1 PROVE Sense(At(A), B) = 1 /\ Sense(Above(A), B) = 1
  BY <1>1, <1>4, <1>7, SenseOrder
<1>8. ASSUME Sense(At(A), B) = 0, A.r # Missing PROVE Sense(A, B) = 0
  BY <1>1, <1>4, <1>8, SenseOrder
<1> QED
  BY <1>5, <1>6, <1>7, <1>8

(* Between two different versions there is another.                         *)
LEMMA InBetween ==
  ASSUME NEW A \in Ranges, NEW B \in Ranges, A.v # Missing, B.v # Missing,
         Sense(A, B) = -1
  PROVE  \E w \in Point : Sense(w, A) = 1 /\ Sense(w, B) = -1
<1>1. \A C \in {A, B} : /\ Epoch(C) \in Nat /\ C.v \in Versions /\ C.v \in Nat
                        /\ C.r \in Nat \cup {Missing} /\ C.r \in Versions \cup {Missing}
  BY RangeFields, Apart
<1>2. Above(A) \in Point /\ Sense(Above(A), A) = 1
  BY Neighbours
<1>3. CASE Epoch(A) < Epoch(B) \/ (Epoch(A) = Epoch(B) /\ A.v < B.v)
  <2>1. Epoch(Above(A)) = Epoch(A) /\ Above(A).v = A.v + 1 /\ Above(A).v \in Nat /\ Above(A).r \in Nat
    BY <1>1, <1>2, PointFields DEF Above
  <2>2. Epoch(A) = Epoch(B) => A.v + 1 < B.v
    BY <1>1, <1>3, Apart
  <2>3. Sense(Above(A), B) = -1
    BY <1>1, <1>3, <2>1, <2>2, SenseOrder
  <2> QED
    BY <1>2, <2>3
<1>4. CASE ~(Epoch(A) < Epoch(B) \/ (Epoch(A) = Epoch(B) /\ A.v < B.v))
  <2>1. /\ Epoch(A) = Epoch(B) /\ A.v = B.v
        /\ A.r # Missing /\ B.r # Missing /\ A.r < B.r
    BY <1>1, <1>4, SenseOrder
  <2>2. JustAbove(A) \in Point /\ Sense(JustAbove(A), A) = 1
    BY <2>1, Neighbours
  <2>3. Epoch(JustAbove(A)) = Epoch(A) /\ JustAbove(A).v = A.v /\ JustAbove(A).r = A.r + 1
        /\ A.r + 1 \in Nat
    BY <1>1, <2>1, <2>2, PointFields DEF JustAbove
  <2>4. A.r + 1 < B.r
    BY <1>1, <2>1, Apart
  <2>5. Sense(JustAbove(A), B) = -1
    <3>1. A.r + 1 # Missing /\ JustAbove(A).r \in Nat /\ JustAbove(A).r # Missing
      BY <2>3, EvrAssumption
    <3> QED
      BY <1>1, <2>1, <2>3, <2>4, <3>1, SenseOrder
  <2> QED
    BY <2>2, <2>5
<1> QED
  BY <1>3, <1>4

(* A range that ends above a lower version and one that starts below a      *)
(* higher version have a version in common.                                 *)
LEMMA AboveAndBelow ==
  ASSUME NEW A \in Ranges, NEW B \in Ranges, Bounded(A), Bounded(B),
         Sense(A, B) = -1, ">" \in A.flags \/ "<" \in B.flags
  PROVE  \E w \in Point : In(w, A) /\ In(w, B)
<1> USE DEF Bounded
<1>1. /\ At(A) \in Point /\ Below(A) \in Point
      /\ Sense(At(A), A) = 0 /\ Sense(Below(A), A) = -1
      /\ At(B) \in Point /\ Above(B) \in Point
      /\ Sense(At(B), B) = 0 /\ Sense(Above(B), B) = 1
  BY Neighbours
<1>2. Sense(At(A), B) = -1 /\ Sense(Below(A), B) = -1
  BY NextToOther
<1>3. Sense(B, A) = 1 /\ Sense(At(B), A) = 1 /\ Sense(Above(B), A) = 1
  BY SenseSwap, NextToOther
<1>4. PICK w \in Point : Sense(w, A) = 1 /\ Sense(w, B) = -1
  BY InBetween
<1>5. ("<" \in A.flags \/ "=" \in A.flags \/ ">" \in A.flags)
      /\ ("<" \in B.flags \/ "=" \in B.flags \/ ">" \in B.flags)
  BY RangeFields DEF Senses
<1>6. CASE ">" \in A.flags /\ "<" \in B.flags
  BY <1>4, <1>6 DEF In
<1>7. CASE ">" \in A.flags /\ "=" \in B.flags
  BY <1>1, <1>3, <1>7 DEF In
<1>8. CASE ">" \in A.flags /\ ">" \in B.flags
  BY <1>1, <1>3, <1>8 DEF In
<1>9. CASE "<" \in B.flags /\ "=" \in A.flags
  BY <1>1, <1>2, <1>9 DEF In
<1>10. CASE "<" \in B.flags /\ "<" \in A.flags
  BY <1>1, <1>2, <1>10 DEF In
<1> QED
  BY <1>5, <1>6, <1>7, <1>8, <1>9, <1>10

(* A "!=" has a version in common with every range of another version.      *)
LEMMA NotEqualMeets ==
  ASSUME NEW A \in Ranges, NEW B \in Ranges, Bounded(A), Bounded(B),
         A.flags = NotEqual, Sense(A, B) # 0
  PROVE  \E w \in Point : In(w, A) /\ In(w, B)
<1> USE DEF Bounded
<1>1. /\ At(B) \in Point /\ Below(B) \in Point /\ Above(B) \in Point
      /\ Sense(At(B), B) = 0 /\ Sense(Below(B), B) = -1 /\ Sense(Above(B), B) = 1
  BY Neighbours
<1>2. "<" \in B.flags \/ "=" \in B.flags \/ ">" \in B.flags
  BY RangeFields DEF Senses
<1>3. ASSUME NEW w \in Point, Sense(w, A) # 0 PROVE In(w, A)
  <2>1. Sense(w, A) \in {-1, 0, 1}
    <3>1. Epoch(A) \in Nat /\ A.v \in Nat /\ A.r \in Nat \cup {Missing}
      BY RangeFields, Apart
    <3> QED
      BY <3>1, PointFields, SenseOrder
  <2> QED
    BY <1>3, <2>1 DEF In, NotEqual
<1>4. Sense(At(B), A) # 0
  BY SenseSwap, NextToOther
<1>5. Sense(Below(B), A) # 0 /\ Sense(Above(B), A) # 0
  BY NextToOther
<1>6. CASE "=" \in B.flags
  BY <1>1, <1>3, <1>4, <1>6 DEF In
<1>7. CASE "<" \in B.flags
  BY <1>1, <1>3, <1>5, <1>7 DEF In
<1>8. CASE ">" \in B.flags
  BY <1>1, <1>3, <1>5, <1>8 DEF In
<1> QED
  BY <1>2, <1>6, <1>7, <1>8

(* Two ranges of the same version have one in common on a side both have.   *)
LEMMA SameVersionMeets ==
  ASSUME NEW A \in Ranges, NEW B \in Ranges, Bounded(A), Bounded(B),
         Sense(A, B) = 0, Meet(A, B)
  PROVE  \E w \in Point : In(w, A) /\ In(w, B)
<1> USE DEF Bounded
<1>1. \A C \in {A, B} : /\ Epoch(C) \in Nat /\ C.v \in Versions /\ C.v \in Nat
                        /\ C.r \in Nat \cup {Missing} /\ C.r \in Versions \cup {Missing}
  BY RangeFields, Apart
<1>2. /\ Epoch(A) = Epoch(B) /\ A.v = B.v
      /\ A.r # Missing /\ B.r # Missing => A.r = B.r
  BY <1>1, SenseOrder
<1>3. /\ At(A) \in Point /\ Below(A) \in Point /\ Above(A) \in Point
      /\ Sense(At(A), A) = 0 /\ Sense(Below(A), A) = -1 /\ Sense(Above(A), A) = 1
      /\ At(B) \in Point
      /\ Sense(At(B), B) = 0 /\ Sense(Below(B), B) = -1 /\ Sense(Above(B), B) = 1
  BY Neighbours
<1>4. Below(A) = Below(B) /\ Above(A) = Above(B)
  BY <1>2 DEF Below, Above
<1>5. A.r # Missing => Sense(At(A), B) = 0
  <2>1. ASSUME A.r # Missing
        PROVE  Epoch(At(A)) = Epoch(A) /\ At(A).v = A.v /\ At(A).r = A.r
    BY <1>3, <2>1, PointFields DEF At
  <2> QED
    BY <1>1, <1>2, <2>1, SenseOrder
<1>6. A.r = Missing => Sense(At(B), A) = 0
  <2>1. Epoch(At(B)) = Epoch(B) /\ At(B).v = B.v /\ At(B).r \in Nat
    BY <1>3, PointFields DEF At
  <2> QED
    BY <1>1, <1>2, <2>1, SenseOrder
<1>7. PICK f \in A.flags \cap B.flags : f \in Senses
  BY RangeFields DEF Meet
<1>8. CASE f = "<"
  BY <1>3, <1>4, <1>7, <1>8 DEF In
<1>9. CASE f = ">"
  BY <1>3, <1>4, <1>7, <1>9 DEF In
<1>10. CASE f = "="
  BY <1>3, <1>5, <1>6, <1>7, <1>10 DEF In
<1> QED
  BY <1>7, <1>8, <1>9, <1>10 DEF Senses

(* Wherever rpmdsCompare finds an overlap, a version is in both ranges.     *)
LEMMA OverlapSound ==
  ASSUME NEW A \in Ranges, NEW B \in Ranges, Overlap(A, B)
  PROVE  Common(A, B)
<1>1. SUFFICES \E w \in Point : In(w, A) /\ In(w, B)
  BY DEF Common, Point
<1>2. CASE ~Bounded(A)
  BY <1>2, Inside DEF Bounded, In
<1>3. CASE ~Bounded(B)
  BY <1>3, Inside DEF Bounded, In
<1>4. CASE Bounded(A) /\ Bounded(B)
  <2>1. /\ Sense(A, B) \in {-1, 0, 1}
        /\ Sense(A, B) = -1 <=> Sense(B, A) = 1
        /\ Sense(A, B) = 1 <=> Sense(B, A) = -1
    BY <1>4, SenseSwap DEF Bounded
  <2>2. \/ A.flags = NotEqual /\ Sense(A, B) # 0
        \/ B.flags = NotEqual /\ Sense(B, A) # 0
        \/ Sense(A, B) = -1 /\ (">" \in A.flags \/ "<" \in B.flags)
        \/ Sense(B, A) = -1 /\ (">" \in B.flags \/ "<" \in A.flags)
        \/ Sense(A, B) = 0 /\ Meet(A, B)
    BY <1>4, <2>1 DEF Overlap, Bounded
  <2> QED
    BY <1>4, <2>2, NotEqualMeets, AboveAndBelow, SameVersionMeets
<1> QED
  BY <1>2, <1>3, <1>4

(* Two ranges that both name a release, or none does, overlap where a       *)
(* version is in both, unless one is "!=".                                  *)
LEMMA OverlapComplete ==
  ASSUME NEW A \in Ranges, NEW B \in Ranges, Common(A, B),
         A.r = Missing <=> B.r = Missing, NotEqual \notin {A.flags, B.flags}
  PROVE  Overlap(A, B)
<1>1. CASE ~Bounded(A) \/ ~Bounded(B)
  BY <1>1 DEF Bounded, Overlap
<1>2. CASE Bounded(A) /\ Bounded(B)
  <2> USE <1>2 DEF Bounded
  <2>1. PICK w \in Point : In(w, A) /\ In(w, B)
    BY DEF Common, Point
  <2>2. \A C \in {A, B} : /\ Epoch(C) \in Nat /\ C.v \in Nat /\ C.r \in Nat \cup {Missing}
    BY RangeFields, Apart
  <2>3. Epoch(w) \in Nat /\ w.v \in Nat /\ w.r \in Nat /\ w.r # Missing
    BY PointFields
  <2>4. Sense(A, B) \in {-1, 0, 1} /\ Sense(w, A) \in {-1, 0, 1} /\ Sense(w, B) \in {-1, 0, 1}
    BY <2>2, <2>3, SenseOrder
  <2>5. /\ Sense(A, B) = -1 => Sense(w, A) = 1 \/ Sense(w, B) = -1
        /\ Sense(A, B) = 1 => Sense(w, A) = -1 \/ Sense(w, B) = 1
        /\ Sense(A, B) = 0 => Sense(w, A) = Sense(w, B)
    <3>1. ASSUME Sense(A, B) = -1 PROVE Sense(w, A) = 1 \/ Sense(w, B) = -1
      BY <2>2, <2>3, <3>1, SenseOrder
    <3>2. ASSUME Sense(A, B) = 1 PROVE Sense(w, A) = -1 \/ Sense(w, B) = 1
      BY <2>2, <2>3, <3>2, SenseOrder
    <3>3. ASSUME Sense(A, B) = 0 PROVE Sense(w, A) = Sense(w, B)
      <4>1. Epoch(A) = Epoch(B) /\ A.v = B.v /\ A.r = B.r
        BY <2>2, <3>3, SenseOrder
      <4> QED
        BY <4>1 DEF Sense
    <3> QED
      BY <3>1, <3>2, <3>3
  <2>6. \A C \in {A, B} : /\ Sense(w, C) = 0 => "=" \in C.flags \/ ~In(w, C)
                          /\ Sense(w, C) = -1 => "<" \in C.flags \/ ~In(w, C)
                          /\ Sense(w, C) = 1 => ">" \in C.flags \/ ~In(w, C)
    BY DEF In
  <2>7. CASE Sense(A, B) = -1
    BY <2>1, <2>5, <2>6, <2>7 DEF Overlap
  <2>8. CASE Sense(A, B) = 1
    BY <2>1, <2>5, <2>6, <2>8 DEF Overlap
  <2>9. CASE Sense(A, B) = 0
    <3>1. Meet(A, B)
      BY <2>1, <2>4, <2>5, <2>6, <2>9 DEF Meet
    <3> QED
      BY <2>9, <3>1 DEF Overlap
  <2> QED
    BY <2>4, <2>7, <2>8, <2>9
<1> QED
  BY <1>1, <1>2

-----------------------------------------------------------------------------
(* The theorems.                                                            *)

(* The answer is that of rpmdsCompare on the two ranges.                    *)
Answered ==
    kind = "range" => /\ x \in Ranges /\ y \in Ranges
                      /\ done => rc = rpmdsCompare(x, y)

(* Every answer of rpmdsCompare is right: it finds an overlap only where a  *)
(* version is in both ranges, and finds it if both name a release or none   *)
(* does and none is "!=".                                                   *)
THEOREM OverlapMeansCorrect == Spec => []OverlapMeans
<1>1. Init => Answered
  BY DEF Init, Answered
<1>2. Answered /\ [Next]_vars => Answered'
  BY DEF Answered, Next, CompareVersions, CompareRanges, vars
<1>3. Answered => OverlapMeans
  <2> SUFFICES ASSUME Answered, kind = "range", done PROVE OverlapMeans
    BY DEF OverlapMeans
  <2>1. x \in Ranges /\ y \in Ranges /\ rc = IF Overlap(x, y) THEN 1 ELSE 0
    BY DEF Answered, rpmdsCompare
  <2>2. rc = 1 => Common(x, y)
    BY <2>1, OverlapSound
  <2>3. ASSUME Common(x, y), x.r = Missing <=> y.r = Missing,
               NotEqual \notin {x.flags, y.flags}
        PROVE  rc = 1
    BY <2>1, <2>3, OverlapComplete
  <2> QED
    BY <2>2, <2>3 DEF OverlapMeans
<1> QED
  BY <1>1, <1>2, <1>3, PTL DEF Spec
=============================================================================
