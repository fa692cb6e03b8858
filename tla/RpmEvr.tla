------------------------------- MODULE RpmEvr -------------------------------
(***************************************************************************)
(* Comparing versions (rpmEVRcmp, rpmdb/rpmevr.c) and ranges of versions   *)
(* (rpmdsCompare, lib/rpmds.c), on which every choice of a newer package   *)
(* and every dependency rests.                                             *)
(*                                                                         *)
(* A version is a string; its characters are their codes, so that they     *)
(* compare as in C, and 0 ends it.  In a range, where only the order of    *)
(* versions matters, epochs, versions and releases are numbers with others *)
(* below, between and above them, and Missing is a field that is not       *)
(* there.  The wildcard "*" is left out.                                   *)
(***************************************************************************)
EXTENDS Integers, Sequences, FiniteSets, SequencesExt

CONSTANTS Alphabet,   \* codes of characters
          MaxLength,  \* of a string: bounds the run
          Versions,   \* of the fields of a range
          Missing

ASSUME EvrAssumption ==
    /\ Alphabet \subseteq 1..127
    /\ MaxLength \in Nat
    /\ Versions \subseteq Nat /\ Missing \notin Nat
    /\ \A n \in Versions : n > 0 /\ n + 1 \notin Versions

VARIABLES kind, x, y,  \* what is compared: "version" or "range"
          done, rc     \* whether it was, and the answer

vars == <<kind, x, y, done, rc>>

-----------------------------------------------------------------------------
(* xisdigit and xisrpmalpha: letters, and punctuation that does not         *)
(* separate (_rpmnotalpha).                                                 *)
Digit(c) == c \in 48..57
Separators == {46, 58, 45}
Alpha(c) == c \in 33..127 /\ ~Digit(c) /\ c \notin Separators

Char(s, i) == IF i <= Len(s) THEN s[i] ELSE 0
Sign(n) == IF n > 0 THEN 1 ELSE IF n < 0 THEN -1 ELSE 0

(* The first place from i on where a segment starts, or the string ends.    *)
NextSegment(s, i) ==
    CHOOSE k \in i..Len(s) + 1 :
        /\ k > Len(s) \/ Digit(s[k]) \/ Alpha(s[k])
        /\ \A n \in i..k - 1 : ~Digit(s[n]) /\ ~Alpha(s[n])

(* The places after the digits, and after the letters, that start at i.     *)
AfterDigits(s, i) ==
    CHOOSE k \in i..Len(s) + 1 : ~Digit(Char(s, k)) /\ \A n \in i..k - 1 : Digit(s[n])
AfterAlphas(s, i) ==
    CHOOSE k \in i..Len(s) + 1 : ~Alpha(Char(s, k)) /\ \A n \in i..k - 1 : Alpha(s[n])

(* Mutant: zeroes are not discarded.                                        *)
NoZeroesKept(s, i) == i

(* Discard leading zeroes, but not the last digit.                          *)
NoZeroes(s, i) ==
    CHOOSE k \in i..Len(s) + 1 :
        /\ ~(Char(s, k) = 48 /\ Digit(Char(s, k + 1)))
        /\ \A n \in i..k - 1 : s[n] = 48 /\ Digit(Char(s, n + 1))

(* strncmp of at most n characters of s from i and of t from j.             *)
Strncmp(s, i, t, j, n) ==
    LET differ == {k \in 0..n - 1 : Char(s, i + k) # Char(t, j + k)}
        first == CHOOSE k \in differ : \A m \in differ : k <= m
    IN  IF differ = {} THEN 0 ELSE Char(s, i + first) - Char(t, j + first)

Longer(m, n) == IF m > n THEN m ELSE n

(* One pass of the loop of rpmEVRcmp on the segments at i of a and j of b:  *)
(* where it goes on and what it found.                                      *)
DigitSegments(a, i, b, j) ==
    LET m == NoZeroes(a, i)   n == NoZeroes(b, j)
        ae == AfterDigits(a, m)   be == AfterDigits(b, n)
    IN  [ae |-> ae, be |-> be,
         rc |-> IF ae = m \/ be = n THEN Char(a, m) - Char(b, n)
                ELSE IF ae - m # be - n THEN (ae - m) - (be - n)
                ELSE Strncmp(a, m, b, n, ae - m)]

AlphaSegments(a, i, b, j) ==
    LET ae == AfterAlphas(a, i)   be == AfterAlphas(b, j)
    IN  [ae |-> ae, be |-> be, rc |-> Strncmp(a, i, b, j, Longer(ae - i, be - j))]

Segments(a, i, b, j) ==
    LET m == NextSegment(a, i)   n == NextSegment(b, j)
    IN  IF Digit(Char(a, m)) \/ Digit(Char(b, n)) THEN DigitSegments(a, m, b, n)
        ELSE AlphaSegments(a, m, b, n)

rpmEVRcmp(a, b) ==
    LET cmp[i \in 1..Len(a) + 1, j \in 1..Len(b) + 1] ==
            IF i > Len(a) \/ j > Len(b) THEN Char(a, i) - Char(b, j)
            ELSE LET seg == Segments(a, i, b, j)
                 IN  IF seg.rc # 0 THEN seg.rc ELSE cmp[seg.ae, seg.be]
    IN  Sign(cmp[1, 1])

-----------------------------------------------------------------------------
(* A dependency: its flags, and its fields.  Without flags or without a     *)
(* version it is satisfied by the name.  A missing epoch is "0"             *)
(* (rpmEVRparse); a missing release matches every other.                    *)
Senses == {"<", "=", ">"}
NotEqual == {"<", ">"}
Fields == {Missing} \cup Versions
Ranges == {d \in [flags : (SUBSET Senses) \ {Senses}, e : Fields, v : Fields, r : Fields] :
             d.v = Missing => d.e = Missing /\ d.r = Missing}

Epoch(d) == IF d.e = Missing THEN 0 ELSE d.e
Field(p, q) == IF p = Missing \/ q = Missing THEN 0 ELSE Sign(p - q)

(* Fields are compared in order until two of them differ.                   *)
Sense(A, B) ==
    LET e == Field(Epoch(A), Epoch(B))   v == Field(A.v, B.v)
    IN  IF e # 0 THEN e ELSE IF v # 0 THEN v ELSE Field(A.r, B.r)

(* Mutant: a range that ends where the other begins overlaps it.            *)
MeetTouching(A, B) == TRUE

(* Both ranges have something at, below or above where they meet.           *)
Meet(A, B) == A.flags \cap B.flags # {}

Overlap(A, B) ==
    \/ A.flags = {} \/ B.flags = {}
    \/ A.v = Missing \/ B.v = Missing
    \/ LET sense == Sense(A, B) IN
       IF A.flags = NotEqual \/ B.flags = NotEqual THEN sense # 0
       ELSE \/ sense < 0 /\ (">" \in A.flags \/ "<" \in B.flags)
            \/ sense > 0 /\ ("<" \in A.flags \/ ">" \in B.flags)
            \/ sense = 0 /\ Meet(A, B)
rpmdsCompare(A, B) == IF Overlap(A, B) THEN 1 ELSE 0

-----------------------------------------------------------------------------
Strings == UNION {[1..n -> Alphabet] : n \in 0..MaxLength}

Init ==
    /\ done = FALSE /\ rc = 0
    /\ \/ kind = "version" /\ x \in Strings /\ y \in Strings
       \/ kind = "range" /\ x \in Ranges /\ y \in Ranges

CompareVersions ==
    /\ kind = "version" /\ ~done
    /\ done' = TRUE /\ rc' = rpmEVRcmp(x, y)
    /\ UNCHANGED <<kind, x, y>>

CompareRanges ==
    /\ kind = "range" /\ ~done
    /\ done' = TRUE /\ rc' = rpmdsCompare(x, y)
    /\ UNCHANGED <<kind, x, y>>

Next == CompareVersions \/ CompareRanges
Spec == Init /\ [][Next]_vars

-----------------------------------------------------------------------------
Order == [p \in Strings \X Strings |-> rpmEVRcmp(p[1], p[2])]

(* The numbers and words of a string, and whether something follows the     *)
(* last one: what "1.05." and "1.5:" have in common.                        *)
Number(digits) == FoldLeft(LAMBDA n, c : 10 * n + c - 48, 0, digits)
SegmentsOf(s) ==
    LET starts == {i \in 1..Len(s) :
                     \/ Digit(s[i]) /\ ~(i > 1 /\ Digit(s[i - 1]))
                     \/ Alpha(s[i]) /\ ~(i > 1 /\ Alpha(s[i - 1]))}
        seq == SetToSortSeq(starts, <)
    IN  [k \in DOMAIN seq |->
           IF Digit(s[seq[k]])
           THEN [number |-> Number(SubSeq(s, seq[k], AfterDigits(s, seq[k]) - 1)), word |-> <<>>]
           ELSE [number |-> 0, word |-> SubSeq(s, seq[k], AfterAlphas(s, seq[k]) - 1)]]
Trailing(s) == s # <<>> /\ s[Len(s)] \in Separators

(* rpmEVRcmp orders versions: swapping them negates the answer, equal means *)
(* the same numbers and words, the first segment to differ decides by its   *)
(* value if it is a number in both, and what is newer than a newer version  *)
(* is newer.                                                                *)
VersionsOrdered ==
    kind = "version" /\ done =>
        /\ Order[y, x] = -rc
        /\ rc = 0 <=> SegmentsOf(x) = SegmentsOf(y) /\ Trailing(x) = Trailing(y)
        /\ LET p == SegmentsOf(x)   q == SegmentsOf(y) IN
           \A k \in DOMAIN p \cap DOMAIN q :
              /\ SubSeq(p, 1, k - 1) = SubSeq(q, 1, k - 1)
              /\ p[k] # q[k] /\ p[k].word = <<>> /\ q[k].word = <<>>
              => rc = Sign(p[k].number - q[k].number)
        /\ rc >= 0 => \A z \in Strings :
              Order[y, z] >= 0 => Order[x, z] = IF rc = 0 THEN Order[y, z] ELSE 1

(* A version is in a range if it is what an "=" with all fields would match.*)
Between == {0} \cup UNION {n - 1..n + 1 : n \in Versions}
In(w, A) == A.flags = {} \/ A.v = Missing \/
            LET s == Sense(w, A) IN
            \/ s = 0 /\ "=" \in A.flags
            \/ s < 0 /\ "<" \in A.flags
            \/ s > 0 /\ ">" \in A.flags
Common(A, B) == \E w \in [e : Between, v : Between, r : Between] : In(w, A) /\ In(w, B)

(* Two ranges overlap exactly if a version is in both (lib/rpmds.h:683): at *)
(* least if rpmdsCompare says so; and it does if both have a release or     *)
(* none has, and none is "!=".                                              *)
OverlapMeans ==
    kind = "range" /\ done =>
        /\ rc = 1 => Common(x, y)
        /\ Common(x, y) /\ (x.r = Missing <=> y.r = Missing) /\ NotEqual \notin {x.flags, y.flags}
              => rc = 1

(* ... or whatever they have.                                               *)
OverlapExact == kind = "range" /\ done => (rc = 1 <=> Common(x, y))
=============================================================================
