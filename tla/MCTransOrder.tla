---------------------------- MODULE MCTransOrder ----------------------------
EXTENDS TransOrder

(* Requirements on the elements of S, in order.                            *)
Needs(S, f) == LET s == SetToSortSeq(S, <) IN [i \in 1 .. Len(s) |-> [on |-> s[i], flags |-> f]]
SameKind(type, p) == {q \in DOMAIN type : q # p /\ type[q] = type[p]}
Others(type, p) == {Needs(S, "auto") : S \in SUBSET SameKind(type, p)}
Replacements(type, p) ==
  {0} \cup IF type[p] = "removed" THEN {q \in DOMAIN type : type[q] = "added"} ELSE {}

(* Every graph of three elements, and every graph of four, with every      *)
(* replacement of the erasures.                                            *)
Three(type, a) ==
  {[type |-> type, anaconda |-> a, requires |-> r, flink |-> l] :
     r \in Others(type, 1) \X Others(type, 2) \X Others(type, 3),
     l \in Replacements(type, 1) \X Replacements(type, 2) \X Replacements(type, 3)}

Four(type) ==
  {[type |-> type, anaconda |-> FALSE, requires |-> r, flink |-> l] :
     r \in Others(type, 1) \X Others(type, 2) \X Others(type, 3) \X Others(type, 4),
     l \in Replacements(type, 1) \X Replacements(type, 2) \X Replacements(type, 3)
            \X Replacements(type, 4)}

A == "added"
R == "removed"
All == UNION {Three(type, a) : type \in {A, R} \X {A, R} \X {A, R}, a \in BOOLEAN}
       \cup UNION {Four(type) : type \in {A, R} \X {A, R} \X {A, R} \X {A, R}}

(* Two packages that require one another, with every kind of requirement;  *)
(* and an erasure between two packages to install, one required by the     *)
(* other.                                                                  *)
Req(q, f) == <<[on |-> q, flags |-> f]>>
Loops == {[type |-> <<A, A>>, anaconda |-> FALSE, flink |-> <<0, 0>>,
           requires |-> <<Req(2, f), Req(1, g)>>] : f, g \in {"none", "auto", "pre"}}
Mixed == {[type |-> <<A, R, A>>, anaconda |-> FALSE, flink |-> <<0, 0, 0>>,
           requires |-> <<(<<>>), <<>>, Req(1, "auto")>>]}
LoopsOrMixed == Loops \cup Mixed
=============================================================================
