--------------------------- MODULE MCRpmRollback ---------------------------
(* Versions of package a, and versions of a package c that obsoletes a.      *)
EXTENDS RpmRollback

CONSTANTS a1, a2, c1, c2

Name == (a1 :> "a") @@ (a2 :> "a") @@ (c1 :> "c") @@ (c2 :> "c")
Obsoletion == (a1 :> {}) @@ (a2 :> {}) @@ (c1 :> {"a"}) @@ (c2 :> {"a"})

\* rpm --rollback where every erasure is repackaged.
Usual == [auto |-> FALSE, asserts |-> FALSE, second |-> FALSE, unsafe |-> 0,
          excluded |-> {}, repackage |-> {TRUE}, fails |-> {"rollback"}]

Mixed == {Usual,
        [Usual EXCEPT !.fails = {"element", "rollback"}],
        [Usual EXCEPT !.excluded = {2}, !.unsafe = 1],
        [Usual EXCEPT !.repackage = BOOLEAN],
        [Usual EXCEPT !.repackage = BOOLEAN, !.unsafe = 1],
        [Usual EXCEPT !.auto = TRUE, !.asserts = TRUE, !.fails = {"element"}]}

\* Rolling back failures; where packages cannot be repackaged; with assertions,
\* and with two transactions in one second.
Automatic == {[Usual EXCEPT !.auto = TRUE, !.fails = {"element"}]}
Unsaved == {[Usual EXCEPT !.fails = {"save"}]}
Open == {[Usual EXCEPT !.asserts = TRUE], [Usual EXCEPT !.second = TRUE]}
=============================================================================
