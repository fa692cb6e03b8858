----------------------------- MODULE MCTransSet -----------------------------
EXTENDS TransSet

Pkg(num, name, evr, more, deps, obs, src) ==
    [num |-> num, name |-> name, evr |-> evr,
     provides |-> [n \in {name} \cup more |-> evr], deps |-> deps,
     obsoletes |-> obs, sourcerpm |-> src, debuginfo |-> FALSE]

R(n, v) == [type |-> "R", name |-> n, evr |-> v]
C(n, v) == [type |-> "C", name |-> n, evr |-> v]

app1 == Pkg(6, "app", 1, {}, <<R("lib", 1)>>, <<>>, "app1")
app2 == Pkg(3, "app", 2, {}, <<R("lib", 2), C("old", 1)>>, <<>>, "app2")
lib1 == Pkg(5, "lib", 1, {}, <<>>, <<>>, "lib1")
lib2 == Pkg(2, "lib", 2, {}, <<>>, <<"old">>, "lib2")
debug == [Pkg(4, "lib-debuginfo", 2, {}, <<>>, <<>>, "lib2") EXCEPT !.debuginfo = TRUE]
old  == Pkg(1, "old", 1, {}, <<C("lib", 2)>>, <<>>, "old1")
alt  == Pkg(7, "alt", 2, {"lib"}, <<C("old", 1)>>, <<"lib">>, "alt2")
tool == Pkg(8, "tool", 1, {}, <<R("old", 1)>>, <<>>, "tool1")

All == {app1, app2, lib1, lib2, debug, old, alt, tool}
Libs == {lib1, lib2}
=============================================================================
