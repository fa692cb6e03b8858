----------------------------- MODULE MCRpmLock -----------------------------
EXTENDS RpmLock

lib1 == [name |-> "lib", evr |-> 1, needs |-> {}]
lib2 == [name |-> "lib", evr |-> 2, needs |-> {}]
app  == [name |-> "app", evr |-> 1, needs |-> {"lib"}]
All == {lib1, lib2, app}

Do(op, p) == [op |-> op, pkg |-> p]
Some == {Do("upgrade", lib1), Do("upgrade", lib2), Do("upgrade", app), Do("erase", lib1)}
AndRebuild == [s \in 1..3 |-> IF s = 3 THEN {Do("upgrade", app), Do("rebuild", app)} ELSE Some]
Alike == [s \in 1..2 |-> Some]

Three == 1..3
Two == 1..2
OfItsOwn == [s \in 1..2 |-> s]
Shared == [s \in 1..3 |-> IF s = 3 THEN 2 ELSE s]

OneProcess == [s \in 1..2 |-> 1]

AnyFile == {"writable", "readonly", "none"}
Writable == {"writable"}
NoneNested == {}
OneNested == {<<1, 2>>}
=============================================================================
