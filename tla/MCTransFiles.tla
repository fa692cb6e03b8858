---------------------------- MODULE MCTransFiles ----------------------------
(* Small transactions: their packages, and the values their files take.     *)
EXTENDS TransFiles

CONSTANTS o1, o2, k, n1, n2, a, b, l, m, usr, lnk, dng

\* A link to what a package may have installed, to other contents, to nothing.
Leads == lnk :> a @@ l :> b @@ m :> NoFile @@ dng :> NoFile

Config == {{"config"}, {"config", "noreplace"}, {"config", "missingok"}}

\* n1 replaces o1.
Upgrade == [new |-> {n1}, old |-> {o1}, kept |-> {}, paths |-> <<1>>, replaces |-> o1 :> n1,
            contents |-> {a, b}, attributes |-> {{}}, states |-> {"normal"}, strays |-> {},
            fails |-> {}, options |-> {"alike"},
            tscolor |-> {}, prefcolor |-> {}, color |-> [p \in {o1, o2, k, n1, n2} |-> {}]]

\* k is there too; o2 is erased; n2 replaces o2, or is installed.
Beside(t) == [t EXCEPT !.kept = {k}]
AndErase(t) == [t EXCEPT !.old = @ \cup {o2}, !.replaces = @ @@ o2 :> NoPkg]
AndInstall(t) == [t EXCEPT !.new = @ \cup {n2}]
AndUpgrade(t) == [t EXCEPT !.new = @ \cup {n2}, !.old = @ \cup {o2}, !.replaces = @ @@ o2 :> n2]
Multilib(t) == [t EXCEPT !.tscolor = {32, 64}, !.prefcolor = {64},
                         !.color = [p \in DOMAIN @ |-> IF p \in {n1, o1} THEN {32} ELSE {64}]]

Sound ==
    {[AndInstall(AndErase(Upgrade)) EXCEPT !.contents = {a, b, l}, !.options = {"alike", "replacenew"}],
     [Beside(AndErase(Upgrade)) EXCEPT !.attributes = Config, !.options = {"alike", "replaceold", "stays"}],
     [Beside(AndErase(Upgrade)) EXCEPT !.contents = {a, b, l}],
     [Beside(Upgrade) EXCEPT !.paths = <<1, 2>>, !.fails = Steps],
     [Beside(Upgrade) EXCEPT !.attributes = Config, !.fails = Steps, !.options = {"alike", "replaceold", "stays"}],
     [Beside(Upgrade) EXCEPT !.attributes = {{}, {"doc"}}, !.states = {"normal", "notinstalled"},
                             !.options = {"nodocs"}],
     Multilib(AndUpgrade(Upgrade))}

\* What the code does not keep its word for: two added packages share a
\* configuration file; a file of the user is where a package puts one; a
\* configuration file is a symbolic link, the user made it one, or it moves to
\* another package; an upgrade fails after an erasure.
Shared == {[AndInstall(Upgrade) EXCEPT !.attributes = {{"config", "noreplace"}}]}
Stray == {[Upgrade EXCEPT !.attributes = Config, !.contents = {a}, !.strays = {usr}]}
SymLinks == {[Upgrade EXCEPT !.attributes = Config, !.contents = {l, m}, !.options = @ \cup {"stays"}]}
LinkedTo == {[Upgrade EXCEPT !.new = {}, !.replaces = o1 :> NoPkg, !.attributes = {{"config"}}]}
Moved == {[Upgrade EXCEPT !.attributes = Config, !.replaces = o1 :> NoPkg]}
AfterErase == {[AndErase(Upgrade) EXCEPT !.contents = {a}, !.fails = {"pre"}]}
Open == Shared \cup Stray \cup SymLinks \cup LinkedTo \cup Moved \cup AfterErase
=============================================================================
