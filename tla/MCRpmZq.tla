------------------------------ MODULE MCRpmZq -------------------------------
(* RpmZq for TLC: the files a run meets.                                    *)
EXTENDS RpmZq

Compress(n, full) ==
    [op |-> "compress", blocks |-> n, big |-> {}, grows |-> {}, full |-> full, seekfail |-> n]

Decompress(n, big, grows, fail) ==
    [op |-> "decompress", blocks |-> n, big |-> big, grows |-> grows, full |-> FALSE,
     seekfail |-> fail]

(* Files of few blocks, one that starves the workers, blocks that fit no    *)
(* space, a block whose contents do not, a seek that fails.                 *)
Small == {Compress(n, full) : n \in 1..3, full \in BOOLEAN}
           \cup {Decompress(n, {}, {}, n) : n \in 2..4}
           \cup {Compress(4, FALSE), Decompress(3, {1}, {1}, 3),
                    Decompress(3, {}, {1}, 3), Decompress(2, {}, {}, 1)}

(* Four blocks and a second worker are enough to fill the output pool.      *)
Four == {Compress(4, FALSE)}
=============================================================================
