------------------------------ MODULE MCRpmSq ------------------------------
(* RpmSq for TLC: processes are numbers, and every instance differs only in *)
(* what the environment may do.                                             *)
EXTENDS RpmSq

MCNoPid == 0
MCFailed == -1
=============================================================================
