------------------------------ MODULE MCRpmEvr ------------------------------
EXTENDS RpmEvr

\* "+", ".", "0", "1" and "a"; with "/", whose code is between "." and "0".
Usual == {43, 46, 48, 49, 97}
WithSlash == {46, 47, 49, 97}

\* Versions of ranges, with others below, between and above them.
Even == {2, 4}
=============================================================================
