SPECIFICATION Spec
CONSTANTS
    a1 = a1 a2 = a2 c1 = c1 c2 = c2
    NoPkg = NoPkg
    NameOf <- Name
    Obsoletes <- Obsoletion
    Pkgs = {a1, a2, c1}
    MaxTid = 3
    MaxElems = 2
    MaxErases = 1
    Options <- Automatic
INVARIANTS FailureUndone
