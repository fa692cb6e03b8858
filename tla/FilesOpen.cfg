SPECIFICATION Spec
CONSTANTS
    o1 = o1 o2 = o2 k = k n1 = n1 n2 = n2
    a = a b = b l = l m = m usr = usr lnk = lnk dng = dng
    NoPkg = NoPkg NoFile = NoFile
    Regs = {a, b, usr}
    Links = {l, m, lnk, dng}
    UserContents = {usr, lnk, dng}
    LeadsTo <- Leads
    Transactions <- Open
INVARIANTS LinksKept StrayConfigKept UserConfigKept NothingMissing FailedUpgradeStays
