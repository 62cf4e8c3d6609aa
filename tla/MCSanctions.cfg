SPECIFICATION ScreeningSpec
CONSTANTS
    Officers = {officer, head}
    Heads = {head}
    TrueMatchMode = "HEAD"
    NoOfficer = NoOfficer
    Subjects = {acme, director}
    Company = acme
    Hits = {h1, h2}
    Recordable = {"FALSE_POSITIVE", "TRUE_MATCH"}
    Requests = {t1, t2, t3}
    Mortal = {t1, t2, t3}
    MaxCycles = 2
SYMMETRY Interchangeable
INVARIANTS TwoOfficers AloneSetsRight
PROPERTIES OnlyOfficersLiftTheFlag
\* Every request has ended.
CHECK_DEADLOCK FALSE
