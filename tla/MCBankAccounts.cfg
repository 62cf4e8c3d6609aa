SPECIFICATION Spec
CONSTANTS
    People = {manager, colleague, officer}
    Managers = {manager, colleague}
    Approvers = {officer}
    NoOne = NoOne
    Mode = "SECOND_PERSON"
    Currencies = {inr, usd}
    MaxAccounts = 4
SYMMETRY Interchangeable
INVARIANTS OneVersionInForce
PROPERTIES PaidUntilGivenUp
\* The versions run out.
CHECK_DEADLOCK FALSE
