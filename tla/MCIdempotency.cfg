SPECIFICATION FairSpec
CONSTANTS
    Requests = {r1, r2, r3}
    Faulty = {r3}
    Attempts = 2
    Nothing = Nothing
CHECK_DEADLOCK FALSE
INVARIANTS OneRunPerWindow RegistrationDecides RecordsKeepTheirResponse
PROPERTIES ImplementsKeyClaim SettledKeysAreReleased
