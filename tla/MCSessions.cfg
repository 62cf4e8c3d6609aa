SPECIFICATION FairSessionSpec
CONSTANTS
    Tabs = {tab1, tab2}
    Gone = Gone
    TooLate = TooLate
    MaxTokens = 3
    MaxCalls = 2
INVARIANTS ReloadKeepsTheSession CoordinatedTabsAreNotRefused
PROPERTIES OneSuccessor OnlySigningOutRemovesALiveToken RefreshEnds
\* No tokens are left to issue.
CHECK_DEADLOCK FALSE
