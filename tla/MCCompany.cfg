SPECIFICATION CompanySpec
CONSTANTS
    lead = lead
    maker = maker
    seller = seller
    NoUser = NoUser
    Staff = {lead, maker, seller}
    HiredAs <- AllHired
    ReviewLeads = {lead}
    SeniorCheckers = {lead}
    SalesLeads = {seller}
    Edited = {seller}
    Validity = 1
    Horizon = 1
    MaxDecisions = 4
    MaxCycles = 2
    MaxInputs = 2
INVARIANTS RowConstraints FrozenWhileAwaiting TwoPeople DecidedAsProposed ClearIsOfThisCycle QualifiedIffPastLead NoPromotionMissed
PROPERTIES ImplementsMakerChecker JourneyOnlyForward
\* The bounds run out: the staff may have nothing left to do.
CHECK_DEADLOCK FALSE
