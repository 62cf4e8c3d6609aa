SPECIFICATION Spec
CONSTANTS
    approve = approve
    start = start
    trigger = trigger
    poll = poll
    review = review
    review2 = review2
    upload = upload
    r1 = r1
    r2 = r2
    company = company
    Txns = {approve, start, trigger, review, upload}
    Rows <- AllRows
    Results = {r1, r2}
    Company = company
    Kind <- KindOf
    Target <- TargetOf
PROPERTIES ImplementsCompanyInputs
\* Every request has ended.
CHECK_DEADLOCK FALSE
