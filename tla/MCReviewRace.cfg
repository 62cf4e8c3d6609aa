SPECIFICATION Spec
CONSTANTS
    approve = approve
    start = start
    trigger = trigger
    poll = poll
    review = review
    review2 = review2
    upload = upload
    r1 = r1
    r2 = r2
    company = company
    Txns = {approve, poll, review, review2}
    Rows = {r1, company}
    Results = {r1}
    Company = company
    Kind <- KindOf
    Target <- TargetOf
PROPERTIES ReviewsAsSeen EveryRequestEnds
\* Every request has ended.
CHECK_DEADLOCK FALSE
