SPECIFICATION Spec
CONSTANTS
    d1 = d1
    d2 = d2
    d3 = d3
    acme = acme
    bolt = bolt
    pune = pune
    open1 = open1
    open3 = open3
    hand1 = hand1
    file1 = file1
    terms1 = terms1
    branch1 = branch1
    withdraw1 = withdraw1
    buyer2 = buyer2
    decide = decide
    flag = flag
    NoCompany = NoCompany
    NoBranch = NoBranch
    Txns = {open1, open3, branch1, flag, terms1}
    Rows <- AllRows
    Deals = {d1, d3}
    Companies = {acme}
    Branches = {pune}
    Seller <- SellerOf
    Owner <- OwnerOf
    Rank <- RankOf
    Validity = 1
    MaxTime = 0
    Kind <- KindOf
    OnDeal <- DealOf
    About <- AboutOf
    Through <- ThroughOf
PROPERTIES EveryRequestEnds
\* Every request has ended, and the clock has stopped.
CHECK_DEADLOCK FALSE
