SPECIFICATION Spec
CONSTANTS
    d1 = d1
    d2 = d2
    d3 = d3
    acme = acme
    bolt = bolt
    pune = pune
    open1 = open1
    open3 = open3
    hand1 = hand1
    file1 = file1
    terms1 = terms1
    branch1 = branch1
    withdraw1 = withdraw1
    buyer2 = buyer2
    decide = decide
    flag = flag
    NoCompany = NoCompany
    NoBranch = NoBranch
    Txns = {hand1, file1, withdraw1, flag, decide, buyer2}
    Rows <- AllRows
    Deals = {d1, d2}
    Companies = {acme, bolt}
    Branches = {pune}
    Seller <- SellerOf
    Owner <- OwnerOf
    Rank <- RankOf
    Validity = 1
    MaxTime = 1
    Kind <- KindOf
    OnDeal <- DealOf
    About <- AboutOf
    Through <- ThroughOf
INVARIANTS TypeOK HandedOverAsSnapshotted HandoverNeverDeadlocks
PROPERTIES ImplementsDealLife ClosedIsFinal
\* Every request has ended, and the clock has stopped.
CHECK_DEADLOCK FALSE
