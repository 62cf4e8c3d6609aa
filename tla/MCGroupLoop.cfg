SPECIFICATION Spec
CONSTANTS
    a = a
    b = b
    c = c
    d = d
    ab = ab
    bc = bc
    cd = cd
    leave = leave
    NoCompany = NoCompany
    Companies = {a, b, c, d}
    Rows = {a, b, c, d}
    Txns = {ab, cd}
    Rank <- RankOf
    Child <- ChildOf
    Under <- UnderOf
INVARIANTS NoLoop
\* Every request has ended.
CHECK_DEADLOCK FALSE
