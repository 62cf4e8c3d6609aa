----------------------------- MODULE MCHandover -----------------------------
(* Requests about three deals between two companies, each the seller of    *)
(* some; each cfg picks which of them are made.                            *)
EXTENDS Handover

CONSTANTS
    d1, d2, d3, acme, bolt, pune,
    open1, open3, hand1, file1, terms1, branch1, withdraw1, buyer2,
    decide, flag

AllRows == Deals \union Companies \union Branches
SellerOf == [d \in Deals |-> IF d = d2 THEN bolt ELSE acme]
OwnerOf == [b \in Branches |-> acme]
RankOf == [c \in Companies |-> IF c = bolt THEN 1 ELSE 2]

KindOf ==
    [t \in Txns |->
        CASE t \in {open1, open3} -> "open"
          [] t = hand1     -> "hand_over"
          [] t = file1     -> "file"
          [] t = terms1    -> "set_terms"
          [] t = branch1   -> "set_branch"
          [] t = buyer2    -> "name_buyer"
          [] t = withdraw1 -> "withdraw"
          [] t = decide    -> "decide"
          [] t = flag      -> "branch"]

DealOf ==
    [t \in Txns |-> IF t = buyer2 THEN d2 ELSE IF t = open3 THEN d3 ELSE d1]
AboutOf == [t \in Txns |-> acme]
ThroughOf == [t \in Txns |-> IF Branches = {} THEN NoBranch ELSE pune]
=============================================================================
