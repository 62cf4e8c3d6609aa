------------------------------ MODULE DealLife ------------------------------
(***************************************************************************)
(* What a deal promises (docs/contracts/deal-and-buyer.md): its stage moves*)
(* along one table, a closed deal never changes, and it is handed over in  *)
(* one step, on a seller that is a clear customer and through a branch in  *)
(* good standing at that very step.                                        *)
(***************************************************************************)
EXTENDS Naturals

CONSTANTS
    Deals, Companies,
    Branches,       \* exporter_gstin rows
    Seller, Owner,  \* each deal's and each branch's company
    NoCompany, NoBranch

VARIABLES deal, company, branch     \* the committed rows

rows == <<deal, company, branch>>

Stages == {"NONE", "OPEN", "GATHERING_PAPERWORK", "HANDED_OVER", "WITHDRAWN"}
Closed == {"HANDED_OVER", "WITHDRAWN"}
PermittedMoves ==
    {<<"OPEN", "GATHERING_PAPERWORK">>, <<"OPEN", "WITHDRAWN">>,
     <<"GATHERING_PAPERWORK", "HANDED_OVER">>, <<"GATHERING_PAPERWORK", "WITHDRAWN">>}

Journeys == {"LEAD", "PROSPECT", "CUSTOMER"}
Further == {<<"LEAD", "PROSPECT">>, <<"PROSPECT", "CUSTOMER">>, <<"LEAD", "CUSTOMER">>}

\* What the lending team was given.
NothingGiven == [buyer |-> NoCompany, papers |-> 0, terms |-> 0]
DealWith(stage, buyer, through, papers) ==
    [stage |-> stage, buyer |-> buyer, branch |-> through, papers |-> papers, terms |-> 0,
     given |-> NothingGiven, handedAt |-> 0]
NewDeal == DealWith("OPEN", NoCompany, NoBranch, 0)

Opened(d) == deal[d].stage # "NONE"
Live(d) == Opened(d) /\ deal[d].stage \notin Closed
Offered(d) == [buyer |-> deal[d].buyer, papers |-> deal[d].papers, terms |-> deal[d].terms]

\* A seller with an active branch names one; the one named is active and unflagged.
BranchSound(d) ==
    IF deal[d].branch = NoBranch
      THEN \A b \in Branches : Owner[b] = Seller[d] => ~branch[b].active
      ELSE branch[deal[d].branch].active /\ ~branch[deal[d].branch].flagged

\* The handover conditions whose facts the handover holds locks on.
HandoverStands(d) ==
    /\ company[Seller[d]].journey = "CUSTOMER"
    /\ company[Seller[d]].gauge = "CLEAR"
    /\ deal[d].papers > 0
    /\ BranchSound(d)

\* Each deal not opened yet, or part of the way along.
Init ==
    /\ deal \in [Deals ->
          {DealWith("NONE", NoCompany, NoBranch, 0), NewDeal}
          \union {DealWith("GATHERING_PAPERWORK", c, b, 1) :
                    c \in Companies, b \in Branches \union {NoBranch}}]
    /\ \A d \in Deals :
          /\ deal[d].buyer # Seller[d]
          /\ deal[d].branch # NoBranch => Owner[deal[d].branch] = Seller[d]

-----------------------------------------------------------------------------
Change(d, row) ==
    /\ deal' = [deal EXCEPT ![d] = row]
    /\ UNCHANGED branch

Open(d) ==
    /\ ~Opened(d)
    /\ company[Seller[d]].journey # "LEAD"
    /\ Change(d, NewDeal)
    /\ company' = [company EXCEPT ![Seller[d]].readyNow = TRUE]

Move(d, to) ==
    /\ to # "HANDED_OVER"
    /\ <<deal[d].stage, to>> \in PermittedMoves
    /\ Change(d, [deal[d] EXCEPT !.stage = to])
    /\ UNCHANGED company

HandOver(d) ==
    /\ deal[d].stage = "GATHERING_PAPERWORK"
    /\ deal[d].buyer # NoCompany
    /\ HandoverStands(d)
    /\ Change(d, [deal[d] EXCEPT !.stage = "HANDED_OVER", !.given = Offered(d),
                                 !.handedAt = deal'[d].handedAt])
    /\ UNCHANGED company

NameBuyer(d, c) ==
    /\ Live(d)
    /\ deal[d].buyer = NoCompany
    /\ c # Seller[d]
    /\ Change(d, [deal[d] EXCEPT !.buyer = c])
    /\ UNCHANGED company

InvoiceFrom(d, b) ==
    /\ Live(d)
    /\ b # NoBranch => Owner[b] = Seller[d]
    /\ Change(d, [deal[d] EXCEPT !.branch = b])
    /\ UNCHANGED company

SetTerms(d) ==
    /\ Live(d)
    /\ Change(d, [deal[d] EXCEPT !.terms = deal[d].terms + 1])
    /\ UNCHANGED company

File(d) ==
    /\ Live(d)
    /\ Change(d, [deal[d] EXCEPT !.papers = deal[d].papers + 1])
    /\ UNCHANGED company

\* The rest of the CRM moves its facts as it likes, the journey only forward.
FactsChange ==
    /\ UNCHANGED deal
    /\ \A c \in Companies :
          company'[c].journey # company[c].journey =>
            <<company[c].journey, company'[c].journey>> \in Further

Next ==
    \/ \E d \in Deals :
         \/ Open(d) \/ HandOver(d) \/ SetTerms(d) \/ File(d)
         \/ \E to \in Stages : Move(d, to)
         \/ \E c \in Companies : NameBuyer(d, c)
         \/ \E b \in Branches \union {NoBranch} : InvoiceFrom(d, b)
    \/ FactsChange

Spec == Init /\ [][Next]_rows
=============================================================================
