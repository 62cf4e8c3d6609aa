--------------------------- MODULE MCCompanyGroups ---------------------------
(* Four companies in any groups, and links between them.                   *)
EXTENDS CompanyGroups

CONSTANTS a, b, c, d, ab, bc, cd, leave

RankOf == [x \in Companies |-> CASE x = a -> 3 [] x = b -> 1 [] x = c -> 2 [] x = d -> 4]
ChildOf == [t \in Txns |-> CASE t \in {ab, leave} -> a [] t = bc -> b [] t = cd -> c]
UnderOf == [t \in Txns |-> CASE t = ab -> b [] t = bc -> c [] t = cd -> d [] t = leave -> NoCompany]
=============================================================================
