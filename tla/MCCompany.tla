------------------------------ MODULE MCCompany ------------------------------
(* Company on a small staff: a compliance lead who is also a senior        *)
(* checker, a compliance user, and a salesperson.                          *)
EXTENDS Company

CONSTANTS lead, maker, seller

AllHired == [u \in Staff |-> IF u = seller THEN "OPERATIONS" ELSE "COMPLIANCE"]
=============================================================================
