------------------------------ MODULE KeyClaim ------------------------------
(***************************************************************************)
(* What an idempotency key promises the callers of a gated route: one      *)
(* request at a time owns the key, it is the only one to run the           *)
(* operation, what it answered is kept unchanged while it owns the key,    *)
(* and the key becomes free only after the owner has answered.             *)
(***************************************************************************)
CONSTANTS Requests,  \* the requests that carry the key
          Nothing    \* no request, or no response; not one of Requests

VARIABLES owner,     \* the request that owns the key, or Nothing
          settled,   \* has the owner's operation ended?
          response   \* the response kept for the owner's retries

claimVars == <<owner, settled, response>>

Init == owner = Nothing /\ settled = FALSE /\ response = Nothing

Claim(r) ==
    /\ owner = Nothing
    /\ owner' = r
    /\ settled' = FALSE
    /\ response' = Nothing

\* The owner's own response is kept, or none is.
Settle ==
    /\ owner # Nothing
    /\ ~settled
    /\ settled' = TRUE
    /\ response' \in {owner, Nothing}
    /\ UNCHANGED owner

Release ==
    /\ settled
    /\ owner' = Nothing
    /\ settled' = FALSE
    /\ response' = Nothing

Next == (\E r \in Requests : Claim(r)) \/ Settle \/ Release

Spec == Init /\ [][Next]_claimVars
=============================================================================
