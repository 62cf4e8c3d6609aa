----------------------------- MODULE MCInputLock -----------------------------
(* Requests about two results; each cfg picks which of them are made.      *)
EXTENDS InputLock

CONSTANTS approve, start, trigger, poll, review, review2, upload, r1, r2, company

AllRows == {r1, r2, company}

KindOf ==
    [t \in Txns |->
        CASE t = approve -> "approve"
          [] t = start   -> "start_cycle"
          [] t = trigger -> "trigger"
          [] t = poll    -> "poll"
          [] t \in {review, review2} -> "review"
          [] t = upload  -> "upload"]

TargetOf == [t \in Txns |-> IF t = trigger THEN r2 ELSE r1]
=============================================================================
