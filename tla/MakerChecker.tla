----------------------------- MODULE MakerChecker -----------------------------
(***************************************************************************)
(* What a maker-checker control promises: a value that one person may move *)
(* along an ordinary edge, and only two different people along a           *)
(* restricted one, the second approving exactly what the first proposed,   *)
(* with nothing moving in between.                                         *)
(***************************************************************************)
CONSTANTS People, Values, Restricted, None

VARIABLES
    value,      \* where the control stands
    pending,    \* the proposal awaiting a second person, or None
    signers     \* who made the last move

vars == <<value, pending, signers>>

Init ==
    /\ value \in Values
    /\ pending = None
    /\ signers = {}

MoveAlone(person, to) ==
    /\ pending = None
    /\ <<value, to>> \notin Restricted
    /\ value' = to
    /\ signers' = {person}
    /\ UNCHANGED pending

Propose(maker, to) ==
    /\ pending = None
    /\ <<value, to>> \in Restricted
    /\ pending' = [by |-> maker, to |-> to]
    /\ UNCHANGED <<value, signers>>

Approve(checker) ==
    /\ pending # None
    /\ checker # pending.by
    /\ value' = pending.to
    /\ signers' = {pending.by, checker}
    /\ pending' = None

\* Rejected or withdrawn.
Drop ==
    /\ pending # None
    /\ pending' = None
    /\ UNCHANGED <<value, signers>>

Next ==
    \/ \E person \in People, to \in Values : MoveAlone(person, to)
    \/ \E maker \in People, to \in Values : Propose(maker, to)
    \/ \E checker \in People : Approve(checker)
    \/ Drop

Spec == Init /\ [][Next]_vars
=============================================================================
