---------------------------- MODULE BankAccounts ----------------------------
(***************************************************************************)
(* The bank accounts of one company (CompanyBankAccountService). A row is  *)
(* one version of an account; a change is a new row that names the one it  *)
(* replaces. Every operation locks the company's row and then the account, *)
(* so each is one step, unless the table's constraints refuse it: then it  *)
(* is rolled back and nothing has happened.                                *)
(***************************************************************************)
EXTENDS Naturals, Sequences

CONSTANTS
    People,
    Managers,       \* those who hold exporters:manage_bank_accounts
    Approvers,      \* those who hold exporters:approve_bank_accounts
    NoOne,
    Mode,           \* CRM_BANK_CHANGE_APPROVAL_MODE
    Currencies,
    MaxAccounts     \* the versions a model may hold

ASSUME BankAssumption ==
    /\ Managers \subseteq People
    /\ Approvers \subseteq People
    /\ NoOne \notin People
    /\ Mode \in {"OFF", "SECOND_PERSON", "PERMISSION_HOLDER", "BOTH"}
    /\ MaxAccounts \in Nat

VARIABLE accounts   \* the versions, oldest first

Statuses == {"PENDING_APPROVAL", "PENDING_VERIFICATION", "VERIFIED", "REJECTED", "INACTIVE"}
Waiting == {"PENDING_APPROVAL", "PENDING_VERIFICATION"}

\* replaces is the place of the version a change is about, 0 for a new account.
Account == [currency : Currencies, status : Statuses, primary : BOOLEAN, replaces : Nat,
            proposer : People, approver : People \union {NoOne}]

Init == accounts = <<>>

-----------------------------------------------------------------------------
IsVerified(i) == accounts[i].status = "VERIFIED"

\* The open or settled changes of a version.
ChangesOf(i) == {j \in DOMAIN accounts : accounts[j].replaces = i}

\* _primary_of.
PrimaryIn(c) == {i \in DOMAIN accounts : accounts[i].primary /\ accounts[i].currency = c}

\* Mutant: a change is looked for among those that await approval only.
NoneToApprove(i) == \A j \in ChangesOf(i) : accounts[j].status # "PENDING_APPROVAL"

\* One change of an account waits at a time.
NoOpenChange(i) == \A j \in ChangesOf(i) : accounts[j].status \notin Waiting

StatusAsProposed == IF Mode = "OFF" THEN "PENDING_VERIFICATION" ELSE "PENDING_APPROVAL"

Propose(person, c, i) ==
    /\ Len(accounts) < MaxAccounts
    /\ person \in Managers
    /\ i # 0 => IsVerified(i) /\ NoOpenChange(i)
    /\ accounts' = Append(accounts,
          [currency |-> c, status |-> StatusAsProposed, primary |-> FALSE, replaces |-> i,
           proposer |-> person, approver |-> NoOne])

\* approval_refusal.
MayApprove(person, proposer) ==
    /\ person \in IF Mode \in {"PERMISSION_HOLDER", "BOTH"} THEN Approvers ELSE Managers \union Approvers
    /\ Mode \in {"SECOND_PERSON", "BOTH"} => person # proposer

Approve(person, i) ==
    /\ accounts[i].status = "PENDING_APPROVAL"
    /\ MayApprove(person, accounts[i].proposer)
    /\ accounts' = [accounts EXCEPT ![i].status = "PENDING_VERIFICATION", ![i].approver = person]

\* Any approver may, whoever proposed or approved it.
Reject(i) ==
    /\ Approvers # {}
    /\ accounts[i].status \in Waiting
    /\ accounts' = [accounts EXCEPT ![i].status = "REJECTED"]

-----------------------------------------------------------------------------
\* The version a verified change retires, if it is still in force.
Retired(i) == {r \in DOMAIN accounts : r = accounts[i].replaces /\ IsVerified(r)}

\* Mutant: a change becomes primary only if its currency has none yet, which
\* is asked while the account it replaces still is.
OnlyIfFree(i) == PrimaryIn(accounts[i].currency) = {}

\* took_primary: from the version it retires, or the first of its currency.
TakesPrimary(i) ==
    \/ \E r \in Retired(i) : accounts[r].primary
    \/ PrimaryIn(accounts[i].currency) \ Retired(i) = {}

\* uq_company_bank_account_primary_per_currency would refuse the new primary.
Refused(i) == TakesPrimary(i) /\ PrimaryIn(accounts[i].currency) \ Retired(i) # {}

\* Verified on a document of the company or a passed result: the evidence is
\* one there may be at any time.
Verify(i) ==
    /\ Approvers # {}
    /\ accounts[i].status = "PENDING_VERIFICATION"
    /\ ~Refused(i)
    /\ accounts' = [j \in DOMAIN accounts |->
          IF j = i THEN [accounts[j] EXCEPT !.status = "VERIFIED", !.primary = TakesPrimary(i)]
          ELSE IF j \in Retired(i) THEN [accounts[j] EXCEPT !.status = "INACTIVE", !.primary = FALSE]
          ELSE accounts[j]]

\* Those that hand the flag over when i is made primary.
Outgoing(i) == PrimaryIn(accounts[i].currency)

SetPrimary(i) ==
    /\ Approvers # {}
    /\ IsVerified(i)
    /\ ~accounts[i].primary
    /\ accounts' = [j \in DOMAIN accounts |->
          [accounts[j] EXCEPT !.primary = (j = i \/ (accounts[j].primary /\ j \notin Outgoing(i)))]]

Deactivate(i) ==
    /\ Approvers # {}
    /\ IsVerified(i)
    /\ accounts' = [accounts EXCEPT ![i].status = "INACTIVE", ![i].primary = FALSE]

-----------------------------------------------------------------------------
Next ==
    \/ \E person \in People, c \in Currencies, i \in {0} \union DOMAIN accounts :
           Propose(person, c, i)
    \/ \E person \in People, i \in DOMAIN accounts : Approve(person, i)
    \/ \E i \in DOMAIN accounts : Reject(i) \/ Verify(i) \/ SetPrimary(i) \/ Deactivate(i)

Spec == Init /\ [][Next]_accounts

-----------------------------------------------------------------------------
(* The types, and the table's own constraints: only a verified account is  *)
(* primary, and one per currency is.                                       *)
TypeOK ==
    /\ accounts \in Seq(Account)
    /\ \A i \in DOMAIN accounts : accounts[i].primary => IsVerified(i)
    /\ \A i, j \in DOMAIN accounts :
           accounts[i].primary /\ accounts[j].primary /\ i # j
               => accounts[i].currency # accounts[j].currency

(* One version of an account is in force at a time: it has one change at   *)
(* most that was not rejected, and once that one has been verified it is   *)
(* in force no more, whatever was deactivated, approved or rejected in the *)
(* meantime.                                                               *)
OneVersionInForce ==
    \A i \in DOMAIN accounts :
        LET standing == {j \in ChangesOf(i) : accounts[j].status # "REJECTED"}
        IN  /\ \A j, k \in standing : j = k
            /\ (\E j \in standing : accounts[j].status \notin Waiting) => ~IsVerified(i)

(* A currency that has a primary account keeps one until somebody gives it *)
(* up: by deactivating it, or by a change of it to another currency.       *)
PaidUntilGivenUp ==
    [][\A c \in Currencies : PrimaryIn(c) # {} /\ PrimaryIn(c)' = {} =>
           \E i \in PrimaryIn(c) :
               \/ Deactivate(i)
               \/ \E j \in ChangesOf(i) : Verify(j) /\ accounts[j].currency # c]_accounts
=============================================================================
