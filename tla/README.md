# Exporter CRM: a verification project

TLA+ models of the part of this repository where being wrong is expensive: who
may take a company to CLEAR and on what evidence, when a company becomes a
customer, what is handed to the lending team, which bank account is paid, whose
screening stands, and the machinery a request passes through on its way: the
idempotency registry, the session refresh, the onboarding workflow. The models
are read from `backend/app` and `frontend/src` (paths below are under
`backend/app/modules/onboarding/` unless they begin with another directory),
checked with TLC on small instances, and, where it says so, proved with TLAPS for
every value of the constants.

## 1. The system

The backend is a FastAPI service over PostgreSQL (READ COMMITTED). A request is
one transaction with one commit; what must not interleave is kept apart by row
locks, above all on the company's own row, `exporter_profile`:

* an operation that moves the company (its check, its qualification, its
  conversation, a branch's flag, its bank accounts, its group) takes the row `FOR
  UPDATE`, reads again, judges, writes and commits;
* a writer of something the background check relies on takes it `FOR SHARE`
  (`application/company_input_lock.py`), so that inputs stand still under a
  decision and do not queue behind each other;
* every insert of a row with a foreign key to the company takes `FOR KEY SHARE`.

Events are published after the commit, best effort, and no state depends on them.

| Component | State it keeps | Operations | What makes it correct |
|---|---|---|---|
| Background check (`background_check_service.py`) | the gauge, its append-only decision chain, the open proposal, the reviewer | start, ask for and record information, reassess, propose, approve, reject, withdraw, claim, assign, release | two people on a decision, on exactly the inputs proposed on; gauge and chain agree |
| Check cycles (`check_cycle_repository.py`) | numbered cycles | first cycle on demand, Re-KYC | a standing Clear is of the current cycle; a first cycle is made once |
| Compliance inputs (`verification_service.py`, `screening_review_service.py`, `document_service.py`) | results, reviews, answers, documents | trigger, poll, review, upload | inputs do not move under a decision; no review overrules an unseen one |
| Company row (`exporter_profile_service.py`) | pipeline, journey, relationship manager, expiry of the Clear | assign the RM, bring into the pipeline, promote | a CUSTOMER was QUALIFIED and CLEAR; no promotion is missed |
| Qualification (`qualification_service.py`) | the qualification gauge, criterion results | record an outcome, a partner's decision | final; the only way past LEAD |
| Deals and handover (`deal_service.py`, `domain/handover_conditions.py`, `gst_registration_service.py`) | deals, invoicing branches, the snapshot handed over | open, move, name the buyer, choose the branch, set terms, hand over; add, flag, deactivate a branch | a handover rests on facts that still stand when it commits, and says exactly what it gave |
| Company groups (`company_group_service.py`, a trigger in `migrations/onboarding_0051_company_groups.py`) | a parent per company, `group` rows of history | put under a parent, move, take out | no company is its own ancestor; the history names the members |
| Sanctions screening (`sanctions_screening_service.py`, `domain/sanctions.py`) | runs, hits, dispositions, a result derived after the commit | record a run, decide, propose, confirm, reject; Re-KYC and reviews beside them | a true match takes two officers; the derived result follows the screening; a match keeps the company flagged |
| Bank accounts (`company_bank_account_service.py`) | versions of accounts and the primary flag per currency | propose, approve, reject, verify, deactivate, make primary | one version in force; a paid currency keeps a primary |
| Idempotency (`platform/idempotency`, `platform/middleware`) | records per key and scope, an archive | register, complete, replay, expire, archive | a key runs once per window, keeps its answer, and is free again |
| Staff and sessions (`api/rest/auth`, `platform/authentication`, `frontend/src/lib/api`, `platform/auth`) | role, activity; refresh tokens, the browser's stored token and its lock | edit an account; sign in and out, refresh, reload | nobody acts with a role they lost; a token has one successor, and two tabs do not sign each other out |
| Onboarding requests and workflow (`onboarding_request_service.py`, `onboarding_transition_service.py`, `workflows/onboarding_workflow.py`) | an 18-status row, its events, the workflow's execution | compare-and-set transitions retried by Temporal, signals, timers, restarts; submit the entity's details | the row walks the permitted table; accounts are opened for approved requests only |
| Documents and storage | rows and stored objects | upload, download, preview | no object without a row |
| Conversation, contacts, follow-ups | one row each | short edits | a deal's opening sets READY_NOW |
| Trade history, import, directory, matching | relationships, identifiers | match, import | data rules |
| Cases, other modules, providers, platform, frontend | see `PROJECT.json` | | |

The hard behaviour is concurrency through those locks (statements before a lock,
lock modes that do or do not exclude each other, ancestors nobody locked,
deadlocks); work done in a second transaction after the first one committed;
processes that die, answers that are lost and attempts that time out and commit
all the same; proposals that stay open for days while the world moves; and clocks
that pass an expiry or a window between two reads. `PROJECT.json` lists each hazard
at its line with the properties that cover it, and each component with its status.

## 2. The modules

```
RowLocks -+- InputLock ==refines==> CompanyInputs
          +- Handover  ==refines==> DealLife
          +- CompanyGroups

CompanyRow -+- BackgroundCheck ==refines==> MakerChecker
            |        |
            +- Qualification -+- Company (the two composed)

Sanctions     Sessions     BankAccounts
Idempotency ==refines==> KeyClaim     Onboarding ==refines==> OnboardingLife
```

**CompanyRow** holds what the check and the qualification share: the company's
row, the staff accounts and the clock, and the row's other writers (assign the
relationship manager, bring a buyer into the pipeline, an administrator's edit of
an account). `SetRM`, `EnsureRM` and `PromoteIfReady` are the methods of
`exporter_profile_service.py` that several operations call.

**BackgroundCheck** has one action per operation of `BackgroundCheckService`. An
action is the whole handler under the row lock: role and conflict checks, the
append to the chain, the gauge, the expiry, the reviewer, the promotion to
CUSTOMER. `head` and `length` are the chain (only the head is ever read);
`inputs` is what two decisions can tell apart of the inputs: how many rows are
recorded, whether the prerequisites of a Clear hold of them, whether the cycle
has any. `Fingerprint` is `<<cycle, count>>`; it is a little finer than the
code's hash, which cannot see a row that was changed and changed back.

**Qualification** and **Company** add the qualification gauge and compose it with
the check: each step is a step of one of them, or of the row's other writers.

**MakerChecker** is the abstract promise of a two-person control: ordinary edges
one person may take; restricted ones need a proposal and a different person,
with nothing moving in between.

**RowLocks** is PostgreSQL's part: three modes, what conflicts, and deadlock. A
waiting request is one whose lock is not free; who is next is left open.

**InputLock** takes the requests apart again: an approval, a Re-KYC, a trigger, a
poll, a review and an upload on one company, statement by statement, each with
what it read before it had a lock. **CompanyInputs** is the same with each request
in one step; it is what BackgroundCheck assumes, and InputLock is shown to
implement it.

**Handover** does the same for deals. Each kind of request has a `Script`: lock
the deal (`lock_by_id`, `_lock_open_deal`), judge it, lock what its foreign keys
refer to, write and commit. A handover locks its deal, then both parties `FOR
SHARE` in the order of `customer_id`, evaluates `HANDOVER_CONDITIONS`, reads the
clock again, takes the snapshot and commits. Beside it run the writers of what the
conditions read: decisions, sanctions rulings and runs, check results, contacts,
branch flags and deactivations. **DealLife** is the promise: one table of moves,
closed means closed, and a handover in one step on a seller in good standing.

**CompanyGroups** is `set_parent` statement by statement: the old parent read before
any lock, one `SELECT ... FOR UPDATE` that takes the rows in the order of their
ids, a statement for each ancestor met on the walk up, the UPDATE with the trigger
that walks again in its own snapshot, the rows of history with the locks of their
foreign keys, the commit. `listed` is what a reader of a company's `group` history
takes its members to be. It starts from every forest of companies.

**Sanctions** is one company's screening. A run or a ruling is one transaction;
`_sync_company_result` then looks at the standing, the last result and its review
with no lock, and writes what it finds missing in transactions of its own, each a
point at which the process may die. New runs come in between, and so do a Re-KYC,
whenever the cycle has an input of any kind, and reviews by hand of any result, the
first or one that overrules an earlier one. A row without a cycle counts as the
first cycle's, in which the model starts. `alone` names the request, if any, since
whose commit nothing else has happened.

**Sessions** is one account in one browser. A tab asks for the refresh lock (when
the browser has one), reads the stored token again, calls, and stores what comes
back; the server takes the token's row, checks it, looks whether the client is
still there, rotates, commits and answers. Tabs close and reload, which closes their
connections; connections drop and calls time out, heard of by the server or not;
somebody signs out or in.

**Idempotency** is one key on one gated route: `INSERT ... ON CONFLICT DO NOTHING`,
the `SELECT` that may find nothing because the sweep came between, the second
attempt, the handler, the completion that names the key and not the record, the
process that dies before it; beside them the window that passes, the sweep and the
archival. **KeyClaim** is the promise: a key is free or owned; it is settled once,
with its owner's answer, and only a settled key becomes free.

**BankAccounts** keeps the versions of a company's accounts. Every operation locks
the company and then the account, so each is one step; an operation the table's
constraints refuse does nothing. A change is a version of its own that names the
one it replaces and takes its place when it is verified.

**Onboarding** is one request's row and events, the execution of its workflow, and
the customers who submit details. A transition is one conditional UPDATE and its
event; a caller whose update matched nothing reads again to learn whether its own
earlier attempt did it (`_resolve_unmoved`). An attempt that timed out may commit
later (`stray`), an execution may fail and another start from the status it finds,
without the signals the first one was sent. **OnboardingLife** is the promise: the row walks
the permitted table and each edge leaves one event.

`MC*` modules name small sets of people, results, deals and requests; each `.cfg`
picks the ones in play. Operators commented "Mutant" are plausible bugs of the
definition below them, and are used only to show that a property notices.

## 3. The runs

| Run | Instance | What it shows |
|---|---|---|
| `company` | check, qualification and the row composed; a lead, a maker and a salesperson whose account an administrator may give any role or deactivate; 4 decisions, 2 cycles, 2 inputs, 1 tick; 1,138,464 states | two people, decided as proposed, frozen while awaiting, gauge is the chain's head, a Clear is of this cycle, only qualification leaves LEAD, no promotion is missed, the journey only goes forward; implements MakerChecker |
| `input_lock` | approval, Re-KYC, trigger, review, upload over two results; 336,201 states | the lock discipline makes each request atomic |
| `review_race` | approval, poll and two reviews of one result; 50,788 states | no unseen review is overruled, and though a review and an approval can deadlock every request ends |
| `sanctions` | three requests of two officers, one a head, on a company and a director, two hits, two cycles, any of the requests may die half way; 2,637,694 states, up to symmetry | a true match took two officers; a request left alone leaves the check saying what the screening says, whatever happened before; a match stays flagged through a Re-KYC and a review |
| `sessions` | two tabs, three tokens, two calls at once, with and without the lock; 743,553 states | a successor is issued once; a reload keeps the session; coordinated tabs are not refused; only signing out removes a token that works; every refresh ends |
| `idempotency` | three requests with one key, one of which may die or fail to complete, two attempts; 399,070 states | once per window, no undecided registration, no answer over another's; implements KeyClaim; a settled key is free again |
| `bank_accounts` | four versions, two currencies, two managers and an approver, SECOND_PERSON; 3,353,811 states, up to symmetry | one version of an account in force; a paid currency keeps a primary until somebody gives it up |
| `onboarding` | two customers, two attempts for each activity, two faults, three starts, one signal in all; 1,109,660 states | the execution asks for permitted moves only, accounts follow approval, details come with their move, every execution settles; implements OnboardingLife |
| `handover` | handover, upload, withdrawal, branch flag, decision on one deal's parties, a buyer named on a deal the other way round; 1,058,680 states | implements DealLife, handed over as snapshotted, closed is final, a handover is in no deadlock |
| `deal_requests` | two deals opened on one seller, a branch flagged, chosen on a deal, new terms; 30,338 states | every request ends, through two kinds of deadlock |
| `company_groups` | four requests (three links, one leaving) on four companies, from any of their 125 forests; 832,139 states | racing links close no loop of two or three companies; each company's history names its members |
| `group_loop` | *violated* | two links on four different companies race and close a loop of four; the migration says the trigger is the guard against two links racing |

**Bounds.** Four decisions are enough for a check to be started, proposed and
approved, reopened by a Re-KYC and decided again; two inputs make a proposal stale
on either side of an approval; a tick lets a Clear expire before the qualification
that would promote on it. The request-level models (InputLock, Handover,
CompanyGroups) need no bound on data: every request is made once, so the longest
behaviour is every request's last statement. Two results show an order between
rows; two deals sold in opposite directions are the smallest shape in which
parties can be locked crosswise; four companies are the fewest in which two links
share no row and still close a loop. Three requests with a key are an owner, a
duplicate that meets the sweep and the next owner; three screening requests are a
proposal, its confirmation and one that races either; three tokens are a session,
its successor and the successor's own; four versions are an account, its change,
a second change and an account of the other currency. Three starts let an
execution fail before and after a late attempt of its predecessor. Every bound is
a named CONSTANT and appears in a guard. Deadlock in TLC's sense is not checked,
because a system whose requests have all ended or whose bounds are spent does
stop; database deadlocks are a predicate of `RowLocks` and are covered by
`EveryRequestEnds` and `HandoverNeverDeadlocks`.

**Fairness.**
* InputLock and Handover: of the requests that have begun, some one that can go on
  does, and the database breaks a deadlock. A handler never waits for a person.
  One weak condition over all of them is enough, as each request is made once.
* Sessions: a tab that holds the lock presents its token; a call that has the row
  goes on and is answered, or fails; the row's lock is granted in turn, so a call
  that waits for it again and again gets it (strong fairness of `Exchange`).
* Idempotency: a request that does not die goes on; time passes; the sweep runs.
  Of the archival nothing is assumed.
* Onboarding: Temporal keeps a running execution's next task until a worker takes
  it, and its timers fire (`Work`). Nobody need ever submit, answer or decide, and
  no late attempt need ever commit.

Nothing says a request is ever made, or that a person approves.

Of Handover's kinds of fact (`match`, `screen`, `result`, `contact`, `gather`) the
instance runs the decision and the branch flag; the others differ from them by the
fact they write and the mode they lock in, and are there for larger instances.

## 4. What is proved

`Company_proofs`. For the check alone, the inductive invariant `CheckInv` is the conjunction
of the properties with what they need to carry each other: a proposal names
what was frozen (`FrozenWhileAwaiting`), so the approval's `from` is the gauge and
`GaugeIsHead` and `ChainContinues` follow; `NotStale` makes `DecidedAsProposed`;
`HeadInv` types the chain's head by the move it made; `ExpiryIffClear` and
`ReviewerOnlyUnderReview` are the two check constraints the actions must keep.
From it: `CheckTypes`, `TwoPeopleHolds`, `DecidedAsProposedHolds`,
`FrozenWhileAwaitingHolds`, `ClearIsOfThisCycleHolds`, `ChainContinuesHolds`,
`RowConstraintsHold`, and `CheckImplementsMakerChecker`, the refinement.

The same module carries the invariant through the composition and adds the
journey's: `CompanyTypes`, `QualifiedIffPastLeadHolds`, `NoPromotionMissedHolds`,
`ExpiryIffClearHolds`, `JourneyOnlyForwardHolds`.

`RowLocks_proofs`. Taking a free lock, or letting go of all, keeps `LocksExclude`:
no two transactions hold locks of one row that conflict.

`InputLock_proofs`. `LockInv` says, for each request, which locks it holds at each
of its statements and that what it read under them still stands: an approval's
gathered snapshot is the current one while it holds the company, a trigger's
cycle number is the one to stamp, a review's judgement is of the result's head.
With `LocksExclude`, a step of another request that would falsify one needs a lock
that conflicts. From it: `LockTypes`, `LocksMakeRequestsAtomic`, for any number of
requests and results, and `ReviewsAsSeenHolds`.

`Handover_proofs`. `ScriptSteps` turns the scripts into what each kind of request does
and in what order. `HandInv` then says, for each request, that past its judgement it
holds its deal `FOR UPDATE` and its judgement stands (`Stays`); that a handover past
its guard shares both parties, and what the guard read of the seller, its branch
and the deal stands until the commit (`Stands`); and that a writer of a flag or a
decision is alone on its company. With `LocksExclude`, whoever would move one of
these needs a lock that conflicts (`WriterHolds`, `OthersKeep`). Theorems:
`HandoverTypes`, `HandedOverAsSnapshottedHolds`, `ClosedIsFinalHolds`, and the
refinement `ImplementsDealLifeHolds`. For `HandoverNeverDeadlocksHolds`, `Aside` names
who can never lead back to a handover: the handover itself, whoever holds nothing
yet, and an open that waits to write the seller the handover shares. None of them
is waited for by anyone else (`NoneAsideIsWaitedFor`), as after its deal's lock a
request waits only for companies and branches, and only an open waits to write a
company. That rows of the three tables differ is an assumption.

`CompanyGroups_proofs`. `GroupInv` adds to the two properties that a request past
its locks still holds its company and the new parent, so the old parent it took
from the locked row stands, and so does the parent's own parent, which is the
first ancestor it met. That ancestor's row is not locked, but to put it under the
child takes a lock on the child, so if the child is over it the walk has met the
child. One step further up the argument ends, and so does the property:
`group_loop` is the counterexample. `ALoopTakesTwoUpdates` says that it is of the only
kind there is: while no two links are at once between the UPDATE the database checks
and its commit, no loop of any length is closed, whatever else interleaves
(`AloneInv`: what the database checked for an update still stands). Theorems:
`GroupTypes`, `NoShortLoopHolds`, `HistoryTellsTheGroupHolds`, `ALoopTakesTwoUpdates`.

`Platform_proofs`, of Idempotency. `KeyInv`: only the last record may be live, a record inside its
window is live, an active one is hot and has no response, what a registration met
was the last record then, and whatever came after it was registered later; a
second INSERT's conflict has a live record younger than the one that vanished.
Theorems: `KeyTypes`, `OneRunPerWindowHolds`, `RegistrationDecidesHolds` (from two
attempts on), `RecordsKeepTheirResponseHolds`, `ImplementsKeyClaimHolds`.

`Platform_proofs`, of Sessions. `SessionInv` has five parts. `ServerInv`: the row an
exchange holds works and no other exchange holds it, a refused token does not work,
and a successor on its way is stored nowhere, presented by no call, and answers one
call only. `TabsInv`: the queue is the tabs that refresh, each once; a tab has one
refresh under way at most, and under locks it is first in the queue. `Coordinated`:
under locks, what a tab presents was not replaced, since whoever went first stored
the successor before letting go. `SuccessorComes`: a stored token that was replaced
has its successor on the way. `RoomOK`: there is a slot for every refresh that will
need one, so the slot `Present` chooses is free. The lemmas go by what a step does to
the calls (begun, moved, dropped, abandoned, received), to the tokens (replaced,
revoked, lost) and to the pages (asks, holds, lets go), and each action cites one of
each. Theorems: `SessionTypes`, `OneSuccessorHolds`, `ReloadKeepsTheSessionHolds`,
`CoordinatedTabsAreNotRefusedHolds`, `OnlySigningOutRemovesALiveTokenHolds`, all
of `SessionSpec`: safety needs no fairness.

`CompanyRecords_proofs`, of Sanctions. `ScreeningInv` is inductive with little: what
a request under way carries, `TwoOfficers` itself, and `AloneOK`, what a request left
alone has read: the standing it carries is the standing, the result it
found is still the latest, and once it is done the result agrees. Any step of another
request leaves it alone no more, so what is to be shown is that its own steps, from the
standing to the latest result, its review and the new result, lead there from any
state the others left. For `OnlyOfficersLiftTheFlagHolds`: the flag is read off the runs
and the rulings, of any cycle, so that no Re-KYC or review touches it; a run begun is
not counted yet; a ruling recorded, proposed or confirmed leaves a disposition that
flags. What is left is an officer's completed run and a head's rejection. `Newest`, the
place of the latest row, is chosen by the largest index, and that there is one is
proved from the well-foundedness of `<`. Theorems: `SanctionsTypes`,
`TwoOfficersHolds`, `AloneSetsRightHolds`, `OnlyOfficersLiftTheFlagHolds`.

The same module, of BankAccounts. `BankInv`: a change names an earlier version that was verified
or retired, and one version is in force. Theorems: `BankTypes`,
`OneVersionInForceHolds`, `PaidUntilGivenUpHolds`.

`Onboarding_proofs`. The invariant ties three things: the row and its events (each
edge is of the table and the last one leads to the status), the execution (its
step agrees with the status it believes in, and a belief that accounts are due is
right whatever is late), and the submissions. Theorems: `OnboardingTypes`,
`AsksOnlyPermittedMovesHolds`, `AccountsOnlyOnceApprovedHolds`,
`DetailsComeWithTheirMoveHolds`, `ImplementsLifecycleHolds`.

The theorems assume what the modules' named `ASSUME`s say and nothing else: roles
and permissions are sets of accounts, bounds are naturals, a trigger's row is its
own. The bounds are arbitrary, so they bound nothing. Beyond them, the two
`SomeoneGoesOnHolds` take the requests to be finitely many.

Nobody waits for nothing. Of the liveness properties, the part that is safety is proved:
in `InputLock_proofs` and `Handover_proofs` `SomeoneGoesOnHolds`, for any finite
number of requests, that while some are under way one can take its step or is in a
deadlock the database breaks; in `Platform_proofs` `RefreshGoesOnHolds`, that while a tab
wants a refresh one can make its call or some call can go a step on. What each needs
is that nothing is left behind: a request that is done holds no lock (`EmptyHanded`;
`ReferInv` for the statement that locks two rows in turn), a tab that made a call and
has not heard of it has a call to hear of (`CallOut`). `SomeoneIsDeadlocked` of
`RowLocks_proofs` gives the deadlock: of a set of requests who all wait for others of
it, a smallest part that waits for nobody outside itself is a knot, so each of its members
waits for itself. TLC agrees with each of the four on its run's instance.

Every safety property, action property and refinement that a passing run checks is a
theorem. The type invariants are proved too; only Handover's is run as well.

Only model-checked: liveness (`EveryRequestEnds`, `RefreshEnds`,
`SettledKeysAreReleased`, `ExecutionsSettle`), since the prover can do neither
fairness nor ENABLED.

## 5. What the models leave out

* Requests in BackgroundCheck, Qualification, Company and BankAccounts are atomic.
  For what decides on inputs InputLock shows it; for the rest it is the row lock's
  plain effect, each operation taking it before its first read that matters.
* The maker-checker switch is on, as outside local and test. Permissions are
  fixed sets.
* A verdict and its details are a status and a risk; a review is a count; the
  texts, evidence contents and risk bands beyond senior-or-not are abstracted. A
  review of an earlier cycle's result is not an input of the current one.
* Two first inputs that both create cycle 1 meet on `ON CONFLICT`; the wait
  there is not a lock of the model.
* In Handover the guard's reads are one step, though the code makes them in
  several statements: those on locked rows cannot differ, and the rest (contact,
  sanctions hit, verdicts) may change right after the step anyway. `verdict`
  stands for sanctions and AML together. A reference is a deal's name: two
  requests for one reference meet on the row. A decision is BackgroundCheck's,
  as one write. Creating the buyer's company, the frozen `deal_buyer` rows, the
  settings of required documents, and the criterion a deal's value answers in a
  transaction of its own after the commit are left out.
* CompanyGroups: the kinds of relationship, the tree and the suggestions that are
  only read, and the cap of a hundred steps on a walk.
* Sanctions: lists and their versions, the reasons to screen again, renamed people;
  the inputs of other kinds, so that a Re-KYC may always find one in the cycle.
* Sessions: the expiry of tokens, passwords, other browsers of the same account.
  `ReloadKeepsTheSession` excuses what no check on the server can see: an answer
  lost in the commit itself, and a connection that dropped unheard.
* Idempotency: internal-derived and rail-reference keys, the calls two services
  make inline, the violation detector, and `reclaim_expired_key` and
  `transition_records_by_scopes`, which nothing calls. The record of a process that
  died stays ACTIVE: `idempotency/expiry.py` leaves it out by design.
* BankAccounts: evidence and the reveal of numbers.
* Onboarding: what a dependency answers is any answer; how signals are correlated,
  the transitions reported to a reader, the category of a rejection, stamps of
  activity and the loop over beneficial owners.
* One clock serves the application and the database.
* KYC cases (`application/case_service.py`): a transition reads its case without a
  lock and writes what it read, so that two at once may leave an edge that
  `LEGAL_TRANSITIONS` does not have. `backend/app/modules/cases` has no caller.
* The pages and forms of the frontend, schemas, routers' request and response
  types, settings, catalogues and scripts, which are most of the repository's
  lines: they hold no state of their own to model.
* Components marked `not_modelled` in `PROJECT.json`, each with its reason.

Places where the code and what is said of it part, met while modelling and not
kept as runs:

* A reviewer who is given the role OPERATIONS while holding the review can become
  the relationship manager, which the contract forbids (`background-check.md`).
* A check result on the buyer, or the seller, may commit between the handover's
  guard and its commit, both under FOR SHARE (`deal_service.py:1170-1172`,
  `company_input_lock.py:51`); and the guard and `handed_over_at` read the clock
  separately (`deal_service.py:600-602`).
* A company qualified after its Clear expired is PROSPECT and CLEAR, against a
  docstring of `exporter_profile_service.py`.
* A poll that changes a result's risk and not its status passes the staleness
  check (`domain/background_check_views.py:295-303`); no production code polls.
* A bank account changed to a currency that has its own primary takes a flag the
  index refuses: it can never be verified (`company_bank_account_service.py:316`).
* Of two sanctions rulings the one with the older standing may write its result
  last (`sanctions_screening_service.py:915`); the next request to be left alone
  puts it right.
* A sign-out while a refresh is out clears the stored token, and the refresh then
  stores a live one (`frontend/src/platform/auth/AuthContext.tsx:103-104`).
* History is ordered by `created_at`, the start of its transaction, and not by its
  commit, so "newest first" may put a later change below an earlier one.
* Onboarding: `submit_entity_details` reports success though its fields were rolled
  back when another customer's move is the one that stands
  (`onboarding_request_service.py:366-368`); `load_onboarding_progress` reads the
  status and the events in two statements; an answer signalled to an execution
  that then fails is lost; a completion notice that failed after ACTIVE is not
  sent by a later execution; no production caller starts the workflow.

## 6. The plan

Done, most important first: CompanyRow, BackgroundCheck, MakerChecker,
Qualification, Company; RowLocks, CompanyInputs, InputLock; DealLife, Handover;
Sanctions; Sessions; Idempotency, KeyClaim; BankAccounts; Onboarding,
OnboardingLife; CompanyGroups. Each with the proofs of all its safety properties.

Left, in this order:

1. **KycCases** against its table of transitions, and **Documents** (object before
   row).
2. Roles and permissions, for the last holder of role management
   (`backend/app/api/rest/auth/router.py:123`).
3. Pure algorithms against reference definitions: the prerequisites of a Clear,
   the qualification evaluator, `check_state` over results newest first.
