------------------------------ MODULE Sessions ------------------------------
(***************************************************************************)
(* One account signed in from one browser.  Its tabs share the stored      *)
(* refresh token; POST /auth/refresh replaces the token presented by a     *)
(* successor.  The tab's side is client.ts and AuthContext.tsx, the        *)
(* server's is the auth router; between them requests and answers take     *)
(* their time, tabs are closed and reloaded, and connections drop.         *)
(***************************************************************************)
EXTENDS Naturals, Sequences, FiniteSets

CONSTANTS
    Tabs,
    Gone,       \* whoever waited for a call, once they have gone,
    TooLate,    \* and once they have, where the server cannot tell in time
    MaxTokens,  \* rows of refresh_tokens a run may create
    MaxCalls    \* requests for a token under way at once

ASSUME SessionsAssumption ==
    /\ IsFiniteSet(Tabs) /\ Gone \notin Tabs /\ TooLate \notin Tabs /\ Gone # TooLate
    /\ MaxTokens \in Nat /\ MaxCalls \in Nat \ {0}

VARIABLES
    locks,      \* whether the browser has the Web Locks API
    stored,     \* the token in localStorage, 0 when there is none
    page,       \* each tab's page
    queue,      \* the tabs that asked for the refresh lock; the first holds it
    tokens,     \* the committed rows; lost: replaced, and the answer with
                \* the successor came too late
    calls       \* the requests for a token under way

sessionVars == <<locks, stored, page, queue, tokens, calls>>

Slots == 1..MaxCalls
NoCall == [point |-> "none"]

SessionTypeOK ==
    /\ locks \in BOOLEAN
    /\ stored \in 0..MaxTokens
    /\ page \in [Tabs -> [status : {"closed", "loading", "in", "out", "left"},
                          asking : {"no", "queued", "first", "again"},
                          leaving : 0..MaxTokens]]
    /\ queue \in Seq(Tabs) /\ Len(queue) <= Cardinality(Tabs)
    /\ tokens \in Seq({"live", "rotated", "ended", "lost"})
    /\ calls \in [Slots -> [by : Tabs \union {Gone, TooLate}, token : 0..MaxTokens, new : 0..MaxTokens,
                            point : {"sent", "held", "checked", "refused", "failed", "answered"}]
                        \union {NoCall}]

NoPage == [status |-> "closed", asking |-> "no", leaving |-> 0]

SessionInit ==
    /\ locks \in BOOLEAN
    /\ stored = 0
    /\ page = [t \in Tabs |-> NoPage]
    /\ queue = <<>>
    /\ tokens = <<>>
    /\ calls = [c \in Slots |-> NoCall]

-----------------------------------------------------------------------------
LiveTokens == {k \in DOMAIN tokens : tokens[k] = "live"}
Busy == {c \in Slots : calls[c] # NoCall}
FreeSlot == CHOOSE c \in Slots : c \notin Busy
CallsOf(t) == {c \in Busy : calls[c].by = t}

\* A refresh under way has a call or will need one.
Room ==
    /\ Len(tokens) < MaxTokens
    /\ Cardinality(Busy) + Cardinality({t \in Tabs : page[t].asking = "queued"}) < MaxCalls

\* Mutant: the row is read without FOR UPDATE.
NoRowLock(k) == TRUE

RowFree(k) == \A c \in Busy : calls[c].token = k => calls[c].point \notin {"held", "checked"}

\* The rows of S that are live are revoked for good.
End(S) ==
    [k \in DOMAIN tokens |-> IF k \in S \intersect LiveTokens THEN "ended" ELSE tokens[k]]

-----------------------------------------------------------------------------
(* The tab.                                                                *)

\* A tab waits once: those behind it move up.
Without(t) ==
    LET turn == CHOOSE i \in DOMAIN queue : queue[i] = t
    IN  IF \A i \in DOMAIN queue : queue[i] # t THEN queue
        ELSE [i \in 1..(Len(queue) - 1) |-> IF i < turn THEN queue[i] ELSE queue[i + 1]]

\* refreshSession: in the queue for the lock, where there are locks.
Ask(t, status) ==
    /\ Room
    /\ page' = [page EXCEPT ![t].asking = "queued", ![t].status = status]
    /\ queue' = IF locks THEN Append(queue, t) ELSE queue

\* The refresh is over, well or badly, and the lock with it.
Settle(t, status) ==
    /\ page' = [page EXCEPT ![t].asking = "no", ![t].status = status]
    /\ queue' = Without(t)

\* What a page shows after a refresh that failed without ending the session:
\* the page load gives up, a page that was up stays up.
AfterError(t) == IF page[t].status = "loading" THEN "out" ELSE page[t].status

\* A page loads: signed out, or refreshing before anything else.
Open(t) ==
    /\ page[t].status = "closed"
    /\ IF stored = 0
       THEN page' = [page EXCEPT ![t].status = "out"] /\ UNCHANGED queue
       ELSE Ask(t, "loading")
    /\ UNCHANGED <<locks, stored, tokens, calls>>

\* ensureFreshAccessToken: the access token is about to expire.
Refresh(t) ==
    /\ page[t].status = "in" /\ page[t].asking = "no" /\ stored # 0
    /\ Ask(t, "in")
    /\ UNCHANGED <<locks, stored, tokens, calls>>

Call(t, k) == [by |-> t, token |-> k, new |-> 0, point |-> "sent"]

\* Mutant: nobody waits for the lock.
NeverWaits(t) == TRUE

HasTheLock(t) == locks => Head(queue) = t

\* rotate: the stored token is read once the lock is held.
Present(t) ==
    /\ page[t].asking = "queued"
    /\ HasTheLock(t)
    /\ IF stored = 0
       THEN Settle(t, AfterError(t)) /\ UNCHANGED calls
       ELSE /\ calls' = [calls EXCEPT ![FreeSlot] = Call(t, stored)]
            /\ page' = [page EXCEPT ![t].asking = "first"]
            /\ UNCHANGED queue
    /\ UNCHANGED <<locks, stored, tokens>>

\* The sign-in page; a call that presents no token.
SignIn(t) ==
    /\ page[t].status \in {"out", "left"}
    /\ \A c \in CallsOf(t) : calls[c].token # 0
    /\ Room
    /\ calls' = [calls EXCEPT ![FreeSlot] = Call(t, 0)]
    /\ UNCHANGED <<locks, stored, page, queue, tokens>>

\* setTokens, for the refresh and for the sign-in alike.
Receive(t, c) ==
    /\ c \in CallsOf(t) /\ calls[c].point = "answered"
    /\ stored' = calls[c].new
    /\ calls' = [calls EXCEPT ![c] = NoCall]
    /\ IF calls[c].token = 0
       THEN page' = [page EXCEPT ![t].status = "in"] /\ UNCHANGED queue
       ELSE Settle(t, IF page[t].status = "loading" THEN "in" ELSE page[t].status)
    /\ UNCHANGED <<locks, tokens>>

\* Mutant: a refused refresh always clears what is stored.
AlwaysClears(k) == TRUE

\* Clearing a newer token would sign out the tab that stored it.
Clears(k) == stored \in {0, k}

\* The server refused the token; a newer one is tried once.
Refused(t, c) ==
    /\ c \in CallsOf(t) /\ calls[c].point = "refused"
    /\ IF page[t].asking = "first" /\ stored \notin {0, calls[c].token}
       THEN /\ calls' = [calls EXCEPT ![c] = Call(t, stored)]
            /\ page' = [page EXCEPT ![t].asking = "again"]
            /\ UNCHANGED <<stored, queue>>
       ELSE /\ calls' = [calls EXCEPT ![c] = NoCall]
            /\ IF Clears(calls[c].token)
               THEN stored' = 0 /\ Settle(t, "out")
               ELSE UNCHANGED stored /\ Settle(t, AfterError(t))
    /\ UNCHANGED <<locks, tokens>>

\* Nobody waits for the calls in S any more.  The server can still tell,
\* unless it has looked already or is not told; an answer on its way is lost.
Abandon(S, told) ==
    /\ calls' = [c \in Slots |->
          IF c \notin S THEN calls[c]
          ELSE IF calls[c].point \in {"answered", "refused", "failed"} THEN NoCall
          ELSE [calls[c] EXCEPT !.by =
                   IF told /\ calls[c].point # "checked" THEN Gone ELSE TooLate]]
    /\ tokens' = [k \in DOMAIN tokens |->
          IF \E c \in S : calls[c].token = k /\ calls[c].point = "answered"
          THEN "lost" ELSE tokens[k]]

\* Mutant: a refresh that fails keeps the lock.
KeepsTheLock(t) == page' = [page EXCEPT ![t].asking = "no", ![t].status = AfterError(t)]
                   /\ UNCHANGED queue

SettleError(t) == Settle(t, AfterError(t))

\* Anything but a 401, or fetch rejects: the stored token is kept.  A
\* connection that drops may not be closed at the server's end.
GivesUp(t, c) ==
    /\ c \in CallsOf(t)
    /\ \E told \in BOOLEAN : Abandon({c}, told)
    /\ IF calls[c].token = 0 THEN UNCHANGED <<page, queue>> ELSE SettleError(t)
    /\ UNCHANGED <<locks, stored>>

\* The tab is closed, or reloaded: the browser aborts its requests, closing
\* their connections, and releases its lock.
Close(t) ==
    /\ page[t].status # "closed"
    /\ Abandon(CallsOf(t), TRUE)
    /\ page' = [page EXCEPT ![t] = NoPage]
    /\ queue' = Without(t)
    /\ UNCHANGED <<locks, stored>>

\* logout: the server is asked to revoke the stored token.
StartLogout(t) ==
    /\ page[t].status = "in" /\ page[t].leaving = 0 /\ stored # 0
    /\ page' = [page EXCEPT ![t].leaving = stored]
    /\ UNCHANGED <<locks, stored, queue, tokens, calls>>

\* Whether the server did or not, what is stored is cleared.
FinishLogout(t) ==
    /\ page[t].leaving # 0 \/ (page[t].status = "in" /\ stored = 0)
    /\ stored' = 0
    /\ page' = [page EXCEPT ![t].leaving = 0, ![t].status = "left"]
    /\ UNCHANGED <<locks, queue, tokens, calls>>

-----------------------------------------------------------------------------
(* The server.                                                             *)

At(c, point) == calls' = [calls EXCEPT ![c].point = point]

\* Nothing was done, and whoever still waits is told so.
Refuse(c, point) ==
    IF calls[c].by \in Tabs THEN At(c, point) ELSE calls' = [calls EXCEPT ![c] = NoCall]

\* refresh: the row is locked, or awaited, and read.
Exchange(c) ==
    /\ calls[c].point = "sent" /\ calls[c].token # 0 /\ RowFree(calls[c].token)
    /\ IF calls[c].token \in LiveTokens THEN At(c, "held") ELSE Refuse(c, "refused")
    /\ UNCHANGED <<locks, stored, page, queue, tokens>>

\* Mutant: the rotation is committed whoever is there.
NeverLooks(c) == FALSE

ClientHasGone(c) == calls[c].by = Gone

\* The rotation is rolled back when nobody is waiting for it.
LookForClient(c) ==
    /\ calls[c].point = "held"
    /\ IF ClientHasGone(c) THEN calls' = [calls EXCEPT ![c] = NoCall] ELSE At(c, "checked")
    /\ UNCHANGED <<locks, stored, page, queue, tokens>>

Replaced(k, how) == IF k = 0 THEN tokens ELSE [tokens EXCEPT ![k] = how]

AboutToCommit(c) == calls[c].point = "checked" \/ (calls[c].point = "sent" /\ calls[c].token = 0)

\* The successor, or the sign-in's first token, is committed and answered.
Issue(c) ==
    /\ AboutToCommit(c) /\ Len(tokens) < MaxTokens
    /\ tokens' = Append(Replaced(calls[c].token,
                       IF calls[c].by = TooLate THEN "lost" ELSE "rotated"), "live")
    /\ calls' = [calls EXCEPT ![c] =
          IF @.by \in Tabs THEN [@ EXCEPT !.point = "answered", !.new = Len(tokens) + 1]
          ELSE NoCall]
    /\ UNCHANGED <<locks, stored, page, queue>>

\* The transaction fails, and the request with it; here when the rows run out.
Fail(c) ==
    /\ AboutToCommit(c) /\ Len(tokens) = MaxTokens
    /\ Refuse(c, "failed")
    /\ UNCHANGED <<locks, stored, page, queue, tokens>>

Logout(t) ==
    /\ page[t].leaving # 0 /\ RowFree(page[t].leaving)
    /\ tokens' = End({page[t].leaving})
    /\ UNCHANGED <<locks, stored, page, queue, calls>>

\* revoke_my_session, of one row; a changed or reset password and a
\* deactivation, of those of the rows they read that are still live.
RevokeSessions ==
    /\ \E S \in SUBSET LiveTokens :
         /\ S # {} /\ \A k \in S : RowFree(k)
         /\ tokens' = End(S)
    /\ UNCHANGED <<locks, stored, page, queue, calls>>

Serve(c) == Exchange(c) \/ LookForClient(c) \/ Issue(c) \/ Fail(c)

PageGoesOn(c) ==
    \E t \in Tabs : \/ Receive(t, c) \/ Refused(t, c)
                    \/ calls[c].point = "failed" /\ GivesUp(t, c)

SessionNext ==
    \/ \E t \in Tabs :
         \/ Open(t) \/ Refresh(t) \/ Present(t) \/ SignIn(t) \/ Close(t)
         \/ StartLogout(t) \/ FinishLogout(t) \/ Logout(t)
         \/ \E c \in Slots : GivesUp(t, c)
    \/ \E c \in Slots : Serve(c) \/ PageGoesOn(c)
    \/ RevokeSessions

\* The server goes on, and grants a row to those who wait for it in turn; a
\* page goes on with what it is given.
Fairness ==
    /\ \A t \in Tabs : WF_sessionVars(Present(t))
    /\ \A c \in Slots : SF_sessionVars(Exchange(c)) /\ WF_sessionVars(PageGoesOn(c))
                      /\ WF_sessionVars(LookForClient(c)) /\ WF_sessionVars(Issue(c) \/ Fail(c))

SessionSpec == SessionInit /\ [][SessionNext]_sessionVars
FairSessionSpec == SessionSpec /\ Fairness

-----------------------------------------------------------------------------
(* get_by_hash_for_update: "Without the lock two exchanges of one token    *)
(* could both ... succeed".  A successor is issued for a token that still  *)
(* works, so for each token once.                                          *)
OneSuccessor == [][\A c \in Slots : Issue(c) => calls[c].token \in LiveTokens \union {0}]_sessionVars

(* refresh: "the token it presented still works on its next load".  A      *)
(* stored token that no longer works was ended on purpose, or its          *)
(* successor is on its way, or was lost: in "the commit itself", or with a *)
(* connection that dropped unheard.  A reload before the server looks      *)
(* loses none.                                                             *)
ReloadKeepsTheSession ==
    stored # 0 /\ stored \notin LiveTokens =>
        \/ tokens[stored] \in {"ended", "lost"}
        \/ \E c \in Busy : calls[c].token = stored /\ calls[c].point = "answered"

(* withRefreshLock: where tabs are coordinated, "any tab that went first   *)
(* has stored its successor", so that no tab is refused a token that was   *)
(* merely rotated.                                                         *)
CoordinatedTabsAreNotRefused ==
    locks => \A t \in Tabs : \A c \in CallsOf(t) :
        calls[c].point = "refused" =>
            tokens[calls[c].token] \in {"ended", "lost"}

(* rotate keeps "one tab from signing out the others", locks or not: a     *)
(* stored token that works is removed by signing out only.                 *)
OnlySigningOutRemovesALiveToken ==
    [][stored' = 0 /\ stored \in LiveTokens => \E t \in Tabs : FinishLogout(t)]_sessionVars

(* A refresh ends, whatever tabs close and connections drop: neither the   *)
(* lock nor the row is held for ever.                                      *)
RefreshEnds == \A t \in Tabs : page[t].asking # "no" ~> page[t].asking = "no"
=============================================================================
