----------------------------- MODULE Platform_proofs -----------------------------
(***************************************************************************)
(* What the platform promises every module: a request is carried out once, *)
(* however often it is sent, and a session goes on.  What holds of an      *)
(* idempotency key however many requests carry it; why a refresh token has *)
(* one successor, and why a browser's tabs do not sign each other out.     *)
(***************************************************************************)
EXTENDS Idempotency, Sessions, FiniteSetTheorems, TLAPS

-----------------------------------------------------------------------------
(* Idempotency.                                                            *)

\* The response of q is stored, and q will not change it any more.
Answered(q) == pc[q] = "done" /\ outcome[q].response = q

\* A record: only the last may be live, one inside its window is, one whose
\* operation has not ended is and has no response, and a response is its own
\* request's.
RowOK(i) ==
    /\ IsLive(rows[i]) => i = Len(rows)
    /\ rows[i].age = "fresh" => IsLive(rows[i])
    /\ rows[i].status = "active" => rows[i].table = "hot" /\ rows[i].response = Nothing
    /\ rows[i].response # Nothing => rows[i].response = rows[i].by /\ Answered(rows[i].by)

\* A registration under way: every record newer than the one it first met is
\* inside its window. On the second INSERT the record it met is one of those,
\* so it is live and stays so until the SELECT.
RegistrationOK(r) ==
    /\ pc[r] = "start" => tries[r] = 0
    /\ pc[r] \in {"conflict", "again"} =>
          /\ at[r] \in DOMAIN rows
          /\ \A i \in DOMAIN rows : i > at[r] => rows[i].age = "fresh"
    /\ pc[r] = "conflict" => tries[r] \in 1..Attempts
    /\ pc[r] = "again" =>
          /\ tries[r] \in 1..Attempts
          /\ tries[r] < Attempts
          /\ \A i \in DOMAIN rows : i <= at[r] => ~IsLive(rows[i])
    /\ pc[r] = "conflict" /\ tries[r] >= 2 => \E i \in DOMAIN rows : i > at[r] /\ IsLive(rows[i])

\* An owner at work has the live record, and it is active.
OwnerOK(r) ==
    /\ pc[r] \in {"running", "completing"} =>
          /\ at[r] \in DOMAIN rows
          /\ rows[at[r]].by = r
          /\ rows[at[r]].status = "active"
    /\ outcome[r].response \in {r, Nothing}
    /\ \A q \in Requests : said[r] = <<"replay", q>> => Answered(q)
    /\ Attempts >= 2 => said[r][1] # "race"

KeyInv ==
    /\ TypeOK
    /\ \A i \in DOMAIN rows : RowOK(i)
    /\ \A r \in Requests : RegistrationOK(r) /\ OwnerOK(r)

-----------------------------------------------------------------------------
(* Rewriting the records one by one keeps how many there are.              *)
LEMMA Rewritten ==
    ASSUME NEW S, NEW s \in Seq(S), NEW t,
           t = [i \in DOMAIN s |-> t[i]],
           \A i \in DOMAIN s : t[i] \in S
    PROVE  t \in Seq(S) /\ DOMAIN t = DOMAIN s /\ Len(t) = Len(s)
<1>1. DOMAIN s = 1..Len(s) /\ Len(s) \in Nat
  OBVIOUS
<1>2. t \in [1..Len(s) -> S]
  BY <1>1
<1> QED BY <1>1, <1>2

(* There is no live record, or it is the last one.                         *)
LEMMA LiveIsLast ==
    ASSUME KeyInv
    PROVE  Live = {} \/ (Live = {Len(rows)} /\ Len(rows) \in DOMAIN rows)
BY DEF KeyInv, RowOK, Live

LEMMA InitKeyInv ==
    ASSUME Init
    PROVE  KeyInv
<1>1. DOMAIN rows = {} /\ rows \in Seq(Row) /\ Len(rows) = 0
  BY DEF Init
<1>2. NoOutcome \in Outcome /\ <<"nothing", Nothing>> \in Answer
  BY DEF NoOutcome, Outcome, Terminal, Answer
<1>3. TypeOK
  <2>1. rows \in Seq(Row)
    BY <1>1
  <2>2. /\ pc \in [Requests -> {"start", "again", "conflict", "running", "completing", "dead", "done"}]
        /\ tries \in [Requests -> 0..Attempts]
        /\ at \in [Requests -> 0..Len(rows)]
    BY <1>1, KeyAssumption DEF Init
  <2>3. outcome \in [Requests -> Outcome] /\ said \in [Requests -> Answer]
    BY <1>2 DEF Init
  <2> QED BY <2>1, <2>2, <2>3 DEF TypeOK
<1> QED
  BY <1>1, <1>3 DEF Init, KeyInv, RegistrationOK, OwnerOK, NoOutcome

-----------------------------------------------------------------------------
(* What a step of one request that leaves the records alone must keep.     *)
LEMMA RequestStep ==
    ASSUME KeyInv, NEW r \in Requests, rows' = rows, TypeOK',
           \A q \in Requests : Answered(q) => Answered(q)',
           \A q \in Requests \ {r} :
               /\ pc'[q] = pc[q] /\ tries'[q] = tries[q] /\ at'[q] = at[q]
               /\ outcome'[q] = outcome[q] /\ said'[q] = said[q],
           RegistrationOK(r)', OwnerOK(r)'
    PROVE  KeyInv'
<1>1. \A i \in DOMAIN rows' : RowOK(i)'
  <2> SUFFICES ASSUME NEW i \in DOMAIN rows PROVE RowOK(i)'
    OBVIOUS
  <2>1. RowOK(i) /\ rows[i] \in Row
    BY DEF KeyInv, TypeOK
  <2>2. rows[i].by \in Requests
    BY <2>1 DEF Row
  <2> QED BY <2>1, <2>2 DEF RowOK, IsLive
<1>2. \A q \in Requests \ {r} : RegistrationOK(q)' /\ OwnerOK(q)'
  BY DEF KeyInv, RegistrationOK, OwnerOK, IsLive
<1> QED BY <1>1, <1>2 DEF KeyInv

LEMMA SelectKeepsInv ==
    ASSUME KeyInv, NEW r \in Requests, Select(r)
    PROVE  KeyInv'
<1> USE KeyAssumption
<1>1. /\ TypeOK /\ RegistrationOK(r) /\ OwnerOK(r) /\ pc[r] = "conflict"
      /\ UNCHANGED <<rows, tries, at, outcome>>
  BY DEF KeyInv, Select
<1>2. PICK answer \in Answer, place \in {"again", "done"} :
         /\ pc' = [pc EXCEPT ![r] = place]
         /\ said' = [said EXCEPT ![r] = answer]
         /\ \A q \in Requests : answer = <<"replay", q>> => Answered(q) \/ answer = said[r]
         /\ Attempts >= 2 => answer[1] # "race"
         /\ place = "again" => Live = {} /\ tries[r] < Attempts
  <2>1. CASE \E i \in Live : Say(r, Told(rows[i])) /\ Goto(r, "done")
    <3>1. PICK i \in Live : Say(r, Told(rows[i])) /\ Goto(r, "done")
      BY <2>1
    <3>2. i \in DOMAIN rows /\ rows[i] \in Row /\ RowOK(i)
      BY DEF Live, KeyInv, TypeOK
    <3>3. Told(rows[i]) \in Answer /\ Told(rows[i])[1] # "race"
      BY <3>2 DEF Told, Answer, Row
    <3>4. \A q \in Requests : Told(rows[i]) = <<"replay", q>> => Answered(q)
      <4> SUFFICES ASSUME NEW q \in Requests, Told(rows[i]) = <<"replay", q>>
                   PROVE  Answered(q)
        OBVIOUS
      <4>1. rows[i].response = q /\ q # Nothing
        BY DEF Told
      <4> QED BY <4>1, <3>2 DEF RowOK
    <3> QED BY <3>1, <3>3, <3>4 DEF Say, Goto
  <2>2. CASE Live = {} /\ tries[r] < Attempts /\ Goto(r, "again") /\ UNCHANGED said
    <3>1. said[r] \in Answer /\ said' = [said EXCEPT ![r] = said[r]]
      BY <1>1, <2>2 DEF TypeOK
    <3> QED BY <1>1, <2>2, <3>1 DEF Goto, OwnerOK
  <2>3. CASE Live = {} /\ tries[r] >= Attempts /\ Say(r, <<"race", Nothing>>) /\ Goto(r, "done")
    <3>1. <<"race", Nothing>> \in Answer
      BY DEF Answer
    <3>2. ~(Attempts >= 2)
      <4> SUFFICES ASSUME Attempts >= 2 PROVE FALSE
        OBVIOUS
      <4>1. tries[r] >= 2
        BY <1>1, <2>3 DEF TypeOK
      <4> QED BY <1>1, <2>3, <4>1 DEF RegistrationOK, Live
    <3>3. \A q \in Requests : <<"race", Nothing>> # <<"replay", q>>
      OBVIOUS
    <3> QED BY <2>3, <3>1, <3>2, <3>3 DEF Say, Goto
  <2> QED BY <2>1, <2>2, <2>3 DEF Select
<1>3. TypeOK'
  BY <1>1, <1>2 DEF TypeOK
<1>4. /\ pc'[r] = place /\ said'[r] = answer
      /\ \A q \in Requests \ {r} : pc'[q] = pc[q] /\ said'[q] = said[q]
  BY <1>1, <1>2 DEF TypeOK
<1>5. \A q \in Requests : Answered(q) => Answered(q)'
  BY <1>1, <1>4 DEF Answered
<1>6. RegistrationOK(r)'
  BY <1>1, <1>2, <1>4 DEF RegistrationOK, Live, IsLive
<1>7. OwnerOK(r)'
  BY <1>1, <1>2, <1>4, <1>5 DEF OwnerOK
<1> QED BY <1>1, <1>3, <1>4, <1>5, <1>6, <1>7, RequestStep

LEMMA HandleKeepsInv ==
    ASSUME KeyInv, NEW r \in Requests, Handle(r)
    PROVE  KeyInv'
<1>1. /\ TypeOK /\ RegistrationOK(r) /\ OwnerOK(r) /\ pc[r] = "running"
      /\ UNCHANGED <<rows, tries, at, said>>
  BY DEF KeyInv, Handle
<1>2. PICK status \in Terminal, kept \in {r, Nothing} :
         outcome' = [outcome EXCEPT ![r] = [status |-> status, response |-> kept]]
  BY DEF Handle
<1>3. pc' = [pc EXCEPT ![r] = "completing"]
  BY DEF Handle, Goto
<1>4. TypeOK'
  BY <1>1, <1>2, <1>3 DEF TypeOK, Outcome, Row
<1>5. /\ pc'[r] = "completing" /\ outcome'[r].response \in {r, Nothing}
      /\ \A q \in Requests \ {r} : pc'[q] = pc[q] /\ outcome'[q] = outcome[q]
  BY <1>1, <1>2, <1>3 DEF TypeOK
<1>6. \A q \in Requests : Answered(q) => Answered(q)'
  BY <1>1, <1>5 DEF Answered
<1>7. RegistrationOK(r)'
  BY <1>1, <1>5 DEF RegistrationOK
<1>8. OwnerOK(r)'
  BY <1>1, <1>5, <1>6 DEF OwnerOK
<1> QED BY <1>1, <1>4, <1>5, <1>6, <1>7, <1>8, RequestStep

LEMMA LeavingKeepsInv ==
    ASSUME KeyInv, NEW r \in Requests, CompleteFails(r) \/ Die(r)
    PROVE  KeyInv'
<1>1. /\ TypeOK /\ RegistrationOK(r) /\ OwnerOK(r) /\ pc[r] \in {"running", "completing"}
      /\ UNCHANGED <<rows, tries, at, outcome>>
  BY DEF KeyInv, CompleteFails, Die
<1>2. PICK place \in {"done", "dead"}, answer \in {<<"own", Nothing>>, said[r]} :
         pc' = [pc EXCEPT ![r] = place] /\ said' = [said EXCEPT ![r] = answer]
  BY <1>1 DEF CompleteFails, Die, Say, Goto, TypeOK
<1>3. <<"own", Nothing>> \in Answer /\ said[r] \in Answer
  BY <1>1 DEF Answer, TypeOK
<1>4. TypeOK'
  BY <1>1, <1>2, <1>3 DEF TypeOK
<1>5. /\ pc'[r] = place /\ said'[r] = answer
      /\ \A q \in Requests \ {r} : pc'[q] = pc[q] /\ said'[q] = said[q]
  BY <1>1, <1>2 DEF TypeOK
<1>6. \A q \in Requests : Answered(q) => Answered(q)'
  BY <1>1, <1>5 DEF Answered
<1>7. RegistrationOK(r)'
  BY <1>1, <1>5 DEF RegistrationOK
<1>8. OwnerOK(r)'
  BY <1>1, <1>2, <1>5, <1>6 DEF OwnerOK
<1> QED BY <1>1, <1>4, <1>5, <1>6, <1>7, <1>8, RequestStep

-----------------------------------------------------------------------------
(* Time, the sweep and the archival rewrite records and nothing else: what *)
(* they may do to one record, and that no more is needed.                  *)
AgesOnly(i) ==
    /\ rows'[i] \in Row
    /\ rows'[i].by = rows[i].by /\ rows'[i].response = rows[i].response
    /\ rows'[i].status = "active" <=> rows[i].status = "active"
    /\ rows[i].status = "active" => rows'[i].table = rows[i].table
    /\ IsLive(rows'[i]) => IsLive(rows[i])
    /\ rows'[i].age = "fresh" => rows[i].age = "fresh" /\ (IsLive(rows[i]) => IsLive(rows'[i]))
    /\ \A r \in Requests : pc[r] \in {"conflict", "again"} /\ i > at[r] => rows'[i] = rows[i]

LEMMA AgeingKeepsInv ==
    ASSUME KeyInv, rows' = [i \in DOMAIN rows |-> rows'[i]],
           UNCHANGED <<pc, tries, at, outcome, said>>,
           \A i \in DOMAIN rows : AgesOnly(i)
    PROVE  KeyInv'
<1>1. rows \in Seq(Row) /\ TypeOK
  BY DEF KeyInv, TypeOK
<1>2. rows' \in Seq(Row) /\ DOMAIN rows' = DOMAIN rows /\ Len(rows') = Len(rows)
  <2>1. \A i \in DOMAIN rows : rows'[i] \in Row
    BY DEF AgesOnly
  <2> HIDE DEF AgesOnly
  <2> QED BY <1>1, <2>1, Rewritten
<1>3. TypeOK'
  BY <1>1, <1>2 DEF TypeOK
<1>4. \A q \in Requests : Answered(q) => Answered(q)'
  BY DEF Answered
<1>5. \A i \in DOMAIN rows' : RowOK(i)'
  <2> SUFFICES ASSUME NEW i \in DOMAIN rows PROVE RowOK(i)'
    BY <1>2
  <2>1. RowOK(i) /\ AgesOnly(i) /\ rows[i] \in Row
    BY <1>1 DEF KeyInv
  <2>2. rows[i].by \in Requests
    BY <2>1 DEF Row
  <2> QED BY <1>2, <1>4, <2>1, <2>2 DEF RowOK, AgesOnly
<1>6. ASSUME NEW r \in Requests
      PROVE  RegistrationOK(r)' /\ OwnerOK(r)'
  <2>1. RegistrationOK(r) /\ OwnerOK(r) /\ at[r] \in Nat
    BY <1>1 DEF KeyInv, TypeOK
  <2>2. RegistrationOK(r)'
    BY <1>2, <2>1 DEF RegistrationOK, AgesOnly
  <2>3. OwnerOK(r)'
    BY <1>2, <1>4, <2>1 DEF OwnerOK, AgesOnly
  <2> QED BY <2>2, <2>3
<1> QED BY <1>3, <1>5, <1>6 DEF KeyInv

LEMMA AdvanceKeepsInv ==
    ASSUME KeyInv, NEW k \in DOMAIN rows, Advance(k)
    PROVE  KeyInv'
<1>1. rows \in Seq(Row) /\ TypeOK /\ rows[k] \in Row
  BY DEF KeyInv, TypeOK
<1>2. rows' = [i \in DOMAIN rows |-> rows'[i]]
  BY <1>1 DEF Advance
<1>3. ASSUME NEW i \in DOMAIN rows PROVE AgesOnly(i)
  <2>1. rows[i] \in Row /\ RowOK(i)
    BY <1>1 DEF KeyInv
  <2>2. CASE i # k
    <3>1. rows'[i] = rows[i]
      BY <1>1, <2>2 DEF Advance
    <3> QED BY <2>1, <3>1 DEF AgesOnly
  <2>3. CASE i = k
    <3>1. rows'[i] = [rows[i] EXCEPT !.age = Older(rows[i].age)]
      BY <1>1, <2>3 DEF Advance
    <3>2. Older(rows[i].age) \in {"due", "old"}
      BY DEF Older
    <3>3. \A r \in Requests : pc[r] \in {"conflict", "again"} => i <= at[r]
      BY <2>1, <2>3, <1>1 DEF Advance, Outlives, KeyInv, RegistrationOK, TypeOK
    <3>4. \A r \in Requests : at[r] \in Nat /\ i \in Nat
      BY <1>1 DEF TypeOK
    <3> QED BY <2>1, <3>1, <3>2, <3>3, <3>4 DEF AgesOnly, Row, IsLive
  <2> QED BY <2>2, <2>3
<1> QED BY <1>2, <1>3, AgeingKeepsInv DEF Advance

LEMMA SweepKeepsInv ==
    ASSUME KeyInv, Sweep
    PROVE  KeyInv'
<1>1. rows \in Seq(Row) /\ TypeOK
  BY DEF KeyInv, TypeOK
<1>2. rows' = [i \in DOMAIN rows |-> rows'[i]]
  BY DEF Sweep
<1>3. ASSUME NEW i \in DOMAIN rows PROVE AgesOnly(i)
  <2>1. rows[i] \in Row /\ RowOK(i)
    BY <1>1 DEF KeyInv
  <2>2. CASE ~IsExpirable(rows[i])
    <3>1. rows'[i] = rows[i]
      BY <2>2 DEF Sweep
    <3> QED BY <2>1, <3>1 DEF AgesOnly
  <2>3. CASE IsExpirable(rows[i])
    <3>1. rows'[i] = [rows[i] EXCEPT !.status = "expired"]
      BY <2>3 DEF Sweep
    <3>2. rows[i].age # "fresh" /\ rows[i].status # "active"
      BY <2>3 DEF IsExpirable, Terminal
    <3>3. \A r \in Requests : ~(pc[r] \in {"conflict", "again"} /\ i > at[r])
      BY <1>1, <3>2 DEF KeyInv, RegistrationOK
    <3> QED BY <2>1, <3>1, <3>2, <3>3 DEF AgesOnly, Row, IsLive
  <2> QED BY <2>2, <2>3
<1> QED BY <1>2, <1>3, AgeingKeepsInv DEF Sweep

LEMMA ArchiveKeepsInv ==
    ASSUME KeyInv, Archive
    PROVE  KeyInv'
<1>1. rows \in Seq(Row) /\ TypeOK
  BY DEF KeyInv, TypeOK
<1>2. PICK batch \in SUBSET {i \in DOMAIN rows : IsArchivable(rows[i])} :
         rows' = [i \in DOMAIN rows |->
                    IF i \in batch THEN [rows[i] EXCEPT !.table = "archive"] ELSE rows[i]]
  BY DEF Archive
<1>3. rows' = [i \in DOMAIN rows |-> rows'[i]]
  BY <1>2
<1>4. ASSUME NEW i \in DOMAIN rows PROVE AgesOnly(i)
  <2>1. rows[i] \in Row /\ RowOK(i)
    BY <1>1 DEF KeyInv
  <2>2. CASE i \notin batch
    <3>1. rows'[i] = rows[i]
      BY <1>2, <2>2
    <3> QED BY <2>1, <3>1 DEF AgesOnly
  <2>3. CASE i \in batch
    <3>1. rows'[i] = [rows[i] EXCEPT !.table = "archive"]
      BY <1>2, <2>3
    <3>2. rows[i].age # "fresh" /\ rows[i].status # "active"
      BY <1>2, <2>3 DEF IsArchivable, Terminal
    <3>3. \A r \in Requests : ~(pc[r] \in {"conflict", "again"} /\ i > at[r])
      BY <1>1, <3>2 DEF KeyInv, RegistrationOK
    <3> QED BY <2>1, <3>1, <3>2, <3>3 DEF AgesOnly, Row, IsLive
  <2> QED BY <2>2, <2>3
<1> QED BY <1>3, <1>4, AgeingKeepsInv DEF Archive

-----------------------------------------------------------------------------
LEMMA InsertKeepsInv ==
    ASSUME KeyInv, NEW r \in Requests, Insert(r)
    PROVE  KeyInv'
<1> USE KeyAssumption
<1>1. /\ TypeOK /\ RegistrationOK(r) /\ OwnerOK(r) /\ pc[r] \in {"start", "again"}
      /\ tries' = [tries EXCEPT ![r] = tries[r] + 1]
      /\ UNCHANGED <<outcome, said>>
  BY DEF KeyInv, Insert
<1>2. rows \in Seq(Row) /\ Len(rows) \in Nat /\ DOMAIN rows = 1..Len(rows)
  BY <1>1 DEF TypeOK
<1>3. /\ tries[r] + 1 \in 1..Attempts /\ tries' \in [Requests -> 0..Attempts]
      /\ tries'[r] = tries[r] + 1
      /\ \A q \in Requests \ {r} : tries'[q] = tries[q]
  <2>1. tries[r] + 1 \in 1..Attempts
    BY <1>1 DEF TypeOK, RegistrationOK
  <2> QED BY <1>1, <2>1 DEF TypeOK
<1>4. CASE /\ Live = {}
           /\ rows' = Append(rows, [by |-> r, status |-> "active", response |-> Nothing,
                                    age |-> "fresh", table |-> "hot"])
           /\ at' = [at EXCEPT ![r] = Len(rows) + 1]
           /\ Goto(r, "running")
  <2> DEFINE new == [by |-> r, status |-> "active", response |-> Nothing,
                     age |-> "fresh", table |-> "hot"]
  <2>1. new \in Row
    BY DEF Row
  <2>2. /\ rows' \in Seq(Row) /\ Len(rows') = Len(rows) + 1
        /\ DOMAIN rows' = 1..(Len(rows) + 1)
        /\ rows'[Len(rows) + 1] = new
        /\ \A i \in DOMAIN rows : rows'[i] = rows[i]
    <3> HIDE DEF new
    <3>1. rows' = Append(rows, new)
      BY <1>4 DEF new
    <3> QED BY <1>2, <2>1, <3>1
  <2>3. /\ pc'[r] = "running" /\ at'[r] = Len(rows) + 1
        /\ \A q \in Requests \ {r} : pc'[q] = pc[q] /\ at'[q] = at[q]
    BY <1>1, <1>4 DEF TypeOK, Goto
  <2>4. TypeOK'
    <3>1. at' \in [Requests -> 0..(Len(rows) + 1)]
      BY <1>1, <1>2, <1>4 DEF TypeOK
    <3>2. pc' \in [Requests -> {"start", "again", "conflict", "running", "completing", "dead", "done"}]
      BY <1>1, <1>4 DEF TypeOK, Goto
    <3> QED BY <1>1, <1>3, <2>2, <3>1, <3>2 DEF TypeOK
  <2>5. \A q \in Requests : Answered(q) => Answered(q)'
    BY <1>1, <2>3 DEF Answered
  <2>6. \A i \in DOMAIN rows : ~IsLive(rows[i]) /\ RowOK(i)
    BY <1>4 DEF Live, KeyInv
  <2>7. ASSUME NEW i \in DOMAIN rows' PROVE RowOK(i)'
    <3>1. CASE i \in DOMAIN rows
      <4>1. rows[i] \in Row /\ rows'[i] = rows[i] /\ RowOK(i) /\ ~IsLive(rows[i])
        BY <1>2, <2>2, <2>6, <3>1
      <4>2. rows[i].by \in Requests /\ rows[i].status # "active"
        BY <4>1 DEF Row, RowOK, IsLive
      <4> QED BY <2>5, <4>1, <4>2 DEF RowOK
    <3>2. CASE i = Len(rows) + 1
      BY <2>2, <3>2 DEF RowOK, IsLive
    <3> QED BY <1>2, <2>2, <3>1, <3>2
  <2>8. ASSUME NEW q \in Requests
        PROVE  RegistrationOK(q)' /\ OwnerOK(q)'
    <3>1. RegistrationOK(q) /\ OwnerOK(q) /\ at[q] \in 0..Len(rows)
      BY <1>1 DEF KeyInv, TypeOK
    <3>2. CASE q = r
      BY <1>1, <2>2, <2>3, <2>5, <3>1, <3>2 DEF RegistrationOK, OwnerOK
    <3>3. CASE q # r
      <4>1. pc'[q] = pc[q] /\ at'[q] = at[q] /\ tries'[q] = tries[q]
        BY <1>3, <2>3, <3>3
      <4>2. OwnerOK(q)'
        BY <1>1, <1>2, <2>2, <2>5, <3>1, <4>1 DEF OwnerOK
      <4>3. RegistrationOK(q)'
        <5>1. \A i \in DOMAIN rows : rows[i].age # "fresh"
          BY <2>6 DEF RowOK
        <5>2. \A i \in DOMAIN rows' : i \notin DOMAIN rows => rows'[i].age = "fresh"
          BY <1>2, <2>2
        <5>3. ASSUME pc[q] \in {"conflict", "again"}
              PROVE  at[q] = Len(rows) /\ at[q] \in DOMAIN rows
          BY <1>2, <3>1, <5>1, <5>3 DEF RegistrationOK
        <5>4. ~(pc[q] = "conflict" /\ tries[q] >= 2)
          BY <2>6, <3>1 DEF RegistrationOK
        <5>5. \A i \in DOMAIN rows' : i <= Len(rows) => ~IsLive(rows'[i])
          BY <1>2, <2>2, <2>6
        <5> QED BY <1>2, <2>2, <3>1, <4>1, <5>2, <5>3, <5>4, <5>5 DEF RegistrationOK
      <4> QED BY <4>2, <4>3
    <3> QED BY <3>2, <3>3
  <2> QED BY <2>4, <2>7, <2>8 DEF KeyInv
<1>5. CASE /\ Live # {}
           /\ at' = IF pc[r] = "start" THEN [at EXCEPT ![r] = Len(rows)] ELSE at
           /\ Goto(r, "conflict")
           /\ UNCHANGED rows
  <2>1. Live = {Len(rows)} /\ Len(rows) \in DOMAIN rows /\ IsLive(rows[Len(rows)])
    BY <1>5, LiveIsLast DEF Live
  <2>2. /\ pc'[r] = "conflict"
        /\ at'[r] = IF pc[r] = "start" THEN Len(rows) ELSE at[r]
        /\ \A q \in Requests \ {r} : pc'[q] = pc[q] /\ at'[q] = at[q]
    BY <1>1, <1>5 DEF TypeOK, Goto
  <2>3. TypeOK'
    <3>1. at' \in [Requests -> 0..Len(rows)]
      BY <1>1, <1>2, <1>5 DEF TypeOK
    <3>2. pc' \in [Requests -> {"start", "again", "conflict", "running", "completing", "dead", "done"}]
      BY <1>1, <1>5 DEF TypeOK, Goto
    <3> QED BY <1>1, <1>3, <1>5, <3>1, <3>2 DEF TypeOK
  <2>4. \A q \in Requests : Answered(q) => Answered(q)'
    BY <1>1, <2>2 DEF Answered
  <2>5. RegistrationOK(r)'
    <3>1. rows' = rows /\ at[r] \in Nat /\ RegistrationOK(r) /\ tries[r] \in Nat
      BY <1>1, <1>2, <1>5 DEF TypeOK
    <3>2. CASE pc[r] = "start"
      <4>1. tries'[r] = 1 /\ at'[r] = Len(rows)
        BY <1>3, <2>2, <3>1, <3>2 DEF RegistrationOK
      <4> QED BY <1>2, <1>3, <2>1, <2>2, <3>1, <4>1 DEF RegistrationOK
    <3>3. CASE pc[r] = "again"
      <4>1. /\ at'[r] = at[r] /\ at[r] \in DOMAIN rows /\ Len(rows) > at[r]
            /\ \A i \in DOMAIN rows : i > at[r] => rows[i].age = "fresh"
        BY <1>2, <2>1, <2>2, <3>1, <3>3 DEF RegistrationOK
      <4>2. RegistrationOK(r)' <=>
               /\ tries'[r] \in 1..Attempts
               /\ at'[r] \in DOMAIN rows
               /\ \A i \in DOMAIN rows : i > at'[r] => rows[i].age = "fresh"
               /\ tries'[r] >= 2 => \E i \in DOMAIN rows : i > at'[r] /\ IsLive(rows[i])
        BY <2>2, <3>1 DEF RegistrationOK, IsLive
      <4> QED BY <1>3, <2>1, <4>1, <4>2
    <3> QED BY <1>1, <3>2, <3>3
  <2>6. OwnerOK(r)'
    BY <1>1, <2>2, <2>4 DEF OwnerOK
  <2> QED BY <1>1, <1>3, <1>5, <2>2, <2>3, <2>4, <2>5, <2>6, RequestStep
<1> QED BY <1>4, <1>5 DEF Insert

\* The record complete_key writes is the one its request registered.
LEMMA CompletesItsOwn ==
    ASSUME KeyInv, NEW r \in Requests, Complete(r)
    PROVE  /\ at[r] = Len(rows) /\ at[r] \in DOMAIN rows /\ rows[at[r]].by = r
           /\ rows[at[r]].status = "active" /\ IsLive(rows[at[r]])
           /\ outcome[r] \in Outcome /\ outcome[r].response \in {r, Nothing}
           /\ rows'[at[r]] = [rows[at[r]] EXCEPT !.status = outcome[r].status,
                                                 !.response = outcome[r].response]
           /\ \A i \in DOMAIN rows \ {at[r]} : rows'[i] = rows[i]
           /\ rows' = [i \in DOMAIN rows |-> rows'[i]]
<1>1. TypeOK /\ OwnerOK(r) /\ pc[r] = "completing"
  BY DEF KeyInv, Complete
<1>2. /\ at[r] \in DOMAIN rows /\ rows[at[r]].by = r /\ rows[at[r]].status = "active"
      /\ outcome[r].response \in {r, Nothing} /\ outcome[r] \in Outcome
  BY <1>1 DEF OwnerOK, TypeOK
<1>3. rows[at[r]].table = "hot" /\ at[r] = Len(rows) /\ IsLive(rows[at[r]])
  BY <1>2 DEF KeyInv, RowOK, IsLive
<1>4. \A i \in DOMAIN rows : IsCompleted(rows[i]) => i = at[r]
  BY <1>3 DEF KeyInv, RowOK, IsLive, IsCompleted
<1>5. IsCompleted(rows[at[r]])
  BY <1>2, <1>3 DEF IsCompleted
<1> QED BY <1>2, <1>3, <1>4, <1>5 DEF Complete

LEMMA CompleteKeepsInv ==
    ASSUME KeyInv, NEW r \in Requests, Complete(r)
    PROVE  KeyInv'
<1>1. /\ TypeOK /\ RegistrationOK(r) /\ OwnerOK(r) /\ pc[r] = "completing"
      /\ UNCHANGED <<tries, at, outcome>>
      /\ pc' = [pc EXCEPT ![r] = "done"] /\ said' = [said EXCEPT ![r] = <<"own", Nothing>>]
  BY DEF KeyInv, Complete, Goto, Say
<1>2. rows \in Seq(Row)
  BY <1>1 DEF TypeOK
<1> DEFINE l == at[r]
<1>3. /\ l = Len(rows) /\ l \in DOMAIN rows /\ rows[l].by = r /\ rows[l] \in Row
      /\ rows[l].status = "active" /\ IsLive(rows[l])
      /\ outcome[r].status \in Terminal /\ outcome[r].response \in {r, Nothing}
      /\ rows'[l] = [rows[l] EXCEPT !.status = outcome[r].status, !.response = outcome[r].response]
      /\ \A i \in DOMAIN rows \ {l} : rows'[i] = rows[i]
      /\ rows' = [i \in DOMAIN rows |-> rows'[i]]
  <2>1. outcome[r].status \in Terminal
    BY CompletesItsOwn DEF Outcome
  <2>2. rows[l] \in Row
    <3>1. l \in DOMAIN rows
      BY CompletesItsOwn
    <3> HIDE DEF l
    <3> QED BY <1>2, <3>1
  <2> QED BY <2>1, <2>2, CompletesItsOwn, Zenon
<1> HIDE DEF l
<1>4. /\ rows'[l] \in Row /\ rows'[l].by = r /\ rows'[l].status \in Terminal
      /\ rows'[l].response \in {r, Nothing} /\ rows'[l].response = outcome[r].response
      /\ rows'[l].age = rows[l].age /\ IsLive(rows'[l])
  BY <1>3 DEF Row, Terminal, IsLive
<1>5. rows' \in Seq(Row) /\ DOMAIN rows' = DOMAIN rows /\ Len(rows') = Len(rows)
  <2>1. \A i \in DOMAIN rows : rows'[i] \in Row
    BY <1>2, <1>3, <1>4
  <2> QED BY <1>2, <1>3, <2>1, Rewritten
<1>6. /\ pc'[r] = "done" /\ said'[r] = <<"own", Nothing>>
      /\ \A q \in Requests \ {r} : pc'[q] = pc[q] /\ said'[q] = said[q]
  BY <1>1 DEF TypeOK
<1>7. TypeOK'
  <2>1. <<"own", Nothing>> \in Answer
    BY DEF Answer
  <2> QED BY <1>1, <1>5, <2>1 DEF TypeOK
<1>8. \A q \in Requests : Answered(q) => Answered(q)'
  BY <1>1, <1>6 DEF Answered
<1>9. ASSUME NEW i \in DOMAIN rows PROVE RowOK(i)'
  <2>1. CASE i = l
    <3>1. rows'[l].response # Nothing => Answered(r)'
      BY <1>1, <1>4, <1>6 DEF Answered
    <3> QED BY <1>3, <1>4, <1>5, <2>1, <3>1 DEF RowOK, Terminal
  <2>2. CASE i # l
    <3>1. RowOK(i) /\ rows[i] \in Row /\ rows'[i] = rows[i]
      BY <1>2, <1>3, <2>2 DEF KeyInv
    <3>2. rows[i].by \in Requests
      BY <3>1 DEF Row
    <3> QED BY <1>5, <1>8, <3>1, <3>2 DEF RowOK
  <2> QED BY <2>1, <2>2
<1>10. ASSUME NEW q \in Requests
       PROVE  RegistrationOK(q)' /\ OwnerOK(q)'
  <2>1. RegistrationOK(q) /\ OwnerOK(q)
    BY DEF KeyInv
  <2>2. CASE q = r
    BY <1>1, <1>6, <1>8, <2>1, <2>2 DEF RegistrationOK, OwnerOK
  <2>3. CASE q # r
    <3>1. /\ pc'[q] = pc[q] /\ said'[q] = said[q] /\ at'[q] = at[q]
          /\ tries'[q] = tries[q] /\ outcome'[q] = outcome[q]
      BY <1>1, <1>6, <2>3
    <3>2. \A i \in DOMAIN rows : /\ IsLive(rows'[i]) <=> IsLive(rows[i])
                                 /\ rows'[i].age = rows[i].age
      BY <1>3, <1>4
    <3>3. RegistrationOK(q)'
      BY <1>5, <2>1, <3>1, <3>2 DEF RegistrationOK
    <3>4. OwnerOK(q)'
      BY <1>3, <1>5, <1>8, <2>1, <2>3, <3>1 DEF OwnerOK, KeyInv, RowOK, IsLive
    <3> QED BY <3>3, <3>4
  <2> QED BY <2>2, <2>3
<1> QED BY <1>5, <1>7, <1>9, <1>10 DEF KeyInv

-----------------------------------------------------------------------------
LEMMA NextKeepsInv ==
    ASSUME KeyInv, [Next]_vars
    PROVE  KeyInv'
<1>1. CASE UNCHANGED vars
  <2>1. TypeOK' /\ \A i \in DOMAIN rows' : RowOK(i)'
    BY <1>1 DEF vars, KeyInv, TypeOK, RowOK, IsLive, Answered
  <2>2. \A r \in Requests : RegistrationOK(r)' /\ OwnerOK(r)'
    BY <1>1 DEF vars, KeyInv, RegistrationOK, OwnerOK, IsLive, Answered
  <2> QED BY <2>1, <2>2 DEF KeyInv
<1>2. CASE Next
  BY <1>2, InsertKeepsInv, SelectKeepsInv, HandleKeepsInv, CompleteKeepsInv, LeavingKeepsInv,
     AdvanceKeepsInv, SweepKeepsInv, ArchiveKeepsInv DEF Next
<1> QED BY <1>1, <1>2

(* The inductive invariant of one key.                                     *)
THEOREM KeyInvariant == Spec => []KeyInv
<1>1. Init => KeyInv
  BY InitKeyInv
<1>2. KeyInv /\ [Next]_vars => KeyInv'
  BY NextKeepsInv
<1> QED BY <1>1, <1>2, PTL DEF Spec

(* The records, the requests and what they were told keep their shape:     *)
(* no registration makes more than _REGISTRATION_ATTEMPTS INSERTs.         *)
THEOREM KeyTypes == Spec => []TypeOK
<1>1. KeyInv => TypeOK
  BY DEF KeyInv
<1> QED BY <1>1, KeyInvariant, PTL

(* However many requests carry the key and however the sweep and the       *)
(* archival fall, only the latest record is inside its window: the         *)
(* operation runs once per window, whatever its outcome.                   *)
THEOREM OneRunPerWindowHolds == Spec => []OneRunPerWindow
<1>1. KeyInv => OneRunPerWindow
  BY DEF KeyInv, RowOK, OneRunPerWindow
<1> QED BY <1>1, KeyInvariant, PTL

(* Two attempts are enough: with them no registration ends in the race     *)
(* _register does not catch.                                               *)
THEOREM RegistrationDecidesHolds ==
    ASSUME Attempts >= 2
    PROVE  Spec => []RegistrationDecides
<1>1. KeyInv => RegistrationDecides
  BY DEF KeyInv, OwnerOK, RegistrationDecides
<1> QED BY <1>1, KeyInvariant, PTL

(* Every record keeps the response of the request that registered it, and  *)
(* a replay is of a request that ended with that response, although        *)
(* complete_key names the pair and not the record.                         *)
THEOREM RecordsKeepTheirResponseHolds == Spec => []RecordsKeepTheirResponse
<1>1. ASSUME KeyInv PROVE RecordsKeepTheirResponse
  <2>1. \A i \in DOMAIN rows : rows[i].response \in {rows[i].by, Nothing}
    BY <1>1 DEF KeyInv, RowOK
  <2>2. \A r, q \in Requests : said[r] = <<"replay", q>> => outcome[q].response = q
    BY <1>1 DEF KeyInv, OwnerOK, Answered
  <2> QED BY <2>1, <2>2 DEF RecordsKeepTheirResponse
<1> QED BY <1>1, KeyInvariant, PTL

-----------------------------------------------------------------------------
(* The refinement: the claim is read from the last record.                 *)
ClaimOf(row) == Owner = row.by /\ (Settled <=> row.status \in Terminal) /\ Kept = row.response
NoClaim == Owner = Nothing /\ ~Settled /\ Kept = Nothing

LastIsLive == Len(rows) \in DOMAIN rows /\ IsLive(rows[Len(rows)])

LEMMA ClaimView ==
    KeyInv => IF LastIsLive THEN ClaimOf(rows[Len(rows)]) ELSE NoClaim
<1> SUFFICES ASSUME KeyInv
             PROVE  IF LastIsLive THEN ClaimOf(rows[Len(rows)]) ELSE NoClaim
  OBVIOUS
<1>1. CASE LastIsLive
  <2>1. Live = {Len(rows)}
    BY <1>1, LiveIsLast DEF LastIsLive, Live
  <2>2. (CHOOSE i \in Live : TRUE) = Len(rows)
    BY <2>1
  <2> QED BY <1>1, <2>1, <2>2 DEF ClaimOf, Owner, Settled, Kept
<1>2. CASE ~LastIsLive
  <2>1. Live = {}
    BY <1>2, LiveIsLast DEF LastIsLive, Live
  <2> QED BY <1>2, <2>1 DEF NoClaim, Owner, Settled, Kept
<1> QED BY <1>1, <1>2

LEMMA ClaimViewNext ==
    (KeyInv => IF LastIsLive THEN ClaimOf(rows[Len(rows)]) ELSE NoClaim)'
BY ClaimView, PTL

\* A step that keeps which record is last, whether it is live, and what it says.
LEMMA SameClaim ==
    ASSUME KeyInv, KeyInv', LastIsLive <=> LastIsLive',
           LastIsLive => /\ rows'[Len(rows')].by = rows[Len(rows)].by
                         /\ rows'[Len(rows')].status = rows[Len(rows)].status
                         /\ rows'[Len(rows')].response = rows[Len(rows)].response
    PROVE  UNCHANGED <<Owner, Settled, Kept>>
<1>1. CASE LastIsLive
  <2>1. ClaimOf(rows[Len(rows)]) /\ ClaimOf(rows[Len(rows)])'
    BY <1>1, ClaimView, ClaimViewNext
  <2>2. Settled' <=> Settled
    BY <1>1, <2>1 DEF ClaimOf
  <2>3. Settled \in BOOLEAN /\ Settled' \in BOOLEAN
    BY DEF Settled
  <2> QED BY <1>1, <2>1, <2>2, <2>3 DEF ClaimOf
<1>2. CASE ~LastIsLive
  <2>1. NoClaim /\ NoClaim'
    BY <1>2, ClaimView, ClaimViewNext
  <2>2. Settled \in BOOLEAN /\ Settled' \in BOOLEAN
    BY DEF Settled
  <2> QED BY <2>1, <2>2 DEF NoClaim
<1> QED BY <1>1, <1>2

LEMMA InitImplementsClaim ==
    ASSUME Init
    PROVE  Claim!Init
<1>1. ~LastIsLive
  BY DEF Init, LastIsLive
<1>2. NoClaim
  BY <1>1, InitKeyInv, ClaimView
<1> QED BY <1>2 DEF NoClaim, Claim!Init, Settled

LEMMA InsertImplementsClaim ==
    ASSUME KeyInv, KeyInv', NEW r \in Requests, Insert(r)
    PROVE  [Claim!Next]_(Claim!claimVars)
<1>1. CASE UNCHANGED rows
  BY <1>1, SameClaim DEF LastIsLive, IsLive, Claim!claimVars
<1>2. CASE Live = {} /\ rows' = Append(rows, [by |-> r, status |-> "active", response |-> Nothing,
                                              age |-> "fresh", table |-> "hot"])
  <2> DEFINE new == [by |-> r, status |-> "active", response |-> Nothing,
                     age |-> "fresh", table |-> "hot"]
  <2>1. Len(rows') \in DOMAIN rows' /\ rows'[Len(rows')] = new
    <3>1. rows \in Seq(Row) /\ new \in Row
      BY DEF KeyInv, TypeOK, Row
    <3>2. rows' = Append(rows, new)
      BY <1>2
    <3> HIDE DEF new
    <3> QED BY <3>1, <3>2
  <2>2. ~LastIsLive /\ LastIsLive'
    BY <1>2, <2>1 DEF LastIsLive, Live, IsLive
  <2>3. NoClaim /\ ClaimOf(rows[Len(rows)])'
    BY <2>2, ClaimView, ClaimViewNext
  <2>4. Owner = Nothing /\ Owner' = r /\ Settled' = FALSE /\ Kept' = Nothing
    BY <2>1, <2>3 DEF NoClaim, ClaimOf, Settled, Terminal
  <2> QED BY <2>4 DEF Claim!Next, Claim!Claim
<1> QED BY <1>1, <1>2 DEF Insert

LEMMA CompleteImplementsClaim ==
    ASSUME KeyInv, KeyInv', NEW r \in Requests, Complete(r)
    PROVE  [Claim!Next]_(Claim!claimVars)
<1> DEFINE l == Len(rows)
<1>1. /\ l \in DOMAIN rows /\ rows[l].by = r /\ rows[l].status = "active" /\ IsLive(rows[l])
      /\ outcome[r] \in Outcome /\ outcome[r].response \in {r, Nothing}
      /\ rows'[l] = [rows[l] EXCEPT !.status = outcome[r].status, !.response = outcome[r].response]
      /\ DOMAIN rows' = DOMAIN rows
  BY CompletesItsOwn
<1>2. rows[l] \in Row /\ Len(rows') = l
  <2>1. rows \in Seq(Row) /\ rows' \in Seq(Row)
    BY DEF KeyInv, TypeOK
  <2>2. Len(rows') = l
    BY <1>1, <2>1
  <2>3. l \in DOMAIN rows
    BY <1>1
  <2> HIDE DEF l
  <2> QED BY <2>1, <2>2, <2>3
<1> HIDE DEF l
<1>3. /\ rows'[l].by = r /\ rows'[l].response \in {r, Nothing}
      /\ rows'[l].status \in Terminal /\ IsLive(rows'[l])
  BY <1>1, <1>2 DEF Row, Outcome, IsLive, Terminal
<1>4. LastIsLive /\ LastIsLive' /\ Len(rows) = l
  BY <1>1, <1>2, <1>3 DEF LastIsLive, l
<1>5. ClaimOf(rows[l]) /\ ClaimOf(rows[Len(rows)])'
  BY <1>2, <1>4, ClaimView, ClaimViewNext
<1>6. Owner = r /\ Owner' = r /\ ~Settled /\ Settled' /\ Kept' \in {r, Nothing}
  BY <1>1, <1>2, <1>3, <1>5 DEF ClaimOf, Terminal
<1> QED BY <1>6, KeyAssumption DEF Claim!Next, Claim!Settle, Settled

\* The sweep and the archival: the last record is released once its
\* operation has ended, or is left alone.
LEMMA ReleaseImplementsClaim ==
    ASSUME KeyInv, KeyInv', Sweep \/ Archive
    PROVE  [Claim!Next]_(Claim!claimVars)
<1> DEFINE l == Len(rows)
<1>1. rows \in Seq(Row) /\ rows' \in Seq(Row) /\ DOMAIN rows' = DOMAIN rows
  BY DEF KeyInv, TypeOK, Sweep, Archive
<1>2. Len(rows') = l
  BY <1>1
<1>3. CASE l \in DOMAIN rows
  <2>1. \/ rows'[l] = rows[l]
        \/ /\ rows[l].status # "active" /\ ~IsLive(rows'[l])
    <3>1. rows[l] \in Row
      BY <1>1, <1>3
    <3>2. CASE Sweep
      BY <1>3, <3>1, <3>2 DEF Sweep, IsExpirable, Terminal, IsLive, Row
    <3>3. CASE Archive
      BY <1>3, <3>1, <3>3 DEF Archive, IsArchivable, Terminal, IsLive, Row
    <3> QED BY <3>2, <3>3
  <2>2. CASE rows'[l] = rows[l]
    BY <1>1, <1>2, <2>2, SameClaim DEF LastIsLive, IsLive, Claim!claimVars
  <2>3. CASE ~IsLive(rows[l])
    <3>1. ~LastIsLive /\ ~LastIsLive'
      BY <1>2, <2>1, <2>3 DEF LastIsLive, IsLive
    <3> QED BY <3>1, SameClaim DEF Claim!claimVars
  <2>4. CASE IsLive(rows[l]) /\ rows[l].status # "active" /\ ~IsLive(rows'[l])
    <3>1. LastIsLive /\ ~LastIsLive'
      BY <1>2, <1>3, <2>4 DEF LastIsLive, IsLive
    <3>2. ClaimOf(rows[l]) /\ NoClaim'
      BY <3>1, ClaimView, ClaimViewNext
    <3>3. rows[l] \in Row
      BY <1>1, <1>3
    <3>4. Settled /\ ~Settled' /\ Owner' = Nothing /\ Kept' = Nothing
      BY <2>4, <3>2, <3>3 DEF ClaimOf, NoClaim, IsLive, Row, Terminal
    <3> QED BY <3>4 DEF Claim!Next, Claim!Release, Settled
  <2> QED BY <2>1, <2>2, <2>3, <2>4
<1>4. CASE l \notin DOMAIN rows
  BY <1>1, <1>2, <1>4, SameClaim DEF LastIsLive, Claim!claimVars
<1> QED BY <1>3, <1>4

LEMMA AdvanceImplementsClaim ==
    ASSUME KeyInv, KeyInv', NEW k \in DOMAIN rows, Advance(k)
    PROVE  [Claim!Next]_(Claim!claimVars)
<1>1. rows \in Seq(Row) /\ rows' \in Seq(Row) /\ DOMAIN rows' = DOMAIN rows
  BY DEF KeyInv, TypeOK, Advance
<1>2. Len(rows') = Len(rows)
  BY <1>1
<1>3. \A i \in DOMAIN rows : /\ rows'[i].by = rows[i].by /\ rows'[i].status = rows[i].status
                             /\ rows'[i].response = rows[i].response
                            /\ rows'[i].table = rows[i].table
  <2> SUFFICES ASSUME NEW i \in DOMAIN rows
               PROVE  /\ rows'[i].by = rows[i].by /\ rows'[i].status = rows[i].status
                      /\ rows'[i].response = rows[i].response
                      /\ rows'[i].table = rows[i].table
    OBVIOUS
  <2>1. rows[i] \in Row
    BY <1>1
  <2> QED BY <1>1, <2>1 DEF Advance, Row
<1> QED BY <1>1, <1>2, <1>3, SameClaim DEF LastIsLive, IsLive, Claim!claimVars

(* The middleware, the sweep and the archival keep what KeyClaim promises: *)
(* no operation starts while another request owns the key, the kept        *)
(* response is its owner's, and only a settled key is released.            *)
THEOREM ImplementsKeyClaimHolds == Spec => ImplementsKeyClaim
<1>1. Init => Claim!Init
  BY InitImplementsClaim
<1>2. ASSUME KeyInv, KeyInv', [Next]_vars
      PROVE  [Claim!Next]_(Claim!claimVars)
  <2>1. CASE UNCHANGED rows
    BY <1>2, <2>1, SameClaim DEF LastIsLive, IsLive, Claim!claimVars
  <2>2. CASE \E r \in Requests : Insert(r) \/ Complete(r)
    BY <1>2, <2>2, InsertImplementsClaim, CompleteImplementsClaim
  <2>3. CASE Sweep \/ Archive
    BY <1>2, <2>3, ReleaseImplementsClaim
  <2>4. CASE \E i \in DOMAIN rows : Advance(i)
    BY <1>2, <2>4, AdvanceImplementsClaim
  <2> QED BY <1>2, <2>1, <2>2, <2>3, <2>4 DEF Next, vars, Select, Handle, CompleteFails, Die
<1> QED BY <1>1, <1>2, KeyInvariant, PTL DEF Spec, ImplementsKeyClaim, Claim!Spec

-----------------------------------------------------------------------------
(* Authentication sessions.                                                *)

\* A request under way, as the server and the tab see it.
CallRow ==
    [by : Tabs \union {Gone, TooLate}, token : 0..MaxTokens, new : 0..MaxTokens,
     point : {"sent", "held", "checked", "refused", "failed", "answered"}]
PageRow ==
    [status : {"closed", "loading", "in", "out", "left"},
     asking : {"no", "queued", "first", "again"}, leaving : 0..MaxTokens]
TokenState == {"live", "rotated", "ended", "lost"}

\* The types of what the server and the browser keep of tokens.
CallTypes ==
    /\ calls \in [Slots -> CallRow \union {NoCall}]
    /\ tokens \in Seq(TokenState) /\ Len(tokens) <= MaxTokens
    /\ stored \in 0..Len(tokens)

\* A row that is held works, and one that was refused does not.
CallFits(row, live, last) ==
    /\ row.token <= last /\ row.new <= last
    /\ row.token = 0 => row.point \in {"sent", "failed", "answered"}
    /\ row.point \in {"held", "checked"} => row.token \in live
    /\ row.point = "refused" => row.token \notin live
    /\ row.point \in {"refused", "failed", "answered"} => row.by \in Tabs
    /\ row.by = Gone => row.point # "checked"

CallOK(c) == CallFits(calls[c], LiveTokens, Len(tokens))

\* A successor on its way is known to nobody yet, and its token is spent.
IsNews(k) ==
    /\ k \notin {0, stored}
    /\ tokens[k] \in {"live", "ended"}
    /\ \A d \in Busy : calls[d].token # k

SuccessorOK(c) ==
    calls[c].point = "answered" =>
        /\ calls[c].token \notin LiveTokens
        /\ IsNews(calls[c].new)
        /\ \A d \in Busy : calls[d].point = "answered" /\ calls[d].new = calls[c].new => c = d

\* A row is locked by one exchange at a time.
OneHolder ==
    \A c, d \in Busy :
        /\ calls[c].point \in {"held", "checked"} /\ calls[d].point \in {"held", "checked"}
        /\ calls[c].token = calls[d].token
        => c = d

ServerInv ==
    /\ CallTypes
    /\ \A c \in Busy : CallOK(c) /\ SuccessorOK(c)
    /\ OneHolder

-----------------------------------------------------------------------------
(* A slot is busy with a call, or it has none.                             *)
LEMMA BusyCalls ==
    ASSUME CallTypes
    PROVE  /\ \A c \in Slots : c \in Busy <=> calls[c].point # "none"
           /\ \A c \in Busy : c \in Slots /\ calls[c] \in CallRow
<1>1. ASSUME NEW c \in Slots PROVE c \in Busy <=> calls[c].point # "none"
    <2>1. calls[c] \in CallRow \union {NoCall}
        BY DEF CallTypes
    <2>2. calls[c] \in CallRow => calls[c].point # "none"
        BY DEF CallRow
    <2> QED BY <2>1, <2>2 DEF Busy, NoCall
<1>2. ASSUME NEW c \in Busy PROVE c \in Slots /\ calls[c] \in CallRow
    BY DEF Busy, CallTypes
<1> QED BY <1>1, <1>2

(* One slot rewritten leaves the others as they were.                      *)
LEMMA OneSlot ==
    ASSUME CallTypes, NEW c \in Slots, NEW row \in CallRow \union {NoCall},
           calls' = [calls EXCEPT ![c] = row]
    PROVE  /\ calls' \in [Slots -> CallRow \union {NoCall}]
           /\ calls'[c] = row
           /\ \A d \in Slots : d # c => calls'[d] = calls[d]
           /\ \A d : d # c => (d \in Busy' <=> d \in Busy)
           /\ c \in Busy' <=> row # NoCall
           /\ Slots' = Slots
<1>1. /\ calls' \in [Slots -> CallRow \union {NoCall}] /\ calls'[c] = row
      /\ \A d \in Slots : d # c => calls'[d] = calls[d]
    BY DEF CallTypes
<1> QED BY <1>1 DEF Busy, Slots

(* The tokens that work are rows of the table.                             *)
LEMMA LiveIsStored ==
    ASSUME CallTypes
    PROVE  /\ \A k : k \in LiveTokens <=> k \in 1..Len(tokens) /\ tokens[k] = "live"
           /\ DOMAIN tokens = 1..Len(tokens) /\ Len(tokens) \in Nat
BY DEF CallTypes, LiveTokens

(* Tokens are numbered, and what is stored is one of them or none.         *)
LEMMA TokenNumbers ==
    ASSUME SessionsAssumption, CallTypes
    PROVE  /\ Len(tokens) \in Nat /\ stored \in Nat /\ MaxTokens \in Nat
           /\ stored <= Len(tokens) /\ Len(tokens) <= MaxTokens
           /\ DOMAIN tokens = 1..Len(tokens)
           /\ \A c \in Busy : calls[c].token \in Nat /\ calls[c].new \in Nat
<1>1. Len(tokens) \in Nat /\ DOMAIN tokens = 1..Len(tokens) /\ MaxTokens \in Nat
    BY LiveIsStored DEF SessionsAssumption
<1>2. Len(tokens) <= MaxTokens /\ stored \in 0..Len(tokens)
    BY DEF CallTypes
<1>3. stored \in Nat /\ stored <= Len(tokens)
    BY <1>1, <1>2
<1>4. ASSUME NEW c \in Busy PROVE calls[c].token \in Nat /\ calls[c].new \in Nat
    <2>1. calls[c] \in CallRow
        BY BusyCalls
    <2>2. calls[c].token \in 0..MaxTokens /\ calls[c].new \in 0..MaxTokens
        BY <2>1 DEF CallRow
    <2> QED BY <1>1, <2>2
<1> QED BY <1>1, <1>2, <1>3, <1>4

-----------------------------------------------------------------------------
(* A call begun presents what is stored, or nothing.                       *)
LEMMA NewCallKeeps ==
    ASSUME SessionsAssumption, ServerInv, NEW c \in Slots, NEW t \in Tabs, NEW k, k = 0 \/ k = stored,
           c \in Busy => calls[c].point = "refused",
           calls' = [calls EXCEPT ![c] = Call(t, k)], UNCHANGED <<tokens, stored>>
    PROVE  ServerInv'
<1> DEFINE row == Call(t, k)
<1>0. CallTypes
    BY DEF ServerInv
<1>1. row \in CallRow /\ row # NoCall
    <2>1. k \in 0..MaxTokens /\ 0 \in 0..MaxTokens
        BY <1>0, TokenNumbers
    <2>2. row \in CallRow
        BY <2>1 DEF Call, CallRow, SessionsAssumption
    <2> QED BY <2>2 DEF CallRow, NoCall
<1>2. row.by = t /\ row.token = k /\ row.new = 0 /\ row.point = "sent"
    BY DEF Call
<1> HIDE DEF row
<1>3. /\ calls' \in [Slots -> CallRow \union {NoCall}] /\ calls'[c] = row
      /\ \A d \in Slots : d # c => calls'[d] = calls[d]
      /\ \A d : d # c => (d \in Busy' <=> d \in Busy)
      /\ c \in Busy' /\ Slots' = Slots
    BY <1>0, <1>1, OneSlot DEF row
<1>4. CallTypes'
    BY <1>0, <1>3 DEF CallTypes
<1>5. LiveTokens' = LiveTokens
    BY DEF LiveTokens
<1>6. \A d \in Busy' : d \in Slots /\ (d # c => d \in Busy /\ calls'[d] = calls[d])
    BY <1>3 DEF Busy
<1>7. ASSUME NEW d \in Busy' PROVE CallOK(d)'
    <2>1. CASE d = c
        <3>1. k \in Nat /\ k <= Len(tokens) /\ 0 <= Len(tokens)
            BY <1>0, TokenNumbers
        <3>2. t \notin {Gone, TooLate}
            BY DEF SessionsAssumption
        <3>3. CallFits(row, LiveTokens, Len(tokens))
            BY <1>2, <3>1, <3>2 DEF CallFits
        <3> QED BY <1>3, <1>5, <2>1, <3>3 DEF CallOK
    <2>2. CASE d # c
        <3>1. d \in Busy /\ calls'[d] = calls[d]
            BY <1>6, <2>2
        <3>2. CallOK(d)
            BY <3>1 DEF ServerInv
        <3> QED BY <1>5, <3>1, <3>2 DEF CallOK
    <2> QED BY <2>1, <2>2
<1>8. ASSUME NEW d \in Busy' PROVE SuccessorOK(d)'
    <2>1. CASE d = c
        BY <1>2, <1>3, <2>1 DEF SuccessorOK
    <2>2. CASE d # c
        <3> SUFFICES ASSUME calls[d].point = "answered" PROVE SuccessorOK(d)'
            BY <1>6, <2>2 DEF SuccessorOK
        <3>1. d \in Busy /\ calls'[d] = calls[d]
            BY <1>6, <2>2
        <3>2. SuccessorOK(d)
            BY <3>1 DEF ServerInv
        <3>3. ASSUME NEW e \in Busy' PROVE calls'[e].token # calls[d].new
            BY <1>2, <1>3, <1>6, <3>2 DEF SuccessorOK, IsNews
        <3>4. IsNews(calls[d].new)'
            BY <3>1, <3>2, <3>3 DEF SuccessorOK, IsNews
        <3>5. ASSUME NEW e \in Busy', calls'[e].point = "answered", calls'[e].new = calls[d].new
              PROVE  d = e
            <4>1. e # c
                BY <1>2, <1>3, <3>5
            <4>2. e \in Busy /\ calls'[e] = calls[e]
                BY <1>6, <4>1
            <4> QED BY <3>2, <3>5, <4>2 DEF SuccessorOK
        <3>6. calls[d].token \notin LiveTokens'
            BY <1>5, <3>2 DEF SuccessorOK
        <3> QED BY <3>1, <3>4, <3>5, <3>6 DEF SuccessorOK
    <2> QED BY <2>1, <2>2
<1>9. OneHolder'
    BY <1>2, <1>3, <1>6 DEF OneHolder, ServerInv
<1> QED BY <1>4, <1>7, <1>8, <1>9 DEF ServerInv

(* A call that moves without a successor.                                  *)
LEMMA MoveKeeps ==
    ASSUME SessionsAssumption, ServerInv, NEW c \in Busy,
           NEW point \in {"held", "checked", "refused", "failed"},
           calls' = [calls EXCEPT ![c].point = point], UNCHANGED <<tokens, stored>>,
           point = "held" => /\ calls[c].point = "sent" /\ RowFree(calls[c].token)
                             /\ calls[c].token \in LiveTokens,
           point = "checked" => calls[c].point = "held" /\ calls[c].by # Gone,
           point = "refused" => /\ calls[c].token \notin LiveTokens \union {0}
                                /\ calls[c].point = "sent" /\ calls[c].by \in Tabs,
           point = "failed" => calls[c].by \in Tabs
    PROVE  ServerInv'
<1> DEFINE row == [calls[c] EXCEPT !.point = point]
<1>0. CallTypes /\ c \in Slots /\ calls[c] \in CallRow
    BY BusyCalls DEF ServerInv
<1>1. row \in CallRow /\ row # NoCall
    <2>1. row \in CallRow
        BY <1>0 DEF CallRow
    <2> QED BY <2>1 DEF CallRow, NoCall
<1>2. row.by = calls[c].by /\ row.token = calls[c].token /\ row.new = calls[c].new /\ row.point = point
    BY <1>0 DEF CallRow
<1>3. calls' = [calls EXCEPT ![c] = row]
    OBVIOUS
<1> HIDE DEF row
<1>4. /\ calls' \in [Slots -> CallRow \union {NoCall}] /\ calls'[c] = row
      /\ \A d \in Slots : d # c => calls'[d] = calls[d]
      /\ \A d : d # c => (d \in Busy' <=> d \in Busy)
      /\ c \in Busy' /\ Slots' = Slots
    BY <1>0, <1>1, <1>3, OneSlot
<1>5. CallTypes'
    BY <1>0, <1>4 DEF CallTypes
<1>6. LiveTokens' = LiveTokens
    BY DEF LiveTokens
<1>7. /\ \A d \in Busy' : d \in Busy /\ calls'[d].token = calls[d].token /\ calls'[d].new = calls[d].new
      /\ \A d \in Busy' : d # c => calls'[d] = calls[d]
      /\ calls'[c].by = calls[c].by /\ calls'[c].point = point
    BY <1>2, <1>4 DEF Busy
<1>8. ASSUME NEW d \in Busy' PROVE CallOK(d)'
    <2>0. CallOK(d) /\ CallOK(c)
        BY <1>7 DEF ServerInv
    <2>1. CASE d = c
        <3>1. CallFits(calls[c], LiveTokens, Len(tokens)) /\ 0 \notin LiveTokens
            BY <1>0, <2>0, LiveIsStored DEF CallOK
        <3>2. calls[c].by \in Tabs => calls[c].by \notin {Gone, TooLate}
            BY DEF SessionsAssumption
        <3>3. CallFits(row, LiveTokens, Len(tokens))
            <4>1. CASE point = "held"
                BY <1>2, <3>1, <4>1 DEF CallFits
            <4>2. CASE point = "checked"
                BY <1>2, <3>1, <4>2 DEF CallFits
            <4>3. CASE point = "refused"
                BY <1>2, <3>1, <3>2, <4>3 DEF CallFits
            <4>4. CASE point = "failed"
                BY <1>2, <3>1, <3>2, <4>4 DEF CallFits
            <4> QED BY <4>1, <4>2, <4>3, <4>4
        <3> QED BY <1>4, <1>6, <2>1, <3>3 DEF CallOK
    <2>2. CASE d # c
        <3>1. calls'[d] = calls[d]
            BY <1>7, <2>2
        <3> QED BY <1>6, <2>0, <3>1 DEF CallOK
    <2> QED BY <2>1, <2>2
<1>9. ASSUME NEW d \in Busy' PROVE SuccessorOK(d)'
    <2> SUFFICES ASSUME calls'[d].point = "answered" PROVE SuccessorOK(d)'
        BY DEF SuccessorOK
    <2>1. d # c /\ d \in Busy /\ calls'[d] = calls[d]
        BY <1>7
    <2>2. SuccessorOK(d)
        BY <2>1 DEF ServerInv
    <2>3. ASSUME NEW e \in Busy' PROVE calls'[e].token # calls[d].new
        BY <1>7, <2>1, <2>2 DEF SuccessorOK, IsNews
    <2>4. IsNews(calls[d].new)'
        BY <2>1, <2>2, <2>3 DEF SuccessorOK, IsNews
    <2>5. ASSUME NEW e \in Busy', calls'[e].point = "answered", calls'[e].new = calls[d].new
          PROVE  d = e
        <3>1. e # c
            BY <1>7, <2>5
        <3>2. e \in Busy /\ calls'[e] = calls[e]
            BY <1>7, <3>1
        <3> QED BY <2>1, <2>2, <2>5, <3>2 DEF SuccessorOK
    <2>6. calls[d].token \notin LiveTokens'
        BY <1>6, <2>1, <2>2 DEF SuccessorOK
    <2> QED BY <2>1, <2>4, <2>5, <2>6 DEF SuccessorOK
<1>10. OneHolder'
    <2> SUFFICES ASSUME NEW d \in Busy', NEW e \in Busy', d # e,
                        calls'[d].point \in {"held", "checked"}, calls'[e].point \in {"held", "checked"},
                        calls'[d].token = calls'[e].token
                 PROVE  FALSE
        BY DEF OneHolder
    <2>1. ASSUME NEW f \in Busy', f # c, calls'[f].point \in {"held", "checked"},
                 calls'[f].token = calls[c].token, point \in {"held", "checked"}
          PROVE  FALSE
        BY <1>7, <2>1 DEF RowFree, ServerInv, OneHolder
    <2> QED BY <1>7, <2>1 DEF ServerInv, OneHolder
<1> QED BY <1>5, <1>8, <1>9, <1>10 DEF ServerInv

(* A call dropped, with what is stored kept or cleared.                    *)
LEMMA DropKeeps ==
    ASSUME SessionsAssumption, ServerInv, NEW c \in Busy,
           calls' = [calls EXCEPT ![c] = NoCall], UNCHANGED tokens, stored' \in {stored, 0}
    PROVE  ServerInv'
<1>0. CallTypes /\ c \in Slots
    BY BusyCalls DEF ServerInv
<1>1. /\ calls' \in [Slots -> CallRow \union {NoCall}]
      /\ \A d \in Slots : d # c => calls'[d] = calls[d]
      /\ \A d : d # c => (d \in Busy' <=> d \in Busy)
      /\ c \notin Busy' /\ Slots' = Slots
    BY <1>0, OneSlot
<1>2. CallTypes'
    BY <1>0, <1>1, TokenNumbers DEF CallTypes
<1>3. LiveTokens' = LiveTokens
    BY DEF LiveTokens
<1>4. \A d \in Busy' : d \in Busy /\ calls'[d] = calls[d]
    BY <1>1 DEF Busy
<1>5. ASSUME NEW d \in Busy' PROVE CallOK(d)' /\ SuccessorOK(d)'
    <2>1. CallOK(d) /\ SuccessorOK(d) /\ calls'[d] = calls[d]
        BY <1>4 DEF ServerInv
    <2>2. CallOK(d)'
        BY <1>3, <2>1 DEF CallOK
    <2>3. \A k : IsNews(k) => IsNews(k)'
        BY <1>4 DEF IsNews
    <2>4. SuccessorOK(d)'
        BY <1>3, <1>4, <2>1, <2>3 DEF SuccessorOK
    <2> QED BY <2>2, <2>4
<1>6. OneHolder'
    BY <1>4 DEF ServerInv, OneHolder
<1> QED BY <1>2, <1>5, <1>6 DEF ServerInv

(* The successor is stored, and is on its way no more.                     *)
LEMMA ReceiveKeepsCalls ==
    ASSUME SessionsAssumption, ServerInv, NEW c \in Busy, calls[c].point = "answered",
           calls' = [calls EXCEPT ![c] = NoCall], UNCHANGED tokens, stored' = calls[c].new
    PROVE  ServerInv'
<1>0. CallTypes /\ c \in Slots /\ CallOK(c) /\ SuccessorOK(c)
    BY BusyCalls DEF ServerInv
<1>1. /\ calls' \in [Slots -> CallRow \union {NoCall}]
      /\ \A d \in Slots : d # c => calls'[d] = calls[d]
      /\ \A d : d # c => (d \in Busy' <=> d \in Busy)
      /\ c \notin Busy' /\ Slots' = Slots
    BY <1>0, OneSlot
<1>2. CallTypes'
    <2>1. stored' \in 0..Len(tokens)
        BY <1>0, TokenNumbers DEF CallOK, CallFits
    <2> QED BY <1>0, <1>1, <2>1 DEF CallTypes
<1>3. LiveTokens' = LiveTokens
    BY DEF LiveTokens
<1>4. \A d \in Busy' : d \in Busy /\ calls'[d] = calls[d] /\ d # c
    BY <1>1 DEF Busy
<1>5. ASSUME NEW d \in Busy' PROVE CallOK(d)' /\ SuccessorOK(d)'
    <2>1. CallOK(d) /\ SuccessorOK(d) /\ calls'[d] = calls[d] /\ d # c /\ d \in Busy
        BY <1>4 DEF ServerInv
    <2>2. CallOK(d)'
        BY <1>3, <2>1 DEF CallOK
    <2>3. calls[d].point = "answered" => calls[d].new # calls[c].new
        BY <2>1 DEF SuccessorOK
    <2>4. calls[d].point = "answered" => IsNews(calls[d].new)'
        BY <1>4, <2>1, <2>3 DEF IsNews, SuccessorOK
    <2>5. SuccessorOK(d)'
        BY <1>3, <1>4, <2>1, <2>4 DEF SuccessorOK
    <2> QED BY <2>2, <2>5
<1>6. OneHolder'
    BY <1>4 DEF ServerInv, OneHolder
<1> QED BY <1>2, <1>5, <1>6 DEF ServerInv

(* The calls after some were abandoned: those the server may still answer  *)
(* are known by a tab no more.                                             *)
LEMMA AbandonedCalls ==
    ASSUME SessionsAssumption, ServerInv, NEW S \in SUBSET Busy, NEW told \in BOOLEAN, Abandon(S, told)
    PROVE  /\ calls' \in [Slots -> CallRow \union {NoCall}]
           /\ \A d \in Busy' :
                /\ d \in Busy /\ calls'[d].token = calls[d].token /\ calls'[d].new = calls[d].new
                /\ calls'[d].point = calls[d].point
                /\ d \notin S => calls'[d] = calls[d]
                /\ d \in S => /\ calls[d].point \in {"sent", "held", "checked"}
                              /\ calls'[d].by = IF told /\ calls[d].point # "checked" THEN Gone ELSE TooLate
<1>0. CallTypes /\ Busy \subseteq Slots
    BY DEF ServerInv, Busy
<1> DEFINE Left(c) == [calls[c] EXCEPT !.by = IF told /\ calls[c].point # "checked" THEN Gone ELSE TooLate]
<1>1. ASSUME NEW c \in Busy
      PROVE  /\ Left(c) \in CallRow /\ Left(c).token = calls[c].token /\ Left(c).new = calls[c].new
             /\ Left(c).point = calls[c].point
             /\ Left(c).by = IF told /\ calls[c].point # "checked" THEN Gone ELSE TooLate
    <2>1. calls[c] \in CallRow
        BY <1>0, BusyCalls
    <2> QED BY <2>1 DEF CallRow
<1>2. calls' = [c \in Slots |->
          IF c \notin S THEN calls[c]
          ELSE IF calls[c].point \in {"answered", "refused", "failed"} THEN NoCall ELSE Left(c)]
    BY DEF Abandon
<1> HIDE DEF Left
<1>3. calls' \in [Slots -> CallRow \union {NoCall}]
    BY <1>0, <1>1, <1>2 DEF CallTypes
<1>4. ASSUME NEW d \in Busy', d \notin S PROVE d \in Busy /\ calls'[d] = calls[d]
    <2>1. d \in Slots /\ calls'[d] # NoCall
        BY DEF Busy, Slots
    <2>2. calls'[d] = calls[d]
        BY <1>2, <1>4, <2>1
    <2> QED BY <2>1, <2>2 DEF Busy
<1>5. ASSUME NEW d \in Busy', d \in S
      PROVE  calls[d].point \in {"sent", "held", "checked"} /\ calls'[d] = Left(d)
    <2>1. d \in Slots /\ calls'[d] # NoCall
        BY DEF Busy, Slots
    <2>2. calls[d].point \notin {"answered", "refused", "failed"} /\ calls'[d] = Left(d)
        BY <1>2, <1>5, <2>1
    <2>3. calls[d] \in CallRow
        BY <1>0, <1>5, BusyCalls
    <2>4. calls[d].point \in {"sent", "held", "checked", "refused", "failed", "answered"}
        BY <2>3 DEF CallRow
    <2> QED BY <2>2, <2>4
<1> QED BY <1>1, <1>3, <1>4, <1>5

(* A successor lost on its way leaves its predecessor spent.               *)
LEMMA AbandonedTokens ==
    ASSUME SessionsAssumption, ServerInv, NEW S \in SUBSET Busy, NEW told \in BOOLEAN, Abandon(S, told)
    PROVE  /\ tokens' \in Seq(TokenState) /\ Len(tokens') = Len(tokens) /\ DOMAIN tokens' = DOMAIN tokens
           /\ \A k \in DOMAIN tokens :
                /\ (\E c \in S : calls[c].token = k /\ calls[c].point = "answered") => tokens'[k] = "lost"
                /\ ~(\E c \in S : calls[c].token = k /\ calls[c].point = "answered") => tokens'[k] = tokens[k]
           /\ LiveTokens' = LiveTokens
<1>0. CallTypes
    BY DEF ServerInv
<1> DEFINE Spent(k) == \E c \in S : calls[c].token = k /\ calls[c].point = "answered"
<1>1. tokens' = [k \in DOMAIN tokens |-> IF Spent(k) THEN "lost" ELSE tokens[k]]
    BY DEF Abandon
<1>2. DOMAIN tokens = 1..Len(tokens) /\ Len(tokens) \in Nat
    BY <1>0, LiveIsStored
<1>3. \A k \in DOMAIN tokens : tokens[k] \in TokenState /\ "lost" \in TokenState
    BY <1>0 DEF CallTypes, TokenState
<1>4. ASSUME NEW k \in DOMAIN tokens, Spent(k) PROVE tokens[k] # "live"
    BY <1>4 DEF ServerInv, SuccessorOK, LiveTokens
<1> HIDE DEF Spent
<1>5. tokens' \in [1..Len(tokens) -> TokenState]
    BY <1>1, <1>2, <1>3
<1>6. tokens' \in Seq(TokenState) /\ Len(tokens') = Len(tokens) /\ DOMAIN tokens' = DOMAIN tokens
    BY <1>2, <1>5
<1>7. \A k \in DOMAIN tokens : tokens'[k] = IF Spent(k) THEN "lost" ELSE tokens[k]
    BY <1>1
<1>8. LiveTokens' = LiveTokens
    <2>1. \A k \in DOMAIN tokens : tokens'[k] = "live" <=> tokens[k] = "live"
        BY <1>4, <1>7
    <2> QED BY <1>6, <2>1 DEF LiveTokens
<1> QED BY <1>6, <1>7, <1>8 DEF Spent

(* Nobody waiting for a call changes nothing that was promised of it.      *)
LEMMA AbandonKeeps ==
    ASSUME SessionsAssumption, ServerInv, NEW S \in SUBSET Busy, NEW told \in BOOLEAN, Abandon(S, told), UNCHANGED stored
    PROVE  ServerInv'
<1>1. /\ calls' \in [Slots -> CallRow \union {NoCall}]
      /\ \A d \in Busy' :
           /\ d \in Busy /\ calls'[d].token = calls[d].token /\ calls'[d].new = calls[d].new
           /\ calls'[d].point = calls[d].point
           /\ d \notin S => calls'[d] = calls[d]
           /\ d \in S => /\ calls[d].point \in {"sent", "held", "checked"}
                         /\ calls'[d].by = IF told /\ calls[d].point # "checked" THEN Gone ELSE TooLate
    BY AbandonedCalls
<1>2. /\ tokens' \in Seq(TokenState) /\ Len(tokens') = Len(tokens) /\ DOMAIN tokens' = DOMAIN tokens
      /\ \A k \in DOMAIN tokens :
           /\ ~(\E c \in S : calls[c].token = k /\ calls[c].point = "answered") => tokens'[k] = tokens[k]
      /\ LiveTokens' = LiveTokens
    BY AbandonedTokens
<1>3. CallTypes'
    BY <1>1, <1>2 DEF ServerInv, CallTypes, Slots
<1>4. ASSUME NEW d \in Busy' PROVE CallOK(d)'
    <2>1. CallFits(calls[d], LiveTokens, Len(tokens)) /\ d \in Busy
        BY <1>1 DEF ServerInv, CallOK
    <2>2. CASE d \notin S
        BY <1>1, <1>2, <2>1, <2>2 DEF CallOK
    <2>3. CASE d \in S
        <3>1. Gone # TooLate
            BY DEF SessionsAssumption
        <3>2. /\ calls'[d].token = calls[d].token /\ calls'[d].new = calls[d].new
              /\ calls'[d].point = calls[d].point /\ calls[d].point \in {"sent", "held", "checked"}
              /\ calls'[d].by = IF told /\ calls[d].point # "checked" THEN Gone ELSE TooLate
            BY <1>1, <2>3
        <3>3. CallFits(calls'[d], LiveTokens, Len(tokens))
            BY <2>1, <3>1, <3>2 DEF CallFits
        <3> QED BY <1>2, <3>3 DEF CallOK
    <2> QED BY <2>2, <2>3
<1>5. ASSUME NEW d \in Busy' PROVE SuccessorOK(d)'
    <2> SUFFICES ASSUME calls'[d].point = "answered" PROVE SuccessorOK(d)'
        BY DEF SuccessorOK
    <2>1. d \in Busy /\ calls'[d].new = calls[d].new /\ calls'[d].token = calls[d].token
          /\ calls[d].point = "answered" /\ SuccessorOK(d)
        BY <1>1 DEF ServerInv
    <2>2. IsNews(calls[d].new) /\ calls[d].token \notin LiveTokens
        BY <2>1 DEF SuccessorOK
    <2>3. calls[d].new \in DOMAIN tokens
        <3>1. calls[d].new \in Nat /\ calls[d].new <= Len(tokens) /\ DOMAIN tokens = 1..Len(tokens)
              /\ calls[d].new # 0 /\ Len(tokens) \in Nat
            BY <2>1, <2>2, TokenNumbers DEF ServerInv, CallOK, CallFits, IsNews
        <3> QED BY <3>1
    <2>4. tokens'[calls[d].new] = tokens[calls[d].new]
        BY <1>2, <2>2, <2>3 DEF IsNews
    <2>5. IsNews(calls[d].new)'
        BY <1>1, <2>1, <2>2, <2>4 DEF IsNews
    <2>6. ASSUME NEW e \in Busy', calls'[e].point = "answered", calls'[e].new = calls'[d].new
          PROVE  d = e
        BY <1>1, <2>1, <2>6 DEF SuccessorOK
    <2> QED BY <1>2, <2>1, <2>2, <2>5, <2>6 DEF SuccessorOK
<1>6. OneHolder'
    BY <1>1 DEF ServerInv, OneHolder
<1> QED BY <1>3, <1>4, <1>5, <1>6 DEF ServerInv

(* Rows revoked are rows that no exchange holds.                           *)
LEMMA EndKeeps ==
    ASSUME SessionsAssumption, ServerInv, NEW S, \A k \in S : RowFree(k),
           tokens' = End(S), UNCHANGED <<calls, stored>>
    PROVE  ServerInv'
<1>0. CallTypes /\ DOMAIN tokens = 1..Len(tokens) /\ Len(tokens) \in Nat
    BY LiveIsStored DEF ServerInv
<1>1. tokens' = [k \in DOMAIN tokens |-> IF k \in S \intersect LiveTokens THEN "ended" ELSE tokens[k]]
    BY DEF End
<1>2. \A k \in DOMAIN tokens : tokens[k] \in TokenState /\ "ended" \in TokenState
    BY <1>0 DEF CallTypes, TokenState
<1>3. tokens' \in [1..Len(tokens) -> TokenState]
    BY <1>0, <1>1, <1>2
<1>4. tokens' \in Seq(TokenState) /\ Len(tokens') = Len(tokens) /\ DOMAIN tokens' = DOMAIN tokens
    BY <1>0, <1>3
<1>5. \A k \in DOMAIN tokens : tokens'[k] = IF k \in S \intersect LiveTokens THEN "ended" ELSE tokens[k]
    BY <1>1
<1>6. LiveTokens' = LiveTokens \ S
    BY <1>4, <1>5 DEF LiveTokens
<1>7. CallTypes'
    BY <1>0, <1>4 DEF CallTypes, Slots
<1>8. Busy' = Busy
    BY DEF Busy, Slots
<1>9. ASSUME NEW d \in Busy' PROVE CallOK(d)'
    <2>1. CallFits(calls[d], LiveTokens, Len(tokens))
        BY <1>8 DEF ServerInv, CallOK
    <2>2. calls[d].point \in {"held", "checked"} => calls[d].token \notin S
        BY <1>8 DEF RowFree
    <2>3. CallFits(calls[d], LiveTokens \ S, Len(tokens))
        BY <2>1, <2>2 DEF CallFits
    <2> QED BY <1>4, <1>6, <2>3 DEF CallOK
<1>10. ASSUME NEW d \in Busy' PROVE SuccessorOK(d)'
    <2> SUFFICES ASSUME calls[d].point = "answered" PROVE SuccessorOK(d)'
        BY DEF SuccessorOK
    <2>1. d \in Busy /\ SuccessorOK(d) /\ IsNews(calls[d].new) /\ calls[d].token \notin LiveTokens
        BY <1>8 DEF ServerInv, SuccessorOK
    <2>2. calls[d].new \in DOMAIN tokens
        <3>1. calls[d].new \in Nat /\ calls[d].new <= Len(tokens) /\ calls[d].new # 0
            BY <1>0, <2>1, TokenNumbers DEF ServerInv, CallOK, CallFits, IsNews
        <3> QED BY <1>0, <3>1
    <2>3. tokens'[calls[d].new] \in {"live", "ended"}
        BY <1>5, <2>1, <2>2 DEF IsNews
    <2>4. IsNews(calls[d].new)'
        BY <1>8, <2>1, <2>3 DEF IsNews
    <2> QED BY <1>6, <1>8, <2>1, <2>4 DEF SuccessorOK
<1>11. OneHolder'
    BY <1>8 DEF ServerInv, OneHolder
<1> QED BY <1>7, <1>9, <1>10, <1>11 DEF ServerInv

(* A row appended is one more of a kind.                                   *)
LEMMA OneMoreRow ==
    ASSUME NEW T, NEW s \in Seq(T), NEW e \in T
    PROVE  Append(s, e) \in Seq(T)
OBVIOUS

(* The table after a token was replaced: its successor is the new last     *)
(* row, and what else worked still does.                                   *)
LEMMA ReplacedTokens ==
    ASSUME SessionsAssumption, CallTypes, NEW k \in 0..Len(tokens), NEW how \in {"rotated", "lost"},
           Len(tokens) < MaxTokens, tokens' = Append(Replaced(k, how), "live")
    PROVE  /\ tokens' \in Seq(TokenState) /\ Len(tokens') = Len(tokens) + 1 /\ Len(tokens') <= MaxTokens
           /\ DOMAIN tokens' = DOMAIN tokens \union {Len(tokens) + 1}
           /\ tokens'[Len(tokens) + 1] = "live"
           /\ \A j \in DOMAIN tokens : tokens'[j] = IF j = k THEN how ELSE tokens[j]
           /\ LiveTokens' = (LiveTokens \ {k}) \union {Len(tokens) + 1}
<1>0. DOMAIN tokens = 1..Len(tokens) /\ Len(tokens) \in Nat /\ MaxTokens \in Nat
    BY TokenNumbers
<1> DEFINE kept == Replaced(k, how)
<1>1. /\ kept \in Seq(TokenState) /\ Len(kept) = Len(tokens) /\ DOMAIN kept = 1..Len(tokens)
      /\ \A j \in DOMAIN tokens : kept[j] = IF j = k THEN how ELSE tokens[j]
    <2>1. tokens \in Seq(TokenState) /\ how \in TokenState
        BY DEF CallTypes, TokenState
    <2>2. CASE k = 0
        BY <1>0, <2>1, <2>2 DEF Replaced
    <2>3. CASE k # 0
        <3>1. kept = [tokens EXCEPT ![k] = how] /\ k \in 1..Len(tokens)
            BY <1>0, <2>3 DEF Replaced
        <3> HIDE DEF kept
        <3> QED BY <1>0, <2>1, <3>1
    <2> QED BY <2>2, <2>3
<1>2. "live" \in TokenState
    BY DEF TokenState
<1> HIDE DEF kept
<1>3. tokens' = Append(kept, "live")
    BY DEF kept
<1>4. /\ tokens' \in Seq(TokenState) /\ Len(tokens') = Len(tokens) + 1
      /\ DOMAIN tokens' = 1..(Len(tokens) + 1) /\ tokens'[Len(tokens) + 1] = "live"
      /\ \A j \in 1..Len(tokens) : tokens'[j] = kept[j]
    <2>1. tokens' \in Seq(TokenState)
        <3>1. Append(kept, "live") \in Seq(TokenState)
            BY <1>1, <1>2, OneMoreRow
        <3> QED BY <1>3, <3>1
    <2>2. Len(tokens') = Len(tokens) + 1
        BY <1>1, <1>2, <1>3
    <2>3. tokens'[Len(tokens) + 1] = "live"
        BY <1>1, <1>2, <1>3
    <2>4. \A j \in 1..Len(tokens) : tokens'[j] = kept[j]
        BY <1>1, <1>2, <1>3
    <2> QED BY <1>0, <2>1, <2>2, <2>3, <2>4
<1>5. DOMAIN tokens' = DOMAIN tokens \union {Len(tokens) + 1} /\ Len(tokens') <= MaxTokens
    BY <1>0, <1>4
<1>6. \A j \in DOMAIN tokens : tokens'[j] = IF j = k THEN how ELSE tokens[j]
    BY <1>0, <1>1, <1>4
<1>7. LiveTokens' = (LiveTokens \ {k}) \union {Len(tokens) + 1}
    <2>1. how # "live" /\ Len(tokens) + 1 \notin DOMAIN tokens
        BY <1>0
    <2> QED BY <1>4, <1>5, <1>6, <2>1 DEF LiveTokens
<1> QED BY <1>4, <1>5, <1>6, <1>7

(* A successor is issued: whoever else held a row holds another one, and   *)
(* nobody has heard of the successor but the call it answers.              *)
LEMMA IssueKeeps ==
    ASSUME SessionsAssumption, ServerInv, NEW c \in Slots, Issue(c)
    PROVE  /\ ServerInv'
           /\ \A d \in Busy' : d \in Busy /\ calls'[d].token = calls[d].token /\ calls'[d].by = calls[d].by
           /\ \A d \in Busy' : d # c => calls'[d] = calls[d]
           /\ c \in Busy /\ (c \in Busy' <=> calls[c].by \in Tabs) /\ (c \in Busy' => calls'[c].point = "answered")
<1> DEFINE k == calls[c].token
           n == Len(tokens) + 1
           how == IF calls[c].by = TooLate THEN "lost" ELSE "rotated"
           told == [calls[c] EXCEPT !.point = "answered"]
           row == IF calls[c].by \in Tabs THEN [told EXCEPT !.new = n] ELSE NoCall
<1>0. /\ CallTypes /\ AboutToCommit(c) /\ Len(tokens) < MaxTokens /\ UNCHANGED stored
      /\ tokens' = Append(Replaced(k, how), "live") /\ calls' = [calls EXCEPT ![c] = row]
    BY DEF Issue, ServerInv
<1>1. c \in Busy /\ calls[c] \in CallRow
    BY <1>0, BusyCalls DEF AboutToCommit
<1>2. /\ Len(tokens) \in Nat /\ MaxTokens \in Nat /\ DOMAIN tokens = 1..Len(tokens)
      /\ \A d \in Busy : /\ calls[d].token \in Nat /\ calls[d].token <= Len(tokens)
                         /\ calls[d].new \in Nat /\ calls[d].new <= Len(tokens)
      /\ stored \in Nat /\ stored <= Len(tokens)
    BY <1>0, TokenNumbers DEF ServerInv, CallOK, CallFits
<1>3. how \in {"rotated", "lost"} /\ k \in 0..Len(tokens) /\ n \in Nat /\ n \in 0..MaxTokens
    BY <1>0, <1>1, <1>2
<1>4. /\ tokens' \in Seq(TokenState) /\ Len(tokens') = n /\ Len(tokens') <= MaxTokens
      /\ DOMAIN tokens' = DOMAIN tokens \union {n} /\ tokens'[n] = "live"
      /\ \A j \in DOMAIN tokens : tokens'[j] = IF j = k THEN how ELSE tokens[j]
      /\ LiveTokens' = (LiveTokens \ {k}) \union {n}
    BY <1>0, <1>3, ReplacedTokens
<1>5. calls[c].by \in Tabs =>
          /\ row \in CallRow /\ row # NoCall /\ row.by = calls[c].by /\ row.token = k
          /\ row.new = n /\ row.point = "answered"
    <2> SUFFICES ASSUME calls[c].by \in Tabs
                 PROVE  /\ row \in CallRow /\ row # NoCall /\ row.by = calls[c].by /\ row.token = k
                        /\ row.new = n /\ row.point = "answered"
        OBVIOUS
    <2>1. told \in CallRow /\ told.by = calls[c].by /\ told.token = k /\ told.point = "answered"
        BY <1>1 DEF CallRow
    <2> HIDE DEF told, n
    <2>2. row \in CallRow /\ row.by = told.by /\ row.token = told.token /\ row.new = n /\ row.point = told.point
        BY <1>3, <2>1 DEF CallRow
    <2>3. row # NoCall
        BY <2>1, <2>2 DEF NoCall
    <2> QED BY <2>1, <2>2, <2>3
<1>6. calls[c].by \notin Tabs => row = NoCall
    OBVIOUS
<1> HIDE DEF row, told, n, how
<1>7. /\ calls' \in [Slots -> CallRow \union {NoCall}] /\ calls'[c] = row
      /\ \A d \in Slots : d # c => calls'[d] = calls[d]
      /\ \A d : d # c => (d \in Busy' <=> d \in Busy)
      /\ c \in Busy' <=> row # NoCall
      /\ Slots' = Slots
    BY <1>0, <1>5, <1>6, OneSlot
<1>8. /\ \A d \in Busy' : d \in Busy /\ calls'[d].token = calls[d].token /\ calls'[d].by = calls[d].by
      /\ \A d \in Busy' : d # c => d \in Busy /\ calls'[d] = calls[d]
      /\ c \in Busy' <=> calls[c].by \in Tabs
      /\ c \in Busy' => calls'[c].point = "answered" /\ calls'[c].new = n
    BY <1>1, <1>5, <1>6, <1>7 DEF Busy
<1>9. n \notin LiveTokens /\ n # 0 /\ n # stored /\ (\A d \in Busy : calls[d].token # n /\ calls[d].new # n)
    BY <1>2, LiveIsStored DEF n, ServerInv
<1>10. CallTypes'
    BY <1>0, <1>2, <1>4, <1>7 DEF CallTypes, n
<1>11. ASSUME NEW d \in Busy', d # c PROVE CallOK(d)'
    <2>1. CallFits(calls[d], LiveTokens, Len(tokens)) /\ d \in Busy /\ calls'[d] = calls[d]
        BY <1>8, <1>11 DEF ServerInv, CallOK
    <2>2. calls[d].token <= n /\ calls[d].new <= n
        BY <1>2, <2>1 DEF n
    <2>3. calls[d].point \in {"held", "checked"} => calls[d].token # k
        <3> SUFFICES ASSUME calls[d].point \in {"held", "checked"}, calls[d].token = k PROVE FALSE
            OBVIOUS
        <3>1. calls[c].point = "checked"
            BY <1>0, <2>1 DEF AboutToCommit, CallFits
        <3> QED BY <1>1, <1>11, <2>1, <3>1 DEF ServerInv, OneHolder
    <2>4. calls[d].token # n
        BY <1>9, <2>1
    <2>5. CallFits(calls[d], (LiveTokens \ {k}) \union {n}, n)
        BY <2>1, <2>2, <2>3, <2>4 DEF CallFits
    <2> QED BY <1>4, <2>1, <2>5 DEF CallOK
<1>12. ASSUME c \in Busy' PROVE CallOK(c)'
    <2>1. calls[c].by \in Tabs /\ calls'[c] = row
        BY <1>7, <1>8, <1>12
    <2>2. calls[c].by # Gone /\ calls[c].by # TooLate
        BY <2>1 DEF SessionsAssumption
    <2>3. k <= n /\ n <= n
        BY <1>1, <1>2 DEF n
    <2>4. CallFits(row, (LiveTokens \ {k}) \union {n}, n)
        BY <1>5, <2>1, <2>2, <2>3 DEF CallFits
    <2> QED BY <1>4, <2>1, <2>4 DEF CallOK
<1>13. ASSUME NEW d \in Busy', d # c PROVE SuccessorOK(d)'
    <2> SUFFICES ASSUME calls'[d].point = "answered" PROVE SuccessorOK(d)'
        BY DEF SuccessorOK
    <2>1. d \in Busy /\ calls'[d] = calls[d] /\ SuccessorOK(d) /\ calls[d].point = "answered"
        BY <1>8, <1>13 DEF ServerInv
    <2>2. IsNews(calls[d].new) /\ calls[d].token \notin LiveTokens
        BY <2>1 DEF SuccessorOK
    <2>3. calls[d].new \in DOMAIN tokens /\ calls[d].new # k
        BY <1>1, <1>2, <2>1, <2>2 DEF IsNews
    <2>4. tokens'[calls[d].new] \in {"live", "ended"}
        BY <1>4, <2>2, <2>3 DEF IsNews
    <2>5. IsNews(calls[d].new)'
        BY <1>0, <1>8, <2>1, <2>2, <2>4 DEF IsNews
    <2>6. calls[d].token \notin LiveTokens'
        BY <1>4, <1>9, <2>1, <2>2
    <2>7. ASSUME NEW e \in Busy', calls'[e].point = "answered", calls'[e].new = calls[d].new
          PROVE  d = e
        <3>1. e # c
            BY <1>8, <1>9, <2>1, <2>7
        <3>2. e \in Busy /\ calls'[e] = calls[e]
            BY <1>8, <3>1
        <3> QED BY <2>1, <2>7, <3>2 DEF SuccessorOK
    <2> QED BY <2>1, <2>5, <2>6, <2>7 DEF SuccessorOK
<1>14. ASSUME c \in Busy' PROVE SuccessorOK(c)'
    <2>1. calls'[c].new = n /\ calls'[c].token = k
        BY <1>8, <1>14
    <2>2. k \notin LiveTokens'
        BY <1>1, <1>4, <1>9
    <2>3. IsNews(calls[c].new)'
        <3>1. n \notin {0, stored'} /\ tokens'[n] = "live"
            BY <1>0, <1>4, <1>9
        <3>2. \A e \in Busy' : calls'[e].token # n
            BY <1>8, <1>9
        <3> QED BY <2>1, <3>1, <3>2 DEF IsNews
    <2>4. ASSUME NEW e \in Busy', calls'[e].new = n PROVE c = e
        BY <1>8, <1>9, <2>4
    <2> QED BY <2>1, <2>2, <2>3, <2>4 DEF SuccessorOK
<1>15. OneHolder'
    BY <1>8 DEF ServerInv, OneHolder
<1>16. ServerInv'
    BY <1>10, <1>11, <1>12, <1>13, <1>14, <1>15 DEF ServerInv
<1> QED BY <1>1, <1>8, <1>16

-----------------------------------------------------------------------------
(* The tabs and the lock they wait for.                                    *)
RefreshesOf(t) == {c \in CallsOf(t) : calls[c].token # 0}

InQueue(t) == \E i \in DOMAIN queue : queue[i] = t

\* A tab has one refresh at most under way, and where there are locks makes
\* its call while it holds the lock.
TabOK(t) ==
    /\ page[t].status = "closed" => page[t].asking = "no"
    /\ RefreshesOf(t) # {} => page[t].asking \in {"first", "again"}
    /\ \A c, d \in RefreshesOf(t) : c = d
    /\ locks => (page[t].asking # "no" <=> InQueue(t))
    /\ locks /\ page[t].asking \in {"first", "again"} => queue[1] = t

NobodyTwice == \A i, j \in DOMAIN queue : queue[i] = queue[j] => i = j

TabsInv ==
    /\ page \in [Tabs -> PageRow] /\ queue \in Seq(Tabs)
    /\ NobodyTwice
    /\ ~locks => queue = <<>>
    /\ \A t \in Tabs : TabOK(t)

(* Who leaves the queue leaves the others in their order.                  *)
LEMMA WithoutOne ==
    ASSUME NEW t \in Tabs, queue \in Seq(Tabs), NobodyTwice, queue' = Without(t)
    PROVE  /\ queue' \in Seq(Tabs) /\ NobodyTwice'
           /\ \A u : InQueue(u)' <=> InQueue(u) /\ u # t
           /\ \A u : u # t /\ InQueue(u) /\ queue[1] = u => queue'[1] = u
           /\ queue = <<>> => queue' = <<>>
<1> DEFINE place == CHOOSE i \in DOMAIN queue : queue[i] = t
           n == Len(queue)
           From(i) == IF i < place THEN i ELSE i + 1
<1>0. n \in Nat /\ DOMAIN queue = 1..n /\ \A i \in 1..n : queue[i] \in Tabs
    OBVIOUS
<1>1. CASE ~InQueue(t)
    <2>1. queue' = queue
        BY <1>1 DEF Without, InQueue
    <2> QED BY <1>1, <2>1 DEF InQueue, NobodyTwice
<1>2. CASE InQueue(t)
    <2>1. place \in 1..n /\ queue[place] = t
        BY <1>0, <1>2 DEF InQueue
    <2>2. queue' = [i \in 1..(n - 1) |-> IF i < place THEN queue[i] ELSE queue[i + 1]]
        BY <1>2 DEF Without, InQueue
    <2> HIDE DEF place, n
    <2>3. n - 1 \in Nat
        BY <1>0, <2>1
    <2>4. ASSUME NEW i \in 1..(n - 1)
          PROVE  From(i) \in 1..n /\ From(i) # place /\ queue'[i] = queue[From(i)]
        BY <1>0, <2>1, <2>2
    <2>5. queue' \in [1..(n - 1) -> Tabs]
        BY <1>0, <2>2, <2>4
    <2>6. queue' \in Seq(Tabs) /\ DOMAIN queue' = 1..(n - 1)
        BY <2>3, <2>5
    <2>7. ASSUME NEW i \in 1..(n - 1), NEW j \in 1..(n - 1), From(i) = From(j) PROVE i = j
        BY <1>0, <2>1, <2>7
    <2>8. ASSUME NEW i \in 1..n, i # place PROVE \E j \in 1..(n - 1) : From(j) = i
        <3>1. CASE i < place
            <4>1. i \in 1..(n - 1) /\ From(i) = i
                BY <1>0, <2>1, <3>1
            <4> QED BY <4>1
        <3>2. CASE ~(i < place)
            <4>1. i - 1 \in 1..(n - 1) /\ From(i - 1) = i
                BY <1>0, <2>1, <2>8, <3>2
            <4> QED BY <4>1
        <3> QED BY <3>1, <3>2
    <2> HIDE DEF From
    <2>9. NobodyTwice'
        BY <1>0, <2>4, <2>6, <2>7 DEF NobodyTwice
    <2>10. ASSUME NEW u PROVE InQueue(u)' <=> InQueue(u) /\ u # t
        <3>1. InQueue(u)' => InQueue(u) /\ u # t
            <4> SUFFICES ASSUME NEW i \in DOMAIN queue', queue'[i] = u PROVE InQueue(u) /\ u # t
                BY DEF InQueue
            <4>1. From(i) \in 1..n /\ From(i) # place /\ queue[From(i)] = u
                BY <2>4, <2>6
            <4> QED BY <1>0, <2>1, <4>1 DEF InQueue, NobodyTwice
        <3>2. InQueue(u) /\ u # t => InQueue(u)'
            <4> SUFFICES ASSUME NEW i \in 1..n, queue[i] = u, u # t PROVE InQueue(u)'
                BY <1>0 DEF InQueue
            <4>1. PICK j \in 1..(n - 1) : From(j) = i
                BY <2>1, <2>8
            <4> QED BY <2>4, <2>6, <4>1 DEF InQueue
        <3> QED BY <3>1, <3>2
    <2>11. ASSUME NEW u, u # t, InQueue(u), queue[1] = u PROVE queue'[1] = u
        <3>1. place # 1 /\ n >= 2
            BY <1>0, <2>1, <2>11
        <3>2. 1 \in 1..(n - 1) /\ From(1) = 1
            BY <1>0, <2>1, <3>1 DEF From
        <3> QED BY <2>4, <2>11, <3>2
    <2>12. queue # <<>>
        BY <1>0, <2>1
    <2> QED BY <2>6, <2>9, <2>10, <2>11, <2>12
<1> QED BY <1>1, <1>2

(* No page moved in its refresh, and no call of one came up.               *)
LEMMA SamePagesKeep ==
    ASSUME TabsInv, UNCHANGED <<locks, queue>>, page' \in [Tabs -> PageRow],
           \A u \in Tabs : /\ page'[u].asking = page[u].asking
                           /\ page'[u].status = "closed" => page[u].status = "closed"
                           /\ RefreshesOf(u)' \subseteq RefreshesOf(u)
    PROVE  TabsInv'
<1>1. NobodyTwice' /\ \A u : InQueue(u)' <=> InQueue(u)
    BY DEF TabsInv, NobodyTwice, InQueue
<1>2. ASSUME NEW u \in Tabs PROVE TabOK(u)'
    BY <1>1 DEF TabsInv, TabOK
<1> QED BY <1>1, <1>2 DEF TabsInv

(* A refresh over gives up the lock, or the wait for it.                   *)
LEMMA ReleaseKeeps ==
    ASSUME TabsInv, NEW t \in Tabs, UNCHANGED locks, queue' = Without(t),
           page' \in [Tabs -> PageRow], page'[t].asking = "no",
           \A u \in Tabs : u # t => page'[u] = page[u],
           \A u \in Tabs : RefreshesOf(u)' \subseteq RefreshesOf(u),
           RefreshesOf(t)' = {}
    PROVE  TabsInv'
<1>1. /\ queue' \in Seq(Tabs) /\ NobodyTwice'
      /\ \A u : InQueue(u)' <=> InQueue(u) /\ u # t
      /\ \A u : u # t /\ InQueue(u) /\ queue[1] = u => queue'[1] = u
      /\ queue = <<>> => queue' = <<>>
    BY WithoutOne DEF TabsInv
<1>2. TabOK(t)'
    BY <1>1 DEF TabOK
<1>3. ASSUME NEW u \in Tabs, u # t PROVE TabOK(u)'
    <2>1. TabOK(u) /\ page'[u] = page[u]
        BY <1>3 DEF TabsInv
    <2> QED BY <1>1, <1>3, <2>1 DEF TabOK
<1> QED BY <1>1, <1>2, <1>3 DEF TabsInv

(* A tab that asks is the last to wait.                                    *)
LEMMA AskKeeps ==
    ASSUME TabsInv, NEW t \in Tabs, NEW status \in {"loading", "in"}, Ask(t, status),
           page[t].asking = "no", UNCHANGED <<locks, calls>>
    PROVE  TabsInv'
<1>1. /\ page \in [Tabs -> PageRow] /\ queue \in Seq(Tabs)
      /\ page' = [page EXCEPT ![t].asking = "queued", ![t].status = status]
      /\ queue' = IF locks THEN Append(queue, t) ELSE queue
    BY DEF TabsInv, Ask
<1>2. /\ page' \in [Tabs -> PageRow] /\ page'[t].asking = "queued" /\ page'[t].status = status
      /\ \A u \in Tabs : u # t => page'[u] = page[u]
    BY <1>1 DEF PageRow
<1>3. \A u \in Tabs : RefreshesOf(u)' = RefreshesOf(u)
    BY DEF RefreshesOf, CallsOf, Busy, Slots
<1>4. TabOK(t)
    BY DEF TabsInv
<1>5. CASE ~locks
    <2>1. queue' = queue
        BY <1>1, <1>5
    <2>2. NobodyTwice'
        BY <2>1 DEF NobodyTwice, TabsInv
    <2>3. ASSUME NEW u \in Tabs PROVE TabOK(u)'
        BY <1>2, <1>3, <1>4, <1>5 DEF TabOK, TabsInv
    <2> QED BY <1>2, <1>5, <2>1, <2>2, <2>3 DEF TabsInv
<1>6. CASE locks
    <2>1. /\ queue' \in Seq(Tabs) /\ DOMAIN queue' = DOMAIN queue \union {Len(queue) + 1}
          /\ queue'[Len(queue) + 1] = t /\ \A i \in DOMAIN queue : queue'[i] = queue[i]
        BY <1>1, <1>6
    <2>2. ~InQueue(t)
        BY <1>4, <1>6 DEF TabOK
    <2>3. NobodyTwice'
        BY <2>1, <2>2 DEF NobodyTwice, InQueue, TabsInv
    <2>4. \A u : InQueue(u)' <=> InQueue(u) \/ u = t
        BY <2>1 DEF InQueue
    <2>5. ASSUME NEW u \in Tabs, u # t PROVE TabOK(u)'
        <3>1. TabOK(u) /\ page'[u] = page[u] /\ RefreshesOf(u)' = RefreshesOf(u)
            BY <1>2, <1>3, <2>5 DEF TabsInv
        <3>2. InQueue(u) => queue'[1] = queue[1]
            BY <1>1, <2>1 DEF InQueue
        <3> QED BY <1>6, <2>4, <2>5, <3>1, <3>2 DEF TabOK
    <2>6. TabOK(t)'
        BY <1>2, <1>3, <1>4, <1>6, <2>4 DEF TabOK
    <2> QED BY <1>2, <1>6, <2>1, <2>3, <2>5, <2>6 DEF TabsInv
<1> QED BY <1>5, <1>6

(* A tab that holds the lock has its one call out.                         *)
LEMMA HoldKeeps ==
    ASSUME TabsInv, NEW t \in Tabs, NEW asking \in {"first", "again"}, NEW c,
           page' = [page EXCEPT ![t].asking = asking], UNCHANGED <<locks, queue>>,
           page[t].asking # "no", locks => queue[1] = t,
           \A u \in Tabs : u # t => RefreshesOf(u)' \subseteq RefreshesOf(u),
           RefreshesOf(t)' \subseteq {c}
    PROVE  TabsInv'
<1>1. page \in [Tabs -> PageRow] /\ TabOK(t)
    BY DEF TabsInv
<1>2. /\ page' \in [Tabs -> PageRow] /\ page'[t].asking = asking /\ page'[t].status = page[t].status
      /\ \A u \in Tabs : u # t => page'[u] = page[u]
    BY <1>1 DEF PageRow
<1>3. NobodyTwice' /\ \A u : InQueue(u)' <=> InQueue(u)
    BY DEF TabsInv, NobodyTwice, InQueue
<1>4. TabOK(t)'
    BY <1>1, <1>2, <1>3 DEF TabOK
<1>5. ASSUME NEW u \in Tabs, u # t PROVE TabOK(u)'
    <2>1. TabOK(u) /\ page'[u] = page[u] /\ RefreshesOf(u)' \subseteq RefreshesOf(u)
        BY <1>2, <1>5 DEF TabsInv
    <2> QED BY <1>3, <2>1 DEF TabOK
<1> QED BY <1>2, <1>3, <1>4, <1>5 DEF TabsInv

(* Where tabs are coordinated one refresh of theirs is out at a time.      *)
LEMMA OneRefresh ==
    ASSUME TabsInv, locks, NEW c \in Busy, NEW d \in Busy,
           calls[c].by \in Tabs, calls[d].by \in Tabs, calls[c].token # 0, calls[d].token # 0
    PROVE  c = d
<1>1. c \in RefreshesOf(calls[c].by) /\ d \in RefreshesOf(calls[d].by)
    BY DEF RefreshesOf, CallsOf
<1>2. TabOK(calls[c].by) /\ TabOK(calls[d].by)
    BY DEF TabsInv
<1>3. queue[1] = calls[c].by /\ queue[1] = calls[d].by
    BY <1>1, <1>2 DEF TabOK
<1> QED BY <1>1, <1>2, <1>3 DEF TabOK

-----------------------------------------------------------------------------
(* What a tab presents where tabs are coordinated is not a token another   *)
(* tab has had replaced.                                                   *)
Coordinated ==
    locks => \A c \in Busy :
        /\ calls[c].by \in Tabs /\ calls[c].token # 0 /\ calls[c].point # "answered"
        => tokens[calls[c].token] # "rotated"

\* A stored token that was replaced has its successor on its way.
SuccessorComes ==
    stored # 0 /\ tokens[stored] = "rotated" =>
        \E c \in Busy : calls[c].token = stored /\ calls[c].point = "answered"

(* What is stored is a row of the table.                                   *)
LEMMA StoredIsARow ==
    ASSUME SessionsAssumption, ServerInv
    PROVE  /\ stored # 0 => stored \in DOMAIN tokens /\ tokens[stored] \in TokenState
           /\ \A c \in Busy : calls[c].token # 0 => calls[c].token \in DOMAIN tokens
<1>1. CallTypes
    BY DEF ServerInv
<1>2. stored # 0 => stored \in DOMAIN tokens
    BY <1>1, TokenNumbers
<1>3. \A k \in DOMAIN tokens : tokens[k] \in TokenState
    BY <1>1 DEF CallTypes
<1>4. ASSUME NEW c \in Busy, calls[c].token # 0 PROVE calls[c].token \in DOMAIN tokens
    BY <1>1, <1>4, TokenNumbers DEF ServerInv, CallOK, CallFits
<1> QED BY <1>2, <1>3, <1>4

(* No successor came up or was stored; at most calls moved or ended.       *)
LEMMA SameTokensKeep ==
    ASSUME Coordinated, SuccessorComes, UNCHANGED <<locks, tokens>>, stored' \in {stored, 0},
           \A d \in Busy' : /\ d \in Busy /\ calls'[d].token = calls[d].token /\ calls'[d].by = calls[d].by
                            /\ calls[d].point = "answered" => calls'[d].point = "answered",
           \A d \in Busy : calls[d].point = "answered" => d \in Busy'
    PROVE  Coordinated' /\ SuccessorComes'
<1>1. Coordinated'
    BY DEF Coordinated
<1>2. SuccessorComes'
    BY DEF SuccessorComes
<1> QED BY <1>1, <1>2

(* A call begun presents what nobody else is having replaced.              *)
LEMMA PresentedIsCurrent ==
    ASSUME Coordinated, SuccessorComes, NEW c, NEW t \in Tabs, NEW k, k = 0 \/ k = stored,
           \A d \in Slots : d # c => calls'[d] = calls[d],
           \A d : d # c => (d \in Busy' <=> d \in Busy),
           calls'[c] = Call(t, k), c \in Busy => calls[c].point # "answered",
           UNCHANGED <<locks, tokens, stored>>,
           k # 0 /\ locks => \A d \in Busy : calls[d].by \in Tabs /\ calls[d].token # 0 => d = c,
           \A d \in Busy : calls[d].point = "answered" => calls[d].by \in Tabs
    PROVE  Coordinated' /\ SuccessorComes'
<1>1. calls'[c].token = k /\ calls'[c].point = "sent"
    BY DEF Call
<1>2. \A d \in Busy' : d # c => d \in Busy /\ calls'[d] = calls[d]
    BY DEF Busy, Slots
<1>3. \A d \in Busy : d # c => d \in Busy' /\ calls'[d] = calls[d]
    BY DEF Busy, Slots
<1>4. k # 0 /\ locks => tokens[k] # "rotated"
    BY DEF SuccessorComes
<1>5. Coordinated'
    BY <1>1, <1>2, <1>4 DEF Coordinated
<1>6. SuccessorComes'
    BY <1>3 DEF SuccessorComes
<1> QED BY <1>5, <1>6

(* A successor whose tab has gone is lost, and said to be.                 *)
LEMMA AbandonKeepsTokens ==
    ASSUME SessionsAssumption, ServerInv, Coordinated, SuccessorComes,
           NEW S \in SUBSET Busy, NEW told \in BOOLEAN, Abandon(S, told), UNCHANGED <<locks, stored>>
    PROVE  Coordinated' /\ SuccessorComes'
<1>1. \A d \in Busy' :
          /\ d \in Busy /\ calls'[d].token = calls[d].token /\ calls'[d].point = calls[d].point
          /\ d \notin S => calls'[d] = calls[d]
          /\ d \in S => calls'[d].by \in {Gone, TooLate}
    BY AbandonedCalls
<1>2. /\ DOMAIN tokens' = DOMAIN tokens
      /\ \A k \in DOMAIN tokens :
           /\ (\E c \in S : calls[c].token = k /\ calls[c].point = "answered") => tokens'[k] = "lost"
           /\ ~(\E c \in S : calls[c].token = k /\ calls[c].point = "answered") => tokens'[k] = tokens[k]
    BY AbandonedTokens
<1>3. \A k \in DOMAIN tokens : tokens'[k] = "rotated" => tokens[k] = "rotated"
    BY <1>2
<1>4. Coordinated'
    <2> SUFFICES ASSUME locks, NEW d \in Busy', calls'[d].by \in Tabs, calls'[d].token # 0,
                        calls'[d].point # "answered", tokens'[calls'[d].token] = "rotated"
                 PROVE  FALSE
        BY DEF Coordinated
    <2>1. d \notin S
        BY <1>1 DEF SessionsAssumption
    <2>2. d \in Busy /\ calls'[d] = calls[d] /\ calls[d].token \in DOMAIN tokens
        BY <1>1, <2>1, StoredIsARow
    <2> QED BY <1>3, <2>2 DEF Coordinated
<1>5. SuccessorComes'
    <2> SUFFICES ASSUME stored # 0, tokens'[stored] = "rotated"
                 PROVE  \E c \in Busy' : calls'[c].token = stored /\ calls'[c].point = "answered"
        BY DEF SuccessorComes
    <2>1. stored \in DOMAIN tokens
        BY StoredIsARow
    <2>2. PICK c \in Busy : calls[c].token = stored /\ calls[c].point = "answered"
        BY <1>3, <2>1 DEF SuccessorComes
    <2>3. c \notin S
        BY <1>2, <2>1, <2>2
    <2>4. c \in Busy' /\ calls'[c] = calls[c]
        BY <2>3 DEF Abandon, Busy, Slots
    <2> QED BY <2>2, <2>4
<1> QED BY <1>4, <1>5

(* Rows revoked are not rows replaced.                                     *)
LEMMA EndKeepsTokens ==
    ASSUME SessionsAssumption, ServerInv, Coordinated, SuccessorComes, NEW S,
           tokens' = End(S), UNCHANGED <<locks, stored, calls>>
    PROVE  Coordinated' /\ SuccessorComes'
<1>1. \A k \in DOMAIN tokens : tokens'[k] = "rotated" => tokens[k] = "rotated"
    BY DEF End
<1>2. Busy' = Busy
    BY DEF Busy, Slots
<1>3. Coordinated'
    BY <1>1, <1>2, StoredIsARow DEF Coordinated
<1>4. SuccessorComes'
    BY <1>1, <1>2, StoredIsARow DEF SuccessorComes
<1> QED BY <1>3, <1>4

(* The token replaced is the issuing call's own, and no other tab's.       *)
LEMMA IssueKeepsTokens ==
    ASSUME SessionsAssumption, ServerInv, TabsInv, Coordinated, SuccessorComes, NEW c \in Slots, Issue(c)
    PROVE  Coordinated' /\ SuccessorComes'
<1> DEFINE k == calls[c].token
           how == IF calls[c].by = TooLate THEN "lost" ELSE "rotated"
<1>1. /\ CallTypes /\ AboutToCommit(c) /\ Len(tokens) < MaxTokens /\ UNCHANGED <<locks, stored>>
      /\ tokens' = Append(Replaced(k, how), "live")
    BY DEF Issue, ServerInv
<1>2. /\ c \in Busy /\ (c \in Busy' <=> calls[c].by \in Tabs)
      /\ c \in Busy' => calls'[c].point = "answered"
      /\ \A d \in Busy' : d \in Busy /\ calls'[d].token = calls[d].token /\ calls'[d].by = calls[d].by
      /\ \A d \in Busy' : d # c => calls'[d] = calls[d]
    BY IssueKeeps
<1>3. \A d \in Busy : d # c => d \in Busy'
    BY DEF Issue, Busy, Slots
<1>4. CallFits(calls[c], LiveTokens, Len(tokens)) /\ calls[c] \in CallRow
    BY <1>1, <1>2, BusyCalls DEF ServerInv, CallOK
<1>5. k # 0 /\ how = "rotated" => calls[c].by \in Tabs
    <2>1. k # 0 => calls[c].point = "checked"
        BY <1>1 DEF AboutToCommit
    <2>2. calls[c].by \in Tabs \union {Gone, TooLate}
        BY <1>4 DEF CallRow
    <2> QED BY <1>4, <2>1, <2>2 DEF CallFits
<1>6. k \in 0..Len(tokens) /\ how \in {"rotated", "lost"}
    BY <1>1, <1>2, <1>4, TokenNumbers DEF CallFits
<1>7. \A j \in DOMAIN tokens : tokens'[j] = IF j = k THEN how ELSE tokens[j]
    BY <1>1, <1>6, ReplacedTokens
<1> HIDE DEF how
<1>8. Coordinated'
    <2> SUFFICES ASSUME locks, NEW d \in Busy', calls'[d].by \in Tabs, calls'[d].token # 0,
                        calls'[d].point # "answered", tokens'[calls'[d].token] = "rotated"
                 PROVE  FALSE
        BY <1>1 DEF Coordinated
    <2>1. d # c
        BY <1>2
    <2>2. d \in Busy /\ calls'[d] = calls[d] /\ calls[d].token \in DOMAIN tokens
        BY <1>2, <2>1, StoredIsARow
    <2>3. CASE calls[d].token = k
        <3>1. how = "rotated" /\ k # 0
            BY <1>7, <2>2, <2>3
        <3> QED BY <1>2, <1>5, <2>1, <2>2, <3>1, OneRefresh
    <2>4. CASE calls[d].token # k
        BY <1>7, <2>2, <2>4 DEF Coordinated
    <2> QED BY <2>3, <2>4
<1>9. SuccessorComes'
    <2> SUFFICES ASSUME stored # 0, tokens'[stored] = "rotated"
                 PROVE  \E d \in Busy' : calls'[d].token = stored /\ calls'[d].point = "answered"
        BY <1>1 DEF SuccessorComes
    <2>1. stored \in DOMAIN tokens
        BY StoredIsARow
    <2>2. CASE stored = k
        <3>1. how = "rotated" /\ k # 0
            BY <1>7, <2>1, <2>2
        <3> QED BY <1>2, <1>5, <2>2, <3>1
    <2>3. CASE stored # k
        <3>1. PICK d \in Busy : calls[d].token = stored /\ calls[d].point = "answered"
            BY <1>7, <2>1, <2>3 DEF SuccessorComes
        <3>2. d # c
            BY <2>3, <3>1
        <3> QED BY <1>2, <1>3, <3>1, <3>2
    <2> QED BY <2>2, <2>3
<1> QED BY <1>8, <1>9

(* The successor stored was not itself replaced.                           *)
LEMMA ReceiveKeepsTokens ==
    ASSUME ServerInv, Coordinated, NEW c \in Busy, calls[c].point = "answered",
           calls' = [calls EXCEPT ![c] = NoCall], UNCHANGED <<locks, tokens>>, stored' = calls[c].new
    PROVE  Coordinated' /\ SuccessorComes'
<1>1. tokens[calls[c].new] \in {"live", "ended"}
    BY DEF ServerInv, SuccessorOK, IsNews
<1>2. \A d \in Busy' : d \in Busy /\ calls'[d] = calls[d]
    <2>1. CallTypes /\ c \in Slots /\ NoCall \in CallRow \union {NoCall}
        BY BusyCalls DEF ServerInv
    <2> QED BY <2>1, OneSlot DEF Busy
<1>3. Coordinated'
    BY <1>2 DEF Coordinated
<1>4. SuccessorComes'
    BY <1>1 DEF SuccessorComes
<1> QED BY <1>3, <1>4

-----------------------------------------------------------------------------
(* There is a slot for every refresh that will need one.                   *)
Waiting == {t \in Tabs : page[t].asking = "queued"}

RoomOK == Cardinality(Busy) + Cardinality(Waiting) <= MaxCalls

(* The slots are as many as the calls there may be.                        *)
LEMMA Sizes ==
    ASSUME SessionsAssumption
    PROVE  /\ IsFiniteSet(Slots) /\ Cardinality(Slots) = MaxCalls /\ MaxCalls \in Nat
           /\ IsFiniteSet(Busy) /\ IsFiniteSet(Waiting)
           /\ Cardinality(Busy) \in Nat /\ Cardinality(Waiting) \in Nat
<1>1. MaxCalls \in Nat \ {0} /\ IsFiniteSet(Tabs)
    BY DEF SessionsAssumption
<1>2. IsFiniteSet(Slots) /\ Cardinality(Slots) = MaxCalls
    <2>1. IsFiniteSet(1..MaxCalls) /\ Cardinality(1..MaxCalls) = IF 1 > MaxCalls THEN 0 ELSE MaxCalls - 1 + 1
        BY <1>1, FS_Interval
    <2> QED BY <1>1, <2>1 DEF Slots
<1>3. Busy \in SUBSET Slots /\ Waiting \in SUBSET Tabs
    BY DEF Busy, Waiting
<1>4. IsFiniteSet(Busy) /\ IsFiniteSet(Waiting)
    BY <1>1, <1>2, <1>3, FS_Subset
<1> QED BY <1>1, <1>2, <1>4, FS_CardinalityType

(* While not all slots are busy the one chosen is not.                     *)
LEMMA FreeSlotIsFree ==
    ASSUME SessionsAssumption, Cardinality(Busy) < MaxCalls
    PROVE  FreeSlot \in Slots /\ FreeSlot \notin Busy
<1>1. Busy # Slots
    BY Sizes
<1>2. \E c \in Slots : c \notin Busy
    BY <1>1 DEF Busy
<1> QED BY <1>2 DEF FreeSlot

(* A set that gains one element at most grows by one.                      *)
LEMMA OneMore ==
    ASSUME NEW S, NEW T, NEW x, IsFiniteSet(S), T \subseteq S \union {x}
    PROVE  Cardinality(T) \in Nat /\ Cardinality(S) \in Nat /\ Cardinality(T) <= Cardinality(S) + 1
<1>1. /\ IsFiniteSet(S \union {x})
      /\ Cardinality(S \union {x}) = IF x \in S THEN Cardinality(S) ELSE Cardinality(S) + 1
    BY FS_AddElement
<1>2. IsFiniteSet(T) /\ Cardinality(T) <= Cardinality(S \union {x})
    BY <1>1, FS_Subset
<1>3. Cardinality(T) \in Nat /\ Cardinality(S) \in Nat
    BY <1>2, FS_CardinalityType
<1> QED BY <1>1, <1>2, <1>3

(* Fewer calls and fewer waiting leave the room there was.                 *)
LEMMA RoomStays ==
    ASSUME SessionsAssumption, RoomOK, Busy' \subseteq Busy, Waiting' \subseteq Waiting
    PROVE  RoomOK'
<1>1. Cardinality(Busy') <= Cardinality(Busy) /\ Cardinality(Waiting') <= Cardinality(Waiting)
    BY Sizes, FS_Subset
<1>2. Cardinality(Busy') \in Nat /\ Cardinality(Waiting') \in Nat
    BY Sizes, FS_Subset, FS_CardinalityType
<1> QED BY <1>1, <1>2, Sizes DEF RoomOK

(* Who asks, or signs in, takes room there is.                             *)
LEMMA RoomTaken ==
    ASSUME SessionsAssumption, Room, NEW x,
           \/ Busy' \subseteq Busy \union {x} /\ Waiting' \subseteq Waiting
           \/ Busy' \subseteq Busy /\ Waiting' \subseteq Waiting \union {x}
    PROVE  RoomOK'
<1>1. Cardinality(Busy) + Cardinality(Waiting) < MaxCalls
    BY DEF Room, Waiting
<1>2. CASE Busy' \subseteq Busy \union {x} /\ Waiting' \subseteq Waiting
    <2>1. Cardinality(Busy') \in Nat /\ Cardinality(Busy') <= Cardinality(Busy) + 1
        BY <1>2, Sizes, OneMore
    <2>2. Cardinality(Waiting') \in Nat /\ Cardinality(Waiting') <= Cardinality(Waiting)
        BY <1>2, Sizes, FS_Subset, FS_CardinalityType
    <2> QED BY <1>1, <2>1, <2>2, Sizes DEF RoomOK
<1>3. CASE Busy' \subseteq Busy /\ Waiting' \subseteq Waiting \union {x}
    <2>1. Cardinality(Waiting') \in Nat /\ Cardinality(Waiting') <= Cardinality(Waiting) + 1
        BY <1>3, Sizes, OneMore
    <2>2. Cardinality(Busy') \in Nat /\ Cardinality(Busy') <= Cardinality(Busy)
        BY <1>3, Sizes, FS_Subset, FS_CardinalityType
    <2> QED BY <1>1, <2>1, <2>2, Sizes DEF RoomOK
<1> QED BY <1>2, <1>3

(* Who waited makes a call of the room kept for it.                        *)
LEMMA RoomUsed ==
    ASSUME SessionsAssumption, RoomOK, NEW t \in Waiting, NEW x,
           Busy' \subseteq Busy \union {x}, Waiting' \subseteq Waiting \ {t}
    PROVE  RoomOK' /\ Cardinality(Busy) < MaxCalls
<1>1. Cardinality(Busy') \in Nat /\ Cardinality(Busy') <= Cardinality(Busy) + 1
    BY Sizes, OneMore
<1>2. IsFiniteSet(Waiting \ {t}) /\ Cardinality(Waiting \ {t}) = Cardinality(Waiting) - 1
    BY Sizes, FS_RemoveElement
<1>3. Cardinality(Waiting') \in Nat /\ Cardinality(Waiting') <= Cardinality(Waiting) - 1
    BY <1>2, FS_Subset, FS_CardinalityType
<1> QED BY <1>1, <1>3, Sizes DEF RoomOK

-----------------------------------------------------------------------------
(* The inductive invariant, in its parts.                                  *)
SessionInv ==
    /\ locks \in BOOLEAN
    /\ ServerInv
    /\ TabsInv
    /\ Coordinated
    /\ SuccessorComes
    /\ RoomOK

(* The tabs that wait for the lock are no more than there are tabs.        *)
LEMMA QueueIsShort ==
    ASSUME SessionsAssumption, queue \in Seq(Tabs), NobodyTwice
    PROVE  Len(queue) <= Cardinality(Tabs)
<1>1. IsFiniteSet(Tabs) /\ Cardinality(Tabs) \in Nat
    BY FS_CardinalityType DEF SessionsAssumption
<1>2. Len(queue) \in Nat /\ queue \in [1..Len(queue) -> Tabs] /\ DOMAIN queue = 1..Len(queue)
    OBVIOUS
<1>3. IsFiniteSet(1..Len(queue)) /\ Cardinality(1..Len(queue)) = Len(queue)
    <2>1. IsFiniteSet(1..Len(queue))
          /\ Cardinality(1..Len(queue)) = IF 1 > Len(queue) THEN 0 ELSE Len(queue) - 1 + 1
        BY <1>2, FS_Interval
    <2> QED BY <1>2, <2>1
<1>4. SUFFICES ASSUME Cardinality(Tabs) < Len(queue) PROVE FALSE
    BY <1>1, <1>2
<1>5. \E i, j \in 1..Len(queue) : i # j /\ queue[i] = queue[j]
    BY <1>1, <1>2, <1>3, <1>4, FS_PigeonHole
<1> QED BY <1>2, <1>5 DEF NobodyTwice

(* The invariant gives the types.                                          *)
LEMMA SessionInvTypes ==
    ASSUME SessionsAssumption, SessionInv
    PROVE  SessionTypeOK
<1>1. stored \in 0..MaxTokens
    BY TokenNumbers DEF SessionInv, ServerInv
<1>2. Len(queue) <= Cardinality(Tabs)
    BY QueueIsShort DEF SessionInv, TabsInv
<1> QED BY <1>1, <1>2 DEF SessionTypeOK, SessionInv, ServerInv, CallTypes, TabsInv, PageRow, CallRow, TokenState

-----------------------------------------------------------------------------
(* Calls that move, end or lose their tab are nobody's new refresh.        *)
LEMMA NoNewRefresh ==
    ASSUME \A d \in Busy' : /\ d \in Busy /\ calls'[d].token = calls[d].token
                            /\ calls'[d].by \in Tabs => calls'[d].by = calls[d].by
    PROVE  \A u \in Tabs : RefreshesOf(u)' \subseteq RefreshesOf(u)
BY DEF RefreshesOf, CallsOf

(* The one refresh of a tab that gives it up is gone from its calls.       *)
LEMMA RefreshOver ==
    ASSUME TabsInv, NEW t \in Tabs, NEW c \in RefreshesOf(t),
           \A d \in Busy' : /\ d \in Busy /\ calls'[d].token = calls[d].token
                            /\ calls'[d].by \in Tabs => calls'[d].by = calls[d].by,
           c \notin RefreshesOf(t)'
    PROVE  RefreshesOf(t)' = {}
<1>1. RefreshesOf(t)' \subseteq RefreshesOf(t)
    BY NoNewRefresh
<1>2. \A d \in RefreshesOf(t) : d = c
    BY DEF TabsInv, TabOK
<1> QED BY <1>1, <1>2

(* A page that moved in no refresh leaves the calls and the tokens be.     *)
LEMMA PageStepKeeps ==
    ASSUME SessionsAssumption, SessionInv, UNCHANGED <<locks, tokens, calls>>, stored' \in {stored, 0}
    PROVE  /\ ServerInv' /\ Coordinated' /\ SuccessorComes' /\ locks' \in BOOLEAN
           /\ Busy' = Busy /\ \A u \in Tabs : RefreshesOf(u)' = RefreshesOf(u)
<1>1. Busy' = Busy
    BY DEF Busy, Slots
<1>2. \A u \in Tabs : RefreshesOf(u)' = RefreshesOf(u)
    BY <1>1 DEF RefreshesOf, CallsOf
<1>3. CallTypes'
    <2>1. stored' \in 0..Len(tokens)
        BY TokenNumbers DEF SessionInv, ServerInv
    <2> QED BY <2>1 DEF SessionInv, ServerInv, CallTypes, Slots
<1>4. LiveTokens' = LiveTokens
    BY DEF LiveTokens
<1>5. ASSUME NEW d \in Busy' PROVE CallOK(d)' /\ SuccessorOK(d)'
    <2>1. CallOK(d) /\ SuccessorOK(d)
        BY <1>1 DEF SessionInv, ServerInv
    <2>2. CallOK(d)'
        BY <1>4, <2>1 DEF CallOK
    <2>3. \A k : IsNews(k) => k \notin {0, stored'} /\ tokens'[k] \in {"live", "ended"}
                              /\ \A e \in Busy' : calls'[e].token # k
        BY <1>1 DEF IsNews
    <2>4. SuccessorOK(d)'
        BY <1>1, <1>4, <2>1, <2>3 DEF SuccessorOK, IsNews
    <2> QED BY <2>2, <2>4
<1>6. OneHolder'
    BY <1>1 DEF SessionInv, ServerInv, OneHolder
<1>7. Coordinated' /\ SuccessorComes'
    BY <1>1, SameTokensKeep DEF SessionInv
<1> QED BY <1>1, <1>2, <1>3, <1>5, <1>6, <1>7 DEF SessionInv, ServerInv

(* A tab asks for a refresh.                                               *)
LEMMA AskKeepsInv ==
    ASSUME SessionsAssumption, SessionInv, NEW t \in Tabs, NEW status \in {"loading", "in"},
           Ask(t, status), page[t].asking = "no", UNCHANGED <<locks, stored, tokens, calls>>
    PROVE  SessionInv'
<1>1. /\ ServerInv' /\ Coordinated' /\ SuccessorComes' /\ locks' \in BOOLEAN /\ Busy' = Busy
    BY PageStepKeeps
<1>2. TabsInv'
    BY AskKeeps DEF SessionInv
<1>3. Waiting' \subseteq Waiting \union {t}
    <2>1. page' = [page EXCEPT ![t].asking = "queued", ![t].status = status] /\ page \in [Tabs -> PageRow]
        BY DEF Ask, SessionInv, TabsInv
    <2> QED BY <2>1 DEF Waiting
<1>4. RoomOK'
    <2>1. Room
        BY DEF Ask
    <2> QED BY <1>1, <1>3, <2>1, RoomTaken
<1> QED BY <1>1, <1>2, <1>4 DEF SessionInv

(* Steps of a page outside its refresh: it opens signed out, signs out.    *)
LEMMA PageKeepsInv ==
    ASSUME SessionsAssumption, SessionInv, UNCHANGED <<locks, tokens, calls, queue>>,
           stored' \in {stored, 0}, page' \in [Tabs -> PageRow],
           \A u \in Tabs : /\ page'[u].asking = page[u].asking
                           /\ page'[u].status = "closed" => page[u].status = "closed"
    PROVE  SessionInv'
<1>1. /\ ServerInv' /\ Coordinated' /\ SuccessorComes' /\ locks' \in BOOLEAN /\ Busy' = Busy
      /\ \A u \in Tabs : RefreshesOf(u)' = RefreshesOf(u)
    BY PageStepKeeps
<1>2. TabsInv'
    BY <1>1, SamePagesKeep DEF SessionInv
<1>3. RoomOK'
    <2>1. Waiting' \subseteq Waiting
        BY DEF Waiting
    <2> QED BY <1>1, <2>1, RoomStays DEF SessionInv
<1> QED BY <1>1, <1>2, <1>3 DEF SessionInv

(* A page loads.                                                           *)
LEMMA OpenKeeps ==
    ASSUME SessionsAssumption, SessionInv, NEW t \in Tabs, Open(t)
    PROVE  SessionInv'
<1>1. page \in [Tabs -> PageRow] /\ page[t].asking = "no" /\ UNCHANGED <<locks, stored, tokens, calls>>
    BY DEF Open, SessionInv, TabsInv, TabOK
<1>2. CASE stored = 0
    <2>1. page' = [page EXCEPT ![t].status = "out"] /\ UNCHANGED queue
        BY <1>2 DEF Open
    <2>2. page' \in [Tabs -> PageRow] /\ page'[t].asking = page[t].asking /\ page'[t].status = "out"
          /\ \A u \in Tabs : u # t => page'[u] = page[u]
        BY <1>1, <2>1 DEF PageRow
    <2> QED BY <1>1, <2>1, <2>2, PageKeepsInv
<1>3. CASE stored # 0
    <2>1. Ask(t, "loading")
        BY <1>3 DEF Open
    <2> QED BY <1>1, <2>1, AskKeepsInv
<1> QED BY <1>2, <1>3

(* The access token is about to expire.                                    *)
LEMMA RefreshKeeps ==
    ASSUME SessionsAssumption, SessionInv, NEW t \in Tabs, Refresh(t)
    PROVE  SessionInv'
BY AskKeepsInv DEF Refresh

(* A logout begins: the page notes the token it asks to have revoked.      *)
LEMMA StartLogoutKeeps ==
    ASSUME SessionsAssumption, SessionInv, NEW t \in Tabs, StartLogout(t)
    PROVE  SessionInv'
<1>1. page \in [Tabs -> PageRow] /\ page' = [page EXCEPT ![t].leaving = stored]
      /\ UNCHANGED <<locks, stored, queue, tokens, calls>>
    BY DEF StartLogout, SessionInv, TabsInv
<1>2. stored \in 0..MaxTokens
    BY TokenNumbers DEF SessionInv, ServerInv
<1>3. page' \in [Tabs -> PageRow] /\ page'[t].asking = page[t].asking /\ page'[t].status = page[t].status
      /\ \A u \in Tabs : u # t => page'[u] = page[u]
    BY <1>1, <1>2 DEF PageRow
<1> QED BY <1>1, <1>3, PageKeepsInv

(* A logout ends: nothing is stored.                                       *)
LEMMA FinishLogoutKeeps ==
    ASSUME SessionsAssumption, SessionInv, NEW t \in Tabs, FinishLogout(t)
    PROVE  SessionInv'
<1>1. page \in [Tabs -> PageRow] /\ page' = [page EXCEPT ![t].leaving = 0, ![t].status = "left"]
      /\ UNCHANGED <<locks, queue, tokens, calls>> /\ stored' = 0 /\ MaxTokens \in Nat
    BY DEF FinishLogout, SessionInv, TabsInv, SessionsAssumption
<1>2. 0 \in 0..MaxTokens /\ page[t] \in PageRow
    BY <1>1
<1>3. [page[t] EXCEPT !.leaving = 0, !.status = "left"] \in PageRow
    BY <1>2 DEF PageRow
<1>4. page' = [page EXCEPT ![t] = [page[t] EXCEPT !.leaving = 0, !.status = "left"]]
    BY <1>1
<1>5. page' \in [Tabs -> PageRow] /\ page'[t] = [page[t] EXCEPT !.leaving = 0, !.status = "left"]
      /\ \A u \in Tabs : u # t => page'[u] = page[u]
    BY <1>1, <1>3, <1>4
<1>6. page'[t].asking = page[t].asking /\ page'[t].status = "left"
    BY <1>2, <1>5 DEF PageRow
<1> QED BY <1>1, <1>5, <1>6, PageKeepsInv

-----------------------------------------------------------------------------
(* What a refresh that is over leaves of its page.                         *)
LEMMA SettledPage ==
    ASSUME page \in [Tabs -> PageRow], NEW t \in Tabs,
           NEW status \in {"closed", "loading", "in", "out", "left"}, Settle(t, status)
    PROVE  /\ page' \in [Tabs -> PageRow] /\ page'[t].asking = "no" /\ queue' = Without(t)
           /\ \A u \in Tabs : u # t => page'[u] = page[u]
           /\ Waiting' \subseteq Waiting /\ (page[t].asking = "queued" => Waiting' \subseteq Waiting \ {t})
<1>1. page' = [page EXCEPT ![t].asking = "no", ![t].status = status] /\ queue' = Without(t)
    BY DEF Settle
<1>2. page' \in [Tabs -> PageRow] /\ page'[t].asking = "no" /\ \A u \in Tabs : u # t => page'[u] = page[u]
    BY <1>1 DEF PageRow
<1> QED BY <1>1, <1>2 DEF Waiting

(* A tab presents the stored token, or finds none and gives up.            *)
LEMMA PresentKeeps ==
    ASSUME SessionsAssumption, SessionInv, NEW t \in Tabs, Present(t)
    PROVE  SessionInv'
<1>1. /\ page \in [Tabs -> PageRow] /\ TabOK(t) /\ TabsInv /\ ServerInv /\ page[t].asking = "queued"
      /\ UNCHANGED <<locks, stored, tokens>> /\ HasTheLock(t) /\ t \in Waiting
    BY DEF Present, SessionInv, TabsInv, Waiting
<1>2. RefreshesOf(t) = {}
    BY <1>1 DEF TabOK
<1>3. CASE stored = 0
    <2>1. Settle(t, AfterError(t)) /\ UNCHANGED calls
        BY <1>3 DEF Present
    <2>2. AfterError(t) \in {"closed", "loading", "in", "out", "left"}
        BY <1>1 DEF AfterError, PageRow
    <2>3. /\ page' \in [Tabs -> PageRow] /\ page'[t].asking = "no" /\ queue' = Without(t)
          /\ \A u \in Tabs : u # t => page'[u] = page[u]
          /\ Waiting' \subseteq Waiting
        BY <1>1, <2>1, <2>2, SettledPage
    <2>4. /\ ServerInv' /\ Coordinated' /\ SuccessorComes' /\ locks' \in BOOLEAN /\ Busy' = Busy
          /\ \A u \in Tabs : RefreshesOf(u)' = RefreshesOf(u)
        BY <1>1, <2>1, PageStepKeeps
    <2>5. TabsInv'
        BY <1>1, <1>2, <2>3, <2>4, ReleaseKeeps
    <2>6. RoomOK'
        BY <2>3, <2>4, RoomStays DEF SessionInv
    <2> QED BY <2>4, <2>5, <2>6 DEF SessionInv
<1>4. CASE stored # 0
    <2> DEFINE c == FreeSlot
    <2>1. /\ calls' = [calls EXCEPT ![c] = Call(t, stored)] /\ UNCHANGED queue
          /\ page' = [page EXCEPT ![t].asking = "first"]
        BY <1>4 DEF Present
    <2>2. Cardinality(Busy) < MaxCalls
        <3>1. Cardinality(Waiting) # 0
            BY <1>1, Sizes, FS_EmptySet
        <3> QED BY <3>1, Sizes DEF SessionInv, RoomOK
    <2>3. c \in Slots /\ c \notin Busy
        BY <2>2, FreeSlotIsFree
    <2> HIDE DEF c
    <2>4. ServerInv'
        BY <1>1, <2>1, <2>3, NewCallKeeps
    <2>5. /\ calls'[c] = Call(t, stored) /\ \A d \in Slots : d # c => calls'[d] = calls[d]
          /\ \A d : d # c => (d \in Busy' <=> d \in Busy)
        BY <1>1, <2>1, <2>3 DEF ServerInv, CallTypes, Busy, Slots
    <2>6. /\ \A u \in Tabs : u # t => RefreshesOf(u)' \subseteq RefreshesOf(u)
          /\ RefreshesOf(t)' \subseteq {c}
        <3>1. calls'[c].by = t
            BY <2>5 DEF Call
        <3>2. \A d \in Busy' : d # c => d \in Busy /\ calls'[d] = calls[d]
            BY <2>5 DEF Busy, Slots
        <3> QED BY <1>2, <3>1, <3>2 DEF RefreshesOf, CallsOf
    <2>7. locks => queue[1] = t
        BY <1>1 DEF HasTheLock, TabsInv
    <2>8. TabsInv'
        BY <1>1, <2>1, <2>6, <2>7, HoldKeeps
    <2>9. locks => \A d \in Busy : calls[d].by \in Tabs => calls[d].token = 0
        <3> SUFFICES ASSUME locks, NEW d \in Busy, calls[d].by \in Tabs, calls[d].token # 0 PROVE FALSE
            OBVIOUS
        <3>1. d \in RefreshesOf(calls[d].by) /\ TabOK(calls[d].by)
            BY <1>1 DEF RefreshesOf, CallsOf, TabsInv
        <3>2. queue[1] = calls[d].by /\ page[calls[d].by].asking \in {"first", "again"}
            BY <3>1 DEF TabOK
        <3> QED BY <1>1, <2>7, <3>2
    <2>10. \A d \in Busy : calls[d].point = "answered" => calls[d].by \in Tabs
        BY <1>1 DEF ServerInv, CallOK, CallFits
    <2>11. Coordinated' /\ SuccessorComes'
        BY <1>1, <2>3, <2>5, <2>9, <2>10, PresentedIsCurrent DEF SessionInv
    <2>12. RoomOK'
        <3>1. Busy' \subseteq Busy \union {c}
            BY <2>5
        <3>2. Waiting' \subseteq Waiting \ {t}
            BY <1>1, <2>1 DEF Waiting, PageRow
        <3> QED BY <1>1, <3>1, <3>2, RoomUsed DEF SessionInv
    <2> QED BY <1>1, <2>4, <2>8, <2>11, <2>12 DEF SessionInv
<1> QED BY <1>3, <1>4

(* A sign-in presents no token.                                            *)
LEMMA SignInKeeps ==
    ASSUME SessionsAssumption, SessionInv, NEW t \in Tabs, SignIn(t)
    PROVE  SessionInv'
<1> DEFINE c == FreeSlot
<1>1. /\ TabsInv /\ ServerInv /\ Room /\ calls' = [calls EXCEPT ![c] = Call(t, 0)]
      /\ UNCHANGED <<locks, stored, page, queue, tokens>>
    BY DEF SignIn, SessionInv
<1>2. Cardinality(Busy) < MaxCalls
    <2>1. Cardinality(Busy) + Cardinality(Waiting) < MaxCalls
        BY <1>1 DEF Room, Waiting
    <2> QED BY <2>1, Sizes
<1>3. c \in Slots /\ c \notin Busy
    BY <1>2, FreeSlotIsFree
<1> HIDE DEF c
<1>4. ServerInv'
    BY <1>1, <1>3, NewCallKeeps
<1>5. /\ calls'[c] = Call(t, 0) /\ \A d \in Slots : d # c => calls'[d] = calls[d]
      /\ \A d : d # c => (d \in Busy' <=> d \in Busy)
    BY <1>1, <1>3 DEF ServerInv, CallTypes, Busy, Slots
<1>6. \A u \in Tabs : RefreshesOf(u)' \subseteq RefreshesOf(u)
    <2>1. calls'[c].token = 0
        BY <1>5 DEF Call
    <2>2. \A d \in Busy' : d # c => d \in Busy /\ calls'[d] = calls[d]
        BY <1>5 DEF Busy, Slots
    <2> QED BY <2>1, <2>2 DEF RefreshesOf, CallsOf
<1>7. TabsInv'
    BY <1>1, <1>6, SamePagesKeep DEF TabsInv
<1>8. \A d \in Busy : calls[d].point = "answered" => calls[d].by \in Tabs
    BY <1>1 DEF ServerInv, CallOK, CallFits
<1>9. Coordinated' /\ SuccessorComes'
    BY <1>1, <1>3, <1>5, <1>8, PresentedIsCurrent DEF SessionInv
<1>10. RoomOK'
    <2>1. Busy' \subseteq Busy \union {c}
        BY <1>5
    <2>2. Waiting' \subseteq Waiting
        BY <1>1 DEF Waiting
    <2> QED BY <1>1, <2>1, <2>2, RoomTaken
<1> QED BY <1>1, <1>4, <1>7, <1>9, <1>10 DEF SessionInv

-----------------------------------------------------------------------------
(* Calls that move, end or lose their tab, the pages' refreshes as before. *)
LEMMA CallStepKeeps ==
    ASSUME SessionsAssumption, SessionInv, ServerInv', Coordinated', SuccessorComes',
           UNCHANGED <<locks, queue>>, page' \in [Tabs -> PageRow],
           \A u \in Tabs : /\ page'[u].asking = page[u].asking
                           /\ page'[u].status = "closed" => page[u].status = "closed",
           \A d \in Busy' : /\ d \in Busy /\ calls'[d].token = calls[d].token
                            /\ calls'[d].by \in Tabs => calls'[d].by = calls[d].by
    PROVE  SessionInv'
<1>1. \A u \in Tabs : RefreshesOf(u)' \subseteq RefreshesOf(u)
    BY NoNewRefresh
<1>2. TabsInv'
    BY <1>1, SamePagesKeep DEF SessionInv
<1>3. RoomOK'
    <2>1. Waiting' \subseteq Waiting
        BY DEF Waiting
    <2>2. Busy' \subseteq Busy
        OBVIOUS
    <2> QED BY <2>1, <2>2, RoomStays DEF SessionInv
<1>4. (locks \in BOOLEAN)'
    BY DEF SessionInv
<1> QED BY <1>2, <1>3, <1>4 DEF SessionInv

(* A refresh that is over: its call is the tab's no more, and the lock is  *)
(* the next one's.                                                         *)
LEMMA RefreshOverKeeps ==
    ASSUME SessionsAssumption, SessionInv, ServerInv', Coordinated', SuccessorComes', UNCHANGED locks,
           NEW t \in Tabs, NEW c \in RefreshesOf(t), c \notin RefreshesOf(t)',
           page' \in [Tabs -> PageRow], page'[t].asking = "no", queue' = Without(t),
           \A u \in Tabs : u # t => page'[u] = page[u],
           \A d \in Busy' : /\ d \in Busy /\ calls'[d].token = calls[d].token
                            /\ calls'[d].by \in Tabs => calls'[d].by = calls[d].by
    PROVE  SessionInv'
<1>1. \A u \in Tabs : RefreshesOf(u)' \subseteq RefreshesOf(u)
    BY NoNewRefresh
<1>2. RefreshesOf(t)' = {}
    BY RefreshOver DEF SessionInv
<1>3. TabsInv'
    BY <1>1, <1>2, ReleaseKeeps DEF SessionInv
<1>4. RoomOK'
    <2>1. Waiting' \subseteq Waiting
        BY DEF Waiting
    <2>2. Busy' \subseteq Busy
        OBVIOUS
    <2> QED BY <2>1, <2>2, RoomStays DEF SessionInv
<1>5. (locks \in BOOLEAN)'
    BY DEF SessionInv
<1> QED BY <1>3, <1>4, <1>5 DEF SessionInv

(* A call dropped from its slot.                                           *)
LEMMA Dropped ==
    ASSUME CallTypes, NEW c \in Busy, calls' = [calls EXCEPT ![c] = NoCall]
    PROVE  /\ c \notin Busy' /\ \A d \in Busy : d # c => d \in Busy'
           /\ \A d \in Busy' : d \in Busy /\ calls'[d] = calls[d]
<1>1. c \in Slots
    BY DEF Busy
<1> QED BY <1>1, OneSlot DEF Busy

(* The answer is stored, by the refresh that waited or by the sign-in.     *)
LEMMA ReceiveKeeps ==
    ASSUME SessionsAssumption, SessionInv, NEW t \in Tabs, NEW c, Receive(t, c)
    PROVE  SessionInv'
<1>1. /\ c \in Busy /\ calls[c].by = t /\ calls[c].point = "answered"
      /\ stored' = calls[c].new /\ calls' = [calls EXCEPT ![c] = NoCall] /\ UNCHANGED <<locks, tokens>>
      /\ ServerInv /\ TabsInv /\ Coordinated /\ page \in [Tabs -> PageRow]
    BY DEF Receive, CallsOf, SessionInv, TabsInv
<1>2. ServerInv'
    BY <1>1, ReceiveKeepsCalls
<1>3. Coordinated' /\ SuccessorComes'
    BY <1>1, ReceiveKeepsTokens
<1>4. c \notin Busy' /\ \A d \in Busy' : d \in Busy /\ calls'[d] = calls[d]
    BY <1>1, Dropped DEF ServerInv
<1>5. CASE calls[c].token = 0
    <2>1. page' = [page EXCEPT ![t].status = "in"] /\ UNCHANGED queue
        BY <1>5 DEF Receive
    <2>2. page' \in [Tabs -> PageRow] /\ page'[t].asking = page[t].asking /\ page'[t].status = "in"
          /\ \A u \in Tabs : u # t => page'[u] = page[u]
        BY <1>1, <2>1 DEF PageRow
    <2> QED BY <1>1, <1>2, <1>3, <1>4, <2>1, <2>2, CallStepKeeps
<1>6. CASE calls[c].token # 0
    <2> DEFINE status == IF page[t].status = "loading" THEN "in" ELSE page[t].status
    <2>1. Settle(t, status)
        BY <1>6 DEF Receive
    <2>2. status \in {"closed", "loading", "in", "out", "left"}
        BY <1>1 DEF PageRow
    <2> HIDE DEF status
    <2>3. /\ page' \in [Tabs -> PageRow] /\ page'[t].asking = "no" /\ queue' = Without(t)
          /\ \A u \in Tabs : u # t => page'[u] = page[u]
        BY <1>1, <2>1, <2>2, SettledPage
    <2>4. c \in RefreshesOf(t) /\ c \notin RefreshesOf(t)'
        BY <1>1, <1>4, <1>6 DEF RefreshesOf, CallsOf
    <2> QED BY <1>1, <1>2, <1>3, <1>4, <2>3, <2>4, RefreshOverKeeps
<1> QED BY <1>5, <1>6

(* A refused token: a newer one is tried, or the refresh is over.          *)
LEMMA RefusedKeeps ==
    ASSUME SessionsAssumption, SessionInv, NEW t \in Tabs, NEW c, Refused(t, c)
    PROVE  SessionInv'
<1>1. /\ c \in Busy /\ c \in Slots /\ calls[c].by = t /\ calls[c].point = "refused"
      /\ UNCHANGED <<locks, tokens>>
      /\ ServerInv /\ TabsInv /\ Coordinated /\ SuccessorComes /\ page \in [Tabs -> PageRow]
    BY DEF Refused, CallsOf, SessionInv, TabsInv, Busy
<1>2. calls[c].token # 0 /\ c \in RefreshesOf(t)
    BY <1>1 DEF ServerInv, CallOK, CallFits, RefreshesOf, CallsOf
<1>3. CASE page[t].asking = "first" /\ stored \notin {0, calls[c].token}
    <2>1. /\ calls' = [calls EXCEPT ![c] = Call(t, stored)]
          /\ page' = [page EXCEPT ![t].asking = "again"] /\ UNCHANGED <<stored, queue>>
        BY <1>3 DEF Refused
    <2>2. ServerInv'
        BY <1>1, <2>1, NewCallKeeps
    <2>3. /\ calls'[c] = Call(t, stored) /\ \A d \in Slots : d # c => calls'[d] = calls[d]
          /\ \A d : d # c => (d \in Busy' <=> d \in Busy)
        BY <1>1, <2>1 DEF ServerInv, CallTypes, Busy, Slots
    <2>4. /\ \A u \in Tabs : u # t => RefreshesOf(u)' \subseteq RefreshesOf(u)
          /\ RefreshesOf(t)' \subseteq {c}
        <3>1. calls'[c].by = t
            BY <2>3 DEF Call
        <3>2. \A d \in Busy' : d # c => d \in Busy /\ calls'[d] = calls[d]
            BY <2>3 DEF Busy, Slots
        <3>3. \A d \in RefreshesOf(t) : d = c
            BY <1>1, <1>2 DEF TabsInv, TabOK
        <3> QED BY <3>1, <3>2, <3>3 DEF RefreshesOf, CallsOf
    <2>5. locks => queue[1] = t
        BY <1>1, <1>3 DEF TabsInv, TabOK
    <2>6. TabsInv'
        BY <1>1, <1>3, <2>1, <2>4, <2>5, HoldKeeps
    <2>7. locks => \A d \in Busy : calls[d].by \in Tabs /\ calls[d].token # 0 => d = c
        BY <1>1, <1>2, OneRefresh
    <2>8. \A d \in Busy : calls[d].point = "answered" => calls[d].by \in Tabs
        BY <1>1 DEF ServerInv, CallOK, CallFits
    <2>9. Coordinated' /\ SuccessorComes'
        BY <1>1, <2>1, <2>3, <2>7, <2>8, PresentedIsCurrent
    <2>10. RoomOK'
        <3>1. Busy' \subseteq Busy
            BY <1>1, <2>3
        <3>2. Waiting' \subseteq Waiting
            BY <1>1, <2>1 DEF Waiting, PageRow
        <3> QED BY <3>1, <3>2, RoomStays DEF SessionInv
    <2> QED BY <1>1, <2>2, <2>6, <2>9, <2>10 DEF SessionInv
<1>4. CASE ~(page[t].asking = "first" /\ stored \notin {0, calls[c].token})
    <2>1. /\ calls' = [calls EXCEPT ![c] = NoCall] /\ stored' \in {stored, 0}
          /\ \E status \in {"closed", "loading", "in", "out", "left"} : Settle(t, status)
        <3>1. AfterError(t) \in {"closed", "loading", "in", "out", "left"}
            BY <1>1 DEF AfterError, PageRow
        <3> QED BY <1>4, <3>1 DEF Refused
    <2>2. PICK status \in {"closed", "loading", "in", "out", "left"} : Settle(t, status)
        BY <2>1
    <2>3. /\ page' \in [Tabs -> PageRow] /\ page'[t].asking = "no" /\ queue' = Without(t)
          /\ \A u \in Tabs : u # t => page'[u] = page[u]
        BY <1>1, <2>2, SettledPage
    <2>4. ServerInv'
        BY <1>1, <2>1, DropKeeps
    <2>5. /\ c \notin Busy' /\ \A d \in Busy : d # c => d \in Busy'
          /\ \A d \in Busy' : d \in Busy /\ calls'[d] = calls[d]
        BY <1>1, <2>1, Dropped DEF ServerInv
    <2>6. Coordinated' /\ SuccessorComes'
        BY <1>1, <2>1, <2>5, SameTokensKeep
    <2>7. c \notin RefreshesOf(t)'
        BY <2>5 DEF RefreshesOf, CallsOf
    <2> QED BY <1>1, <1>2, <2>3, <2>4, <2>5, <2>6, <2>7, RefreshOverKeeps
<1> QED BY <1>3, <1>4

(* A tab gives up on a call.                                               *)
LEMMA GivesUpKeeps ==
    ASSUME SessionsAssumption, SessionInv, NEW t \in Tabs, NEW c, GivesUp(t, c)
    PROVE  SessionInv'
<1>0. PICK told \in BOOLEAN : Abandon({c}, told)
    BY DEF GivesUp
<1>1. /\ c \in Busy /\ calls[c].by = t /\ {c} \in SUBSET Busy /\ UNCHANGED <<locks, stored>>
      /\ ServerInv /\ TabsInv /\ Coordinated /\ SuccessorComes /\ page \in [Tabs -> PageRow]
    BY DEF GivesUp, CallsOf, SessionInv, TabsInv
<1>2. ServerInv'
    BY <1>0, <1>1, AbandonKeeps
<1>3. Coordinated' /\ SuccessorComes'
    BY <1>0, <1>1, AbandonKeepsTokens
<1>4. \A d \in Busy' : /\ d \in Busy /\ calls'[d].token = calls[d].token
                       /\ d # c => calls'[d] = calls[d]
                       /\ d = c => calls'[d].by \in {Gone, TooLate}
    BY <1>0, <1>1, AbandonedCalls
<1>5. \A d \in Busy' : /\ d \in Busy /\ calls'[d].token = calls[d].token
                       /\ calls'[d].by \in Tabs => calls'[d].by = calls[d].by
    BY <1>4 DEF SessionsAssumption
<1>6. CASE calls[c].token = 0
    <2>1. UNCHANGED <<page, queue>>
        BY <1>6 DEF GivesUp
    <2> QED BY <1>1, <1>2, <1>3, <1>5, <2>1, CallStepKeeps
<1>7. CASE calls[c].token # 0
    <2>1. Settle(t, AfterError(t))
        BY <1>7 DEF GivesUp, SettleError
    <2>2. AfterError(t) \in {"closed", "loading", "in", "out", "left"}
        BY <1>1 DEF AfterError, PageRow
    <2>3. /\ page' \in [Tabs -> PageRow] /\ page'[t].asking = "no" /\ queue' = Without(t)
          /\ \A u \in Tabs : u # t => page'[u] = page[u]
        BY <1>1, <2>1, <2>2, SettledPage
    <2>4. c \in RefreshesOf(t) /\ c \notin RefreshesOf(t)'
        BY <1>1, <1>4, <1>7 DEF RefreshesOf, CallsOf, SessionsAssumption
    <2> QED BY <1>1, <1>2, <1>3, <1>5, <2>3, <2>4, RefreshOverKeeps
<1> QED BY <1>6, <1>7

(* A tab is closed or reloaded: its calls are nobody's.                    *)
LEMMA CloseKeeps ==
    ASSUME SessionsAssumption, SessionInv, NEW t \in Tabs, Close(t)
    PROVE  SessionInv'
<1> DEFINE S == CallsOf(t)
<1>1. /\ Abandon(S, TRUE) /\ S \in SUBSET Busy /\ UNCHANGED <<locks, stored>>
      /\ page' = [page EXCEPT ![t] = NoPage] /\ queue' = Without(t)
      /\ ServerInv /\ TabsInv /\ Coordinated /\ SuccessorComes /\ page \in [Tabs -> PageRow]
    BY DEF Close, CallsOf, SessionInv, TabsInv
<1>2. \A d \in Busy : d \in S <=> calls[d].by = t
    BY DEF CallsOf
<1> HIDE DEF S
<1>3. ServerInv'
    BY <1>1, AbandonKeeps
<1>4. Coordinated' /\ SuccessorComes'
    BY <1>1, AbandonKeepsTokens
<1>5. \A d \in Busy' : /\ d \in Busy /\ calls'[d].token = calls[d].token
                       /\ d \notin S => calls'[d] = calls[d]
                       /\ d \in S => calls'[d].by \in {Gone, TooLate}
    BY <1>1, AbandonedCalls
<1>6. \A d \in Busy' : /\ d \in Busy /\ calls'[d].token = calls[d].token
                       /\ calls'[d].by \in Tabs => calls'[d].by = calls[d].by
                       /\ calls'[d].by # t
    BY <1>2, <1>5 DEF SessionsAssumption
<1>7. \A u \in Tabs : RefreshesOf(u)' \subseteq RefreshesOf(u)
    BY <1>6, NoNewRefresh
<1>8. RefreshesOf(t)' = {}
    BY <1>6 DEF RefreshesOf, CallsOf
<1>9. /\ page' \in [Tabs -> PageRow] /\ page'[t].asking = "no"
      /\ \A u \in Tabs : u # t => page'[u] = page[u]
    <2>1. 0 \in 0..MaxTokens
        BY DEF SessionsAssumption
    <2>2. NoPage \in PageRow
        BY <2>1 DEF NoPage, PageRow
    <2> QED BY <1>1, <2>2 DEF NoPage
<1>10. TabsInv'
    BY <1>1, <1>7, <1>8, <1>9, ReleaseKeeps
<1>11. RoomOK'
    <2>1. Waiting' \subseteq Waiting
        BY <1>9 DEF Waiting
    <2>2. Busy' \subseteq Busy
        BY <1>5
    <2> QED BY <2>1, <2>2, RoomStays DEF SessionInv
<1>12. (locks \in BOOLEAN)'
    BY <1>1 DEF SessionInv
<1> QED BY <1>3, <1>4, <1>10, <1>11, <1>12 DEF SessionInv

-----------------------------------------------------------------------------
(* A step of the server that no page sees yet.                             *)
LEMMA ServerStepKeeps ==
    ASSUME SessionsAssumption, SessionInv, ServerInv', Coordinated', SuccessorComes',
           UNCHANGED <<locks, page, queue>>,
           \A d \in Busy' : /\ d \in Busy /\ calls'[d].token = calls[d].token
                            /\ calls'[d].by \in Tabs => calls'[d].by = calls[d].by
    PROVE  SessionInv'
<1>1. page' \in [Tabs -> PageRow] /\ \A u \in Tabs : page'[u] = page[u]
    BY DEF SessionInv, TabsInv
<1> QED BY <1>1, CallStepKeeps

(* A call that moves keeps its tab and its token.                          *)
LEMMA Moved ==
    ASSUME CallTypes, NEW c \in Busy, NEW point \in {"held", "checked", "refused", "failed"}, At(c, point)
    PROVE  /\ \A d \in Busy' : /\ d \in Busy /\ calls'[d].token = calls[d].token /\ calls'[d].by = calls[d].by
                               /\ d # c => calls'[d] = calls[d]
           /\ \A d \in Busy : d \in Busy'
<1> DEFINE row == [calls[c] EXCEPT !.point = point]
<1>1. c \in Slots /\ calls[c] \in CallRow
    BY BusyCalls
<1>2. row \in CallRow /\ row.by = calls[c].by /\ row.token = calls[c].token
    BY <1>1 DEF CallRow
<1>3. row # NoCall
    BY <1>2 DEF CallRow, NoCall
<1>4. calls' = [calls EXCEPT ![c] = row]
    BY DEF At
<1> HIDE DEF row
<1>5. /\ calls'[c] = row /\ \A d \in Slots : d # c => calls'[d] = calls[d]
      /\ \A d : d # c => (d \in Busy' <=> d \in Busy) /\ c \in Busy' /\ Slots' = Slots
    BY <1>1, <1>2, <1>3, <1>4, OneSlot
<1> QED BY <1>2, <1>5 DEF Busy

(* The server moves a call on, the tokens as they were.                    *)
LEMMA MoveKeepsInv ==
    ASSUME SessionsAssumption, SessionInv, NEW c \in Busy,
           NEW point \in {"held", "checked", "refused", "failed"}, At(c, point), ServerInv',
           calls[c].point # "answered", UNCHANGED <<locks, stored, page, queue, tokens>>
    PROVE  SessionInv'
<1>1. /\ \A d \in Busy' : /\ d \in Busy /\ calls'[d].token = calls[d].token /\ calls'[d].by = calls[d].by
                          /\ d # c => calls'[d] = calls[d]
      /\ \A d \in Busy : d \in Busy'
    BY Moved DEF SessionInv, ServerInv
<1>2. \A d \in Busy' : calls[d].point = "answered" => calls'[d].point = "answered"
    <2> SUFFICES ASSUME NEW d \in Busy', calls[d].point = "answered" PROVE calls'[d].point = "answered"
        OBVIOUS
    <2>1. d # c
        OBVIOUS
    <2> QED BY <1>1, <2>1
<1>3. Coordinated' /\ SuccessorComes'
    <2>1. \A d \in Busy : calls[d].point = "answered" => d \in Busy'
        BY <1>1
    <2>2. stored' \in {stored, 0} /\ Coordinated /\ SuccessorComes
        BY DEF SessionInv
    <2> QED BY <1>1, <1>2, <2>1, <2>2, SameTokensKeep
<1>4. \A d \in Busy' : /\ d \in Busy /\ calls'[d].token = calls[d].token
                       /\ calls'[d].by \in Tabs => calls'[d].by = calls[d].by
    BY <1>1
<1> QED BY <1>3, <1>4, ServerStepKeeps

(* The server lets go of a call nobody waits for.                          *)
LEMMA LetGoKeepsInv ==
    ASSUME SessionsAssumption, SessionInv, NEW c \in Busy, calls' = [calls EXCEPT ![c] = NoCall],
           calls[c].point # "answered", UNCHANGED <<locks, stored, page, queue, tokens>>
    PROVE  SessionInv'
<1>1. ServerInv'
    BY DropKeeps DEF SessionInv
<1>2. /\ c \notin Busy' /\ \A d \in Busy : d # c => d \in Busy'
      /\ \A d \in Busy' : d \in Busy /\ calls'[d] = calls[d]
    BY Dropped DEF SessionInv, ServerInv
<1>3. Coordinated' /\ SuccessorComes'
    BY <1>2, SameTokensKeep DEF SessionInv
<1> QED BY <1>1, <1>2, <1>3, ServerStepKeeps

(* The row is locked, or found to work no more.                            *)
LEMMA ExchangeKeeps ==
    ASSUME SessionsAssumption, SessionInv, NEW c \in Slots, Exchange(c)
    PROVE  SessionInv'
<1>1. /\ calls[c].point = "sent" /\ calls[c].token # 0 /\ RowFree(calls[c].token)
      /\ UNCHANGED <<locks, stored, page, queue, tokens>> /\ ServerInv
    BY DEF Exchange, SessionInv
<1>2. c \in Busy
    BY <1>1, BusyCalls DEF ServerInv
<1>3. CASE calls[c].token \in LiveTokens
    <2>1. At(c, "held")
        BY <1>3 DEF Exchange
    <2>2. ServerInv'
        BY <1>1, <1>2, <1>3, <2>1, MoveKeeps DEF At
    <2> QED BY <1>1, <1>2, <2>1, <2>2, MoveKeepsInv
<1>4. CASE calls[c].token \notin LiveTokens /\ calls[c].by \in Tabs
    <2>1. At(c, "refused")
        BY <1>4 DEF Exchange, Refuse
    <2>2. ServerInv'
        BY <1>1, <1>2, <1>4, <2>1, MoveKeeps DEF At
    <2> QED BY <1>1, <1>2, <2>1, <2>2, MoveKeepsInv
<1>5. CASE calls[c].token \notin LiveTokens /\ calls[c].by \notin Tabs
    <2>1. calls' = [calls EXCEPT ![c] = NoCall]
        BY <1>5 DEF Exchange, Refuse
    <2> QED BY <1>1, <1>2, <2>1, LetGoKeepsInv
<1> QED BY <1>3, <1>4, <1>5

(* The server looks whether the client has gone.                           *)
LEMMA LookForClientKeeps ==
    ASSUME SessionsAssumption, SessionInv, NEW c \in Slots, LookForClient(c)
    PROVE  SessionInv'
<1>1. /\ calls[c].point = "held" /\ UNCHANGED <<locks, stored, page, queue, tokens>> /\ ServerInv
    BY DEF LookForClient, SessionInv
<1>2. c \in Busy
    BY <1>1, BusyCalls DEF ServerInv
<1>3. CASE calls[c].by = Gone
    <2>1. calls' = [calls EXCEPT ![c] = NoCall]
        BY <1>3 DEF LookForClient, ClientHasGone
    <2> QED BY <1>1, <1>2, <2>1, LetGoKeepsInv
<1>4. CASE calls[c].by # Gone
    <2>1. At(c, "checked")
        BY <1>4 DEF LookForClient, ClientHasGone
    <2>2. ServerInv'
        BY <1>1, <1>2, <1>4, <2>1, MoveKeeps DEF At
    <2> QED BY <1>1, <1>2, <2>1, <2>2, MoveKeepsInv
<1> QED BY <1>3, <1>4

(* The transaction fails.                                                  *)
LEMMA FailKeeps ==
    ASSUME SessionsAssumption, SessionInv, NEW c \in Slots, Fail(c)
    PROVE  SessionInv'
<1>1. /\ calls[c].point \in {"checked", "sent"} /\ Refuse(c, "failed")
      /\ UNCHANGED <<locks, stored, page, queue, tokens>> /\ ServerInv
    BY DEF Fail, AboutToCommit, SessionInv
<1>2. c \in Busy
    BY <1>1, BusyCalls DEF ServerInv
<1>3. CASE calls[c].by \in Tabs
    <2>1. At(c, "failed")
        BY <1>1, <1>3 DEF Refuse
    <2>2. ServerInv'
        BY <1>1, <1>2, <1>3, <2>1, MoveKeeps DEF At
    <2> QED BY <1>1, <1>2, <2>1, <2>2, MoveKeepsInv
<1>4. CASE calls[c].by \notin Tabs
    <2>1. calls' = [calls EXCEPT ![c] = NoCall]
        BY <1>1, <1>4 DEF Refuse
    <2> QED BY <1>1, <1>2, <2>1, LetGoKeepsInv
<1> QED BY <1>3, <1>4

(* A successor, or a first token, is committed and answered.               *)
LEMMA IssueKeepsInv ==
    ASSUME SessionsAssumption, SessionInv, NEW c \in Slots, Issue(c)
    PROVE  SessionInv'
<1>1. UNCHANGED <<locks, stored, page, queue>> /\ ServerInv /\ TabsInv /\ Coordinated /\ SuccessorComes
    BY DEF Issue, SessionInv
<1>2. /\ ServerInv'
      /\ \A d \in Busy' : d \in Busy /\ calls'[d].token = calls[d].token /\ calls'[d].by = calls[d].by
    BY <1>1, IssueKeeps
<1>3. Coordinated' /\ SuccessorComes'
    BY <1>1, IssueKeepsTokens
<1> QED BY <1>1, <1>2, <1>3, ServerStepKeeps

(* Rows are revoked, none of them one an exchange holds.                   *)
LEMMA RevokedKeepsInv ==
    ASSUME SessionsAssumption, SessionInv, NEW S, \A k \in S : RowFree(k), tokens' = End(S),
           UNCHANGED <<locks, stored, page, queue, calls>>
    PROVE  SessionInv'
<1>1. ServerInv'
    BY EndKeeps DEF SessionInv
<1>2. Coordinated' /\ SuccessorComes'
    BY EndKeepsTokens DEF SessionInv
<1>3. Busy' = Busy
    BY DEF Busy, Slots
<1> QED BY <1>1, <1>2, <1>3, ServerStepKeeps

(* The sign-out of one page, as the server handles it.                     *)
LEMMA LogoutKeeps ==
    ASSUME SessionsAssumption, SessionInv, NEW t \in Tabs, Logout(t)
    PROVE  SessionInv'
BY RevokedKeepsInv DEF Logout

(* The sessions an account's owner or an administrator ends.               *)
LEMMA RevokeSessionsKeeps ==
    ASSUME SessionsAssumption, SessionInv, RevokeSessions
    PROVE  SessionInv'
BY RevokedKeepsInv DEF RevokeSessions

-----------------------------------------------------------------------------
(* No tab is open, nothing is stored and nobody asked for anything.        *)
LEMMA InitSession ==
    ASSUME SessionsAssumption, SessionInit
    PROVE  SessionInv
<1>1. /\ MaxTokens \in Nat /\ 0 \in 0..MaxTokens /\ MaxCalls \in Nat
      /\ locks \in BOOLEAN /\ stored = 0 /\ tokens = <<>> /\ queue = <<>>
      /\ page = [t \in Tabs |-> NoPage] /\ calls = [c \in Slots |-> NoCall]
    BY DEF SessionInit, SessionsAssumption
<1>2. Busy = {} /\ \A t : CallsOf(t) = {} /\ RefreshesOf(t) = {}
    BY <1>1 DEF Busy, CallsOf, RefreshesOf
<1>3. ServerInv
    <2>1. CallTypes
        BY <1>1 DEF CallTypes
    <2> QED BY <1>2, <2>1 DEF ServerInv, OneHolder
<1>4. TabsInv
    <2>1. NoPage \in PageRow /\ NoPage.asking = "no"
        BY <1>1 DEF NoPage, PageRow
    <2>2. page \in [Tabs -> PageRow] /\ \A t \in Tabs : page[t].asking = "no" /\ ~InQueue(t)
        BY <1>1, <2>1 DEF InQueue
    <2>3. \A t \in Tabs : TabOK(t)
        BY <1>2, <2>2 DEF TabOK
    <2> QED BY <1>1, <2>2, <2>3 DEF TabsInv, NobodyTwice
<1>5. Coordinated /\ SuccessorComes
    BY <1>1, <1>2 DEF Coordinated, SuccessorComes
<1>6. RoomOK
    <2>1. Waiting = {}
        BY <1>1 DEF Waiting, NoPage
    <2> QED BY <1>1, <1>2, <2>1, FS_EmptySet DEF RoomOK
<1> QED BY <1>1, <1>3, <1>4, <1>5, <1>6 DEF SessionInv

(* Every step keeps the invariant.                                         *)
LEMMA SessionNextKeeps ==
    ASSUME SessionsAssumption, SessionInv, [SessionNext]_sessionVars
    PROVE  SessionInv'
<1>1. ASSUME NEW t \in Tabs, Open(t) PROVE SessionInv'
    BY <1>1, OpenKeeps
<1>2. ASSUME NEW t \in Tabs, Refresh(t) PROVE SessionInv'
    BY <1>2, RefreshKeeps
<1>3. ASSUME NEW t \in Tabs, Present(t) PROVE SessionInv'
    BY <1>3, PresentKeeps
<1>4. ASSUME NEW t \in Tabs, SignIn(t) PROVE SessionInv'
    BY <1>4, SignInKeeps
<1>5. ASSUME NEW t \in Tabs, Close(t) PROVE SessionInv'
    BY <1>5, CloseKeeps
<1>6. ASSUME NEW t \in Tabs, StartLogout(t) PROVE SessionInv'
    BY <1>6, StartLogoutKeeps
<1>7. ASSUME NEW t \in Tabs, FinishLogout(t) PROVE SessionInv'
    BY <1>7, FinishLogoutKeeps
<1>8. ASSUME NEW t \in Tabs, Logout(t) PROVE SessionInv'
    BY <1>8, LogoutKeeps
<1>9. ASSUME NEW t \in Tabs, NEW c \in Slots, GivesUp(t, c) PROVE SessionInv'
    BY <1>9, GivesUpKeeps
<1>10. ASSUME NEW c \in Slots, Serve(c) PROVE SessionInv'
    BY <1>10, ExchangeKeeps, LookForClientKeeps, IssueKeepsInv, FailKeeps DEF Serve
<1>11. ASSUME NEW c \in Slots, PageGoesOn(c) PROVE SessionInv'
    BY <1>11, ReceiveKeeps, RefusedKeeps, GivesUpKeeps DEF PageGoesOn
<1>12. ASSUME RevokeSessions PROVE SessionInv'
    BY <1>12, RevokeSessionsKeeps
<1>13. ASSUME UNCHANGED sessionVars PROVE SessionInv'
    <2>1. UNCHANGED <<locks, stored, page, queue, tokens, calls>>
        BY <1>13 DEF sessionVars
    <2>2. page' \in [Tabs -> PageRow] /\ \A u \in Tabs : page'[u] = page[u]
        BY <2>1 DEF SessionInv, TabsInv
    <2> QED BY <2>1, <2>2, PageKeepsInv
<1> QED BY <1>1, <1>2, <1>3, <1>4, <1>5, <1>6, <1>7, <1>8, <1>9, <1>10, <1>11, <1>12, <1>13 DEF SessionNext

(* Whatever tabs, requests and revocations interleave: a row an exchange   *)
(* holds works, a successor on its way is nobody's yet, the tab that holds *)
(* the lock is the one whose call is out, and what is stored works unless  *)
(* it was ended, was lost or is being replaced.                            *)
THEOREM SessionInvariant == SessionSpec => []SessionInv
<1>1. SessionInit => SessionInv
    BY InitSession, SessionsAssumption
<1>2. SessionInv /\ [SessionNext]_sessionVars => SessionInv'
    BY SessionNextKeeps, SessionsAssumption
<1> QED BY <1>1, <1>2, PTL DEF SessionSpec

(* The types of the pages, the queue, the rows and the calls.              *)
THEOREM SessionTypes == SessionSpec => []SessionTypeOK
<1>1. SessionInv => SessionTypeOK
    BY SessionInvTypes, SessionsAssumption
<1> QED BY <1>1, SessionInvariant, PTL

(* A stored token that does not work was ended, or was lost with an answer *)
(* that came too late, or its successor is on its way (refresh, rotate).   *)
THEOREM ReloadKeepsTheSessionHolds == SessionSpec => []ReloadKeepsTheSession
<1>1. SessionInv => ReloadKeepsTheSession
    <2> SUFFICES ASSUME SessionInv, stored # 0, stored \notin LiveTokens,
                        tokens[stored] \notin {"ended", "lost"}
                 PROVE  \E c \in Busy : calls[c].token = stored /\ calls[c].point = "answered"
        BY DEF ReloadKeepsTheSession
    <2>1. stored \in DOMAIN tokens /\ tokens[stored] \in TokenState
        BY StoredIsARow, SessionsAssumption DEF SessionInv
    <2>2. tokens[stored] = "rotated"
        BY <2>1 DEF TokenState, LiveTokens
    <2> QED BY <2>2 DEF SessionInv, SuccessorComes
<1> QED BY <1>1, SessionInvariant, PTL

(* Where the browser has locks no tab is refused a token that was merely   *)
(* replaced (withRefreshLock).                                             *)
THEOREM CoordinatedTabsAreNotRefusedHolds == SessionSpec => []CoordinatedTabsAreNotRefused
<1>1. SessionInv => CoordinatedTabsAreNotRefused
    <2> SUFFICES ASSUME SessionInv, locks, NEW t \in Tabs, NEW c \in CallsOf(t), calls[c].point = "refused"
                 PROVE  tokens[calls[c].token] \in {"ended", "lost"}
        BY DEF CoordinatedTabsAreNotRefused
    <2>1. c \in Busy /\ calls[c].by \in Tabs
        BY DEF CallsOf
    <2>2. calls[c].token # 0 /\ calls[c].token \notin LiveTokens
        BY <2>1 DEF SessionInv, ServerInv, CallOK, CallFits
    <2>3. calls[c].token \in DOMAIN tokens
        BY <2>1, <2>2, StoredIsARow, SessionsAssumption DEF SessionInv
    <2>4. tokens[calls[c].token] \in TokenState
        BY <2>3 DEF SessionInv, ServerInv, CallTypes
    <2>5. tokens[calls[c].token] # "rotated"
        BY <2>1, <2>2 DEF SessionInv, Coordinated
    <2>6. tokens[calls[c].token] # "live"
        BY <2>2, <2>3 DEF LiveTokens
    <2> QED BY <2>4, <2>5, <2>6 DEF TokenState
<1> QED BY <1>1, SessionInvariant, PTL

(* A successor is issued for a token that works still                      *)
(* (get_by_hash_for_update).                                               *)
THEOREM OneSuccessorHolds == SessionSpec => OneSuccessor
<1>1. SessionInv /\ [SessionNext]_sessionVars =>
         [\A c \in Slots : Issue(c) => calls[c].token \in LiveTokens \union {0}]_sessionVars
    <2> SUFFICES ASSUME SessionInv, NEW c \in Slots, Issue(c)
                 PROVE  calls[c].token \in LiveTokens \union {0}
        OBVIOUS
    <2>1. AboutToCommit(c)
        BY DEF Issue
    <2>2. c \in Busy
        BY <2>1, BusyCalls DEF AboutToCommit, SessionInv, ServerInv
    <2> QED BY <2>1, <2>2 DEF AboutToCommit, SessionInv, ServerInv, CallOK, CallFits
<1> QED BY <1>1, SessionInvariant, PTL DEF SessionSpec, OneSuccessor

(* A stored token that works is removed by nobody but a sign-out           *)
(* (refreshSession, logout).                                               *)
THEOREM OnlySigningOutRemovesALiveTokenHolds == SessionSpec => OnlySigningOutRemovesALiveToken
<1>1. SessionInv /\ [SessionNext]_sessionVars =>
         [stored' = 0 /\ stored \in LiveTokens => \E t \in Tabs : FinishLogout(t)]_sessionVars
    <2> SUFFICES ASSUME SessionInv, SessionNext, stored' = 0, stored \in LiveTokens,
                        ~ \E t \in Tabs : FinishLogout(t)
                 PROVE  FALSE
        OBVIOUS
    <2>1. stored # 0
        BY LiveIsStored DEF SessionInv, ServerInv
    <2>2. ASSUME NEW t \in Tabs, NEW c, Receive(t, c) PROVE FALSE
        <3>1. c \in Busy /\ calls[c].point = "answered" /\ calls[c].new = 0
            BY <2>2 DEF Receive, CallsOf
        <3> QED BY <3>1 DEF SessionInv, ServerInv, SuccessorOK, IsNews
    <2>3. ASSUME NEW t \in Tabs, NEW c, Refused(t, c) PROVE FALSE
        <3>1. c \in Busy /\ calls[c].point = "refused"
            BY <2>3 DEF Refused, CallsOf
        <3>2. calls[c].token \notin LiveTokens
            BY <3>1 DEF SessionInv, ServerInv, CallOK, CallFits
        <3> QED BY <2>1, <2>3, <3>2 DEF Refused, Clears
    <2>4. ASSUME NEW c \in Slots, Serve(c) \/ PageGoesOn(c) PROVE FALSE
        <3>1. UNCHANGED stored \/ \E t \in Tabs : Receive(t, c) \/ Refused(t, c)
            BY <2>4 DEF Serve, Exchange, LookForClient, Issue, Fail, PageGoesOn, GivesUp
        <3> QED BY <2>1, <2>2, <2>3, <3>1
    <2>5. ASSUME NEW t \in Tabs,
                 \/ Open(t) \/ Refresh(t) \/ Present(t) \/ SignIn(t) \/ Close(t)
                 \/ StartLogout(t) \/ Logout(t) \/ \E c \in Slots : GivesUp(t, c)
          PROVE  FALSE
        BY <2>1, <2>5 DEF Open, Refresh, Present, SignIn, Close, StartLogout, Logout, GivesUp
    <2>6. ~RevokeSessions
        BY <2>1 DEF RevokeSessions
    <2> QED BY <2>4, <2>5, <2>6 DEF SessionNext
<1> QED BY <1>1, SessionInvariant, PTL DEF SessionSpec, OnlySigningOutRemovesALiveToken

-----------------------------------------------------------------------------
(* Whether a refresh can always go on.                                     *)
CallIsOut(t) == page[t].asking \in {"first", "again"}

\* Whoever has made a call and not heard of it has a call to hear of.
CallOut == \A t \in Tabs : CallIsOut(t) => RefreshesOf(t) # {}

\* A tab that wants the lock has it, or a call is at a step that waits for no
\* row: no tab that closed, and no answer that was lost, holds up the others.
RefreshGoesOn ==
    (\E t \in Tabs : page[t].asking # "no") =>
        \/ \E t \in Tabs : page[t].asking = "queued" /\ HasTheLock(t)
        \/ \E c \in Busy : calls[c].point = "sent" => RowFree(calls[c].token)

(* A call that is its tab's still is one the tab can hear of.              *)
LEMMA CallsStayOut ==
    ASSUME CallOut,
           \A u \in Tabs : CallIsOut(u)' =>
               /\ CallIsOut(u)
               /\ \A d \in RefreshesOf(u) : d \in Busy' /\ calls'[d].by = u /\ calls'[d].token # 0
    PROVE  CallOut'
BY DEF CallOut, RefreshesOf, CallsOf

(* Neither the calls nor who waits for one moved.                          *)
LEMMA SameCallsStayOut ==
    ASSUME CallOut, UNCHANGED calls, \A u \in Tabs : CallIsOut(u)' => CallIsOut(u)
    PROVE  CallOut'
<1>1. Busy' = Busy
    BY DEF Busy, Slots
<1> QED BY <1>1, CallsStayOut DEF RefreshesOf, CallsOf

(* A call begun is its tab's.                                              *)
LEMMA BegunIsOut ==
    ASSUME CallTypes, CallOut, NEW c \in Slots, NEW t \in Tabs, NEW k,
           calls' = [calls EXCEPT ![c] = Call(t, k)], c \in Busy => calls[c].by = t,
           CallIsOut(t)' => k # 0 \/ (CallIsOut(t) /\ c \notin Busy),
           \A u \in Tabs : u # t => page'[u] = page[u]
    PROVE  CallOut'
<1>1. /\ calls'[c] = Call(t, k) /\ \A d \in Slots : d # c => calls'[d] = calls[d]
    BY DEF CallTypes
<1>2. Call(t, k).by = t /\ Call(t, k).token = k /\ Call(t, k) # NoCall
    BY DEF Call, NoCall
<1>3. c \in Busy' /\ \A d \in Busy : d # c => d \in Busy' /\ calls'[d] = calls[d]
    BY <1>1, <1>2 DEF Busy, Slots
<1> SUFFICES ASSUME NEW u \in Tabs, CallIsOut(u)' PROVE RefreshesOf(u)' # {}
    BY DEF CallOut
<1>4. CASE u = t /\ k # 0
    BY <1>1, <1>2, <1>3, <1>4 DEF RefreshesOf, CallsOf
<1>5. CASE u = t /\ k = 0
    <2>1. PICK d \in RefreshesOf(t) : d # c
        BY <1>5 DEF CallOut, RefreshesOf, CallsOf
    <2> QED BY <1>3, <1>5, <2>1 DEF RefreshesOf, CallsOf
<1>6. CASE u # t
    <2>1. PICK d \in RefreshesOf(u) : TRUE
        BY <1>6 DEF CallOut, CallIsOut
    <2>2. d # c
        BY <1>6, <2>1 DEF RefreshesOf, CallsOf
    <2> QED BY <1>3, <2>1, <2>2 DEF RefreshesOf, CallsOf
<1> QED BY <1>4, <1>5, <1>6

(* A refresh that is over takes its own call, and no other tab's.          *)
LEMMA OverIsOver ==
    ASSUME CallOut, NEW t \in Tabs, ~CallIsOut(t)', \A u \in Tabs : u # t => page'[u] = page[u],
           \A d \in Busy : calls[d].by # t => d \in Busy' /\ calls'[d] = calls[d]
    PROVE  CallOut'
<1>1. ASSUME NEW u \in Tabs, CallIsOut(u)'
      PROVE  /\ CallIsOut(u)
             /\ \A d \in RefreshesOf(u) : d \in Busy' /\ calls'[d].by = u /\ calls'[d].token # 0
    BY <1>1 DEF RefreshesOf, CallsOf, CallIsOut
<1> QED BY <1>1, CallsStayOut

(* The server keeps a call that a tab waits for until the tab has heard.   *)
LEMMA ServerKeepsCalls ==
    ASSUME SessionsAssumption, SessionInv, CallOut, NEW c \in Slots, Serve(c)
    PROVE  CallOut'
<1>0. CallTypes /\ ServerInv
    BY DEF SessionInv, ServerInv
<1>1. SUFFICES ASSUME NEW d \in Busy, calls[d].by \in Tabs
               PROVE  d \in Busy' /\ calls'[d].by = calls[d].by /\ calls'[d].token = calls[d].token
    <2>1. UNCHANGED page
        BY DEF Serve, Exchange, LookForClient, Issue, Fail
    <2> QED BY <1>1, <2>1, CallsStayOut DEF RefreshesOf, CallsOf, CallIsOut
<1>2. c \in Busy
    BY <1>0, BusyCalls DEF Serve, Exchange, LookForClient, Issue, Fail, AboutToCommit
<1>3. ASSUME NEW point \in {"held", "checked", "refused", "failed"}, At(c, point)
      PROVE  d \in Busy' /\ calls'[d].by = calls[d].by /\ calls'[d].token = calls[d].token
    BY <1>0, <1>2, <1>3, Moved
<1>4. ASSUME calls' = [calls EXCEPT ![c] = NoCall], calls[c].by \notin Tabs
      PROVE  d \in Busy' /\ calls'[d].by = calls[d].by /\ calls'[d].token = calls[d].token
    <2>1. d # c
        BY <1>1, <1>4
    <2>2. calls'[d] = calls[d]
        BY <1>0, <1>1, <1>4, <2>1 DEF CallTypes, Busy
    <2> QED BY <1>1, <2>2 DEF Busy
<1>5. ASSUME NEW point \in {"refused", "failed"}, Refuse(c, point)
      PROVE  d \in Busy' /\ calls'[d].by = calls[d].by /\ calls'[d].token = calls[d].token
    BY <1>3, <1>4, <1>5 DEF Refuse
<1>6. CASE Exchange(c)
    BY <1>3, <1>5, <1>6 DEF Exchange
<1>7. CASE LookForClient(c)
    BY <1>3, <1>4, <1>7 DEF LookForClient, ClientHasGone, SessionsAssumption
<1>8. CASE Fail(c)
    BY <1>5, <1>8 DEF Fail
<1>9. CASE Issue(c)
    <2>1. /\ \A e \in Busy' : calls'[e].token = calls[e].token /\ calls'[e].by = calls[e].by
          /\ c \in Busy' <=> calls[c].by \in Tabs
        BY <1>0, <1>9, IssueKeeps
    <2>2. d # c => d \in Busy'
        BY <1>1, <1>9 DEF Issue, Busy, Slots
    <2>3. d \in Busy'
        BY <1>1, <2>1, <2>2
    <2> QED BY <2>1, <2>3
<1> QED BY <1>6, <1>7, <1>8, <1>9 DEF Serve

(* A tab asks, presents or signs in.                                       *)
LEMMA CallerKeepsCalls ==
    ASSUME SessionsAssumption, SessionInv, CallOut, NEW t \in Tabs,
           Open(t) \/ Refresh(t) \/ Present(t) \/ SignIn(t)
    PROVE  CallOut'
<1>0. CallTypes /\ page \in [Tabs -> PageRow]
    BY DEF SessionInv, ServerInv, TabsInv
<1>1. CASE Open(t) \/ Refresh(t)
    <2>1. UNCHANGED calls /\ \A u \in Tabs : CallIsOut(u)' => CallIsOut(u)
        BY <1>0, <1>1 DEF Open, Refresh, Ask, CallIsOut, PageRow
    <2> QED BY <2>1, SameCallsStayOut
<1>2. CASE Present(t) /\ stored = 0
    <2>1. Settle(t, AfterError(t)) /\ UNCHANGED calls
        BY <1>2 DEF Present
    <2>2. \A u \in Tabs : CallIsOut(u)' => CallIsOut(u)
        BY <1>0, <2>1 DEF Settle, CallIsOut, PageRow
    <2> QED BY <2>1, <2>2, SameCallsStayOut
<1>3. CASE Present(t) /\ stored # 0
    <2>1. /\ calls' = [calls EXCEPT ![FreeSlot] = Call(t, stored)] /\ t \in Waiting
          /\ \A u \in Tabs : u # t => page'[u] = page[u]
        BY <1>0, <1>3 DEF Present, Waiting
    <2>2. Cardinality(Busy) < MaxCalls
        <3>1. Cardinality(Waiting) # 0
            BY <2>1, Sizes, FS_EmptySet
        <3> QED BY <3>1, Sizes DEF SessionInv, RoomOK
    <2>3. FreeSlot \in Slots /\ FreeSlot \notin Busy
        BY <2>2, FreeSlotIsFree
    <2> QED BY <1>0, <1>3, <2>1, <2>3, BegunIsOut
<1>4. CASE SignIn(t)
    <2>1. calls' = [calls EXCEPT ![FreeSlot] = Call(t, 0)] /\ UNCHANGED page /\ Room
        BY <1>4 DEF SignIn
    <2>2. Cardinality(Busy) < MaxCalls
        <3>1. Cardinality(Busy) + Cardinality(Waiting) < MaxCalls
            BY <2>1 DEF Room, Waiting
        <3> QED BY <3>1, Sizes
    <2>3. FreeSlot \in Slots /\ FreeSlot \notin Busy
        BY <2>2, FreeSlotIsFree
    <2>4. CallIsOut(t)' => CallIsOut(t)
        BY <2>1 DEF CallIsOut
    <2> QED BY <1>0, <2>1, <2>3, <2>4, BegunIsOut
<1> QED BY <1>1, <1>2, <1>3, <1>4

(* A tab hears of its call, gives it up or is closed.                      *)
LEMMA HearerKeepsCalls ==
    ASSUME SessionsAssumption, SessionInv, CallOut, NEW t \in Tabs, NEW c \in Slots,
           Receive(t, c) \/ Refused(t, c) \/ GivesUp(t, c) \/ Close(t)
    PROVE  CallOut'
<1>0. CallTypes /\ ServerInv /\ page \in [Tabs -> PageRow]
    BY DEF SessionInv, ServerInv, TabsInv
<1>1. ASSUME NEW status, Settle(t, status)
      PROVE  ~CallIsOut(t)' /\ \A u \in Tabs : u # t => page'[u] = page[u]
    BY <1>0, <1>1 DEF Settle, CallIsOut, PageRow
<1>2. ASSUME NEW S \in SUBSET CallsOf(t), NEW told \in BOOLEAN, Abandon(S, told), NEW d \in Busy, d \notin S
      PROVE  d \in Busy' /\ calls'[d] = calls[d]
    BY <1>2 DEF Abandon, Busy, Slots
<1>3. ASSUME calls' = [calls EXCEPT ![c] = NoCall], c \in CallsOf(t)
      PROVE  \A d \in Busy : d # c => d \in Busy' /\ calls'[d] = calls[d]
    BY <1>0, <1>3, Dropped DEF CallsOf
<1>4. CASE Receive(t, c)
    <2>1. c \in CallsOf(t) /\ calls' = [calls EXCEPT ![c] = NoCall]
        BY <1>4 DEF Receive
    <2>2. CASE calls[c].token # 0
        <3>1. PICK status : Settle(t, status)
            BY <1>4, <2>2 DEF Receive
        <3> QED BY <1>1, <1>3, <2>1, <3>1, OverIsOver DEF CallsOf
    <2>3. CASE calls[c].token = 0
        <3>1. page' = [page EXCEPT ![t].status = "in"]
            BY <1>4, <2>3 DEF Receive
        <3>2. \A u \in Tabs : CallIsOut(u)' => CallIsOut(u)
            BY <1>0, <3>1 DEF CallIsOut, PageRow
        <3> QED BY <1>3, <2>1, <2>3, <3>2, CallsStayOut DEF RefreshesOf, CallsOf
    <2> QED BY <2>2, <2>3
<1>5. CASE Refused(t, c) /\ page[t].asking = "first" /\ stored \notin {0, calls[c].token}
    <2>1. c \in CallsOf(t) /\ calls' = [calls EXCEPT ![c] = Call(t, stored)] /\ stored # 0
          /\ \A u \in Tabs : u # t => page'[u] = page[u]
        BY <1>0, <1>5 DEF Refused
    <2> QED BY <1>0, <2>1, BegunIsOut DEF CallsOf
<1>6. CASE Refused(t, c) /\ ~(page[t].asking = "first" /\ stored \notin {0, calls[c].token})
    <2>1. c \in CallsOf(t) /\ calls' = [calls EXCEPT ![c] = NoCall]
        BY <1>6 DEF Refused
    <2>2. PICK status : Settle(t, status)
        BY <1>6 DEF Refused
    <2> QED BY <1>1, <1>3, <2>1, <2>2, OverIsOver DEF CallsOf
<1>7. CASE GivesUp(t, c)
    <2>0. PICK told \in BOOLEAN : Abandon({c}, told)
        BY <1>7 DEF GivesUp
    <2>1. c \in CallsOf(t) /\ {c} \in SUBSET CallsOf(t)
        BY <1>7 DEF GivesUp
    <2>2. CASE calls[c].token # 0
        <3>1. Settle(t, AfterError(t))
            BY <1>7, <2>2 DEF GivesUp, SettleError
        <3> QED BY <1>1, <1>2, <2>0, <2>1, <3>1, OverIsOver DEF CallsOf
    <2>3. CASE calls[c].token = 0
        <3>1. UNCHANGED page
            BY <1>7, <2>3 DEF GivesUp
        <3> QED BY <1>2, <2>0, <2>1, <2>3, <3>1, CallsStayOut DEF RefreshesOf, CallsOf, CallIsOut
    <2> QED BY <2>2, <2>3
<1>8. CASE Close(t)
    <2>1. Abandon(CallsOf(t), TRUE) /\ page' = [page EXCEPT ![t] = NoPage]
        BY <1>8 DEF Close
    <2>2. ~CallIsOut(t)' /\ \A u \in Tabs : u # t => page'[u] = page[u]
        BY <1>0, <2>1 DEF CallIsOut, NoPage
    <2>3. \A d \in Busy : calls[d].by # t => d \in Busy' /\ calls'[d] = calls[d]
        <3>1. TRUE \in BOOLEAN /\ CallsOf(t) \in SUBSET CallsOf(t)
            OBVIOUS
        <3>2. \A d \in Busy : d \notin CallsOf(t) => d \in Busy' /\ calls'[d] = calls[d]
            BY <1>2, <2>1, <3>1
        <3> QED BY <3>2 DEF CallsOf
    <2> QED BY <2>2, <2>3, OverIsOver
<1> QED BY <1>4, <1>5, <1>6, <1>7, <1>8

(* Every step leaves the calls that tabs wait for to be heard of.          *)
LEMMA NextKeepsCalls ==
    ASSUME SessionsAssumption, SessionInv, CallOut, [SessionNext]_sessionVars
    PROVE  CallOut'
<1>0. page \in [Tabs -> PageRow]
    BY DEF SessionInv, TabsInv
<1>1. ASSUME NEW t \in Tabs, StartLogout(t) \/ FinishLogout(t) \/ Logout(t)
      PROVE  CallOut'
    <2>1. UNCHANGED calls /\ \A u \in Tabs : CallIsOut(u)' => CallIsOut(u)
        BY <1>0, <1>1 DEF StartLogout, FinishLogout, Logout, CallIsOut, PageRow
    <2> QED BY <2>1, SameCallsStayOut
<1>2. CASE RevokeSessions \/ UNCHANGED sessionVars
    <2>1. UNCHANGED <<page, calls>>
        BY <1>2 DEF RevokeSessions, sessionVars
    <2> QED BY <2>1, SameCallsStayOut DEF CallIsOut
<1>3. ASSUME NEW t \in Tabs, Open(t) \/ Refresh(t) \/ Present(t) \/ SignIn(t)
      PROVE  CallOut'
    BY <1>3, CallerKeepsCalls
<1>4. ASSUME NEW c \in Slots, Serve(c) PROVE CallOut'
    BY <1>4, ServerKeepsCalls
<1>5. ASSUME NEW t \in Tabs, NEW c \in Slots, Receive(t, c) \/ Refused(t, c) \/ GivesUp(t, c)
      PROVE  CallOut'
    BY <1>5, HearerKeepsCalls
<1>6. ASSUME NEW t \in Tabs, Close(t) PROVE CallOut'
    <2>1. 1 \in Slots
        BY DEF Slots, SessionsAssumption
    <2> QED BY <1>6, <2>1, HearerKeepsCalls
<1>7. ASSUME NEW c \in Slots, PageGoesOn(c) PROVE CallOut'
    BY <1>5, <1>7 DEF PageGoesOn
<1> QED BY <1>1, <1>2, <1>3, <1>4, <1>5, <1>6, <1>7 DEF SessionNext

(* The first in the queue has the lock or has its call out, and a call that*)
(* waits for a row waits for another that has it and waits for nobody.     *)
LEMMA OrACallGoesOn ==
    ASSUME SessionInv, CallOut
    PROVE  RefreshGoesOn
<1>0. TabsInv
    BY DEF SessionInv
<1>1. ASSUME NEW c \in Busy
      PROVE  \E d \in Busy : calls[d].point = "sent" => RowFree(calls[d].token)
    <2>1. CASE RowFree(calls[c].token)
        BY <2>1
    <2>2. CASE ~RowFree(calls[c].token)
        <3>1. PICK d \in Busy : calls[d].point \in {"held", "checked"}
            BY <2>2 DEF RowFree
        <3> QED BY <3>1
    <2> QED BY <2>1, <2>2
<1>2. ASSUME NEW t \in Tabs, CallIsOut(t) PROVE Busy # {}
    BY <1>2 DEF CallOut, RefreshesOf, CallsOf
<1> SUFFICES ASSUME NEW t \in Tabs, page[t].asking # "no", Busy = {}
             PROVE  \E u \in Tabs : page[u].asking = "queued" /\ HasTheLock(u)
    BY <1>1 DEF RefreshGoesOn
<1>3. \A u \in Tabs : page[u].asking # "no" => page[u].asking = "queued"
    BY <1>0, <1>2 DEF TabsInv, PageRow, CallIsOut
<1>4. CASE ~locks
    BY <1>3, <1>4 DEF HasTheLock
<1>5. CASE locks
    <2>1. queue \in Seq(Tabs) /\ InQueue(t)
        BY <1>0, <1>5 DEF TabsInv, TabOK
    <2>2. 1 \in DOMAIN queue /\ Head(queue) = queue[1] /\ queue[1] \in Tabs
        BY <2>1 DEF InQueue
    <2>3. InQueue(queue[1])
        BY <2>2 DEF InQueue
    <2>4. page[queue[1]].asking # "no"
        BY <1>0, <1>5, <2>2, <2>3 DEF TabsInv, TabOK
    <2> QED BY <1>3, <2>2, <2>4 DEF HasTheLock
<1> QED BY <1>4, <1>5

(* Of any number of tabs that want a refresh one can make its call, or some*)
(* call can go a step on: the lock and the rows are always somebody's who  *)
(* is still there, whatever tabs close and connections drop.               *)
THEOREM RefreshGoesOnHolds == SessionSpec => []RefreshGoesOn
<1>1. SessionInit => CallOut
    BY DEF SessionInit, CallOut, CallIsOut, NoPage
<1>2. SessionInv /\ CallOut /\ [SessionNext]_sessionVars => CallOut'
    BY NextKeepsCalls, SessionsAssumption
<1>3. SessionInv /\ CallOut => RefreshGoesOn
    BY OrACallGoesOn
<1> QED BY <1>1, <1>2, <1>3, SessionInvariant, PTL DEF SessionSpec
=============================================================================
