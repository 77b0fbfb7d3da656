----------------------------- MODULE OutboxProofs -----------------------------
(***************************************************************************)
(* The safety properties of Outbox for every set of events, leads and      *)
(* workers, every batch size and every limit on attempts.                  *)
(*                                                                         *)
(* The argument: a claimed row is pending and locked by one worker only,   *)
(* so a draft is always one attempt ahead of the row it will replace       *)
(* (DraftsFollowRows), and a delivery not yet on record is either in such  *)
(* a draft or was counted as unrecorded (Accounted).                       *)
(***************************************************************************)
EXTENDS Pipeline, TLAPS

\* No two transactions hold one event.
ExclusiveClaim ==
    \A v, w \in Worker : v # w => claimed[v] \cap claimed[w] = {}

\* A transaction holds pending rows, and handles only rows it holds.
ClaimsArePending ==
    \A w \in Worker :
        /\ todo[w] \subseteq claimed[w]
        /\ \A e \in claimed[w] : status[e] = "pending"

\* What a draft says of a claimed row, before and after its handler ran.
Untouched(w, e) ==
    draft[w][e].status = "pending" /\ draft[w][e].attempts = attempts[e]
Handled(w, e) ==
    /\ draft[w][e].attempts = attempts[e] + 1
    /\ \/ draft[w][e].status = "delivered" /\ performed[e] > 0
       \/ draft[w][e].status = "failed" /\ attempts[e] + 1 = MaxAttempts
       \/ draft[w][e].status = "pending" /\ attempts[e] + 1 < MaxAttempts

DraftsFollowRows ==
    \A w \in Worker : \A e \in claimed[w] :
        IF e \in todo[w] THEN Untouched(w, e) ELSE Handled(w, e)

\* Some session holds a delivery of e that is not committed yet.
DeliveryInDraft(e) ==
    \E w \in Worker : e \in claimed[w] \ todo[w] /\ draft[w][e].status = "delivered"

\* As long as no delivery of e is on record or about to be, everything the
\* world has seen of e is unrecorded.
Accounted ==
    \A e \in Event :
        status[e] \in {"absent", "pending"} /\ ~DeliveryInDraft(e)
            => performed[e] <= unrecorded[e]

\* A row that is not queued yet has not been tried.
FreshRows == \A e \in Event : status[e] = "absent" => attempts[e] = 0

IInv ==
    /\ TypeOK
    /\ FreshRows
    /\ ExclusiveClaim
    /\ ClaimsArePending
    /\ DraftsFollowRows
    /\ AttemptsBounded
    /\ DeliveredWasPerformed
    /\ Accounted
    /\ OnceUnlessUnrecorded

\* The initial state satisfies the inductive invariant.
LEMMA InitIInv == Init => IInv
<1> SUFFICES ASSUME Init PROVE IInv
  OBVIOUS
<1>1. TypeOK
  BY BoundAssumption DEF Init, TypeOK, Status, Final, Row, NoDraft
<1> QED
  BY <1>1 DEF Init, IInv, TypeOK, FreshRows, ExclusiveClaim, ClaimsArePending, DraftsFollowRows,
     AttemptsBounded, DeliveredWasPerformed, Accounted, OnceUnlessUnrecorded

\* The rows of a new lead are absent until then, so nobody holds them.
LEMMA QueueKeeps ==
    ASSUME IInv, NEW l \in Lead, NEW owed \in SUBSET Event, Queue(l, owed) PROVE IInv'
<1> USE AttemptsAssumption, BoundAssumption, LeadOfAssumption
    DEF IInv, TypeOK, ClaimsArePending, Queue, Status, Final, Row, tableVars, sessionVars,
        worldVars
<1>1. TypeOK'
  BY DEF TypeOK
<1>2. FreshRows'
  BY DEF FreshRows
<1>3. ExclusiveClaim'
  BY DEF ExclusiveClaim
<1>4. ClaimsArePending'
  BY DEF ClaimsArePending
<1>5. DraftsFollowRows'
  BY DEF DraftsFollowRows, Untouched, Handled
<1>6. AttemptsBounded'
  BY DEF AttemptsBounded, FreshRows
<1>7. DeliveredWasPerformed'
  BY DEF DeliveredWasPerformed
<1>8. Accounted'
  BY DEF Accounted, DeliveryInDraft
<1>9. OnceUnlessUnrecorded'
  BY DEF OnceUnlessUnrecorded
<1> QED
  BY <1>1, <1>2, <1>3, <1>4, <1>5, <1>6, <1>7, <1>8, <1>9

\* A claim takes due rows that nobody holds and reads them as they are.
LEMMA ClaimKeeps == ASSUME IInv, NEW w \in Worker, Claim(w) PROVE IInv'
<1> USE AttemptsAssumption, BoundAssumption, LeadOfAssumption
    DEF IInv, TypeOK, ClaimsArePending, Claim, Status, Final, Row, tableVars, sessionVars,
        worldVars, Due, Locked, RowOf, NoDraft
<1>1. TypeOK'
  BY DEF TypeOK
<1>2. FreshRows'
  BY DEF FreshRows
<1>3. ExclusiveClaim'
  BY DEF ExclusiveClaim
<1>4. ClaimsArePending'
  BY DEF ClaimsArePending
<1>5. DraftsFollowRows'
  BY DEF DraftsFollowRows, Untouched, Handled
<1>6. AttemptsBounded'
  BY DEF AttemptsBounded
<1>7. DeliveredWasPerformed'
  BY DEF DeliveredWasPerformed
<1>8. Accounted'
  BY DEF Accounted, DeliveryInDraft
<1>9. OnceUnlessUnrecorded'
  BY DEF OnceUnlessUnrecorded
<1> QED
  BY <1>1, <1>2, <1>3, <1>4, <1>5, <1>6, <1>7, <1>8, <1>9

\* The commit moves each draft, one attempt ahead, into its row.
LEMMA CommitKeeps == ASSUME IInv, NEW w \in Worker, Commit(w) PROVE IInv'
<1> USE AttemptsAssumption, BoundAssumption, LeadOfAssumption
    DEF IInv, TypeOK, ClaimsArePending, Commit, Status, Final, Row, tableVars, sessionVars,
        worldVars, RowOf, NoDraft
<1>1. TypeOK'
  BY DEF TypeOK, DraftsFollowRows, Handled
<1>2. FreshRows'
  BY DEF FreshRows, DraftsFollowRows, Handled
<1>3. ExclusiveClaim'
  BY DEF ExclusiveClaim, DraftsFollowRows, Handled
<1>4. ClaimsArePending'
  BY DEF ClaimsArePending, ExclusiveClaim
<1>5. DraftsFollowRows'
  BY DEF DraftsFollowRows, Untouched, Handled, ExclusiveClaim
<1>6. AttemptsBounded'
  BY DEF AttemptsBounded, DraftsFollowRows, Handled
<1>7. DeliveredWasPerformed'
  BY DEF DeliveredWasPerformed, DraftsFollowRows, Handled
<1>8. Accounted'
  BY DEF Accounted, DeliveryInDraft, DraftsFollowRows, Handled
<1>9. OnceUnlessUnrecorded'
  BY DEF OnceUnlessUnrecorded, DraftsFollowRows, Handled
<1> QED
  BY <1>1, <1>2, <1>3, <1>4, <1>5, <1>6, <1>7, <1>8, <1>9

\* A rollback turns the deliveries among the drafts into unrecorded ones.
LEMMA RollbackKeeps == ASSUME IInv, NEW w \in Worker, Rollback(w) PROVE IInv'
<1> USE AttemptsAssumption, BoundAssumption, LeadOfAssumption
    DEF IInv, TypeOK, ClaimsArePending, Rollback, Status, Final, Row, tableVars, sessionVars,
        worldVars, NoDraft
<1>1. TypeOK'
  BY DEF TypeOK
<1>2. FreshRows'
  BY DEF FreshRows
<1>3. ExclusiveClaim'
  BY DEF ExclusiveClaim
<1>4. ClaimsArePending'
  BY DEF ClaimsArePending
<1>5. DraftsFollowRows'
  BY DEF DraftsFollowRows, Untouched, Handled
<1>6. AttemptsBounded'
  BY DEF AttemptsBounded
<1>7. DeliveredWasPerformed'
  BY DEF DeliveredWasPerformed
<1>8. Accounted'
  <2> SUFFICES ASSUME NEW e \in Event, status[e] \in {"absent", "pending"},
                      ~DeliveryInDraft(e)'
               PROVE  performed[e] <= unrecorded'[e]
    BY DEF Accounted
  <2>1. CASE e \in claimed[w] \ todo[w] /\ draft[w][e].status = "delivered"
    BY <2>1 DEF OnceUnlessUnrecorded
  <2>2. CASE ~(e \in claimed[w] \ todo[w] /\ draft[w][e].status = "delivered")
    <3>1. ~DeliveryInDraft(e)
      BY <2>2 DEF DeliveryInDraft
    <3> QED
      BY <2>2, <3>1 DEF Accounted
  <2> QED
    BY <2>1, <2>2
<1>9. OnceUnlessUnrecorded'
  BY DEF OnceUnlessUnrecorded, Accounted, DeliveryInDraft, ExclusiveClaim
<1> QED
  BY <1>1, <1>2, <1>3, <1>4, <1>5, <1>6, <1>7, <1>8, <1>9

\* The cascade takes rows that nobody holds.
LEMMA WithdrawKeeps == ASSUME IInv, NEW leads \in SUBSET Lead, Withdraw(leads) PROVE IInv'
<1> USE AttemptsAssumption, BoundAssumption, LeadOfAssumption
    DEF IInv, TypeOK, ClaimsArePending, Withdraw, Status, Final, Row, tableVars, sessionVars,
        worldVars, Locked
<1>1. TypeOK'
  BY DEF TypeOK
<1>2. FreshRows'
  BY DEF FreshRows
<1>3. ExclusiveClaim'
  BY DEF ExclusiveClaim
<1>4. ClaimsArePending'
  BY DEF ClaimsArePending
<1>5. DraftsFollowRows'
  BY DEF DraftsFollowRows, Untouched, Handled
<1>6. AttemptsBounded'
  BY DEF AttemptsBounded
<1>7. DeliveredWasPerformed'
  BY DEF DeliveredWasPerformed
<1>8. Accounted'
  BY DEF Accounted, DeliveryInDraft
<1>9. OnceUnlessUnrecorded'
  BY DEF OnceUnlessUnrecorded
<1> QED
  BY <1>1, <1>2, <1>3, <1>4, <1>5, <1>6, <1>7, <1>8, <1>9

\* Time changes waits only.
LEMMA TickKeeps == ASSUME IInv, Tick PROVE IInv'
<1> USE AttemptsAssumption, BoundAssumption, LeadOfAssumption
    DEF IInv, TypeOK, ClaimsArePending, Tick, Status, Final, Row, tableVars, sessionVars,
        worldVars, Sooner
<1>1. TypeOK'
  <2>1. wait' \in [Event -> Int]
    OBVIOUS
  <2>2. ASSUME NEW w \in Worker, NEW e \in Event PROVE draft'[w][e] \in Row
    <3>1. draft[w][e] \in Row /\ Sooner(draft[w][e].wait) \in Int
      OBVIOUS
    <3> HIDE DEF Sooner
    <3>2. [draft[w][e] EXCEPT !.wait = Sooner(@)] \in Row
      BY <3>1
    <3> QED
      BY <3>1, <3>2
  <2>3. draft' \in [Worker -> [Event -> Row]]
    <3> HIDE DEF Row, Sooner
    <3> QED
      BY <2>2
  <2> QED
    BY <2>1, <2>3
<1>2. FreshRows'
  BY DEF FreshRows
<1>3. ExclusiveClaim'
  BY DEF ExclusiveClaim
<1>4. ClaimsArePending'
  BY DEF ClaimsArePending
<1>5. DraftsFollowRows'
  BY DEF DraftsFollowRows, Untouched, Handled
<1>6. AttemptsBounded'
  BY DEF AttemptsBounded
<1>7. DeliveredWasPerformed'
  BY DEF DeliveredWasPerformed
<1>8. Accounted'
  BY DEF Accounted, DeliveryInDraft
<1>9. OnceUnlessUnrecorded'
  BY DEF OnceUnlessUnrecorded
<1> QED
  BY <1>1, <1>2, <1>3, <1>4, <1>5, <1>6, <1>7, <1>8, <1>9

\* A failed attempt is one attempt ahead, and dead-lettered at the last one.
LEMMA FailureCounts ==
    ASSUME NEW row \in Row, row.status = "pending", row.attempts < MaxAttempts
    PROVE  /\ AfterFailure(row) \in Row
           /\ AfterFailure(row).attempts = row.attempts + 1
           /\ \/ AfterFailure(row).status = "failed" /\ row.attempts + 1 = MaxAttempts
              \/ AfterFailure(row).status = "pending" /\ row.attempts + 1 < MaxAttempts
<1> DEFINE n == row.attempts + 1
<1>1. n \in 1..MaxAttempts
  BY AttemptsAssumption DEF Row
<1>2. Backoff(n) \in Int
  BY <1>1, BackoffAssumption
<1> HIDE DEF n
<1>3. CASE n >= MaxAttempts
  <2>1. AfterFailure(row) = [row EXCEPT !.attempts = n, !.status = "failed"]
    BY <1>3 DEF AfterFailure, n
  <2>2. n = MaxAttempts /\ n \in Nat
    BY <1>1, <1>3, AttemptsAssumption
  <2> QED
    BY <2>1, <2>2 DEF Row, Status, Final, n
<1>4. CASE ~(n >= MaxAttempts)
  <2>1. AfterFailure(row) = [row EXCEPT !.attempts = n, !.wait = Backoff(n)]
    BY <1>4 DEF AfterFailure, n
  <2>2. n < MaxAttempts /\ n \in Nat
    BY <1>1, <1>4, AttemptsAssumption
  <2> QED
    BY <1>2, <2>1, <2>2 DEF Row, Status, Final, n
<1> QED
  BY <1>3, <1>4

\* So is a successful one.
LEMMA SuccessCounts ==
    ASSUME NEW row \in Row
    PROVE  AfterSuccess(row) \in Row /\ AfterSuccess(row).attempts = row.attempts + 1
<1> DEFINE n == row.attempts + 1
<1>1. AfterSuccess(row) = [row EXCEPT !.attempts = n, !.status = "delivered"]
  BY DEF AfterSuccess
<1>2. n \in Nat
  BY DEF Row
<1> HIDE DEF n
<1>3. AfterSuccess(row) \in Row /\ AfterSuccess(row).attempts = n
  BY <1>1, <1>2 DEF Row, Status, Final
<1> QED
  BY <1>3 DEF n

\* The handler moves one draft of the worker's own batch one attempt ahead.
LEMMA HandleKeeps == ASSUME IInv, NEW w \in Worker, NEW e \in Event, Handle(w, e) PROVE IInv'
<1> USE DEF IInv, TypeOK, tableVars, worldVars
<1> DEFINE d == draft[w][e]
<1>1. e \in claimed[w] /\ e \in todo[w] /\ status[e] = "pending"
  BY DEF Handle, ClaimsArePending
<1>2. d \in Row /\ d.status = "pending" /\ d.attempts = attempts[e] /\ attempts[e] < MaxAttempts
  BY <1>1 DEF DraftsFollowRows, Untouched, AttemptsBounded
<1>3. PICK x : draft' = [draft EXCEPT ![w][e] = x] /\ x \in {AfterSuccess(d), AfterFailure(d)}
  BY DEF Handle
<1>4. x \in Row /\ x.attempts = attempts[e] + 1
  <2>1. AfterFailure(d) \in Row /\ AfterFailure(d).attempts = d.attempts + 1
    BY <1>2, FailureCounts
  <2>2. AfterSuccess(d) \in Row /\ AfterSuccess(d).attempts = d.attempts + 1
    BY <1>2, SuccessCounts
  <2> QED
    BY <1>2, <1>3, <2>1, <2>2
<1>5. \/ /\ x.status = "delivered" /\ performed' = [performed EXCEPT ![e] = @ + 1]
         /\ UNCHANGED unrecorded
      \/ /\ \/ x.status = "failed" /\ attempts[e] + 1 = MaxAttempts
            \/ x.status = "pending" /\ attempts[e] + 1 < MaxAttempts
         /\ \/ UNCHANGED <<performed, unrecorded>>
            \/ /\ performed' = [performed EXCEPT ![e] = @ + 1]
               /\ unrecorded' = [unrecorded EXCEPT ![e] = @ + 1]
  <2>1. draft'[w][e] = x
    BY <1>3
  <2>2. CASE draft' = [draft EXCEPT ![w][e] = AfterSuccess(@)] /\ UNCHANGED unrecorded
               /\ performed' = [performed EXCEPT ![e] = @ + 1]
    BY <1>2, <2>1, <2>2 DEF AfterSuccess, Row
  <2>3. CASE draft' = [draft EXCEPT ![w][e] = AfterFailure(@)]
    <3>1. x = AfterFailure(d)
      BY <2>1, <2>3
    <3>2. \/ x.status = "failed" /\ attempts[e] + 1 = MaxAttempts
          \/ x.status = "pending" /\ attempts[e] + 1 < MaxAttempts
      BY <1>2, <3>1, FailureCounts
    <3>3. CASE UNCHANGED <<performed, unrecorded>>
      BY <3>2, <3>3
    <3>4. CASE /\ performed' = [performed EXCEPT ![e] = @ + 1]
               /\ unrecorded' = [unrecorded EXCEPT ![e] = @ + 1]
      BY <3>2, <3>4
    <3>5. x.status # "delivered"
      BY <3>2
    <3>6. AfterSuccess(d).status = "delivered"
      BY <1>2 DEF AfterSuccess, Row
    <3> QED
      BY <2>1, <3>3, <3>4, <3>5, <3>6 DEF Handle
  <2> QED
    BY <2>2, <2>3 DEF Handle
<1>6. UNCHANGED <<status, attempts, wait, claimed, rollbacks>>
        /\ todo' = [todo EXCEPT ![w] = @ \ {e}]
  BY DEF Handle
<1>7. \A v \in Worker : v # w => e \notin claimed[v]
  BY <1>1 DEF ExclusiveClaim
<1>8. \A f \in Event : performed'[f] >= performed[f]
  BY <1>5
<1> HIDE DEF d
<1>9. TypeOK'
  <2>1. draft' \in [Worker -> [Event -> Row]]
    BY <1>3, <1>4
  <2>2. performed' \in [Event -> Nat] /\ unrecorded' \in [Event -> Nat]
    BY <1>5
  <2> QED
    BY <1>6, <2>1, <2>2
<1>10. ExclusiveClaim' /\ ClaimsArePending' /\ AttemptsBounded' /\ FreshRows'
  BY <1>6 DEF ExclusiveClaim, ClaimsArePending, AttemptsBounded, FreshRows
<1>11. DraftsFollowRows'
  <2> SUFFICES ASSUME NEW v \in Worker, NEW f \in claimed[v]
               PROVE  IF f \in todo'[v] THEN Untouched(v, f)' ELSE Handled(v, f)'
    BY <1>6 DEF DraftsFollowRows
  <2>1. CASE v = w /\ f = e
    <3>1. f \notin todo'[v] /\ draft'[v][f] = x
      BY <1>3, <1>6, <2>1
    <3> QED
      BY <1>4, <1>5, <1>6, <2>1, <3>1 DEF Handled
  <2>2. CASE ~(v = w /\ f = e)
    <3>1. draft'[v][f] = draft[v][f] /\ (f \in todo'[v] <=> f \in todo[v])
      BY <1>3, <1>6, <2>2
    <3> QED
      BY <1>6, <1>8, <1>9, <3>1 DEF DraftsFollowRows, Untouched, Handled
  <2> QED
    BY <2>1, <2>2
<1>12. DeliveredWasPerformed'
  BY <1>6, <1>8, <1>9 DEF DeliveredWasPerformed
<1>13. performed[e] <= unrecorded[e]
  <2>1. ~DeliveryInDraft(e)
    BY <1>1, <1>7 DEF DeliveryInDraft
  <2> QED
    BY <1>1, <2>1 DEF Accounted
<1>14. Accounted'
  <2> SUFFICES ASSUME NEW f \in Event, status[f] \in {"absent", "pending"},
                      ~DeliveryInDraft(f)'
               PROVE  performed'[f] <= unrecorded'[f]
    BY <1>6 DEF Accounted
  <2>1. CASE f = e
    <3>1. x.status # "delivered"
      BY <1>1, <1>3, <1>6, <2>1 DEF DeliveryInDraft
    <3> QED
      BY <1>5, <1>13, <2>1, <3>1
  <2>2. CASE f # e
    <3>1. ~DeliveryInDraft(f)
      BY <1>3, <1>6, <2>2 DEF DeliveryInDraft
    <3> QED
      BY <1>5, <2>2, <3>1 DEF Accounted
  <2> QED
    BY <2>1, <2>2
<1>15. OnceUnlessUnrecorded'
  <2> SUFFICES ASSUME NEW f \in Event PROVE performed'[f] <= unrecorded'[f] + 1
    BY DEF OnceUnlessUnrecorded
  <2>1. CASE f = e
    BY <1>5, <1>13, <2>1
  <2>2. CASE f # e
    BY <1>5, <2>2 DEF OnceUnlessUnrecorded
  <2> QED
    BY <2>1, <2>2
<1> QED
  BY <1>9, <1>10, <1>11, <1>12, <1>14, <1>15

-----------------------------------------------------------------------------
\* Every step of the workers, the tenant and time keeps IInv.
LEMMA IInvStep == IInv /\ [Next]_vars => IInv'
<1> SUFFICES ASSUME IInv, [Next]_vars PROVE IInv'
  OBVIOUS
<1>1. ASSUME NEW w \in Worker, Drain(w) \/ Rollback(w) PROVE IInv'
  BY <1>1, ClaimKeeps, CommitKeeps, HandleKeeps, RollbackKeeps DEF Drain
<1>2. ASSUME NEW l \in Lead, NEW owed \in SUBSET Event, Queue(l, owed) PROVE IInv'
  BY <1>2, QueueKeeps
<1>5. ASSUME NEW leads \in SUBSET Lead, Withdraw(leads) PROVE IInv'
  BY <1>5, WithdrawKeeps
<1>3. CASE Tick
  BY <1>3, TickKeeps
<1>4. CASE UNCHANGED vars
  BY <1>4 DEF vars, IInv, TypeOK, FreshRows, ExclusiveClaim, ClaimsArePending,
     DraftsFollowRows, Untouched, Handled, AttemptsBounded, DeliveredWasPerformed,
     Accounted, DeliveryInDraft, OnceUnlessUnrecorded
<1> QED
  BY <1>1, <1>2, <1>3, <1>4, <1>5 DEF Next

\* The inductive invariant holds in every reachable state.
THEOREM Invariance == Spec => []IInv
  BY InitIInv, IInvStep, PTL DEF Spec

\* Type correctness of the outbox.
THEOREM TypeCorrect == Spec => []TypeOK
<1>1. IInv => TypeOK
  BY DEF IInv
<1> QED
  BY <1>1, Invariance, PTL

\* Recorded attempts stay within the limit, and a dead letter has used it up.
THEOREM AttemptsBoundedAlways == Spec => []AttemptsBounded
<1>1. IInv => AttemptsBounded
  BY DEF IInv
<1> QED
  BY <1>1, Invariance, PTL

\* No delivery is recorded that did not happen.
THEOREM DeliveredWasPerformedAlways == Spec => []DeliveredWasPerformed
<1>1. IInv => DeliveredWasPerformed
  BY DEF IInv
<1> QED
  BY <1>1, Invariance, PTL

\* Repeats come only from lost answers and rolled back batches.
THEOREM OnceUnlessUnrecordedAlways == Spec => []OnceUnlessUnrecorded
<1>1. IInv => OnceUnlessUnrecorded
  BY DEF IInv
<1> QED
  BY <1>1, Invariance, PTL

\* Nothing is sent for a settled event or a deleted lead.
THEOREM PerformedOnlyWhilePendingAlways == Spec => PerformedOnlyWhilePending
<1>1. IInv /\ [Next]_vars
        => [\A e \in Event : performed'[e] # performed[e] => status[e] = "pending"]_vars
  <2> SUFFICES ASSUME IInv, Next, NEW e \in Event, performed'[e] # performed[e]
               PROVE  status[e] = "pending"
    BY DEF vars
  <2>1. PICK w \in Worker, f \in Event : Handle(w, f)
    BY DEF Next, Drain, Claim, Commit, Rollback, Queue, Withdraw, Tick, worldVars
  <2>2. e = f
    BY <2>1 DEF Handle, IInv, TypeOK, worldVars
  <2> QED
    BY <2>1, <2>2 DEF Handle, IInv, ClaimsArePending
<1> QED
  BY <1>1, Invariance, PTL DEF Spec, PerformedOnlyWhilePending

\* A settled event changes only by going with its lead.
THEOREM SettledIsFinalAlways == Spec => SettledIsFinal
<1>1. IInv /\ [Next]_vars
        => [\A e \in Event :
              status[e] \in Final =>
                  /\ status'[e] \in {status[e], "gone"}
                  /\ attempts'[e] = attempts[e]]_vars
  <2> SUFFICES ASSUME IInv, Next, NEW e \in Event, status[e] \in Final
               PROVE  status'[e] \in {status[e], "gone"} /\ attempts'[e] = attempts[e]
    BY DEF vars
  <2> USE DEF IInv, TypeOK, tableVars, Final
  <2>1. ASSUME NEW w \in Worker, Drain(w) \/ Rollback(w)
        PROVE  status'[e] = status[e] /\ attempts'[e] = attempts[e]
    BY <2>1 DEF Drain, Claim, Handle, Commit, Rollback, RowOf, ClaimsArePending
  <2>2. ASSUME NEW l \in Lead, NEW owed \in SUBSET Event, Queue(l, owed)
        PROVE  status'[e] \in {status[e], "gone"} /\ attempts'[e] = attempts[e]
    BY <2>2 DEF Queue
  <2>4. ASSUME NEW leads \in SUBSET Lead, Withdraw(leads)
        PROVE  status'[e] \in {status[e], "gone"} /\ attempts'[e] = attempts[e]
    BY <2>4 DEF Withdraw
  <2>3. CASE Tick
    BY <2>3 DEF Tick
  <2> QED
    BY <2>1, <2>2, <2>3, <2>4 DEF Next
<1> QED
  BY <1>1, Invariance, PTL DEF Spec, SettledIsFinal

-----------------------------------------------------------------------------
\* A handler performs or stutters, a commit records one more attempt of each
\* event of the batch, the rest is invisible.
LEMMA StepRefines == IInv /\ [Next]_vars => [Promise!ANext]_(Promise!avars)
<1> SUFFICES ASSUME IInv, [Next]_vars PROVE [Promise!ANext]_(Promise!avars)
  OBVIOUS
<1> USE DEF IInv, TypeOK, tableVars, worldVars, Promise!avars
<1>1. ASSUME NEW l \in Lead, NEW owed \in SUBSET Event, Queue(l, owed) PROVE Promise!Enqueue(owed)
  BY <1>1 DEF Queue, Promise!Enqueue
<1>2. ASSUME NEW leads \in SUBSET Lead, Withdraw(leads)
      PROVE  \E S \in SUBSET Event : Promise!Withdraw(S)
  <2> DEFINE S == {e \in Event : LeadOf[e] \in leads}
  <2>1. Promise!Withdraw(S)
    BY <1>2 DEF Withdraw, Promise!Withdraw
  <2> QED
    BY <2>1
<1>3. ASSUME NEW w \in Worker, NEW e \in Event, Handle(w, e)
      PROVE  Promise!Perform(e) \/ UNCHANGED Promise!avars
  <2>1. status[e] = "pending"
    BY <1>3 DEF Handle, ClaimsArePending
  <2> QED
    BY <1>3, <2>1 DEF Handle, Promise!Perform
<1>4. ASSUME NEW w \in Worker, Commit(w) PROVE Promise!Record(claimed[w])
  <2>1. ASSUME NEW e \in claimed[w]
        PROVE  /\ status[e] = "pending"
               /\ \/ status'[e] = "delivered" /\ performed[e] > 0
                  \/ status'[e] = "failed" /\ attempts[e] + 1 = MaxAttempts
                  \/ status'[e] = "pending" /\ attempts[e] + 1 < MaxAttempts
               /\ attempts'[e] = attempts[e] + 1
    BY <1>4 DEF Commit, ClaimsArePending, DraftsFollowRows, Handled
  <2>2. \A e \in Event \ claimed[w] : status'[e] = status[e] /\ attempts'[e] = attempts[e]
    BY <1>4 DEF Commit, RowOf
  <2>3. attempts' = [e \in Event |->
                       IF e \in claimed[w] THEN attempts[e] + 1 ELSE attempts[e]]
    BY <1>4, <2>1, <2>2 DEF Commit
  <2> QED
    BY <1>4, <2>1, <2>2, <2>3 DEF Commit, Promise!Record
<1>5. ASSUME NEW w \in Worker, Claim(w) \/ Rollback(w) PROVE UNCHANGED Promise!avars
  BY <1>5 DEF Claim, Rollback
<1>6. CASE Tick
  BY <1>6 DEF Tick
<1>7. CASE UNCHANGED vars
  BY <1>7 DEF vars
<1>8. \A w \in Worker : claimed[w] \in SUBSET Event
  OBVIOUS
<1> HIDE DEF IInv, TypeOK, Promise!avars
<1> QED
  BY <1>1, <1>2, <1>3, <1>4, <1>5, <1>6, <1>7, <1>8 DEF Next, Drain, Promise!ANext, Promise!avars, Tick,
     tableVars, worldVars

\* The workers implement the abstract outbox of SideEffects.
THEOREM Refinement == Spec => PromiseSpec
<1>1. Init => Promise!AInit
  BY DEF Init, Promise!AInit
<1> QED
  BY <1>1, StepRefines, Invariance, PTL DEF Spec, PromiseSpec, Promise!ASpec

-----------------------------------------------------------------------------
(* The pipeline: the outbox behind the endpoint.                           *)

Queued == {"pending", "delivered", "failed"}

\* The endpoint's part of the types: what a lead will owe are types of events.
EndpointTyped ==
    /\ seen \in [Request -> SUBSET EventType]
    /\ notify \in [Widget -> SUBSET EventType]
    /\ target \in [Request -> Widget]

\* The endpoint and the workers see one table: a row is there for both or for
\* neither, and only with its lead.
OneTable ==
    \A e \in Event :
        /\ status[e] \in Queued <=> e \in events
        /\ e \in events => e[1] \in rows

\* What the endpoint does without committing a lead.
NoLead(r) ==
    \/ Api!Lookup(r) \/ Api!FindByKey(r) \/ Api!Resume(r) \/ Api!Conflict(r) \/ Api!Refresh(r)
    \/ Api!Insert(r) \/ Api!RecordSpam(r) \/ Api!Fail(r)

LEMMA NoLeadStep ==
    ASSUME EndpointTyped, NEW r \in Request, Api!Arrive(r) \/ NoLead(r)
    PROVE  /\ rows' = rows /\ events' = events /\ notify' = notify /\ target' = target
           /\ seen' \in [Request -> SUBSET EventType]
<1> USE DEF EndpointTyped, Api!reqVars, Api!dbVars, Api!widgetVars, Api!boundVars
<1>1. CASE Api!Arrive(r)
  BY <1>1 DEF Api!Arrive
<1>2. CASE Api!Lookup(r)
  BY <1>2 DEF Api!Lookup
<1>3. CASE Api!FindByKey(r)
  BY <1>3 DEF Api!FindByKey
<1>4. CASE Api!Resume(r)
  BY <1>4 DEF Api!Resume
<1>5. CASE Api!Conflict(r)
  BY <1>5 DEF Api!Conflict
<1>6. CASE Api!Refresh(r)
  BY <1>6 DEF Api!Refresh
<1>7. CASE Api!Insert(r)
  BY <1>7 DEF Api!Insert
<1>8. CASE Api!RecordSpam(r)
  BY <1>8 DEF Api!RecordSpam
<1>9. CASE Api!Fail(r)
  BY <1>9 DEF Api!Fail
<1> QED
  BY <1>1, <1>2, <1>3, <1>4, <1>5, <1>6, <1>7, <1>8, <1>9 DEF NoLead

\* The steps of the pipeline, seen from its two parts.
LEMMA PipeSteps ==
    ASSUME PipeNext
    PROVE  \/ \E r \in Request : (Api!Arrive(r) \/ NoLead(r)) /\ UNCHANGED vars
           \/ \E r \in Request : Store(r)
           \/ \E w \in Widget : FinishDelete(w)
           \/ \E p \in Process : (Drain(p) \/ Rollback(p)) /\ UNCHANGED apiVars
           \/ \E p \in Process : Api!Crash(p) /\ (Rollback(p) \/ UNCHANGED vars)
           \/ Tick /\ UNCHANGED apiVars
           \/ UNCHANGED <<apiVars, vars>>
BY DEF PipeNext, Arrive, Serve, Read, Write, Fail, BeginDelete, Work, LoseConnection, Crash, Second,
       NoLead, boxVars

LEMMA EndpointTypedStep == EndpointTyped /\ [PipeNext]_pipeVars => EndpointTyped'
<1> SUFFICES ASSUME EndpointTyped, [PipeNext]_pipeVars PROVE EndpointTyped'
  OBVIOUS
<1> USE DEF EndpointTyped, apiVars
<1>1. ASSUME NEW r \in Request, Api!Arrive(r) \/ NoLead(r) PROVE EndpointTyped'
  BY <1>1, NoLeadStep
<1>2. ASSUME NEW r \in Request, Store(r) PROVE EndpointTyped'
  BY <1>2 DEF Store, Api!Commit, Api!reqVars, Api!widgetVars
<1>3. ASSUME NEW w \in Widget, FinishDelete(w) PROVE EndpointTyped'
  BY <1>3 DEF FinishDelete, Api!DeleteWidget, Api!reqVars
<1>4. ASSUME NEW p \in Process, Api!Crash(p) PROVE EndpointTyped'
  BY <1>4 DEF Api!Crash, Api!reqVars, Api!dbVars
<1>5. CASE UNCHANGED apiVars
  BY <1>5
<1>6. CASE UNCHANGED pipeVars
  BY <1>6 DEF pipeVars
<1>7. CASE PipeNext
  BY <1>1, <1>2, <1>3, <1>4, <1>5, <1>7, PipeSteps
<1> QED
  BY <1>6, <1>7

LEMMA EndpointTypedAlways == PipeSpec => []EndpointTyped
<1>1. PipeInit => EndpointTyped
  BY DEF PipeInit, Api!Init, EndpointTyped
<1> QED
  BY <1>1, EndpointTypedStep, PTL DEF PipeSpec

\* Whatever the endpoint and the processes do, the table and its workers take
\* only steps of Outbox: its theorems hold of the pipeline.
THEOREM OutboxInPipeline == PipeSpec => Spec
<1>1. PipeInit => Init
  BY DEF PipeInit
<1>2. EndpointTyped /\ [PipeNext]_pipeVars => [Next]_vars
  <2> SUFFICES ASSUME EndpointTyped, [PipeNext]_pipeVars PROVE [Next]_vars
    OBVIOUS
  <2> USE RowAssumption
  <2>1. ASSUME NEW r \in Request, Store(r) PROVE Next
    <3>1. {r} \X Api!Owed(r) \in SUBSET Event
      BY DEF Api!Owed, EndpointTyped
    <3>2. r \in Lead /\ Queue(r, {r} \X Api!Owed(r))
      BY <2>1 DEF Store
    <3> QED
      BY <3>1, <3>2 DEF Next
  <2>2. ASSUME NEW w \in Widget, FinishDelete(w) PROVE Next
    <3>1. LeadsOf(w) \in SUBSET Lead /\ Withdraw(LeadsOf(w))
      BY <2>2 DEF FinishDelete, LeadsOf
    <3> QED
      BY <3>1 DEF Next
  <2>3. ASSUME NEW p \in Process, Drain(p) \/ Rollback(p) PROVE Next
    BY <2>3 DEF Next
  <2>4. CASE PipeNext
    BY <2>1, <2>2, <2>3, <2>4, PipeSteps DEF Next
  <2>5. CASE UNCHANGED pipeVars
    BY <2>5 DEF pipeVars, boxVars
  <2> QED
    BY <2>4, <2>5
<1> QED
  BY <1>1, <1>2, EndpointTypedAlways, PTL DEF PipeSpec, Spec

\* Waiting for row locks only forbids the endpoint steps it could take alone:
\* what holds of every behaviour of Submission holds of the pipeline.
THEOREM SubmissionInPipeline == PipeSpec => Api!Spec
<1>1. PipeInit => Api!Init
  BY DEF PipeInit
<1>2. [PipeNext]_pipeVars => [Api!Next]_(Api!vars)
  <2> SUFFICES ASSUME [PipeNext]_pipeVars PROVE [Api!Next]_(Api!vars)
    OBVIOUS
  <2>1. ASSUME NEW r \in Request, Api!Arrive(r) \/ NoLead(r) PROVE Api!Next
    BY <2>1 DEF NoLead, Api!Next, Api!Step
  <2>2. ASSUME NEW r \in Request, Store(r) PROVE Api!Next
    BY <2>2 DEF Store, Api!Next, Api!Step
  <2>3. ASSUME NEW w \in Widget, FinishDelete(w) PROVE Api!Next
    BY <2>3 DEF FinishDelete, Api!Next
  <2>4. ASSUME NEW p \in Process, Api!Crash(p) PROVE Api!Next
    BY <2>4 DEF Api!Next
  <2>5. UNCHANGED apiVars => UNCHANGED Api!vars
    BY DEF apiVars, Api!vars
  <2>6. CASE PipeNext
    BY <2>1, <2>2, <2>3, <2>4, <2>5, <2>6, PipeSteps
  <2>7. CASE UNCHANGED pipeVars
    BY <2>5, <2>7 DEF pipeVars
  <2> QED
    BY <2>6, <2>7
<1> QED
  BY <1>1, <1>2, PTL DEF PipeSpec, Api!Spec

\* A batch of a worker leaves the set of queued rows as it is.
LEMMA DrainKeepsQueue ==
    ASSUME IInv, NEW p \in Worker, Drain(p) \/ Rollback(p), NEW e \in Event
    PROVE  status'[e] \in Queued <=> status[e] \in Queued
<1>1. CASE Commit(p)
  <2>1. status'[e] = IF e \in claimed[p] THEN draft[p][e].status ELSE status[e]
    BY <1>1 DEF Commit, RowOf
  <2>2. e \in claimed[p] => status[e] = "pending" /\ Handled(p, e)
    BY <1>1 DEF IInv, ClaimsArePending, DraftsFollowRows, Commit
  <2> QED
    BY <2>1, <2>2 DEF Queued, Handled
<1>2. CASE Claim(p) \/ Rollback(p) \/ \E f \in Event : Handle(p, f)
  BY <1>2 DEF Claim, Rollback, Handle, tableVars
<1> QED
  BY <1>1, <1>2 DEF Drain

LEMMA OneTableStep == EndpointTyped /\ IInv /\ OneTable /\ [PipeNext]_pipeVars => OneTable'
<1> SUFFICES ASSUME EndpointTyped, IInv, OneTable, [PipeNext]_pipeVars PROVE OneTable'
  OBVIOUS
<1> USE RowAssumption
<1>1. ASSUME UNCHANGED <<rows, events>>, \A e \in Event : status'[e] \in Queued <=> status[e] \in Queued
      PROVE  OneTable'
  BY <1>1 DEF OneTable
<1>2. ASSUME NEW r \in Request, Store(r) PROVE OneTable'
  <2> DEFINE owed == {r} \X seen[r]
  <2>1. rows' = rows \cup {r} /\ events' = events \cup owed
    BY <1>2 DEF Store, Api!Commit, Api!Owed
  <2>2. \A e \in Event : status'[e] = IF e \in owed THEN "pending" ELSE status[e]
    BY <1>2 DEF Store, Queue, Api!Owed
  <2>3. \A e \in owed : e[1] = r
    OBVIOUS
  <2> QED
    BY <2>1, <2>2, <2>3 DEF OneTable, Queued
<1>3. ASSUME NEW w \in Widget, FinishDelete(w) PROVE OneTable'
  <2>1. rows' = {r \in rows : target[r] # w} /\ events' = {e \in events : target[e[1]] # w}
    BY <1>3 DEF FinishDelete, Api!DeleteWidget
  <2>2. \A e \in Event : status'[e] = IF target[e[1]] = w THEN "gone" ELSE status[e]
    <3>1. \A e \in Event : e[1] \in Request /\ LeadOf[e] = e[1]
      OBVIOUS
    <3>2. \A e \in Event : LeadOf[e] \in LeadsOf(w) <=> target[e[1]] = w
      BY <3>1 DEF LeadsOf
    <3> QED
      BY <1>3, <3>2 DEF FinishDelete, Withdraw
  <2> QED
    BY <2>1, <2>2 DEF OneTable, Queued
<1>4. ASSUME NEW r \in Request, Api!Arrive(r) \/ NoLead(r), UNCHANGED vars PROVE OneTable'
  BY <1>1, <1>4, NoLeadStep DEF vars
<1>5. ASSUME NEW p \in Process, Drain(p) \/ Rollback(p), UNCHANGED apiVars PROVE OneTable'
  BY <1>1, <1>5, DrainKeepsQueue DEF apiVars
<1>6. ASSUME NEW p \in Process, Api!Crash(p), Rollback(p) \/ UNCHANGED vars PROVE OneTable'
  <2>1. UNCHANGED <<rows, events>>
    BY <1>6 DEF Api!Crash, Api!dbVars
  <2> QED
    BY <1>1, <1>6, <2>1, DrainKeepsQueue DEF vars
<1>7. CASE Tick /\ UNCHANGED apiVars
  BY <1>1, <1>7 DEF Tick, apiVars
<1>8. CASE UNCHANGED <<apiVars, vars>>
  BY <1>1, <1>8 DEF apiVars, vars
<1>9. CASE UNCHANGED pipeVars
  BY <1>8, <1>9 DEF pipeVars, boxVars
<1>10. CASE PipeNext
  BY <1>2, <1>3, <1>4, <1>5, <1>6, <1>7, <1>8, <1>10, PipeSteps
<1> QED
  BY <1>9, <1>10

\* In every state of the pipeline both sides see the same outbox, and no row of
\* it without its lead.
THEOREM OneTableAlways == PipeSpec => []OneTable
<1>1. PipeInit => OneTable
  BY DEF PipeInit, Init, Api!Init, OneTable, Queued
<1> QED
  BY <1>1, OneTableStep, EndpointTypedAlways, OutboxInPipeline, Invariance, PTL DEF PipeSpec

\* A side effect happens only while its lead is stored.
THEOREM PerformedWhileStoredAlways == PipeSpec => PerformedWhileStored
<1>1. [\A e \in Event : performed'[e] # performed[e] => status[e] = "pending"]_vars
      /\ OneTable
      => [\A e \in Event : performed'[e] # performed[e] => e[1] \in rows]_pipeVars
  BY DEF OneTable, Queued, vars
<1>2. Spec => [][\A e \in Event : performed'[e] # performed[e] => status[e] = "pending"]_vars
  BY PerformedOnlyWhilePendingAlways DEF PerformedOnlyWhilePending
<1> QED
  BY <1>1, <1>2, OutboxInPipeline, OneTableAlways, PTL DEF PerformedWhileStored
===============================================================================
