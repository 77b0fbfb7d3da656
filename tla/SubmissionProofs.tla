--------------------------- MODULE SubmissionProofs ---------------------------
(***************************************************************************)
(* The safety properties of Submission for every set of requests,          *)
(* processes, widgets and keys, and for every bound on crashes and edits.  *)
(*                                                                         *)
(* None of them is inductive alone.  The argument: the event loop is held  *)
(* from the lookup to the reply (LoopOwned), a lead exists only from its   *)
(* commit on (Progress), the flush lets at most one row per key through,   *)
(* committed or not (KeyUnique), and what a conflict or a refresh does     *)
(* not find was lost with its widget (LossHasCause).                       *)
(***************************************************************************)
EXTENDS Submission, TLAPS

\* The request that runs statements is the one its event loop is held by.
LoopOwned == \A r \in Request : pc[r] \in OnLoop => loop[host[r]] = r

\* How far a request is: before "done" it has no answer, and only a request
\* past its commit can be stored or be named in an answer.
Past == {"refresh", "done", "dead"}
Progress ==
    /\ \A r \in Request : pc[r] # "done" => status[r] = 0 /\ leadId[r] = None
    /\ \A r \in rows : pc[r] \in Past
    /\ \A r \in Request : leadId[r] # None => pc[leadId[r]] \in Past

\* Leads and flushed rows belong to widgets that exist.
RowsOfLiveWidgets == \A r \in Request : r \in rows \/ Flushed(r) => target[r] \in live

\* The unique constraint, seen by open transactions too.
KeyUnique ==
    \A q, r \in Request :
        /\ q \in rows \/ Flushed(q)
        /\ r \in rows \/ Flushed(r)
        /\ SameKey(q, r)
        => q = r

\* What a conflict lost to is still there, and what a refresh is to read too,
\* unless the widget went.
LossHasCause ==
    \A r \in Request : target[r] \in live =>
        /\ pc[r] = "conflict" => \E q \in rows : SameKey(q, r)
        /\ pc[r] = "refresh" => r \in rows

IInv ==
    /\ TypeOK
    /\ LoopOwned
    /\ Progress
    /\ RowsOfLiveWidgets
    /\ KeyUnique
    /\ LossHasCause
    /\ AnswerIsOwn
    /\ AckDurable
    /\ ReplaysAgree
    /\ OutboxAtomic
    /\ ErrorLeavesNothing
    /\ ServerErrorCause

\* The initial states satisfy the inductive invariant.
LEMMA InitIInv == Init => IInv
<1> SUFFICES ASSUME Init PROVE IInv
  OBVIOUS
<1>1. TypeOK
  BY BoundAssumption DEF Init, TypeOK, PC, AnyKey, Code, Fault
<1>2. LoopOwned /\ Progress /\ RowsOfLiveWidgets /\ KeyUnique /\ LossHasCause
  BY DEF Init, LoopOwned, Progress, RowsOfLiveWidgets, KeyUnique, LossHasCause, OnLoop,
         Flushed
<1>3. AnswerIsOwn /\ AckDurable /\ ReplaysAgree /\ OutboxAtomic
        /\ ErrorLeavesNothing /\ ServerErrorCause
  BY DEF Init, AnswerIsOwn, AckDurable, ReplaysAgree, OutboxAtomic,
         ErrorLeavesNothing, ServerErrorCause
<1> QED
  BY <1>1, <1>2, <1>3 DEF IInv

\* Every step keeps the types.
LEMMA TypeStep == TypeOK /\ [Next]_vars => TypeOK'
<1> SUFFICES ASSUME TypeOK, [Next]_vars PROVE TypeOK'
  OBVIOUS
<1> USE DEF TypeOK, PC, OnLoop, Fallible, Fault, Code, AnyKey, Reply, GoTo, Break, reqVars, dbVars,
        widgetVars, boundVars
<1>1. ASSUME NEW r \in Request, Arrive(r) PROVE TypeOK'
  BY <1>1 DEF Arrive
<1>2. ASSUME NEW r \in Request, Lookup(r) PROVE TypeOK'
  <2>1. CASE Reply(r, 404, None) /\ UNCHANGED seen
    BY <1>2, <2>1 DEF Lookup
  <2>2. CASE \E code \in {403, 429, 422} : Reply(r, code, None)
    BY <1>2, <2>2 DEF Lookup
  <2>3. CASE \E next \in {"spam", "find"} : GoTo(r, next)
    BY <1>2, <2>3 DEF Lookup
  <2> QED
    BY <1>2, <2>1, <2>2, <2>3 DEF Lookup
<1>3. ASSUME NEW r \in Request, RecordSpam(r) \/ Fail(r) PROVE TypeOK'
  BY <1>3 DEF RecordSpam, Fail
<1>4. ASSUME NEW r \in Request, FindByKey(r) PROVE TypeOK'
  BY <1>4 DEF FindByKey, Found
<1>5. ASSUME NEW r \in Request, Resume(r) PROVE TypeOK'
  BY <1>5 DEF Resume
<1>6. ASSUME NEW r \in Request, Insert(r) PROVE TypeOK'
  BY <1>6 DEF Insert
<1>7. ASSUME NEW r \in Request, Conflict(r) PROVE TypeOK'
  BY <1>7 DEF Conflict, Found
<1>8. ASSUME NEW r \in Request, Commit(r) PROVE TypeOK'
  BY <1>8 DEF Commit, Owed
<1>9. ASSUME NEW r \in Request, Refresh(r) PROVE TypeOK'
  BY <1>9 DEF Refresh
<1>10. ASSUME NEW w \in Widget, EditWidget(w) PROVE TypeOK'
  BY <1>10, BoundAssumption DEF EditWidget
<1>11. ASSUME NEW w \in Widget, DeleteWidget(w) PROVE TypeOK'
  BY <1>11 DEF DeleteWidget
<1>12. ASSUME NEW p \in Process, Crash(p) PROVE TypeOK'
  BY <1>12, BoundAssumption DEF Crash
<1>13. CASE UNCHANGED vars
  BY <1>13 DEF vars
<1> QED
  BY <1>1, <1>2, <1>3, <1>4, <1>5, <1>6, <1>7, <1>8, <1>9, <1>10, <1>11, <1>12, <1>13
  DEF Next, Step

\* Type correctness of the endpoint, for every value of the constants.
THEOREM TypeCorrect == Spec => []TypeOK
<1>1. Init => TypeOK
  BY InitIInv DEF IInv
<1> QED
  BY <1>1, TypeStep, PTL DEF Spec

-----------------------------------------------------------------------------
(* One lemma per action: the inductive invariant survives the step. *)

\* An answer that names a stored lead agrees with every earlier answer under
\* the same key: the earlier lead is still stored, and the key is unique.
LEMMA AnswerAgrees ==
    ASSUME IInv, NEW r \in Request, NEW i \in rows,
           i = r \/ SameKey(i, r),
           leadId' = [leadId EXCEPT ![r] = i],
           UNCHANGED <<key, target>>
    PROVE  ReplaysAgree'
<1> USE DEF IInv, TypeOK
<1>1. ASSUME NEW q \in Request, q # r, SameKey(q, r), leadId[q] # None
      PROVE  leadId[q] = i
  <2>1. target[r] \in live
    BY DEF RowsOfLiveWidgets, SameKey
  <2>2. leadId[q] \in rows
    BY <1>1, <2>1 DEF AckDurable, SameKey
  <2>3. leadId[q] = q \/ SameKey(leadId[q], q)
    BY <1>1 DEF AnswerIsOwn
  <2>4. SameKey(leadId[q], i)
    BY <1>1, <2>2, <2>3 DEF SameKey
  <2> QED
    BY <2>2, <2>4 DEF KeyUnique
<1>2. SameKey(r, r) \/ key[r] = NoKey
  BY DEF SameKey
<1> SUFFICES ASSUME NEW q \in Request, NEW s \in Request,
                    SameKey(q, s), leadId'[q] # None, leadId'[s] # None
             PROVE  leadId'[q] = leadId'[s]
  BY DEF ReplaysAgree, SameKey
<1>3. CASE q # r /\ s # r
  BY <1>3 DEF ReplaysAgree
<1>4. CASE q = r /\ s # r
  BY <1>1, <1>4 DEF SameKey
<1>5. CASE q # r /\ s = r
  BY <1>1, <1>5 DEF SameKey
<1> QED
  BY <1>3, <1>4, <1>5

\* A request that arrives picks its key before anything depends on it.
LEMMA ArriveKeeps == ASSUME IInv, TypeOK', NEW r \in Request, Arrive(r) PROVE IInv'
<1> USE NoneAssumption, KeyAssumption
    DEF IInv, TypeOK, PC, OnLoop, AnyKey, Past, Flushed, SameKey, Reply, GoTo, Break, reqVars,
        dbVars, widgetVars, boundVars, Progress, Arrive
<1>1. LoopOwned' /\ Progress'
  BY DEF LoopOwned
<1>2. RowsOfLiveWidgets'
  BY DEF RowsOfLiveWidgets
<1>3. KeyUnique'
  BY DEF KeyUnique
<1>4. LossHasCause'
  BY DEF LossHasCause
<1>5. AnswerIsOwn' /\ AckDurable'
  BY DEF AnswerIsOwn, AckDurable
<1>6. ReplaysAgree'
  BY DEF ReplaysAgree
<1>7. OutboxAtomic'
  BY DEF OutboxAtomic
<1>8. ErrorLeavesNothing' /\ ServerErrorCause'
  BY DEF ErrorLeavesNothing, ServerErrorCause, LossHasCause
<1> QED
  BY <1>1, <1>2, <1>3, <1>4, <1>5, <1>6, <1>7, <1>8

\* The lookup takes the loop, or refuses before anything is stored.
LEMMA LookupKeeps == ASSUME IInv, TypeOK', NEW r \in Request, Lookup(r) PROVE IInv'
<1> USE NoneAssumption, KeyAssumption
    DEF IInv, TypeOK, PC, OnLoop, AnyKey, Past, Flushed, SameKey, Reply, GoTo, Break, reqVars,
        dbVars, widgetVars, boundVars, Progress, Lookup
<1>1. LoopOwned' /\ Progress'
  BY DEF LoopOwned
<1>2. RowsOfLiveWidgets'
  BY DEF RowsOfLiveWidgets
<1>3. KeyUnique'
  BY DEF KeyUnique
<1>4. LossHasCause'
  BY DEF LossHasCause
<1>5. AnswerIsOwn' /\ AckDurable'
  BY DEF AnswerIsOwn, AckDurable
<1>6. ReplaysAgree'
  BY DEF ReplaysAgree
<1>7. OutboxAtomic'
  BY DEF OutboxAtomic
<1>8. ErrorLeavesNothing' /\ ServerErrorCause'
  BY DEF ErrorLeavesNothing, ServerErrorCause, LossHasCause
<1> QED
  BY <1>1, <1>2, <1>3, <1>4, <1>5, <1>6, <1>7, <1>8

\* A spam event is answered without a lead.
LEMMA RecordSpamKeeps == ASSUME IInv, TypeOK', NEW r \in Request, RecordSpam(r) PROVE IInv'
<1> USE NoneAssumption, KeyAssumption
    DEF IInv, TypeOK, PC, OnLoop, AnyKey, Past, Flushed, SameKey, Reply, GoTo, Break, reqVars,
        dbVars, widgetVars, boundVars, Progress, RecordSpam
<1>1. LoopOwned' /\ Progress'
  BY DEF LoopOwned
<1>2. RowsOfLiveWidgets'
  BY DEF RowsOfLiveWidgets
<1>3. KeyUnique'
  BY DEF KeyUnique
<1>4. LossHasCause'
  BY DEF LossHasCause
<1>5. AnswerIsOwn' /\ AckDurable'
  BY DEF AnswerIsOwn, AckDurable
<1>6. ReplaysAgree'
  BY DEF ReplaysAgree
<1>7. OutboxAtomic'
  BY DEF OutboxAtomic
<1>8. ErrorLeavesNothing' /\ ServerErrorCause'
  BY DEF ErrorLeavesNothing, ServerErrorCause, LossHasCause
<1> QED
  BY <1>1, <1>2, <1>3, <1>4, <1>5, <1>6, <1>7, <1>8

\* A replay is answered with a stored lead; the others give the loop up.
LEMMA FindByKeyKeeps == ASSUME IInv, TypeOK', NEW r \in Request, FindByKey(r) PROVE IInv'
<1> USE NoneAssumption, KeyAssumption
    DEF IInv, TypeOK, PC, OnLoop, AnyKey, Past, Flushed, SameKey, Reply, GoTo, Break, reqVars,
        dbVars, widgetVars, boundVars, Progress, FindByKey, Found
<1>1. LoopOwned' /\ Progress'
  BY DEF LoopOwned
<1>2. RowsOfLiveWidgets'
  BY DEF RowsOfLiveWidgets
<1>3. KeyUnique'
  BY DEF KeyUnique
<1>4. LossHasCause'
  BY DEF LossHasCause
<1>5. AnswerIsOwn' /\ AckDurable'
  BY DEF AnswerIsOwn, AckDurable
<1>6. ReplaysAgree'
  <2>1. CASE \E q \in Found(r) : Reply(r, 201, q)
    <3>1. PICK q \in Found(r) : Reply(r, 201, q)
      BY <2>1
    <3>2. q \in rows /\ SameKey(q, r)
      BY DEF Found
    <3>3. leadId' = [leadId EXCEPT ![r] = q] /\ UNCHANGED <<key, target>>
      BY <3>1
    <3> HIDE DEF IInv, SameKey, Found, Conflict, Lookup, Reply, TypeOK
    <3> QED
      BY <3>2, <3>3, AnswerAgrees
  <2>2. CASE leadId' = leadId
    <3>1. ReplaysAgree /\ UNCHANGED <<key, target>>
      OBVIOUS
    <3> HIDE DEF IInv, Conflict, Lookup, TypeOK
    <3> QED
      BY <2>2, <3>1 DEF ReplaysAgree
  <2> QED
    BY <2>1, <2>2
<1>7. OutboxAtomic'
  BY DEF OutboxAtomic
<1>8. ErrorLeavesNothing' /\ ServerErrorCause'
  BY DEF ErrorLeavesNothing, ServerErrorCause, LossHasCause
<1> QED
  BY <1>1, <1>2, <1>3, <1>4, <1>5, <1>6, <1>7, <1>8

\* The coroutine takes the loop back.
LEMMA ResumeKeeps == ASSUME IInv, TypeOK', NEW r \in Request, Resume(r) PROVE IInv'
<1> USE NoneAssumption, KeyAssumption
    DEF IInv, TypeOK, PC, OnLoop, AnyKey, Past, Flushed, SameKey, Reply, GoTo, Break, reqVars,
        dbVars, widgetVars, boundVars, Progress, Resume
<1>1. LoopOwned' /\ Progress'
  BY DEF LoopOwned
<1>2. RowsOfLiveWidgets'
  BY DEF RowsOfLiveWidgets
<1>3. KeyUnique'
  BY DEF KeyUnique
<1>4. LossHasCause'
  BY DEF LossHasCause
<1>5. AnswerIsOwn' /\ AckDurable'
  BY DEF AnswerIsOwn, AckDurable
<1>6. ReplaysAgree'
  BY DEF ReplaysAgree
<1>7. OutboxAtomic'
  BY DEF OutboxAtomic
<1>8. ErrorLeavesNothing' /\ ServerErrorCause'
  BY DEF ErrorLeavesNothing, ServerErrorCause, LossHasCause
<1> QED
  BY <1>1, <1>2, <1>3, <1>4, <1>5, <1>6, <1>7, <1>8

\* The flush lets one row per key through, committed rows and open ones counted.
LEMMA InsertKeeps == ASSUME IInv, TypeOK', NEW r \in Request, Insert(r) PROVE IInv'
<1> USE NoneAssumption, KeyAssumption
    DEF IInv, TypeOK, PC, OnLoop, AnyKey, Past, Flushed, SameKey, Reply, GoTo, Break, reqVars,
        dbVars, widgetVars, boundVars, Progress, Insert
<1>1. LoopOwned' /\ Progress'
  BY DEF LoopOwned
<1>2. RowsOfLiveWidgets'
  BY DEF RowsOfLiveWidgets, Violation
<1>3. KeyUnique'
  BY DEF KeyUnique, Blocks, Violation
<1>4. LossHasCause'
  BY DEF LossHasCause, Violation
<1>5. AnswerIsOwn' /\ AckDurable'
  BY DEF AnswerIsOwn, AckDurable
<1>6. ReplaysAgree'
  BY DEF ReplaysAgree
<1>7. OutboxAtomic'
  BY DEF OutboxAtomic
<1>8. ErrorLeavesNothing' /\ ServerErrorCause'
  BY DEF ErrorLeavesNothing, ServerErrorCause, LossHasCause
<1> QED
  BY <1>1, <1>2, <1>3, <1>4, <1>5, <1>6, <1>7, <1>8

\* A conflict is answered with the winner, or lost its widget, or is blank.
LEMMA ConflictKeeps == ASSUME IInv, TypeOK', NEW r \in Request, Conflict(r) PROVE IInv'
<1> USE NoneAssumption, KeyAssumption
    DEF IInv, TypeOK, PC, OnLoop, AnyKey, Past, Flushed, SameKey, Reply, GoTo, Break, reqVars,
        dbVars, widgetVars, boundVars, Progress, Conflict, Found
<1>1. LoopOwned' /\ Progress'
  BY DEF LoopOwned
<1>2. RowsOfLiveWidgets'
  BY DEF RowsOfLiveWidgets
<1>3. KeyUnique'
  BY DEF KeyUnique
<1>4. LossHasCause'
  BY DEF LossHasCause
<1>5. AnswerIsOwn' /\ AckDurable'
  BY DEF AnswerIsOwn, AckDurable
<1>6. ReplaysAgree'
  <2>1. CASE \E q \in Found(r) : Reply(r, 201, q)
    <3>1. PICK q \in Found(r) : Reply(r, 201, q)
      BY <2>1
    <3>2. q \in rows /\ SameKey(q, r)
      BY DEF Found
    <3>3. leadId' = [leadId EXCEPT ![r] = q] /\ UNCHANGED <<key, target>>
      BY <3>1
    <3> HIDE DEF IInv, SameKey, Found, Conflict, Lookup, Reply, TypeOK
    <3> QED
      BY <3>2, <3>3, AnswerAgrees
  <2>2. CASE leadId' = leadId
    <3>1. ReplaysAgree /\ UNCHANGED <<key, target>>
      OBVIOUS
    <3> HIDE DEF IInv, Conflict, Lookup, TypeOK
    <3> QED
      BY <2>2, <3>1 DEF ReplaysAgree
  <2> QED
    BY <2>1, <2>2
<1>7. OutboxAtomic'
  BY DEF OutboxAtomic
<1>8. ErrorLeavesNothing' /\ ServerErrorCause'
  BY DEF ErrorLeavesNothing, ServerErrorCause, LossHasCause
<1> QED
  BY <1>1, <1>2, <1>3, <1>4, <1>5, <1>6, <1>7, <1>8

\* The lead and its events become visible together.
LEMMA CommitKeeps == ASSUME IInv, TypeOK', NEW r \in Request, Commit(r) PROVE IInv'
<1> USE NoneAssumption, KeyAssumption
    DEF IInv, TypeOK, PC, OnLoop, AnyKey, Past, Flushed, SameKey, Reply, GoTo, Break, reqVars,
        dbVars, widgetVars, boundVars, Progress, Commit
<1>1. LoopOwned' /\ Progress'
  BY DEF LoopOwned
<1>2. RowsOfLiveWidgets'
  BY DEF RowsOfLiveWidgets
<1>3. KeyUnique'
  BY DEF KeyUnique
<1>4. LossHasCause'
  BY DEF LossHasCause
<1>5. AnswerIsOwn' /\ AckDurable'
  BY DEF AnswerIsOwn, AckDurable
<1>6. ReplaysAgree'
  BY DEF ReplaysAgree
<1>7. OutboxAtomic'
  BY DEF OutboxAtomic, Owed
<1>8. ErrorLeavesNothing' /\ ServerErrorCause'
  BY DEF ErrorLeavesNothing, ServerErrorCause, LossHasCause
<1> QED
  BY <1>1, <1>2, <1>3, <1>4, <1>5, <1>6, <1>7, <1>8

\* The lead is acknowledged if its widget still holds it.
LEMMA RefreshKeeps == ASSUME IInv, TypeOK', NEW r \in Request, Refresh(r) PROVE IInv'
<1> USE NoneAssumption, KeyAssumption
    DEF IInv, TypeOK, PC, OnLoop, AnyKey, Past, Flushed, SameKey, Reply, GoTo, Break, reqVars,
        dbVars, widgetVars, boundVars, Progress, Refresh
<1>1. LoopOwned' /\ Progress'
  BY DEF LoopOwned
<1>2. RowsOfLiveWidgets'
  BY DEF RowsOfLiveWidgets
<1>3. KeyUnique'
  BY DEF KeyUnique
<1>4. LossHasCause'
  BY DEF LossHasCause
<1>5. AnswerIsOwn' /\ AckDurable'
  BY DEF AnswerIsOwn, AckDurable
<1>6. ReplaysAgree'
  <2>1. CASE r \in rows
    BY <2>1, AnswerAgrees
  <2>2. CASE r \notin rows
    BY <2>2 DEF ReplaysAgree
  <2> QED
    BY <2>1, <2>2
<1>7. OutboxAtomic'
  BY DEF OutboxAtomic
<1>8. ErrorLeavesNothing' /\ ServerErrorCause'
  BY DEF ErrorLeavesNothing, ServerErrorCause, LossHasCause
<1> QED
  BY <1>1, <1>2, <1>3, <1>4, <1>5, <1>6, <1>7, <1>8

\* A statement that fails changes nothing that is stored; a lead it leaves was
\* committed before, so it was the refresh that failed.
LEMMA FailKeeps == ASSUME IInv, TypeOK', NEW r \in Request, Fail(r) PROVE IInv'
<1> USE NoneAssumption, KeyAssumption
    DEF IInv, TypeOK, PC, OnLoop, AnyKey, Past, Flushed, SameKey, Reply, GoTo, Break, reqVars,
        dbVars, widgetVars, boundVars, Progress, Fail, Fallible
<1>1. LoopOwned' /\ Progress'
  BY DEF LoopOwned
<1>2. RowsOfLiveWidgets'
  BY DEF RowsOfLiveWidgets
<1>3. KeyUnique'
  BY DEF KeyUnique
<1>4. LossHasCause'
  BY DEF LossHasCause
<1>5. AnswerIsOwn' /\ AckDurable'
  BY DEF AnswerIsOwn, AckDurable
<1>6. ReplaysAgree'
  BY DEF ReplaysAgree
<1>7. OutboxAtomic'
  BY DEF OutboxAtomic
<1>8. ErrorLeavesNothing' /\ ServerErrorCause'
  BY DEF ErrorLeavesNothing, ServerErrorCause, LossHasCause
<1> QED
  BY <1>1, <1>2, <1>3, <1>4, <1>5, <1>6, <1>7, <1>8

\* An edit touches nothing a request has read.
LEMMA EditWidgetKeeps == ASSUME IInv, TypeOK', NEW w \in Widget, EditWidget(w) PROVE IInv'
<1> USE NoneAssumption, KeyAssumption
    DEF IInv, TypeOK, PC, OnLoop, AnyKey, Past, Flushed, SameKey, Reply, GoTo, Break, reqVars,
        dbVars, widgetVars, boundVars, Progress, EditWidget
<1>1. LoopOwned' /\ Progress'
  BY DEF LoopOwned
<1>2. RowsOfLiveWidgets'
  BY DEF RowsOfLiveWidgets
<1>3. KeyUnique'
  BY DEF KeyUnique
<1>4. LossHasCause'
  BY DEF LossHasCause
<1>5. AnswerIsOwn' /\ AckDurable'
  BY DEF AnswerIsOwn, AckDurable
<1>6. ReplaysAgree'
  BY DEF ReplaysAgree
<1>7. OutboxAtomic'
  BY DEF OutboxAtomic
<1>8. ErrorLeavesNothing' /\ ServerErrorCause'
  BY DEF ErrorLeavesNothing, ServerErrorCause, LossHasCause
<1> QED
  BY <1>1, <1>2, <1>3, <1>4, <1>5, <1>6, <1>7, <1>8

\* The cascade takes leads, events and the obligations on them together.
LEMMA DeleteWidgetKeeps == ASSUME IInv, TypeOK', NEW w \in Widget, DeleteWidget(w) PROVE IInv'
<1> USE NoneAssumption, KeyAssumption
    DEF IInv, TypeOK, PC, OnLoop, AnyKey, Past, Flushed, SameKey, Reply, GoTo, Break, reqVars,
        dbVars, widgetVars, boundVars, Progress, DeleteWidget
<1>1. LoopOwned' /\ Progress'
  BY DEF LoopOwned
<1>2. RowsOfLiveWidgets'
  BY DEF RowsOfLiveWidgets
<1>3. KeyUnique'
  BY DEF KeyUnique
<1>4. LossHasCause'
  BY DEF LossHasCause
<1>5. AnswerIsOwn' /\ AckDurable'
  BY DEF AnswerIsOwn, AckDurable
<1>6. ReplaysAgree'
  BY DEF ReplaysAgree
<1>7. OutboxAtomic'
  BY DEF OutboxAtomic
<1>8. ErrorLeavesNothing' /\ ServerErrorCause'
  BY DEF ErrorLeavesNothing, ServerErrorCause, LossHasCause
<1> QED
  BY <1>1, <1>2, <1>3, <1>4, <1>5, <1>6, <1>7, <1>8

\* A crash frees the loop and loses only what was not committed.
LEMMA CrashKeeps == ASSUME IInv, TypeOK', NEW p \in Process, Crash(p) PROVE IInv'
<1> USE NoneAssumption, KeyAssumption
    DEF IInv, TypeOK, PC, OnLoop, AnyKey, Past, Flushed, SameKey, Reply, GoTo, Break, reqVars,
        dbVars, widgetVars, boundVars, Progress, Crash
<1>1. LoopOwned' /\ Progress'
  BY DEF LoopOwned
<1>2. RowsOfLiveWidgets'
  BY DEF RowsOfLiveWidgets
<1>3. KeyUnique'
  BY DEF KeyUnique
<1>4. LossHasCause'
  BY DEF LossHasCause
<1>5. AnswerIsOwn' /\ AckDurable'
  BY DEF AnswerIsOwn, AckDurable
<1>6. ReplaysAgree'
  BY DEF ReplaysAgree
<1>7. OutboxAtomic'
  BY DEF OutboxAtomic
<1>8. ErrorLeavesNothing' /\ ServerErrorCause'
  BY DEF ErrorLeavesNothing, ServerErrorCause, LossHasCause
<1> QED
  BY <1>1, <1>2, <1>3, <1>4, <1>5, <1>6, <1>7, <1>8

-----------------------------------------------------------------------------
\* Every step of the endpoint, of the tenant and of a crash keeps IInv.
LEMMA IInvStep == IInv /\ [Next]_vars => IInv'
<1> SUFFICES ASSUME IInv, [Next]_vars PROVE IInv'
  OBVIOUS
<1>1. TypeOK'
  BY TypeStep DEF IInv
<1>2. ASSUME NEW r \in Request, Arrive(r) \/ Step(r) \/ Fail(r) PROVE IInv'
  BY <1>1, <1>2, ArriveKeeps, LookupKeeps, RecordSpamKeeps, FindByKeyKeeps, ResumeKeeps,
     InsertKeeps, ConflictKeeps, CommitKeeps, RefreshKeeps, FailKeeps DEF Step
<1>3. ASSUME NEW w \in Widget, EditWidget(w) \/ DeleteWidget(w) PROVE IInv'
  BY <1>1, <1>3, EditWidgetKeeps, DeleteWidgetKeeps
<1>4. ASSUME NEW p \in Process, Crash(p) PROVE IInv'
  BY <1>1, <1>4, CrashKeeps
<1>5. CASE UNCHANGED vars
  BY <1>5 DEF vars, IInv, TypeOK, LoopOwned, Progress, RowsOfLiveWidgets, KeyUnique,
     LossHasCause, AnswerIsOwn, AckDurable, ReplaysAgree, OutboxAtomic,
     ErrorLeavesNothing, ServerErrorCause, Flushed, SameKey
<1> QED
  BY <1>2, <1>3, <1>4, <1>5 DEF Next

\* The inductive invariant holds in every reachable state.
THEOREM Invariance == Spec => []IInv
  BY InitIInv, IInvStep, PTL DEF Spec

\* Two answers to one key on one widget name one lead, however many requests
\* on however many processes carry the key.
THEOREM ReplaysAgreeAlways == Spec => []ReplaysAgree
<1>1. IInv => ReplaysAgree
  BY DEF IInv
<1> QED
  BY <1>1, Invariance, PTL

\* No answer ever names a lead of another widget or key.
THEOREM AnswerIsOwnAlways == Spec => []AnswerIsOwn
<1>1. IInv => AnswerIsOwn
  BY DEF IInv
<1> QED
  BY <1>1, Invariance, PTL

\* An acknowledged lead stays until its widget is deleted.
THEOREM AckDurableAlways == Spec => []AckDurable
<1>1. IInv => AckDurable
  BY DEF IInv
<1> QED
  BY <1>1, Invariance, PTL

\* The outbox holds exactly what the stored leads owe.
THEOREM OutboxAtomicAlways == Spec => []OutboxAtomic
<1>1. IInv => OutboxAtomic
  BY DEF IInv
<1> QED
  BY <1>1, Invariance, PTL

\* A lead whose client was not told 201 is there because the commit was not
\* heard of or the refresh after it failed; no other failure leaves one.
THEOREM ErrorLeavesNothingAlways == Spec => []ErrorLeavesNothing
<1>1. IInv => ErrorLeavesNothing
  BY DEF IInv
<1> QED
  BY <1>1, Invariance, PTL

\* With no statement failing from outside, the endpoint answers 500 for two
\* reasons only, whatever requests, tenants and crashes it races with.
THEOREM ServerErrorCauseAlways == Spec => []ServerErrorCause
<1>1. IInv => ServerErrorCause
  BY DEF IInv
<1> QED
  BY <1>1, Invariance, PTL

\* Whatever became of the answer, a stored lead is what its key leads to: no
\* retry of a failed request is told of another one.
THEOREM RetryFindsLeadAlways == Spec => []RetryFindsLead
<1>1. ASSUME IInv PROVE RetryFindsLead
  <2> USE <1>1 DEF IInv, TypeOK
  <2> SUFFICES ASSUME NEW r \in rows, NEW q \in Request, SameKey(q, r), leadId[q] # None
               PROVE  leadId[q] = r
    BY DEF RetryFindsLead
  <2>1. target[q] \in live
    BY DEF RowsOfLiveWidgets, SameKey
  <2>2. leadId[q] \in rows
    BY <2>1 DEF AckDurable
  <2>3. SameKey(leadId[q], r)
    BY DEF AnswerIsOwn, SameKey
  <2> QED
    BY <2>2, <2>3 DEF KeyUnique
<1> QED
  BY <1>1, Invariance, PTL

\* An event loop never waits for a row lock that one of its own suspended
\* requests holds: both would own the same loop.
THEOREM NoSelfBlockingAlways == Spec => []NoSelfBlocking
<1>1. IInv => NoSelfBlocking
  BY DEF IInv, LoopOwned, NoSelfBlocking, Blocks, Flushed, OnLoop
<1> QED
  BY <1>1, Invariance, PTL

-----------------------------------------------------------------------------
\* An answer without a lead, and a step that neither stores, answers nor
\* deletes, is a stutter of the abstract store.
LEMMA StepRefines == IInv /\ [Next]_vars => [Store!ANext]_(Store!avars)
<1> SUFFICES ASSUME IInv, [Next]_vars PROVE [Store!ANext]_(Store!avars)
  OBVIOUS
<1> USE NoneAssumption
    DEF IInv, TypeOK, Reply, GoTo, reqVars, dbVars, widgetVars, boundVars, Progress, Past
<1>1. ASSUME NEW r \in Request, Arrive(r) PROVE Store!Ask(r)
  BY <1>1 DEF Arrive, Store!Ask
<1>2. ASSUME NEW r \in Request, NEW q \in rows, q = r \/ SameKey(q, r),
             leadId' = [leadId EXCEPT ![r] = q], leadId[r] = None,
             UNCHANGED <<target, key, live, rows, events>>
      PROVE  Store!Answer(r)
  BY <1>2 DEF Store!Answer, SameKey, Store!SameKey
<1>3. ASSUME NEW r \in Request, Lookup(r) \/ RecordSpam(r) \/ Resume(r) \/ Insert(r) \/ Fail(r)
      PROVE  UNCHANGED Store!avars
  <2> USE DEF Break, Fallible, OnLoop
  <2>1. leadId' = leadId
    BY <1>3 DEF Lookup, RecordSpam, Resume, Insert, Fail
  <2> QED
    BY <1>3, <2>1 DEF Lookup, RecordSpam, Resume, Insert, Fail, Store!avars
<1>4. ASSUME NEW r \in Request, FindByKey(r) \/ Conflict(r)
      PROVE  Store!Answer(r) \/ UNCHANGED Store!avars
  <2>1. CASE \E q \in Found(r) : Reply(r, 201, q)
    <3>1. PICK q \in Found(r) : Reply(r, 201, q)
      BY <2>1
    <3> QED
      BY <1>2, <1>4, <3>1 DEF Found, FindByKey, Conflict
  <2>2. CASE leadId' = leadId
    BY <1>4, <2>2 DEF FindByKey, Conflict, Store!avars
  <2> QED
    BY <1>4, <2>1, <2>2 DEF FindByKey, Conflict
<1>5. ASSUME NEW r \in Request, Commit(r) PROVE Store!Store(r)
  <2>1. UNCHANGED <<target, key, live, leadId>>
    BY <1>5 DEF Commit, Break, Flushed
  <2>2. target[r] \in live /\ r \notin rows /\ \A q \in rows : ~SameKey(q, r)
    BY <1>5 DEF Commit, Flushed, RowsOfLiveWidgets, KeyUnique
  <2>3. rows' = rows \cup {r} /\ events' = events \cup ({r} \X Owed(r))
    BY <1>5 DEF Commit
  <2>4. Owed(r) \in SUBSET EventType
    BY DEF Owed
  <2> HIDE DEF IInv, TypeOK
  <2> QED
    BY <2>1, <2>2, <2>3, <2>4 DEF SameKey, Store!Store, Store!SameKey
<1>6. ASSUME NEW r \in Request, Refresh(r)
      PROVE  Store!Answer(r) \/ UNCHANGED Store!avars
  <2>1. CASE r \in rows
    BY <1>2, <1>6, <2>1 DEF Refresh
  <2>2. CASE r \notin rows
    BY <1>6, <2>2 DEF Refresh, Store!avars
  <2> QED
    BY <2>1, <2>2
<1>7. ASSUME NEW w \in Widget, EditWidget(w) PROVE UNCHANGED Store!avars
  BY <1>7 DEF EditWidget, Store!avars
<1>8. ASSUME NEW w \in Widget, DeleteWidget(w) PROVE Store!Drop(w)
  BY <1>8 DEF DeleteWidget, Store!Drop
<1>9. ASSUME NEW p \in Process, Crash(p) PROVE UNCHANGED Store!avars
  BY <1>9 DEF Crash, Store!avars
<1>10. CASE UNCHANGED vars
  BY <1>10 DEF vars, Store!avars
<1> HIDE DEF IInv, TypeOK
<1> QED
  BY <1>1, <1>3, <1>4, <1>5, <1>6, <1>7, <1>8, <1>9, <1>10 DEF Next, Step, Store!ANext

\* The endpoint implements the abstract store of LeadStore.
THEOREM Refinement == Spec => StoreSpec
<1>1. Init => Store!AInit
  BY DEF Init, Store!AInit
<1> QED
  BY <1>1, StepRefines, Invariance, PTL DEF Spec, StoreSpec, Store!ASpec
===============================================================================
