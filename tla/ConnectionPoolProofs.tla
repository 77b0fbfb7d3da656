------------------------- MODULE ConnectionPoolProofs -------------------------
(***************************************************************************)
(* The pool's bound, the return of every connection, and the price of a    *)
(* stall, for any number of sessions, any size of the pool and any         *)
(* timeout.                                                                *)
(*                                                                         *)
(* The argument: a connection goes only to a session that stands at a      *)
(* statement, while fewer than PoolMax are out; and a session reaches      *)
(* "new" or "done" only by a step that gives its connection back or was    *)
(* taken without one.                                                      *)
(***************************************************************************)
EXTENDS ConnectionPool, FiniteSetTheorems, TLAPS

\* The inductive invariant; the set of holders has to be finite to be counted.
IInv == TypeOK /\ IsFiniteSet(held) /\ NoLeak

\* At the start no connection is out.
LEMMA InitInv == Init => IInv
<1> SUFFICES ASSUME Init PROVE IInv
  OBVIOUS
<1>1. IsFiniteSet({}) /\ Cardinality({}) = 0
  BY FS_EmptySet
<1>2. TypeOK
  BY <1>1, PoolAssumption DEF Init, TypeOK, Place, OffLoop
<1> QED
  BY <1>1, <1>2 DEF Init, IInv, NoLeak

\* Giving a connection back, or keeping it, leaves the count within bounds.
LEMMA FewerHeld ==
    ASSUME NEW S, IsFiniteSet(S), Cardinality(S) <= PoolMax, NEW s
    PROVE  IsFiniteSet(S \ {s}) /\ Cardinality(S \ {s}) <= PoolMax
<1>1. CASE s \notin S
  <2>1. S \ {s} = S
    BY <1>1
  <2> QED
    BY <2>1
<1>2. CASE s \in S
  <2>1. IsFiniteSet(S \ {s}) /\ Cardinality(S \ {s}) = Cardinality(S) - 1
    BY <1>2, FS_RemoveElement
  <2>2. Cardinality(S) \in Nat /\ PoolMax \in Nat
    BY FS_CardinalityType, PoolAssumption
  <2> QED
    BY <2>1, <2>2
<1> QED
  BY <1>1, <1>2

\* One more session gets a connection only while one is left.
LEMMA OneMoreHeld ==
    ASSUME NEW S, IsFiniteSet(S), ~(Cardinality(S) >= PoolMax), NEW s
    PROVE  IsFiniteSet(S \cup {s}) /\ Cardinality(S \cup {s}) <= PoolMax
<1>1. Cardinality(S) \in Nat /\ Cardinality(S) + 1 <= PoolMax
  BY FS_CardinalityType, PoolAssumption
<1>2. IsFiniteSet(S \cup {s}) /\ Cardinality(S \cup {s}) \in {Cardinality(S), Cardinality(S) + 1}
  BY FS_AddElement, Zenon
<1> QED
  BY <1>1, <1>2, PoolAssumption

\* A connection is handed out only while the pool has one.
LEMMA CheckoutKeeps ==
    ASSUME IInv, NEW s \in Session, Checkout(s)
    PROVE  IInv'
<1>1. IsFiniteSet(held') /\ Cardinality(held') <= PoolMax
  BY OneMoreHeld DEF IInv, Checkout, Full
<1>2. at[s] \notin {"new", "done"}
  BY DEF Checkout, Waiting, Statement
<1>3. TypeOK'
  BY <1>1, PoolAssumption DEF IInv, TypeOK, Checkout
<1> QED
  BY <1>1, <1>2, <1>3 DEF IInv, NoLeak, Checkout

\* Every other step keeps or shrinks the set of holders.
LEMMA OtherStepsKeep ==
    ASSUME IInv, NEW s \in Session,
           \/ GiveUp(s) \/ Return(s) \/ Close(s) \/ Release(s)
           \/ s \in Submission /\ (Begin(s) \/ Decide(s) \/ Resume(s))
           \/ s \in Handler /\ (Dispatch(s) \/ Authenticate(s) \/ Run(s) \/ Work(s))
           \/ s \in Drain /\ (Poll(s) \/ Batch(s))
    PROVE  IInv'
<1> USE PoolAssumption
<1>1. held' \in {held, held \ {s}}
  BY DEF GiveUp, Return, Close, Release, Begin, Decide, Resume, Dispatch,
         Authenticate, Run, Work, Poll, Batch
<1>2. IsFiniteSet(held') /\ Cardinality(held') <= PoolMax /\ held' \subseteq Session
  <2>1. IsFiniteSet(held) /\ Cardinality(held) <= PoolMax /\ held \subseteq Session
    BY DEF IInv, TypeOK
  <2>2. IsFiniteSet(held \ {s}) /\ Cardinality(held \ {s}) <= PoolMax
    BY <2>1, FewerHeld, Zenon
  <2> QED
    BY <1>1, <2>1, <2>2
<1>3. \E place \in Place : at' = [at EXCEPT ![s] = place]
  BY DEF GiveUp, Return, Close, Release, Begin, Decide, Resume, Dispatch,
         Authenticate, Run, Work, Poll, Batch, Move, Place, Statement, OffLoop
<1>4. loop' \in {loop, None, s} /\ (loop' = s => loop = s \/ s \in Submission)
  BY DEF GiveUp, Return, Close, Release, Begin, Decide, Resume, Dispatch,
         Authenticate, Run, Work, Poll, Batch
<1>5. \/ code' = code
      \/ \E c \in {200, 400, 500} : code' = [code EXCEPT ![s] = c]
  BY DEF GiveUp, Return, Close, Release, Begin, Decide, Resume, Dispatch,
         Authenticate, Run, Work, Poll, Batch, Answer
<1>6. waited' = waited \/ waited' = [waited EXCEPT ![s] = 0]
  BY DEF GiveUp, Return, Close, Release, Begin, Decide, Resume, Dispatch,
         Authenticate, Run, Work, Poll, Batch
<1>7. TypeOK'
  <2>1. at' \in [Session -> Place]
    BY <1>3 DEF IInv, TypeOK
  <2>2. loop' \in Submission \cup {None}
    BY <1>4 DEF IInv, TypeOK
  <2>3. code' \in [Session -> {0, 200, 400, 500}]
    BY <1>5 DEF IInv, TypeOK
  <2>4. waited' \in [Session -> 0..PoolTimeout]
    BY <1>6 DEF IInv, TypeOK
  <2> QED
    BY <1>2, <2>1, <2>2, <2>3, <2>4 DEF TypeOK
<1>8. s \in held' => at'[s] \notin {"new", "done"}
  BY DEF IInv, TypeOK, NoLeak, GiveUp, Return, Close, Release, Begin, Decide, Resume,
         Dispatch, Authenticate, Run, Work, Poll, Batch, Move, Waiting
<1>9. \A t \in held' \ {s} : t \in held /\ at'[t] = at[t]
  BY <1>1, <1>3 DEF IInv, TypeOK
<1> QED
  BY <1>2, <1>7, <1>8, <1>9 DEF IInv, NoLeak

\* Every step keeps the invariant.
LEMMA NextKeeps == IInv /\ [Next]_vars => IInv'
<1> SUFFICES ASSUME IInv, [Next]_vars PROVE IInv'
  OBVIOUS
<1>1. CASE Tick
  <2>1. waited' \in [Session -> 0..PoolTimeout]
    BY <1>1, PoolAssumption DEF Tick, IInv, TypeOK
  <2> QED
    BY <1>1, <2>1 DEF Tick, IInv, TypeOK, NoLeak
<1>2. ASSUME NEW s \in Session, Step(s) PROVE IInv'
  BY <1>2, CheckoutKeeps, OtherStepsKeep DEF Step
<1>3. CASE UNCHANGED vars
  BY <1>3 DEF vars, IInv, TypeOK, NoLeak
<1> QED
  BY <1>1, <1>2, <1>3 DEF Next

\* The invariant holds, whatever sessions do and however they end.
THEOREM Invariance == Spec => []IInv
BY InitInv, NextKeeps, PTL DEF Spec

\* No more than PoolMax connections are ever out.
THEOREM TypeCorrect == Spec => []TypeOK
BY Invariance, PTL DEF IInv

\* Every connection comes back, however its session ends.
THEOREM NoLeakAlways == Spec => []NoLeak
BY Invariance, PTL DEF IInv

\* A stalled loop stays stalled until its submission has failed.
LEMMA StallStep ==
    IInv /\ [Next]_vars => [Stalled => Stalled' \/ code'[loop] = 500]_vars
<1> SUFFICES ASSUME IInv, Next, Stalled PROVE Stalled' \/ code'[loop] = 500
  BY DEF Stalled, vars
<1>1. loop \in Session /\ loop # None /\ loop \notin held /\ at[loop] \in Statement
  BY SessionAssumption DEF Stalled, Waiting
<1>2. loop \in Submission /\ loop \notin Drain
  BY <1>1, SessionAssumption DEF IInv, TypeOK
<1>3. CASE Tick
  BY <1>3 DEF Tick, Stalled, Waiting, Full
<1>4. ASSUME NEW s \in Session, Step(s) PROVE Stalled' \/ code'[loop] = 500
  <2>1. ~Checkout(s)
    BY DEF Checkout, Stalled
  <2>2. ~Begin(s) /\ ~Resume(s) /\ ~Close(s) /\ ~Dispatch(s) /\ ~Run(s) /\ ~Poll(s)
    BY <1>1 DEF Begin, Resume, Close, Dispatch, Run, Poll
  <2>3. ~Decide(s) /\ ~Return(s) /\ ~Authenticate(s) /\ ~Work(s) /\ ~Batch(s)
    BY DEF Decide, Return, Authenticate, Work, Batch, Stalled, OffLoop
  <2>4. CASE GiveUp(s) /\ s = loop
    BY <1>2, <2>4 DEF GiveUp, Answer, IInv, TypeOK
  <2>5. CASE GiveUp(s) /\ s # loop
    <3>1. s \notin held /\ held' = held /\ loop' = loop
      BY <2>5 DEF GiveUp, Waiting
    <3>2. \A t \in Session \ {s} : at'[t] = at[t]
      BY <2>5 DEF GiveUp, Move, IInv, TypeOK
    <3> QED
      BY <1>1, <2>5, <3>1, <3>2 DEF Stalled, Waiting, Full, IInv, TypeOK
  <2>6. CASE Release(s)
    <3>1. s \notin held /\ s # loop
      BY <1>1, <2>6 DEF Release, Stalled, OffLoop, Statement
    <3>2. held' = held /\ loop' = loop
      BY <2>6, <3>1 DEF Release
    <3>3. \A t \in Session \ {s} : at'[t] = at[t]
      BY <2>6 DEF Release, Move, IInv, TypeOK
    <3> QED
      BY <1>1, <3>1, <3>2, <3>3 DEF Stalled, Waiting, Full, IInv, TypeOK
  <2> QED
    BY <1>4, <2>1, <2>2, <2>3, <2>4, <2>5, <2>6 DEF Step
<1> QED
  BY <1>3, <1>4 DEF Next

\* What a stall costs, whatever the size of the pool.
THEOREM StallCostsARequestAlways == Spec => StallCostsARequest
BY Invariance, StallStep, PTL DEF Spec, StallCostsARequest
===============================================================================
