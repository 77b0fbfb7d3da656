-------------------------- MODULE WidgetConfigProofs --------------------------
(***************************************************************************)
(* The properties of WidgetConfig for every set of browsers, editors and   *)
(* field lists, and for every cache lifetime.                              *)
(*                                                                         *)
(* A refusal is settled in one step, so the first property rests on the    *)
(* data alone: every name of a field list has a last field (LastOfExists). *)
(*                                                                         *)
(* The others need PATCHes that do not overlap: then an open PATCH has     *)
(* read the row as it is (NoOverlap), and every write that changes the     *)
(* fields makes a larger version.  So a cached config with the row's       *)
(* version has the row's fields (VersionTells), and an accepted submission *)
(* that was judged by the row's version fits the row (PendingTells).       *)
(***************************************************************************)
EXTENDS WidgetConfig, WellFoundedInduction, TLAPS

-----------------------------------------------------------------------------
(* Field lists. *)

\* Among the fields of one name there is a last one.
LEMMA LastOfExists ==
    ASSUME NEW form \in Form, NEW n \in Names(form)
    PROVE  /\ LastOf(form, n) \in DOMAIN form
           /\ form[LastOf(form, n)].name = n
           /\ \A j \in DOMAIN form : form[j].name = n => j <= LastOf(form, n)
<1> DEFINE R == OpToRel(<, Nat)
           T == {m \in Nat : \E i \in DOMAIN form : m = Len(form) - i /\ form[i].name = n}
<1>1. Len(form) \in Nat /\ DOMAIN form = 1..Len(form)
  BY FormAssumption
<1>2. PICK i \in DOMAIN form : form[i].name = n
  BY DEF Names
<1>3. T \subseteq Nat /\ Len(form) - i \in T
  BY <1>1, <1>2
<1>4. PICK x \in T : \A y \in T : <<y, x>> \notin R
  <2>1. IsWellFoundedOn(R, Nat)
    BY NatLessThanWellFounded
  <2> HIDE DEF R, T
  <2> QED
    BY <1>3, <2>1, WFMin
<1>5. \A y \in T : ~(y < x)
  BY <1>3, <1>4 DEF OpToRel
<1>6. PICK k \in DOMAIN form : x = Len(form) - k /\ form[k].name = n
  OBVIOUS
<1>7. \A j \in DOMAIN form : form[j].name = n => j <= k
  <2> SUFFICES ASSUME NEW j \in DOMAIN form, form[j].name = n, ~(j <= k) PROVE FALSE
    OBVIOUS
  <2>1. Len(form) - j \in T /\ Len(form) - j < x
    BY <1>1, <1>6
  <2> QED
    BY <1>5, <2>1
<1> QED
  BY <1>6, <1>7 DEF LastOf

\* What a careful visitor posts is refused only by another field list.
LEMMA CarefulIsAccepted ==
    ASSUME NEW form \in Form, NEW filled \in SUBSET DOMAIN form,
           \A i \in DOMAIN form : form[i].required => i \in filled
    PROVE  ~Refused(form, Collected(form, filled))
  BY LastOfExists DEF Refused, Collected, Names

-----------------------------------------------------------------------------
(* Types and verdicts, whatever PATCHes do. *)

IInv ==
    /\ TypeOK
    /\ RefusedOnlyIfChanged

\* The initial states satisfy the inductive invariant.
LEMMA InitIInv == Init => IInv
<1> SUFFICES ASSUME Init PROVE IInv
  OBVIOUS
<1>1. TypeOK
  <2>1. 0 \in 0..MaxAge /\ 0 \in 0..(MaxAge + 1)
    BY AgeAssumption
  <2>2. /\ DOMAIN verdict = Visitor /\ \A v \in Visitor : verdict[v] = None
        /\ DOMAIN pending = Visitor /\ \A v \in Visitor : pending[v] = None
    BY DEF Init
  <2> QED
    BY <2>1, <2>2 DEF Init, TypeOK
<1>2. RefusedOnlyIfChanged
  BY DEF Init, RefusedOnlyIfChanged
<1> QED
  BY <1>1, <1>2 DEF IInv

\* An answer with a form and a field list leaves the other verdicts alone.
LEMMA AnsweredKeeps ==
    ASSUME IInv, NEW v \in Visitor, NEW code \in {201, 404, 422, 500}, NEW form \in Form,
           NEW judged \in Form \cup {<<>>}, code = 422 => form # judged,
           Answered(v, code, form, judged)
    PROVE  /\ RefusedOnlyIfChanged'
           /\ DOMAIN verdict' = Visitor
           /\ \A u \in Visitor : verdict'[u] # None =>
                 /\ verdict'[u].code \in {201, 404, 422, 500}
                 /\ verdict'[u].form \in Form /\ verdict'[u].judged \in Form \cup {<<>>}
<1> DEFINE new == [code |-> code, form |-> form, judged |-> judged]
<1>1. DOMAIN verdict = Visitor /\ verdict' = [verdict EXCEPT ![v] = new]
  BY DEF IInv, TypeOK, Answered
<1>2. new.code = code /\ new.form = form /\ new.judged = judged
  OBVIOUS
<1> HIDE DEF new
<1>3. DOMAIN verdict' = Visitor /\ verdict'[v] = new /\ \A u \in Visitor \ {v} : verdict'[u] = verdict[u]
  BY <1>1
<1>4. RefusedOnlyIfChanged'
  BY <1>2, <1>3 DEF IInv, RefusedOnlyIfChanged
<1>5. \A u \in Visitor : verdict[u] # None =>
         /\ verdict[u].code \in {201, 404, 422, 500}
         /\ verdict[u].form \in Form /\ verdict[u].judged \in Form \cup {<<>>}
  BY DEF IInv, TypeOK
<1> QED
  BY <1>2, <1>3, <1>4, <1>5

\* A refusal comes from a list that is not the form's, and what is accepted
\* goes on with its own data.
LEMMA SubmitKeeps == ASSUME IInv, NEW v \in Visitor, Submit(v) PROVE IInv'
<1> DEFINE form == page[v]
           judged == Judged(v)
<1>1. form \in Form
  BY DEF IInv, TypeOK, Submit
<1>2. Served => judged \in Form \cup {<<>>} /\ row.version \in 1..MaxVersion
  BY DEF IInv, TypeOK, Row, Served, Judged, Declared
<1>3. PICK filled \in SUBSET DOMAIN form :
        LET data == Collected(form, filled)
        IN  /\ \A i \in DOMAIN form : form[i].required => i \in filled
            /\ \/ /\ ~Served
                  /\ Answered(v, 404, form, <<>>)
                  /\ UNCHANGED pending
               \/ /\ Served /\ Refused(judged, data)
                  /\ Answered(v, 422, form, judged)
                  /\ UNCHANGED pending
               \/ /\ Served /\ ~Refused(judged, data)
                  /\ pending' = [pending EXCEPT ![v] =
                        [form |-> form, judged |-> judged, data |-> data, version |-> row.version]]
                  /\ UNCHANGED verdict
  BY DEF Submit
<1> DEFINE data == Collected(form, filled)
<1>4. data \subseteq Names(form) /\ ~Refused(form, data)
  BY <1>1, <1>3, CarefulIsAccepted DEF Collected
<1>5. /\ TypeOK /\ UNCHANGED <<row, spent, session, cache, age, late, config>>
      /\ page' \in [Visitor -> Form \cup {None}]
  BY DEF IInv, TypeOK, Submit
<1> HIDE DEF form, judged, data
<1>6. CASE Answered(v, 404, form, <<>>) /\ UNCHANGED pending
  BY <1>1, <1>5, <1>6, AnsweredKeeps DEF IInv, TypeOK
<1>7. CASE Served /\ Refused(judged, data) /\ Answered(v, 422, form, judged) /\ UNCHANGED pending
  <2>1. form # judged
    BY <1>4, <1>7
  <2> QED
    BY <1>1, <1>2, <1>5, <1>7, <2>1, AnsweredKeeps DEF IInv, TypeOK
<1>8. CASE /\ Served
           /\ pending' = [pending EXCEPT ![v] =
                 [form |-> form, judged |-> judged, data |-> data, version |-> row.version]]
           /\ UNCHANGED verdict
  <2> DEFINE new == [form |-> form, judged |-> judged, data |-> data, version |-> row.version]
  <2>1. new.form = form /\ new.judged = judged /\ new.data = data /\ new.version = row.version
    OBVIOUS
  <2> HIDE DEF new
  <2>2. DOMAIN pending' = Visitor /\ pending'[v] = new /\ \A u \in Visitor \ {v} : pending'[u] = pending[u]
    BY <1>8 DEF new, IInv, TypeOK
  <2>3. TypeOK'
    BY <1>1, <1>2, <1>4, <1>5, <1>8, <2>1, <2>2 DEF TypeOK
  <2> QED
    BY <1>8, <2>3 DEF IInv, RefusedOnlyIfChanged
<1> QED
  BY <1>3, <1>6, <1>7, <1>8 DEF data

\* What was accepted is answered 201 or 500.
LEMMA StoreKeeps == ASSUME IInv, NEW v \in Visitor, Store(v) PROVE IInv'
<1>1. PICK code \in {201, 500} : Answered(v, code, pending[v].form, pending[v].judged)
  BY DEF Store
<1>2. pending[v].form \in Form /\ pending[v].judged \in Form \cup {<<>>}
  BY DEF Store, IInv, TypeOK
<1>3. /\ RefusedOnlyIfChanged'
      /\ DOMAIN verdict' = Visitor
      /\ \A u \in Visitor : verdict'[u] # None =>
            /\ verdict'[u].code \in {201, 404, 422, 500}
            /\ verdict'[u].form \in Form /\ verdict'[u].judged \in Form \cup {<<>>}
  BY <1>1, <1>2, AnsweredKeeps
<1>4. DOMAIN pending' = Visitor /\ \A u \in Visitor : pending'[u] \in {None, pending[u]}
  BY DEF Store, IInv, TypeOK
<1>5. TypeOK /\ UNCHANGED <<row, spent, session, cache, age, late, page, config>>
  BY DEF IInv, Store
<1> QED
  BY <1>3, <1>4, <1>5 DEF IInv, TypeOK

\* A write keeps the row a row.
LEMMA WriteType == ASSUME TypeOK, NEW e \in Editor, WriteRow(e) PROVE TypeOK'
<1> DEFINE s == session[e]
<1>1. s.read \in Row /\ s.body \in Body
  BY DEF TypeOK, WriteRow
<1>2. NextVersion(s) \in 1..MaxVersion
  BY <1>1, AgeAssumption DEF WriteRow, NextVersion, Row
<1>3. row # None => row \in Row
  BY DEF TypeOK
<1>4. row # None =>
        /\ Written(row.fields, s.read.fields, s.body.fields) \in Form \cup {Null}
        /\ Written(row.active, s.read.active, s.body.active) \in BOOLEAN
        /\ Written(row.version, s.read.version, NextVersion(s)) \in 1..MaxVersion
  BY <1>1, <1>2, <1>3 DEF Written, Row, Body
<1>5. row' \in Row \cup {None}
  BY <1>4 DEF WriteRow, Row, TypeOK
<1> QED
  BY <1>5 DEF WriteRow, TypeOK, visitorVars

\* What a browser loads is a field list, and its ages stay in their bounds.
LEMMA LoadType == ASSUME TypeOK, NEW v \in Visitor, Load(v) \/ LoadFresh(v) PROVE TypeOK'
<1>1. row # None => row \in Row
  BY DEF TypeOK
<1>2. cache[v] # None => cache[v] \in [version : 1..MaxVersion, fields : Form]
  BY DEF TypeOK
<1>3. CASE LoadFresh(v)
  BY <1>2, <1>3 DEF LoadFresh, TypeOK
<1>4. CASE Load(v)
  <2> USE AgeAssumption
  <2>1. CASE ~Served
    <3>1. config' = [config EXCEPT ![v] = 404] /\ UNCHANGED <<cache, age, late, page>>
      BY <1>4, <2>1 DEF Load, NotModified
    <3>2. UNCHANGED <<row, spent, session, pending, verdict>>
      BY <1>4 DEF Load
    <3>3. config' \in [Visitor -> {0, 200, 304, 404, 500}]
      BY <3>1 DEF TypeOK
    <3> QED
      BY <3>1, <3>2, <3>3 DEF TypeOK
  <2>2. CASE NotModified(v)
    <3>1. /\ config' = [config EXCEPT ![v] = 304]
          /\ age' = [age EXCEPT ![v] = 0]
          /\ late' = [late EXCEPT ![v] = IF cache[v].fields = row.fields THEN 0 ELSE @]
          /\ page' = [page EXCEPT ![v] = cache[v].fields]
          /\ UNCHANGED cache
      BY <1>4, <2>2 DEF Load, NotModified
    <3>2. cache[v].fields \in Form
      BY <1>2, <2>2 DEF NotModified
    <3>3. page' \in [Visitor -> Form \cup {None}]
      BY <3>1, <3>2 DEF TypeOK
    <3>4. age' \in [Visitor -> 0..MaxAge] /\ late' \in [Visitor -> 0..(MaxAge + 1)]
      BY <3>1 DEF TypeOK
    <3> QED
      BY <1>4, <3>1, <3>3, <3>4 DEF Load, TypeOK
  <2>3. CASE Served /\ ~NotModified(v) /\ ~Iterable(row.fields)
    <3>1. config' = [config EXCEPT ![v] = 500] /\ UNCHANGED <<cache, age, late, page>>
      BY <1>4, <2>3 DEF Load
    <3>2. UNCHANGED <<row, spent, session, pending, verdict>>
      BY <1>4 DEF Load
    <3>3. config' \in [Visitor -> {0, 200, 304, 404, 500}]
      BY <3>1 DEF TypeOK
    <3> QED
      BY <3>1, <3>2, <3>3 DEF TypeOK
  <2>4. CASE Served /\ ~NotModified(v) /\ Iterable(row.fields)
    <3>1. row.version \in 1..MaxVersion /\ row.fields \in Form
      BY <1>1, <2>4 DEF Served, Iterable, Row
    <3>2. /\ cache' = [cache EXCEPT ![v] = [version |-> row.version, fields |-> row.fields]]
          /\ page' = [page EXCEPT ![v] = row.fields]
          /\ config' = [config EXCEPT ![v] = 200]
          /\ age' = [age EXCEPT ![v] = 0]
          /\ late' = [late EXCEPT ![v] = 0]
      BY <1>4, <2>4 DEF Load
    <3>3. cache' \in [Visitor -> {None} \cup [version : 1..MaxVersion, fields : Form]]
      BY <3>1, <3>2 DEF TypeOK
    <3> QED
      BY <1>4, <3>1, <3>2, <3>3 DEF Load, TypeOK
  <2> QED
    BY <2>1, <2>2, <2>3, <2>4
<1> QED
  BY <1>3, <1>4

\* The inductive invariant is inductive.
LEMMA IInvStep == IInv /\ [Next]_vars => IInv'
<1> SUFFICES ASSUME IInv, [Next]_vars PROVE IInv'
  OBVIOUS
<1>1. ASSUME TypeOK', UNCHANGED verdict PROVE IInv'
  BY <1>1 DEF IInv, RefusedOnlyIfChanged
<1>2. CASE Create
  BY <1>1, <1>2, AgeAssumption DEF Create, IInv, TypeOK, Row, visitorVars
<1>3. CASE Delete
  BY <1>1, <1>3 DEF Delete, IInv, TypeOK, visitorVars
<1>4. CASE Tick
  <2>1. TypeOK /\ UNCHANGED <<row, spent, session, cache, page, config, pending, verdict>>
    BY <1>4 DEF IInv, Tick
  <2>2. age' \in [Visitor -> 0..MaxAge]
    BY <1>4, <2>1, AgeAssumption DEF Tick, TypeOK
  <2>3. late' \in [Visitor -> 0..(MaxAge + 1)]
    BY <1>4, <2>1, AgeAssumption DEF Tick, TypeOK
  <2>4. TypeOK'
    BY <2>1, <2>2, <2>3 DEF TypeOK
  <2> QED
    BY <1>1, <2>1, <2>4
<1>5. ASSUME NEW e \in Editor, ReadRow(e) PROVE IInv'
  BY <1>1, <1>5 DEF ReadRow, IInv, TypeOK, visitorVars
<1>6. ASSUME NEW e \in Editor, WriteRow(e) PROVE IInv'
  BY <1>1, <1>6, WriteType DEF WriteRow, IInv, visitorVars
<1>7. ASSUME NEW v \in Visitor, LoadFresh(v) \/ Load(v) PROVE IInv'
  BY <1>1, <1>7, LoadType DEF LoadFresh, Load, IInv
<1>8. ASSUME NEW v \in Visitor, Leave(v) PROVE IInv'
  BY <1>1, <1>8 DEF Leave, IInv, TypeOK
<1>9. CASE UNCHANGED vars
  BY <1>1, <1>9 DEF vars, IInv, TypeOK
<1> QED
  BY <1>2, <1>3, <1>4, <1>5, <1>6, <1>7, <1>8, <1>9, SubmitKeeps, StoreKeeps
  DEF Next

\* Types and verdicts hold, whatever PATCHes overlap.
THEOREM Invariance == Spec => []IInv
  BY InitIInv, IInvStep, PTL DEF Spec

\* Type correctness: a null field list never leaves the server.
THEOREM TypeCorrect == Spec => []TypeOK
<1>1. IInv => TypeOK
  BY DEF IInv
<1> QED
  BY <1>1, Invariance, PTL

\* Who fills the form as it is shown is refused only because it has changed.
THEOREM RefusedOnlyIfChangedAlways == Spec => []RefusedOnlyIfChanged
<1>1. IInv => RefusedOnlyIfChanged
  BY DEF IInv
<1> QED
  BY <1>1, Invariance, PTL

-----------------------------------------------------------------------------
(* The cache and what is under way, when PATCHes come one at a time. *)

\* An open PATCH has read the row as it is.
NoOverlap == \A e \in Editor : session[e] # None /\ row # None => session[e].read = row

\* Before the widget is created nobody edits it, caches it or submits to it.
Unborn ==
    /\ spent => row = None
    /\ row = None /\ ~spent =>
          /\ \A e \in Editor : session[e] = None
          /\ \A v \in Visitor : cache[v] = None /\ pending[v] = None

\* A cached config is not newer than the row, and one of its version has its
\* fields.
VersionTells ==
    \A v \in Visitor : cache[v] # None /\ row # None =>
        /\ cache[v].version <= row.version
        /\ cache[v].version = row.version => cache[v].fields = row.fields

\* An accepted submission was not judged by a version still to come, and fits
\* the row if it was judged by the row's version.
PendingTells ==
    \A v \in Visitor : pending[v] # None /\ row # None =>
        /\ pending[v].version <= row.version
        /\ pending[v].version = row.version => ~Refused(Declared(row.fields), pending[v].data)

CacheInv ==
    /\ TypeOK
    /\ NoOverlap
    /\ Unborn
    /\ VersionTells
    /\ PendingTells
    /\ BoundedStaleness

\* A browser loads what the row tells, and its age starts anew.
LEMMA LoadKeepsCache == ASSUME CacheInv, TypeOK', NEW v \in Visitor, Load(v) PROVE CacheInv'
<1> USE DEF CacheInv
<1>0. UNCHANGED <<row, spent, session, pending>> /\ PendingTells'
  BY DEF Load, PendingTells
<1>1. CASE UNCHANGED <<cache, age, late>>
  BY <1>0, <1>1 DEF NoOverlap, Unborn, VersionTells, BoundedStaleness
<1>2. CASE NotModified(v) /\ UNCHANGED cache /\ age' = [age EXCEPT ![v] = 0]
            /\ late' = [late EXCEPT ![v] = IF cache[v].fields = row.fields THEN 0 ELSE @]
  <2>1. cache[v].fields = row.fields
    BY <1>2 DEF VersionTells, NotModified, Served
  <2>2. late' = [late EXCEPT ![v] = 0]
    BY <1>2, <2>1
  <2>3. BoundedStaleness'
    BY <1>2, <2>2 DEF BoundedStaleness, TypeOK
  <2> QED
    BY <1>0, <1>2, <2>3 DEF NoOverlap, Unborn, VersionTells
<1>3. CASE /\ Served
           /\ cache' = [cache EXCEPT ![v] = [version |-> row.version, fields |-> row.fields]]
           /\ age' = [age EXCEPT ![v] = 0]
           /\ late' = [late EXCEPT ![v] = 0]
  <2>1. cache'[v].version = row.version /\ cache'[v].fields = row.fields
    BY <1>3 DEF TypeOK
  <2>2. \A u \in Visitor \ {v} : cache'[u] = cache[u] /\ age'[u] = age[u] /\ late'[u] = late[u]
    BY <1>3 DEF TypeOK
  <2>3. row.version \in Nat
    BY <1>3, AgeAssumption DEF TypeOK, Row, Served
  <2>4. VersionTells'
    BY <1>0, <2>1, <2>2, <2>3 DEF VersionTells
  <2>5. age'[v] = 0 /\ late'[v] = 0
    BY <1>3 DEF TypeOK
  <2>6. BoundedStaleness'
    BY <2>2, <2>5 DEF BoundedStaleness
  <2> QED
    BY <1>0, <1>3, <2>4, <2>6 DEF NoOverlap, Unborn, Served
<1> QED
  BY <1>1, <1>2, <1>3 DEF Load, NotModified

\* A write that changes the fields makes a larger version.
LEMMA WriteKeepsCache ==
    ASSUME CacheInv, TypeOK', \A d, e \in Editor : d = e, NEW e \in Editor, WriteRow(e)
    PROVE  CacheInv'
<1> DEFINE s == session[e]
<1> USE DEF CacheInv
<1>0. UNCHANGED <<spent, cache, age, late, pending>>
  BY DEF WriteRow, visitorVars
<1>1. NoOverlap' /\ \A d \in Editor : session'[d] = None
  BY DEF WriteRow, NoOverlap, TypeOK
<1>2. CASE row = None
  <2>1. row' = None
    BY <1>2 DEF WriteRow
  <2> QED
    BY <1>0, <1>1, <1>2, <2>1 DEF Unborn, VersionTells, PendingTells, BoundedStaleness
<1>3. CASE row # None
  <2>1. s.read = row
    BY <1>3 DEF WriteRow, NoOverlap
  <2>2. row \in Row /\ row.version \in Nat
    BY <1>3, AgeAssumption DEF TypeOK, Row
  <2>3. /\ row'.fields = Written(row.fields, row.fields, s.body.fields)
        /\ row'.version = Written(row.version, row.version, NextVersion(s))
    BY <1>3, <2>1 DEF WriteRow
  <2>4. NextVersion(s) \in {row.version, row.version + 1}
    BY <2>1 DEF NextVersion
  <2>5. row'.version \in {row.version, row.version + 1}
    BY <2>3, <2>4 DEF Written
  <2>6. row'.version = row.version => row'.fields = row.fields
    <3>1. CASE s.body.fields = Unset
      BY <2>3, <3>1 DEF Written
    <3>2. CASE s.body.fields # Unset
      <4>1. NextVersion(s) = row.version + 1 /\ NextVersion(s) # Unset
        BY <2>1, <2>2, <3>2, UnsetAssumption DEF NextVersion
      <4>2. row'.version = row.version + 1
        BY <2>2, <2>3, <4>1 DEF Written
      <4> QED
        BY <2>2, <4>2
    <3> QED
      BY <3>1, <3>2
  <2>7. \A v \in Visitor : cache[v] # None => cache[v].version \in Nat
    BY AgeAssumption DEF TypeOK
  <2>8. VersionTells' /\ PendingTells'
    <3>1. VersionTells'
      BY <1>0, <1>3, <2>2, <2>5, <2>6, <2>7 DEF VersionTells
    <3>2. \A v \in Visitor : pending[v] # None => pending[v].version \in Nat
      BY AgeAssumption DEF TypeOK
    <3>3. PendingTells /\ pending' = pending
      BY <1>0
    <3> HIDE DEF CacheInv
    <3>4. PendingTells'
      BY <1>3, <2>2, <2>5, <2>6, <3>2, <3>3 DEF PendingTells
    <3> QED
      BY <3>1, <3>4
  <2>9. row' # None
    <3>1. s.read \in Row /\ s.body \in Body
      BY DEF WriteRow, TypeOK
    <3>2. /\ Written(row.fields, row.fields, s.body.fields) \in Form \cup {Null}
          /\ Written(row.active, s.read.active, s.body.active) \in BOOLEAN
          /\ NextVersion(s) \in 1..MaxVersion
      BY <2>1, <2>2, <2>4, <3>1, AgeAssumption DEF Written, Row, Body, WriteRow
    <3>3. Written(row.version, s.read.version, NextVersion(s)) \in 1..MaxVersion
      BY <2>1, <2>2, <3>2 DEF Written, Row
    <3>4. row' \in Row
      BY <1>3, <2>1, <3>2, <3>3 DEF WriteRow, Row
    <3> QED
      BY <3>4, NoneAssumption
  <2> QED
    BY <1>0, <1>1, <1>3, <2>8, <2>9 DEF Unborn, BoundedStaleness
<1> QED
  BY <1>2, <1>3

\* What is accepted fits the row it was judged by.
LEMMA SubmitKeepsCache == ASSUME CacheInv, TypeOK', NEW v \in Visitor, Submit(v) PROVE CacheInv'
<1> USE DEF CacheInv
<1>1. UNCHANGED <<row, spent, session, cache, age, late>>
  BY DEF Submit
<1>2. \A u \in Visitor \ {v} : pending'[u] = pending[u]
  BY DEF Submit, TypeOK
<1>3. \/ pending'[v] = pending[v]
      \/ /\ row # None /\ pending'[v].version = row.version
         /\ ~Refused(Declared(row.fields), pending'[v].data)
  BY DEF Submit, Judged, Served, TypeOK
<1>4. row # None => row.version \in Nat
  BY AgeAssumption DEF TypeOK, Row
<1>5. PendingTells'
  BY <1>1, <1>2, <1>3, <1>4 DEF PendingTells
<1>6. Unborn'
  BY <1>1, <1>2, <1>3 DEF Unborn
<1> QED
  BY <1>1, <1>5, <1>6 DEF NoOverlap, VersionTells, BoundedStaleness

LEMMA StoreKeepsCache == ASSUME CacheInv, TypeOK', NEW v \in Visitor, Store(v) PROVE CacheInv'
<1> USE DEF CacheInv
<1>1. UNCHANGED <<row, spent, session, cache, age, late>>
  BY DEF Store
<1>2. \A u \in Visitor : pending'[u] \in {None, pending[u]}
  BY DEF Store, TypeOK
<1> QED
  BY <1>1, <1>2 DEF NoOverlap, Unborn, VersionTells, PendingTells, BoundedStaleness

\* The initial states satisfy the invariant of the cache.
LEMMA InitCacheInv == Init => CacheInv
<1> SUFFICES ASSUME Init PROVE CacheInv
  OBVIOUS
<1>1. TypeOK
  BY InitIInv DEF IInv
<1> QED
  BY <1>1 DEF CacheInv, Init, NoOverlap, Unborn, VersionTells, PendingTells, BoundedStaleness

\* The invariant of the cache is inductive when PATCHes do not overlap.
LEMMA CacheInvStep ==
    ASSUME \A d, e \in Editor : d = e
    PROVE  IInv /\ CacheInv /\ [Next]_vars => CacheInv'
<1> SUFFICES ASSUME IInv, CacheInv, [Next]_vars PROVE CacheInv'
  OBVIOUS
<1>1. TypeOK'
  BY IInvStep DEF IInv
<1> USE <1>1 DEF CacheInv
<1>2. CASE Create
  BY <1>2 DEF Create, NoOverlap, Unborn, VersionTells, PendingTells, BoundedStaleness, visitorVars
<1>3. CASE Delete
  BY <1>3 DEF Delete, NoOverlap, Unborn, VersionTells, PendingTells, BoundedStaleness, visitorVars
<1>4. CASE Tick
  <2>1. BoundedStaleness'
    BY <1>4, AgeAssumption DEF Tick, TypeOK, BoundedStaleness
  <2> QED
    BY <1>4, <2>1 DEF Tick, NoOverlap, Unborn, VersionTells, PendingTells
<1>5. ASSUME NEW e \in Editor, ReadRow(e) PROVE CacheInv'
  <2>1. PICK b \in Body : session' = [session EXCEPT ![e] = [read |-> row, body |-> b]]
    BY <1>5 DEF ReadRow
  <2>2. session'[e].read = row /\ \A d \in Editor \ {e} : session'[d] = session[d]
    BY <2>1 DEF TypeOK
  <2> QED
    BY <1>5, <2>2 DEF ReadRow, NoOverlap, Unborn, VersionTells, PendingTells, BoundedStaleness, visitorVars
<1>6. ASSUME NEW v \in Visitor, LoadFresh(v) \/ Leave(v) PROVE CacheInv'
  BY <1>6 DEF LoadFresh, Leave, NoOverlap, Unborn, VersionTells, PendingTells, BoundedStaleness
<1>7. CASE UNCHANGED vars
  BY <1>7 DEF vars, NoOverlap, Unborn, VersionTells, PendingTells, BoundedStaleness
<1> QED
  BY <1>2, <1>3, <1>4, <1>5, <1>6, <1>7, LoadKeepsCache, WriteKeepsCache, SubmitKeepsCache,
     StoreKeepsCache DEF Next

\* When PATCHes do not overlap, whatever is confirmed by a 304 is current.
THEOREM NoStale304Alone ==
    ASSUME \A d, e \in Editor : d = e
    PROVE  Spec => []NoStale304
<1>1. CacheInv => NoStale304
  BY DEF CacheInv, VersionTells, NoStale304, NotModified, Served
<1> QED
  BY <1>1, InitCacheInv, CacheInvStep, Invariance, PTL DEF Spec

\* When PATCHes do not overlap, a cached config is out of date at most as long
\* as it is old.
THEOREM BoundedStalenessAlone ==
    ASSUME \A d, e \in Editor : d = e
    PROVE  Spec => []BoundedStaleness
<1>1. CacheInv => BoundedStaleness
  BY DEF CacheInv
<1> QED
  BY <1>1, InitCacheInv, CacheInvStep, Invariance, PTL DEF Spec

\* When PATCHes do not overlap, only an edit during its enrichment lets a lead
\* into a widget it does not fit, however old its form was.
THEOREM LeadFitsVersionAlone ==
    ASSUME \A d, e \in Editor : d = e
    PROVE  Spec => []LeadFitsVersion
<1>1. CacheInv => LeadFitsVersion
  BY DEF CacheInv, PendingTells, LeadFitsVersion
<1> QED
  BY <1>1, InitCacheInv, CacheInvStep, Invariance, PTL DEF Spec
===============================================================================
