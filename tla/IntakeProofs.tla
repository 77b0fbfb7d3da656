----------------------------- MODULE IntakeProofs -----------------------------
(***************************************************************************)
(* The properties of Intake for every set of fields, every chain of        *)
(* providers, every bound of the clock and any number of submissions.      *)
(*                                                                         *)
(* The argument: between two gates a request keeps what the gates before   *)
(* it have established - no answer yet (Unanswered), no spam past the      *)
(* filter (SpamIsCaught), the form's own constant parts (FormIsPlain) - so *)
(* that each later gate refuses a visitor for a reason of his own only     *)
(* (HonestIsHeard); and a filling of the form that has a lead ends when    *)
(* the answer arrives, or its answer is lost or a 500 (FillingEnds).       *)
(***************************************************************************)
EXTENDS Intake, TLAPS

Checked == {"body", "schema", "widget", "limiter", "spam", "fields", "find", "enrich",
            "store"}

\* Nothing is answered before the reply.
Unanswered == gate \in Checked => code = 0

\* Past the filter nothing is spam.
SpamIsCaught == gate \in {"fields", "find", "enrich", "store"} => ~Spam(request)

\* What widget.js sends: fields that are typed, its clock, nothing else, from
\* a listed origin.
Plain(p) ==
    /\ p.length \in {"fits", "over"} /\ p.other = "none"
    /\ p.honeypot = "blank" /\ p.origin = "listed"
    /\ p.data \in [Field -> Typed]
    /\ p.elapsed \in 0..(MaxElapsed + 1)

FormIsPlain == gate # "idle" /\ request.form => Plain(request)

\* Leads belong to fillings so far; one of the present filling is being
\* answered, or an answer was lost.
FillingEnds ==
    \A i \in 1..Len(leads) :
        leads[i].form =>
            /\ leads[i].filling <= filling
            /\ leads[i].filling = filling =>
                  \/ filling \in lost
                  \/ gate = "reply" /\ request.form /\ code \in {201, 500}

IInv ==
    /\ TypeOK
    /\ Unanswered
    /\ SpamIsCaught
    /\ FormIsPlain
    /\ HonestIsHeard
    /\ FillingEnds
    /\ OneLeadPerFilling

\* The initial states satisfy the inductive invariant.
LEMMA InitIInv == Init => IInv
<1> SUFFICES ASSUME Init PROVE IInv
  OBVIOUS
<1>1. TypeOK
  BY ClockAssumption, ChainAssumption, BoundAssumption
  DEF Init, TypeOK, Blank, Typed, Gate, Code, Geo
<1>2. Unanswered /\ SpamIsCaught /\ FormIsPlain /\ HonestIsHeard
  BY DEF Init, Unanswered, Checked, SpamIsCaught, FormIsPlain, HonestIsHeard
<1>3. FillingEnds /\ OneLeadPerFilling
  BY DEF Init, FillingEnds, OneLeadPerFilling
<1> QED
  BY <1>1, <1>2, <1>3 DEF IInv

\* What the form sends is a submission.
LEMMA FormPayloadType ==
    ASSUME TypeOK, NEW length \in {"fits", "over"}
    PROVE  /\ FormPayload(length) \in Payload
           /\ FormPayload(length).form
           /\ Plain(FormPayload(length))
  BY DEF TypeOK, FormPayload, Payload, Typed, Value, Plain

\* None is no submission.
LEMMA NoneIsNoPayload == TypeOK /\ gate # "idle" => request \in Payload
  BY DEF TypeOK

\* What is known of every lead.
LEMMA LeadsType ==
    TypeOK => /\ Len(leads) \in Nat /\ filling \in Nat
              /\ \A i \in 1..Len(leads) : leads[i].filling \in Nat
<1> DEFINE Lead == [form : BOOLEAN, filling : Nat, geo : Geo]
<1> SUFFICES ASSUME TypeOK PROVE Len(leads) \in Nat /\ filling \in Nat
                                 /\ \A i \in 1..Len(leads) : leads[i].filling \in Nat
  OBVIOUS
<1>1. leads \in Seq(Lead) /\ filling \in Nat
  BY DEF TypeOK
<1>2. \A l \in Lead : l.filling \in Nat
  OBVIOUS
<1> HIDE DEF Lead
<1>3. Len(leads) \in Nat /\ \A i \in 1..Len(leads) : leads[i] \in Lead
  BY <1>1
<1> QED
  BY <1>1, <1>2, <1>3

\* Every step keeps the types.
LEMMA TypeStep == TypeOK /\ [Next]_vars => TypeOK'
<1> SUFFICES ASSUME TypeOK, [Next]_vars PROVE TypeOK'
  OBVIOUS
<1>0. MaxElapsed \in Nat /\ Providers \in Nat /\ MaxSends \in Nat
  BY ClockAssumption, ChainAssumption, BoundAssumption
<1>1. CASE Wait
  BY <1>0, <1>1 DEF Wait, TypeOK, answerVars
<1>2. ASSUME NEW f \in Field, Type(f) PROVE TypeOK'
  BY <1>2 DEF Type, TypeOK, answerVars
<1>3. ASSUME NEW payload \in Payload, Depart(payload) PROVE TypeOK'
  BY <1>0, <1>3, NoneAssumption DEF Depart, TypeOK, formVars, Gate, Code
<1>5. CASE Send \/ Forge
  BY <1>3, <1>5, NoneAssumption, FormPayloadType DEF Send, Forge
<1>6. ASSUME NEW next \in Gate \ {"idle"}, gate # "idle", Pass(next) PROVE TypeOK'
  BY <1>6 DEF Pass, TypeOK, formVars, answerVars
<1>7. ASSUME NEW c \in Code, NEW lead \in {"none", "new", "earlier"}, gate # "idle",
             Answer(c, lead), leads' \in Seq([form : BOOLEAN, filling : Nat, geo : Geo])
      PROVE  TypeOK'
  BY <1>7 DEF Answer, TypeOK, formVars, Gate
<1>7a. ASSUME NEW c \in Code, NEW lead \in {"none", "new", "earlier"}, gate # "idle",
              Answer(c, lead), UNCHANGED leads
       PROVE  TypeOK'
  BY <1>7, <1>7a DEF TypeOK
<1>7b. ASSUME NEW c \in Code, gate # "idle", Refuse(c) PROVE TypeOK'
  BY <1>7a, <1>7b DEF Refuse
<1>8. ASSUME NEW outcome \in Geo, gate # "idle", Enriched(outcome) PROVE TypeOK'
  BY <1>8 DEF Enriched, TypeOK, formVars, Gate, answerVars
<1>a. CASE ProviderFails
  BY <1>0, <1>a DEF ProviderFails, TypeOK, formVars, answerVars
<1>b. CASE Store
  <2>1. request.form \in BOOLEAN
    BY <1>b, NoneIsNoPayload DEF Store, Payload
  <2>2. [form |-> request.form, filling |-> filling, geo |-> geo] \in [form : BOOLEAN, filling : Nat, geo : Geo]
    BY <2>1 DEF TypeOK
  <2>3. Append(leads, [form |-> request.form, filling |-> filling, geo |-> geo])
            \in Seq([form : BOOLEAN, filling : Nat, geo : Geo])
    BY <2>2 DEF TypeOK
  <2>4. CASE /\ Answer(201, "new") \/ Answer(500, "none")
             /\ leads' = Append(leads, [form |-> request.form, filling |-> filling, geo |-> geo])
    BY <1>b, <1>7, <2>3, <2>4 DEF Store, Code
  <2>5. CASE Answer(201, "earlier") /\ UNCHANGED leads
    BY <1>b, <1>7a, <2>5 DEF Store, Code
  <2> QED
    BY <1>b, <2>4, <2>5 DEF Store
<1>9. CASE Check
  <2>1. CASE Body \/ Schema \/ Identify
    BY <1>6, <1>7b, <2>1 DEF Body, Schema, Identify, Gate, Code
  <2>2. CASE RateLimit \/ Filter \/ Validate
    BY <1>6, <1>7b, <2>2 DEF RateLimit, Filter, Validate, Gate, Code
  <2>3. CASE Enrich
    BY <1>8, <1>a, <2>3 DEF Enrich, Geo
  <2>4. CASE Find \/ Fail
    BY <1>6, <1>7a, <1>7b, <2>4 DEF Find, Fail, Gate, Code
  <2> QED
    BY <1>9, <1>b, <2>1, <2>2, <2>3, <2>4 DEF Check
<1>10. CASE Reply
  BY <1>10 DEF Reply, TypeOK, Blank, Typed, Gate, answerVars
<1>11. CASE Lose
  BY <1>11 DEF Lose, TypeOK, formVars, Gate, answerVars
<1>12. CASE UNCHANGED vars
  BY <1>12 DEF vars, TypeOK
<1> QED
  BY <1>1, <1>2, <1>5, <1>9, <1>10, <1>11, <1>12 DEF Next

\* Type correctness of the intake, for every value of the constants.
THEOREM TypeCorrect == Spec => []TypeOK
<1>1. Init => TypeOK
  BY InitIInv DEF IInv
<1> QED
  BY <1>1, TypeStep, PTL DEF Spec

-----------------------------------------------------------------------------
(* One lemma per action: the inductive invariant survives the step. *)

\* Visitor and clock do not touch a request on its way.
LEMMA VisitorKeeps ==
    ASSUME IInv, TypeOK', Wait \/ (\E f \in Field : Type(f)) \/ UNCHANGED vars
    PROVE  IInv'
<1>1. UNCHANGED <<filling, listed, gate, request, tried, geo, code, named, leads, lost, sends>>
  BY DEF Wait, Type, vars, answerVars
<1> QED
  BY <1>1 DEF IInv, Unanswered, SpamIsCaught, Spam, FormIsPlain, Plain, HonestIsHeard, Amiss,
              FillingEnds, OneLeadPerFilling

\* A submission leaves when the filling has no lead, or has lost an answer.
LEMMA DepartKeeps == ASSUME IInv, TypeOK', Send \/ Forge PROVE IInv'
<1>1. PICK payload \in Payload :
        /\ Depart(payload)
        /\ gate = "idle"
        /\ payload.form => Plain(payload)
  <2>1. CASE Send
    BY <2>1, FormPayloadType DEF Send, IInv
  <2>2. CASE Forge
    BY <2>2 DEF Forge
  <2> QED
    BY <2>1, <2>2
<1>2. /\ UNCHANGED <<leads, filling, lost>>
      /\ gate = "idle" /\ gate' = "body" /\ request' = payload /\ code' = 0
  BY <1>1 DEF Depart, formVars
<1>3. Unanswered' /\ SpamIsCaught' /\ FormIsPlain' /\ HonestIsHeard'
  BY <1>1, <1>2 DEF Unanswered, SpamIsCaught, FormIsPlain, Plain, HonestIsHeard
<1>4. \A i \in 1..Len(leads) : leads[i].form =>
        leads[i].filling <= filling /\ (leads[i].filling = filling => filling \in lost)
  BY <1>2 DEF IInv, FillingEnds
<1>5. FillingEnds'
  BY <1>2, <1>4 DEF FillingEnds
<1>6. OneLeadPerFilling'
  BY <1>2 DEF IInv, OneLeadPerFilling
<1> QED
  BY <1>3, <1>5, <1>6 DEF IInv

\* What a gate lets through carries what the gate has checked.
LEMMA PassKeeps ==
    ASSUME IInv, TypeOK', NEW next \in Checked, gate \in Checked, Pass(next),
           next \in {"fields", "find", "enrich", "store"} => ~Spam(request)
    PROVE  IInv'
  BY DEF IInv, TypeOK, Pass, formVars, answerVars, Unanswered, Checked, SpamIsCaught, Spam,
         FormIsPlain, Plain, HonestIsHeard, FillingEnds, OneLeadPerFilling

\* So does what the providers make of it.
LEMMA EnrichedKeeps ==
    ASSUME IInv, TypeOK', NEW outcome \in Geo, gate = "enrich", Enriched(outcome)
    PROVE  IInv'
  BY DEF IInv, TypeOK, Enriched, formVars, answerVars, Unanswered, Checked, SpamIsCaught, Spam,
         FormIsPlain, Plain, HonestIsHeard, FillingEnds, OneLeadPerFilling

\* What a code says to a visitor who is refused with it.
Deserved(c) ==
    request.form =>
        /\ c \notin {400, 403}
        /\ c = 413 => request.length = "over"
        /\ c = 422 => Amiss(request)
        /\ c = 201 => request.elapsed < MinFill

\* An answer that stores nothing.
LEMMA AnswerKeeps ==
    ASSUME IInv, TypeOK', NEW c \in Code, NEW lead, gate \in Checked,
           Answer(c, lead), UNCHANGED leads, Deserved(c)
    PROVE  IInv'
<1>1. /\ UNCHANGED <<leads, filling, lost, request>>
      /\ gate # "reply" /\ gate # "idle" /\ gate' = "reply" /\ code' = c
  BY DEF Answer, formVars, Checked
<1>2. request.form => request.elapsed \in Nat /\ MinFill \in Nat
  BY <1>1, ClockAssumption DEF IInv, FormIsPlain, Plain
<1>3. Unanswered' /\ SpamIsCaught'
  BY <1>1 DEF Unanswered, SpamIsCaught, Checked
<1>4. FormIsPlain'
  BY <1>1 DEF IInv, FormIsPlain, Plain
<1>5. HonestIsHeard'
  BY <1>1, <1>2 DEF Deserved, HonestIsHeard, Amiss
<1>6. \A i \in 1..Len(leads) : leads[i].form =>
        leads[i].filling <= filling /\ (leads[i].filling = filling => filling \in lost)
  BY <1>1 DEF IInv, FillingEnds
<1>7. FillingEnds'
  BY <1>1, <1>6 DEF FillingEnds
<1>8. OneLeadPerFilling'
  BY <1>1 DEF IInv, OneLeadPerFilling
<1> QED
  BY <1>3, <1>4, <1>5, <1>7, <1>8 DEF IInv

\* A refusal is one.
LEMMA RefuseKeeps ==
    ASSUME IInv, TypeOK', NEW c \in Code, gate \in Checked, Refuse(c), Deserved(c)
    PROVE  IInv'
  BY AnswerKeeps DEF Refuse

\* A second lead of one filling needs a lost answer or a 500.
LEMMA AppendKeeps ==
    ASSUME IInv, TypeOK', NEW c \in {201, 500}, NEW l, gate = "store", Answer(c, l),
           leads' = Append(leads, [form |-> request.form, filling |-> filling, geo |-> geo])
    PROVE  IInv'
<1>1. /\ filling' = filling /\ lost' = lost /\ request' = request
      /\ gate' = "reply" /\ code' = c
  BY DEF Answer, formVars
<1>2. /\ Len(leads') = Len(leads) + 1
      /\ \A i \in 1..Len(leads) : leads'[i] = leads[i]
      /\ leads'[Len(leads) + 1] = [form |-> request.form, filling |-> filling, geo |-> geo]
  <2> DEFINE Lead == [form : BOOLEAN, filling : Nat, geo : Geo]
             lead == [form |-> request.form, filling |-> filling, geo |-> geo]
  <2>1. leads \in Seq(Lead) /\ leads' \in Seq(Lead)
    BY DEF IInv, TypeOK
  <2>2. leads' = Append(leads, lead)
    OBVIOUS
  <2>3. request.form \in BOOLEAN /\ filling \in Nat /\ geo \in Geo
    BY NoneIsNoPayload DEF IInv, TypeOK, Payload
  <2>4. lead \in Lead
    BY <2>3
  <2> HIDE DEF Lead, lead
  <2>5. /\ Len(leads') = Len(leads) + 1
        /\ \A i \in 1..Len(leads) : leads'[i] = leads[i]
        /\ leads'[Len(leads) + 1] = lead
    BY <2>1, <2>2, <2>4
  <2> QED
    BY <2>5 DEF lead
<1>3. Len(leads) \in Nat /\ filling \in Nat /\ Len(leads') \in Nat
  BY <1>2, LeadsType DEF IInv
<1>4. ASSUME NEW i \in 1..Len(leads), leads[i].form, leads[i].filling = filling
      PROVE  filling \in lost
  BY <1>4 DEF IInv, FillingEnds
<1>5. \A i \in 1..Len(leads') : i \in 1..Len(leads) \/ i = Len(leads) + 1
  BY <1>2, <1>3
<1>6. leads'[Len(leads) + 1].filling = filling /\ leads'[Len(leads) + 1].form = request.form
  BY <1>2
<1>7. Unanswered' /\ SpamIsCaught'
  BY <1>1 DEF Unanswered, SpamIsCaught, Checked
<1>8. FormIsPlain'
  BY <1>1 DEF IInv, FormIsPlain, Plain
<1>9. HonestIsHeard'
  <2>1. Len(leads) + 1 \in 1..Len(leads')
    BY <1>2, <1>3
  <2> QED
    BY <1>1, <1>6, <2>1 DEF HonestIsHeard
<1>10. FillingEnds'
  <2> SUFFICES ASSUME NEW i \in 1..Len(leads'), leads'[i].form
               PROVE  /\ leads'[i].filling <= filling
                      /\ leads'[i].filling = filling => filling \in lost \/ request.form
    BY <1>1 DEF FillingEnds
  <2>1. CASE i \in 1..Len(leads)
    BY <1>2, <1>4, <2>1 DEF IInv, FillingEnds
  <2>2. CASE i = Len(leads) + 1
    BY <1>3, <1>6, <2>2
  <2> QED
    BY <1>5, <2>1, <2>2
<1>11. OneLeadPerFilling'
  <2> SUFFICES ASSUME NEW i \in 1..Len(leads'), NEW j \in 1..Len(leads'), i # j,
                      leads'[i].form, leads'[j].form, leads'[i].filling = leads'[j].filling
               PROVE  leads'[i].filling \in lost
    BY <1>1 DEF OneLeadPerFilling
  <2>1. CASE i \in 1..Len(leads) /\ j \in 1..Len(leads)
    BY <1>2, <2>1 DEF IInv, OneLeadPerFilling
  <2>2. CASE i = Len(leads) + 1 \/ j = Len(leads) + 1
    BY <1>2, <1>4, <1>5, <1>6, <2>2
  <2> QED
    BY <1>5, <2>1, <2>2
<1> QED
  BY <1>7, <1>8, <1>9, <1>10, <1>11 DEF IInv

\* The statements that store a lead store one, or find one of the same key.
LEMMA StoreKeeps == ASSUME IInv, TypeOK', Store PROVE IInv'
<1>1. CASE ~request.form /\ Answer(201, "earlier") /\ UNCHANGED leads
  BY <1>1, AnswerKeeps DEF Store, Checked, Code, Deserved
<1> QED
  BY <1>1, AppendKeeps DEF Store

\* A provider that fails leaves the request where it is.
LEMMA ProviderFailsKeeps == ASSUME IInv, TypeOK', ProviderFails PROVE IInv'
  BY DEF IInv, ProviderFails, formVars, answerVars, Unanswered, SpamIsCaught, Spam, FormIsPlain,
         Plain, HonestIsHeard, Amiss, FillingEnds, OneLeadPerFilling

\* Every gate lets the form through, or refuses it for a reason of the visitor's.
LEMMA CheckKeeps == ASSUME IInv, TypeOK', Check PROVE IInv'
<1> USE DEF IInv
<1>0. gate # "idle" => request \in Payload
  BY NoneIsNoPayload
<1>1. CASE Body
  BY <1>1, PassKeeps, RefuseKeeps DEF Body, Checked, Code, FormIsPlain, Plain, Deserved
<1>2. CASE Schema
  <2>1. request.form => WellFormed(request) \/ Amiss(request)
    BY <1>0, <1>2, ClockAssumption DEF Schema, Amiss, WellFormed, FormIsPlain, Plain, Typed
  <2> QED
    BY <1>2, <2>1, PassKeeps, RefuseKeeps DEF Schema, Checked, Code, Deserved
<1>3. CASE Identify
  BY <1>3, PassKeeps, RefuseKeeps DEF Identify, Checked, Code, FormIsPlain, Plain, Deserved
<1>4. CASE RateLimit
  BY <1>4, PassKeeps, RefuseKeeps DEF RateLimit, Checked, Code, Deserved
<1>5. CASE Filter
  <2>1. request.form /\ Spam(request) => request.elapsed < MinFill
    BY <1>5 DEF Filter, Spam, FormIsPlain, Plain
  <2> QED
    BY <1>5, <2>1, PassKeeps, RefuseKeeps DEF Filter, Checked, Code, Deserved
<1>6. CASE Validate
  <2>1. request.form => Fits(request) \/ Amiss(request)
    BY <1>6, FieldAssumption DEF Validate, Amiss, Fits, FormIsPlain, Plain, Typed
  <2> QED
    BY <1>6, <2>1, PassKeeps, RefuseKeeps DEF Validate, Checked, Code, SpamIsCaught, Deserved
<1>7. CASE Find
  <2>1. CASE Pass("enrich")
    BY <1>7, <2>1, PassKeeps DEF Find, Checked, SpamIsCaught
  <2>2. CASE ~request.form /\ Answer(201, "earlier") /\ UNCHANGED leads
    BY <1>7, <2>2, AnswerKeeps DEF Find, Checked, Code, Deserved
  <2> QED
    BY <1>7, <2>1, <2>2 DEF Find
<1>8. CASE Enrich
  BY <1>8, EnrichedKeeps, ProviderFailsKeeps DEF Enrich, Geo
<1>9. CASE Fail
  BY <1>9, RefuseKeeps DEF Fail, Checked, Code, Deserved
<1> QED
  BY <1>1, <1>2, <1>3, <1>4, <1>5, <1>6, <1>7, <1>8, <1>9, StoreKeeps DEF Check

\* A success ends the filling.
LEMMA ReplyKeeps == ASSUME IInv, TypeOK', Reply PROVE IInv'
<1> USE DEF IInv, Reply
<1>1. Unanswered' /\ SpamIsCaught' /\ FormIsPlain' /\ HonestIsHeard'
  BY DEF Unanswered, Checked, SpamIsCaught, FormIsPlain, HonestIsHeard
<1>2. filling \in Nat /\ \A i \in 1..Len(leads) : leads[i].filling \in Nat
  BY LeadsType
<1>3. FillingEnds'
  <2>1. CASE request.form /\ code = 201
    BY <1>2, <2>1 DEF FillingEnds
  <2>2. CASE ~(request.form /\ code = 201)
    BY <2>2 DEF FillingEnds
  <2> QED
    BY <2>1, <2>2
<1>4. OneLeadPerFilling'
  BY DEF OneLeadPerFilling
<1> QED
  BY <1>1, <1>3, <1>4

\* A lost answer is remembered with its filling.
LEMMA LoseKeeps == ASSUME IInv, TypeOK', Lose PROVE IInv'
<1> USE DEF IInv, Lose, formVars
<1>1. Unanswered' /\ SpamIsCaught' /\ FormIsPlain' /\ HonestIsHeard'
  BY DEF Unanswered, Checked, SpamIsCaught, FormIsPlain, HonestIsHeard
<1>2. UNCHANGED <<leads, filling>> /\ lost' = lost \cup {filling}
  OBVIOUS
<1>3. FillingEnds'
  BY <1>2 DEF FillingEnds
<1>4. OneLeadPerFilling'
  BY <1>2 DEF OneLeadPerFilling
<1> QED
  BY <1>1, <1>3, <1>4

\* The inductive invariant is inductive.
LEMMA IInvStep == IInv /\ [Next]_vars => IInv'
<1> SUFFICES ASSUME IInv, [Next]_vars PROVE IInv'
  OBVIOUS
<1>1. TypeOK'
  BY TypeStep DEF IInv
<1> QED
  BY <1>1, VisitorKeeps, DepartKeeps, CheckKeeps, ReplyKeeps, LoseKeeps DEF Next

\* The invariant the properties follow from.
THEOREM Invariance == Spec => []IInv
  BY InitIInv, IInvStep, PTL DEF Spec

-----------------------------------------------------------------------------
\* A visitor is refused for a reason of his own, for the size of what he typed,
\* for the number of requests, or because widget or database fail; a success
\* means a lead, unless he was taken for a bot.
THEOREM HonestIsHeardAlways == Spec => []HonestIsHeard
<1>1. IInv => HonestIsHeard
  BY DEF IInv
<1> QED
  BY <1>1, Invariance, PTL

\* One filling of the form makes two leads only after a lost answer or a 500.
THEOREM OneLeadPerFillingAlways == Spec => []OneLeadPerFilling
<1>1. IInv => OneLeadPerFilling
  BY DEF IInv
<1> QED
  BY <1>1, Invariance, PTL

\* Whichever rule caught it, a caught submission gets the filter's answer or
\* that of a failed statement; past the filter there is none.
LEMMA BotStep ==
    ASSUME IInv, [Next]_vars, Spam(request),
           gate \in {"spam", "fields", "find", "enrich", "store"}
    PROVE  /\ gate' \in {gate, "reply"} /\ leads' = leads
           /\ gate' = "reply" => code' \in {201, 500} /\ named' = "none"
<1>1. gate = "spam"
  BY DEF IInv, SpamIsCaught
<1>2. UNCHANGED <<gate, leads>> \/ Filter \/ Fail
  BY <1>1 DEF Next, Wait, Type, Send, Forge, Check, Body, Schema, Identify, RateLimit, Validate,
              Find, Enrich, Store, Reply, Lose, vars
<1> QED
  BY <1>1, <1>2 DEF Filter, Fail, Refuse, Answer

\* A bot learns nothing about why it failed.
THEOREM BotLearnsNoReasonAlways == Spec => BotLearnsNoReason
<1>1. IInv /\ [Next]_vars =>
        [(gate \in {"spam", "fields", "find", "enrich", "store"} /\ Spam(request))
            => /\ gate' \in {gate, "reply"} /\ leads' = leads
               /\ gate' = "reply" => code' \in {201, 500} /\ named' = "none"]_vars
  BY BotStep
<1> QED
  BY <1>1, Invariance, PTL DEF Spec, BotLearnsNoReason
===============================================================================
