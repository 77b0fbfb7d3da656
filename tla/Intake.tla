-------------------------------- MODULE Intake --------------------------------
(***************************************************************************)
(* What a submission goes through in order: the body limit (main.py), the  *)
(* schema (schemas.py), widget and origin (widget_service.py), the         *)
(* limiter, the spam rules (spam.py), the widget's fields                  *)
(* (validate_against_widget) and the chain of geo providers                *)
(* (enrichment/) and the statements that store it; and the form that sends *)
(* it: widget.js, its clock, its disabled button, and a visitor who tries  *)
(* again when the answer is lost or was a 500.                             *)
(* Programs that post to the endpoint themselves send what they like.      *)
(*                                                                         *)
(* Values are told apart by what the checks see: blank, well-formed for    *)
(* its field, ill-formed, longer than max_field_length, nested.  The       *)
(* limiter's verdict is a free choice here, and so are the widget's life,  *)
(* what the database does to a statement, and whether a lead of the same   *)
(* idempotency key is there already: Submission has the reasons.           *)
(***************************************************************************)
EXTENDS Naturals, Sequences

CONSTANTS
    Field,       \* names of the widget's fields
    Required,    \* those marked as required
    Formatted,   \* those of type email, number or url
    Providers,   \* number of geo providers in the chain
    FallbackIp,  \* settings.geo_dev_fallback_ip is set
    MinFill,     \* settings.min_fill_seconds, in ticks
    MaxElapsed,  \* the bound of elapsed_ms, in ticks
    MaxSends,    \* bound on submissions
    None         \* no clock, no request

ASSUME FieldAssumption == Required \subseteq Field /\ Formatted \subseteq Field
ASSUME ClockAssumption == MinFill \in Nat /\ MaxElapsed \in Nat /\ None \notin Nat
ASSUME ChainAssumption == Providers \in Nat /\ FallbackIp \in BOOLEAN
ASSUME BoundAssumption == MaxSends \in Nat

Value == {"missing", "blank", "good", "bad", "long", "nested"}
Typed == {"missing", "good", "bad", "long"}
Gate == {"idle", "body", "schema", "widget", "limiter", "spam", "fields", "find", "enrich",
         "store", "reply"}
Code == {0, 201, 400, 403, 404, 413, 422, 429, 500}
Geo == {"enriched", "unavailable", "skipped"}

\* A submission.  Its other keys: none, one that is no field of the widget,
\* or something else that the schema forbids.
Payload == [form : BOOLEAN,
            length : {"fits", "over", "malformed"},
            other : {"none", "field", "junk"},
            data : [Field -> Value],
            honeypot : {"blank", "filled", "long"},
            elapsed : 0..(MaxElapsed + 1) \cup {None},
            origin : {"none", "listed", "other"}]

ASSUME NoneAssumption == None \notin Payload

VARIABLES
    open,     \* how long the form has been on screen
    typed,    \* what the visitor has put into each field, trimmed
    filling,  \* how often the form was emptied after a success
    listed,   \* the widget has an origin allow-list
    gate,     \* check the request comes to next, "idle" without a request
    request,  \* the submission on its way, or None
    tried,    \* geo providers that have failed it
    geo,      \* what the chain came to
    code,     \* status it was answered with, 0 before the answer
    named,    \* the lead the answer names: none, its own, one stored before
    leads,    \* leads stored
    lost,     \* fillings of which an answer was lost or a 500
    sends

formVars == <<open, typed, filling>>
answerVars == <<code, named>>
vars == <<open, typed, filling, listed, gate, request, tried, geo, code, named, leads, lost, sends>>

Blank == [f \in Field |-> "missing"]

Init ==
    /\ open = 0
    /\ typed = Blank
    /\ filling = 0
    /\ listed \in BOOLEAN
    /\ gate = "idle" /\ request = None
    /\ tried = 0 /\ geo = "skipped"
    /\ code = 0 /\ named = "none"
    /\ leads = <<>> /\ lost = {} /\ sends = 0

-----------------------------------------------------------------------------
Type(f) ==
    /\ gate = "idle"
    /\ \E v \in Typed \ {typed[f]} : typed' = [typed EXCEPT ![f] = v]
    /\ UNCHANGED <<open, filling, listed, gate, request, tried, geo, answerVars, leads, lost, sends>>

Wait ==
    /\ open <= MaxElapsed
    /\ open' = open + 1
    /\ UNCHANGED <<typed, filling, listed, gate, request, tried, geo, answerVars, leads, lost, sends>>

Depart(payload) ==
    /\ sends < MaxSends
    /\ sends' = sends + 1
    /\ request' = payload
    /\ gate' = "body"
    /\ tried' = 0
    /\ code' = 0 /\ named' = "none"
    /\ UNCHANGED <<formVars, listed, geo, leads, lost>>

\* What the submit listener sends: the inputs that are not blank.
FormPayload(length) ==
    [form |-> TRUE, length |-> length, other |-> "none", data |-> typed,
     honeypot |-> "blank", elapsed |-> open, origin |-> "listed"]

\* The submit listener; the button is disabled until the answer is there.  The
\* script limits no input: what is typed may exceed the body limit.
Send ==
    /\ gate = "idle"
    /\ \/ Depart(FormPayload("fits"))
       \/ typed # Blank /\ Depart(FormPayload("over"))

\* A program's first submission.
Forge ==
    /\ gate = "idle" /\ sends = 0
    /\ \E payload \in Payload : ~payload.form /\ Depart(payload)

-----------------------------------------------------------------------------
Pass(next) ==
    /\ gate' = next
    /\ UNCHANGED <<formVars, listed, request, tried, geo, answerVars, leads, lost, sends>>

Answer(c, lead) ==
    /\ code' = c /\ named' = lead
    /\ gate' = "reply"
    /\ UNCHANGED <<formVars, listed, request, tried, geo, lost, sends>>

Refuse(c) == Answer(c, "none") /\ UNCHANGED leads

\* limit_body_size looks at the Content-Length header alone.
Body ==
    /\ gate = "body"
    /\ CASE request.length = "over" -> Refuse(413)
         [] request.length = "malformed" -> Refuse(400)
         [] OTHER -> Pass("schema")

\* SubmissionCreate and its validators.
WellFormed(p) ==
    /\ p.other # "junk"
    /\ p.honeypot # "long"
    /\ p.elapsed = None \/ p.elapsed <= MaxElapsed
    /\ \A f \in Field : p.data[f] \notin {"long", "nested"}

Schema == gate = "schema" /\ IF WellFormed(request) THEN Pass("widget") ELSE Refuse(422)

\* The lookup of the widget, which may be gone, and origin_allowed: an empty
\* allow-list means anywhere.
Identify ==
    /\ gate = "widget"
    /\ \/ Refuse(404)
       \/ IF ~listed \/ request.origin = "listed" THEN Pass("limiter") ELSE Refuse(403)

RateLimit ==
    /\ gate = "limiter"
    /\ \/ Refuse(429)
       \/ Pass("spam")

\* classify: a filled honeypot, or a form filled faster than a human types.
Spam(p) ==
    \/ p.honeypot \in {"filled", "long"}
    \/ p.elapsed # None /\ p.elapsed < MinFill

\* Variant: the fields are checked before the spam rules.
FilterLate ==
    /\ gate = "spam"
    /\ IF request.other = "field" THEN Refuse(422)
       ELSE IF Spam(request) THEN Refuse(201) ELSE Pass("fields")

\* The bot gets the code and the text of a success without a lead's id, and no
\* lead is stored.
Filter == gate = "spam" /\ IF Spam(request) THEN Refuse(201) ELSE Pass("fields")

\* Variant: a format is demanded of blank optional fields too.
FitsFilled(p) ==
    /\ p.other = "none"
    /\ \A f \in Required : p.data[f] \notin {"missing", "blank"}
    /\ \A f \in Formatted : p.data[f] = "good"

\* validate_against_widget, of what the schema has let through.
Fits(p) ==
    /\ p.other = "none"
    /\ \A f \in Required : p.data[f] \notin {"missing", "blank"}
    /\ \A f \in Formatted : p.data[f] # "bad"

Validate == gate = "fields" /\ IF Fits(request) THEN Pass("find") ELSE Refuse(422)

\* A program's Idempotency-Key may lead to an earlier lead; the form sends none.
Find ==
    /\ gate = "find"
    /\ \/ Pass("enrich")
       \/ ~request.form /\ Answer(201, "earlier") /\ UNCHANGED leads

\* The next provider raises, by its timeout at the latest.
ProviderFails ==
    /\ tried < Providers
    /\ tried' = tried + 1
    /\ UNCHANGED <<formVars, listed, gate, request, geo, answerVars, leads, lost, sends>>

Enriched(outcome) ==
    /\ geo' = outcome
    /\ gate' = "store"
    /\ UNCHANGED <<formVars, listed, request, tried, answerVars, leads, lost, sends>>

\* enrich_ip: one provider after the other answers or raises; the address may
\* be a private one, which is skipped when there is no fallback for it.
Enrich ==
    /\ gate = "enrich"
    /\ \/ ~FallbackIp /\ tried = 0 /\ Enriched("skipped")
       \/ tried < Providers /\ Enriched("enriched")
       \/ ProviderFails
       \/ tried = Providers /\ Enriched("unavailable")

\* INSERT, COMMIT and refresh.  A stored lead is answered 500 if its commit was
\* not heard of or the refresh failed; a key may be lost to another request.
Store ==
    /\ gate = "store"
    /\ \/ /\ Answer(201, "new") \/ Answer(500, "none")
          /\ leads' = Append(leads, [form |-> request.form, filling |-> filling, geo |-> geo])
       \/ ~request.form /\ Answer(201, "earlier") /\ UNCHANGED leads

\* A statement fails and stores nothing: the lookup, the spam event, the search
\* by key, the INSERT, whose widget may be gone.
Fail ==
    /\ \/ gate \in {"widget", "store"}
       \/ gate = "spam" /\ Spam(request)
       \/ gate = "find" /\ ~request.form
    /\ Refuse(500)

-----------------------------------------------------------------------------
\* Variant: the script does not empty the form.
ReplyKeepsForm ==
    /\ gate = "reply"
    /\ gate' = "idle" /\ request' = None
    /\ UNCHANGED <<formVars, listed, tried, geo, answerVars, leads, lost, sends>>

\* The answer arrives: on success the script empties the form, whose clock
\* runs on; on an error it leaves it as it is.  A 500 is no JSON, and is shown
\* as a network error.
Reply ==
    /\ gate = "reply"
    /\ gate' = "idle" /\ request' = None
    /\ IF request.form /\ code = 201
       THEN typed' = Blank /\ filling' = filling + 1
       ELSE UNCHANGED <<typed, filling>>
    /\ lost' = IF request.form /\ code = 500 THEN lost \cup {filling} ELSE lost
    /\ UNCHANGED <<open, listed, tried, geo, answerVars, leads, sends>>

\* The network fails: the visitor is told so, the button is enabled again.
Lose ==
    /\ gate = "reply" /\ request.form
    /\ gate' = "idle" /\ request' = None
    /\ lost' = lost \cup {filling}
    /\ UNCHANGED <<formVars, listed, tried, geo, answerVars, leads, sends>>

Check ==
    \/ Body \/ Schema \/ Identify \/ RateLimit \/ Filter \/ Validate
    \/ Find \/ Enrich \/ Store \/ Fail

Next ==
    \/ Wait \/ (\E f \in Field : Type(f)) \/ Send \/ Forge
    \/ Check \/ Reply \/ Lose

Spec == Init /\ [][Next]_vars

-----------------------------------------------------------------------------
TypeOK ==
    /\ open \in 0..(MaxElapsed + 1)
    /\ typed \in [Field -> Typed]
    /\ filling \in Nat
    /\ listed \in BOOLEAN
    /\ gate \in Gate
    /\ request \in Payload \cup {None}
    /\ (request = None) = (gate = "idle")
    /\ tried \in 0..Providers
    /\ geo \in Geo
    /\ code \in Code /\ named \in {"none", "new", "earlier"}
    /\ leads \in Seq([form : BOOLEAN, filling : Nat, geo : Geo])
    /\ lost \subseteq Nat
    /\ sends \in 0..MaxSends

\* "So a bot learns nothing about why it failed": whichever rule caught it and
\* whatever else is wrong with it, past the limiter a caught submission is
\* answered 201 or, if the database fails, 500, each without a lead, and none
\* is stored.
BotLearnsNoReason ==
    [][(gate \in {"spam", "fields", "find", "enrich", "store"} /\ Spam(request))
          => /\ gate' \in {gate, "reply"} /\ leads' = leads
             /\ gate' = "reply" => code' \in {201, 500} /\ named' = "none"]_vars

\* What the visitor himself can be refused for: a page left open for more than
\* a day, a required field left out, an ill-formed or an overlong value.
Amiss(p) ==
    \/ p.elapsed > MaxElapsed
    \/ \E f \in Required : p.data[f] = "missing"
    \/ \E f \in Formatted : p.data[f] = "bad"
    \/ \E f \in Field : p.data[f] = "long"

\* No gate takes what the script sends for an error of the visitor's: he is
\* refused for a reason of his own, for the size of what he typed, for the
\* number of requests, or because widget or database fail; and unless he was
\* faster than the spam rules believe, a success means that his lead is stored.
HonestIsHeard ==
    gate = "reply" /\ request.form =>
        /\ code \notin {400, 403}
        /\ code = 413 => request.length = "over"
        /\ code = 422 => Amiss(request)
        /\ code = 201 /\ request.elapsed >= MinFill =>
              \E i \in 1..Len(leads) : leads[i].form /\ leads[i].filling = filling

\* widget.js sends no Idempotency-Key: one filling of the form can become two
\* leads, but only if an earlier try was answered 500 or its answer was lost.
OneLeadPerFilling ==
    \A i, j \in 1..Len(leads) :
        i # j /\ leads[i].form /\ leads[j].form /\ leads[i].filling = leads[j].filling
            => leads[i].filling \in lost
===============================================================================
