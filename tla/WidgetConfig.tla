----------------------------- MODULE WidgetConfig -----------------------------
(***************************************************************************)
(* A widget's configuration on its way from the tenant's editor to the     *)
(* form in a visitor's browser and back as a submission                    *)
(* (app/services/widget_service.py, app/routers/public.py,                 *)
(* app/static/widget.js, validate_against_widget of submission_service.py).*)
(*                                                                         *)
(* PATCH reads the row, then writes the columns it changed together with   *)
(* the version it read plus one; handlers run on threads, so two PATCHes   *)
(* may overlap.  The public config is cached by browsers for MaxAge ticks  *)
(* and then revalidated by an ETag that holds nothing but the version.     *)
(*                                                                         *)
(* Of the configuration the module keeps the fields, which decide what is  *)
(* a valid submission, and the active flag.  A field is a record of its    *)
(* name and whether it is required.                                        *)
(*                                                                         *)
(* A submission is judged by the row as it is when it comes, then awaits   *)
(* enrich_ip, and is stored as the row may have become.  Limiter and spam  *)
(* rules, which do not look at the fields, are left to Intake, and what    *)
(* the database may do to the insert to Submission.                        *)
(***************************************************************************)
EXTENDS Integers, Sequences, FiniteSets

CONSTANTS
    Editor,      \* PATCH requests in flight at the same time
    Visitor,     \* browsers, each with its HTTP cache
    Form,        \* field lists a tenant may send: non-empty sequences of fields
    Null,        \* JSON null in place of a field list
    Unset,       \* a key the PATCH body leaves out
    None,        \* no widget, nothing cached, nothing rendered
    MaxAge,      \* settings.config_cache_max_age, in ticks
    MaxVersion   \* bound on config_version

ASSUME AgeAssumption == MaxAge \in Nat \ {0} /\ MaxVersion \in Nat \ {0}
ASSUME FormAssumption == \A form \in Form : Len(form) \in Nat /\ DOMAIN form = 1..Len(form)
ASSUME UnsetAssumption == Unset \notin Nat

VARIABLES
    row,      \* the committed widget, None before its creation and after DELETE
    spent,    \* the widget has been deleted
    session,  \* per PATCH: the row it read and the changes it will write
    cache,    \* per browser: the cached config
    age,      \* ticks since it was answered or revalidated
    late,     \* ticks since it stopped being the widget's config
    page,     \* the form a browser shows
    config,   \* status of its last request for the config, 0 if it made none
    pending,  \* its submission that was accepted and awaits enrich_ip, or None
    verdict   \* how its last submission was answered

vars == <<row, spent, session, cache, age, late, page, config, pending, verdict>>
visitorVars == <<cache, age, late, page, config, pending, verdict>>

Row == [fields : Form \cup {Null}, active : BOOLEAN, version : 1..MaxVersion]

ASSUME NoneAssumption == None \notin Row

Names(form) == {form[i].name : i \in DOMAIN form}
Unique(form) == Cardinality(Names(form)) = Len(form)

\* The last field of that name.
LastOf(form, name) ==
    CHOOSE i \in DOMAIN form :
        form[i].name = name /\ \A j \in DOMAIN form : form[j].name = name => j <= i

Served == row # None /\ row.active

\* A PATCH body: WidgetUpdate takes any field list, and null for one.
Body == [fields : Form \cup {Null, Unset}, active : BOOLEAN \cup {Unset}]

Init ==
    /\ row = None
    /\ spent = FALSE
    /\ session = [e \in Editor |-> None]
    /\ cache = [v \in Visitor |-> None]
    /\ age = [v \in Visitor |-> 0]
    /\ late = [v \in Visitor |-> 0]
    /\ page = [v \in Visitor |-> None]
    /\ config = [v \in Visitor |-> 0]
    /\ pending = [v \in Visitor |-> None]
    /\ verdict = [v \in Visitor |-> None]

-----------------------------------------------------------------------------
\* POST /api/widgets: WidgetCreate insists on unique field names.
Create ==
    /\ row = None /\ ~spent
    /\ \E form \in Form, on \in BOOLEAN :
          /\ Unique(form)
          /\ row' = [fields |-> form, active |-> on, version |-> 1]
    /\ UNCHANGED <<spent, session, visitorVars>>

\* PATCH, first statement: read the row.
ReadRow(e) ==
    /\ session[e] = None
    /\ row # None
    /\ \E b \in Body : session' = [session EXCEPT ![e] = [read |-> row, body |-> b]]
    /\ UNCHANGED <<row, spent, visitorVars>>

\* Variant: only a change of the active flag makes a new version.
NextVersionOfFlag(s) == IF s.body.active # Unset THEN s.read.version + 1 ELSE s.read.version

\* Any key in the body counts as a change, one that alters nothing too.
NextVersion(s) ==
    IF s.body.fields # Unset \/ s.body.active # Unset THEN s.read.version + 1 ELSE s.read.version

\* The UPDATE writes a column whose new value differs from the one read.
Written(now, read, new) == IF new \in {Unset, read} THEN now ELSE new

\* PATCH, second statement: UPDATE and COMMIT.  The version was computed from
\* the row read; a column that ends as it was read is left to the others.  A
\* row deleted meanwhile is a StaleDataError.
WriteRow(e) ==
    /\ session[e] # None
    /\ LET s == session[e]
       IN  /\ NextVersion(s) <= MaxVersion
           /\ IF row = None THEN UNCHANGED row
              ELSE row' = [fields  |-> Written(row.fields, s.read.fields, s.body.fields),
                           active  |-> Written(row.active, s.read.active, s.body.active),
                           version |-> Written(row.version, s.read.version, NextVersion(s))]
    /\ session' = [session EXCEPT ![e] = None]
    /\ UNCHANGED <<spent, visitorVars>>

Delete ==
    /\ row # None
    /\ row' = None
    /\ spent' = TRUE
    /\ UNCHANGED <<session, visitorVars>>

-----------------------------------------------------------------------------
\* The page renders what is cached, without asking, while it is fresh.
LoadFresh(v) ==
    /\ page[v] = None
    /\ cache[v] # None /\ age[v] < MaxAge
    /\ page' = [page EXCEPT ![v] = cache[v].fields]
    /\ UNCHANGED <<row, spent, session, cache, age, late, config, pending, verdict>>

\* Variant: any If-None-Match will do.
NotModifiedByAny(v) == cache[v] # None /\ Served

\* The ETag the browser sends along with its request is that of the row.
NotModified(v) == cache[v] # None /\ Served /\ cache[v].version = row.version

\* public_config iterates over the field list: null is a TypeError.
Iterable(fields) == fields # Null

\* widget_config answers a page that has nothing fresh: 404 for a widget that
\* is not there or not active, 304, or the config in full.
Load(v) ==
    /\ page[v] = None
    /\ cache[v] = None \/ age[v] = MaxAge
    /\ \/ /\ ~Served
          /\ config' = [config EXCEPT ![v] = 404]
          /\ UNCHANGED <<cache, age, late, page>>
       \/ /\ NotModified(v)
          /\ config' = [config EXCEPT ![v] = 304]
          /\ age' = [age EXCEPT ![v] = 0]
          /\ late' = [late EXCEPT ![v] = IF cache[v].fields = row.fields THEN 0 ELSE @]
          /\ page' = [page EXCEPT ![v] = cache[v].fields]
          /\ UNCHANGED cache
       \/ /\ Served /\ ~NotModified(v) /\ ~Iterable(row.fields)
          /\ config' = [config EXCEPT ![v] = 500]
          /\ UNCHANGED <<cache, age, late, page>>
       \/ /\ Served /\ ~NotModified(v) /\ Iterable(row.fields)
          /\ config' = [config EXCEPT ![v] = 200]
          /\ cache' = [cache EXCEPT ![v] = [version |-> row.version, fields |-> row.fields]]
          /\ age' = [age EXCEPT ![v] = 0]
          /\ late' = [late EXCEPT ![v] = 0]
          /\ page' = [page EXCEPT ![v] = row.fields]
    /\ UNCHANGED <<row, spent, session, pending, verdict>>

\* What widget.js posts when the visitor has filled the inputs at `filled':
\* inputs are kept by name, so of two with one name the last one speaks.
Collected(form, filled) == {n \in Names(form) : LastOf(form, n) \in filled}

\* `widget.fields or []'
Declared(fields) == IF fields = Null THEN <<>> ELSE fields

\* Variant: of two fields with one name the first is the declared one.
RefusedByFirst(fields, data) ==
    LET first(n) == CHOOSE i \in DOMAIN fields :
                      fields[i].name = n /\ \A j \in DOMAIN fields : fields[j].name = n => i <= j
    IN  \/ data \ Names(fields) # {}
        \/ \E n \in Names(fields) \ data : fields[first(n)].required

\* validate_against_widget: an unknown field or a required one missing.
Refused(fields, data) ==
    \/ data \ Names(fields) # {}
    \/ \E n \in Names(fields) \ data : fields[LastOf(fields, n)].required

\* Variant: the fields come along with the form and are believed.
JudgedByForm(v) == page[v]

\* The field list a submission is judged by: that of the row, read once.
Judged(v) == Declared(row.fields)

Answered(v, code, form, judged) ==
    verdict' = [verdict EXCEPT ![v] = [code |-> code, form |-> form, judged |-> judged]]

\* A careful visitor fills every input marked as required, and perhaps
\* others, and submits.  What fits goes on to enrich_ip.
Submit(v) ==
    /\ page[v] # None /\ pending[v] = None
    /\ \E filled \in SUBSET DOMAIN page[v] :
          LET data == Collected(page[v], filled)
          IN  /\ \A i \in DOMAIN page[v] : page[v][i].required => i \in filled
              /\ \/ /\ ~Served
                    /\ Answered(v, 404, page[v], <<>>)
                    /\ UNCHANGED pending
                 \/ /\ Served /\ Refused(Judged(v), data)
                    /\ Answered(v, 422, page[v], Judged(v))
                    /\ UNCHANGED pending
                 \/ /\ Served /\ ~Refused(Judged(v), data)
                    /\ pending' = [pending EXCEPT ![v] =
                          [form |-> page[v], judged |-> Judged(v), data |-> data,
                           version |-> row.version]]
                    /\ UNCHANGED verdict
    /\ page' = [page EXCEPT ![v] = None]
    /\ UNCHANGED <<row, spent, session, cache, age, late, config>>

\* Back from enrich_ip: the row is not read again, only its absence is noticed,
\* by the foreign key.  The statements may fail as well.
Store(v) ==
    /\ pending[v] # None
    /\ \E code \in IF row = None THEN {500} ELSE {201, 500} :
          Answered(v, code, pending[v].form, pending[v].judged)
    /\ pending' = [pending EXCEPT ![v] = None]
    /\ UNCHANGED <<row, spent, session, cache, age, late, page, config>>

\* The visitor leaves the page.
Leave(v) ==
    /\ page[v] # None
    /\ page' = [page EXCEPT ![v] = None]
    /\ UNCHANGED <<row, spent, session, cache, age, late, config, pending, verdict>>

Current(v) == Served /\ row.fields = cache[v].fields

Tick ==
    /\ age' = [v \in Visitor |-> IF cache[v] # None /\ age[v] < MaxAge THEN age[v] + 1 ELSE age[v]]
    /\ late' = [v \in Visitor |->
                  IF cache[v] = None \/ Current(v) THEN 0
                  ELSE IF late[v] <= MaxAge THEN late[v] + 1 ELSE late[v]]
    /\ UNCHANGED <<row, spent, session, cache, page, config, pending, verdict>>

Next ==
    \/ Create \/ Delete \/ Tick
    \/ \E e \in Editor : ReadRow(e) \/ WriteRow(e)
    \/ \E v \in Visitor : LoadFresh(v) \/ Load(v) \/ Submit(v) \/ Store(v) \/ Leave(v)

Spec == Init /\ [][Next]_vars

-----------------------------------------------------------------------------
\* What is cached and rendered is always a field list: a null one never
\* leaves the server.
TypeOK ==
    /\ row \in Row \cup {None}
    /\ spent \in BOOLEAN
    /\ session \in [Editor -> {None} \cup [read : Row, body : Body]]
    /\ cache \in [Visitor -> {None} \cup [version : 1..MaxVersion, fields : Form]]
    /\ age \in [Visitor -> 0..MaxAge]
    /\ late \in [Visitor -> 0..(MaxAge + 1)]
    /\ page \in [Visitor -> Form \cup {None}]
    /\ config \in [Visitor -> {0, 200, 304, 404, 500}]
    /\ DOMAIN pending = Visitor /\ DOMAIN verdict = Visitor
    /\ \A v \in Visitor :
          /\ pending[v] # None =>
                /\ pending[v].form \in Form /\ pending[v].judged \in Form \cup {<<>>}
                /\ pending[v].data \subseteq Names(pending[v].form)
                /\ pending[v].version \in 1..MaxVersion
          /\ verdict[v] # None =>
                /\ verdict[v].code \in {201, 404, 422, 500}
                /\ verdict[v].form \in Form /\ verdict[v].judged \in Form \cup {<<>>}

\* "New version => new config ETag => caches refetch instead of serving
\* stale": whatever the server would confirm with a 304 is the config it has.
\* It takes PATCHes one at a time.
NoStale304 ==
    \A v \in Visitor : NotModified(v) => cache[v].fields = row.fields

\* A page rendered from the cache shows fields that were the widget's at most
\* as long ago as the answer is old, so less than MaxAge: over any number of
\* revalidations, edits back and forth, deactivation and deletion.
BoundedStaleness ==
    \A v \in Visitor : cache[v] # None /\ age[v] < MaxAge => late[v] <= age[v]

\* A visitor who fills the form as it is shown is refused only because the
\* form is no longer the widget's: script and server read a field list alike,
\* one with a repeated name too.
RefusedOnlyIfChanged ==
    \A v \in Visitor :
        verdict[v] # None /\ verdict[v].code = 422 => verdict[v].form # verdict[v].judged

\* validate_against_widget: the dashboard "never fills up with fields they did
\* not configure".  That can be promised only up to an edit that overtakes a
\* submission on its way through enrich_ip: however old its form, an accepted
\* lead fits the widget as long as the widget has the version it was judged by.
\* Like NoStale304 it takes PATCHes one at a time.
LeadFitsVersion ==
    \A v \in Visitor :
        pending[v] # None /\ row # None /\ pending[v].version = row.version =>
            ~Refused(Declared(row.fields), pending[v].data)
===============================================================================
