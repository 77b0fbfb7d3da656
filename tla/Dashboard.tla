------------------------------- MODULE Dashboard -------------------------------
(***************************************************************************)
(* What an owner sees of widgets, leads and spam                           *)
(* (app/routers/dashboard.py, app/services/dashboard_service.py).          *)
(*                                                                         *)
(* Every number of an answer comes from a statement of its own, and at     *)
(* READ COMMITTED each statement sees what visitors and owners have        *)
(* committed by then, so that numbers of one answer may disagree; the      *)
(* module says when they must not.  A page of leads is an answer of its    *)
(* own; an owner who wants all leads asks for page after page until one is *)
(* not full.                                                               *)
(*                                                                         *)
(* A lead is named by its place in the order of created_at, the oldest is  *)
(* 1 and no two are equal.  created_at is set before the commit, so a lead *)
(* may come to light behind newer ones.  `days' of widget_stats is its     *)
(* default, a month.                                                       *)
(***************************************************************************)
EXTENDS Naturals, Sequences, FiniteSets

CONSTANTS
    Tenant,
    Widget,
    Owner,   \* tenant each widget belongs to
    Newest,  \* bound on leads: 1 to Newest may come in
    Page,    \* limit of a page
    None,    \* no widget, no tenant
    Commits  \* bound on commits and on the passing of time

ASSUME OwnerAssumption == Owner \in [Widget -> Tenant] /\ None \notin Widget \cup Tenant
ASSUME WidgetAssumption == IsFiniteSet(Widget)
ASSUME PageAssumption == Page \in Nat \ {0} /\ Newest \in Nat /\ Commits \in Nat

VARIABLES
    state,     \* of each widget
    leads,     \* rows of submissions
    spam,      \* rows of spam_events
    day,       \* leads up to this one are more than a day old
    week,      \* more than a week
    month,     \* more than a month
    query,     \* what is asked, by whom, about which widget
    step,      \* the statement that comes next; 0: nothing is asked
    got,       \* numbers the statements gave
    since,     \* `day' when the request began
    offset,    \* where the page begins
    shown,     \* leads the walk has shown, page by page
    standing,  \* leads stored when the walk began
    disturbed, \* kinds of commits since the request or the walk began
    commits

dbVars == <<state, leads, spam>>
clockVars == <<day, week, month>>
walkVars == <<offset, shown, standing>>
vars == <<dbVars, clockVars, query, step, got, since, walkVars, disturbed, commits>>

Lead == 1..Newest
Row == [id : Lead, widget : Widget, tenant : Tenant, enriched : BOOLEAN]
SpamRow == [id : Nat, widget : Widget, tenant : Tenant]
State == {"absent", "active", "inactive", "deleted"}
Query == [op : {"summary", "stats", "list"}, tenant : Tenant, widget : Widget \cup {None}]

NoQuery == [op |-> "none", tenant |-> None, widget |-> None]

There(w) == state[w] \in {"active", "inactive"}

\* get_widget_for_tenant finds the widget.
Finds(q, w) == There(w) /\ Owner[w] = q.tenant

\* Variant: the tenant is left out of the filter.
MineOfAnyone(q, l) == q.widget \in {None, l.widget}

\* The leads a statement is about.
Mine(q, l) == l.tenant = q.tenant /\ q.widget \in {None, l.widget}

LeadsOf(q) == {l \in leads : Mine(q, l)}
IdsOf(q) == {l.id : l \in LeadsOf(q)}

\* summary filters spam by tenant, widget_stats by widget.
SpamOf(q) == {s \in spam : IF q.widget = None THEN s.tenant = q.tenant ELSE s.widget = q.widget}

\* Variant: an inner join of widgets and submissions.
RowsJoined(q) == {w \in Widget : Finds(q, w) /\ \E l \in leads : l.widget = w}

\* Rows of summary's per_widget: widgets, outer-joined with submissions.
Rows(q) == {w \in Widget : Finds(q, w)}

\* ORDER BY created_at DESC: 1 is the newest.
Place(id, ids) == Cardinality({other \in ids : other >= id})

\* Variant: LIMIT and OFFSET are applied before the filter.
PageCutFirst(q, from) ==
    {id \in IdsOf(q) : Place(id, {l.id : l \in leads}) \in (from + 1)..(from + Page)}

\* LIMIT Page OFFSET from
PageAt(q, from) ==
    LET ids == IdsOf(q)
    IN  {id \in ids : Place(id, ids) \in (from + 1)..(from + Page)}

\* What the statements count, summed over their groups.
Numbers(q) ==
    [widgets    |-> Cardinality({w \in Widget : Finds(q, w)}),
     active     |-> Cardinality({w \in Widget : Finds(q, w) /\ state[w] = "active"}),
     total      |-> Cardinality(LeadsOf(q)),
     enriched   |-> Cardinality({l \in LeadsOf(q) : l.enriched}),
     spam       |-> Cardinality(SpamOf(q)),
     rows       |-> Cardinality(Rows(q)),
     rowsActive |-> Cardinality({w \in Rows(q) : state[w] = "active"}),
     perWidget  |-> Cardinality({l \in leads : l.widget \in Rows(q)}),
     last24h    |-> Cardinality({l \in LeadsOf(q) : l.id > day}),
     last7d     |-> Cardinality({l \in LeadsOf(q) : l.id > week}),
     byDay      |-> Cardinality({l \in LeadsOf(q) : l.id > month}),
     byCountry  |-> Cardinality(LeadsOf(q))]

Names == {"widgets", "active", "total", "enriched", "spam", "rows", "rowsActive",
          "perWidget", "last24h", "last7d", "byDay", "byCountry"}

\* The numbers each answer needs, and the statement that gives each.
Turn ==
    [summary |-> [widgets |-> 1, active |-> 2, total |-> 3, enriched |-> 4, spam |-> 5,
                  rows |-> 6, rowsActive |-> 6, perWidget |-> 6, last24h |-> 7, last7d |-> 8],
     stats   |-> [byDay |-> 1, byCountry |-> 2, total |-> 3, last7d |-> 4, spam |-> 5],
     list    |-> [total |-> 1]]
Counts == [summary |-> 8, stats |-> 5, list |-> 1]

Init ==
    /\ state \in [Widget -> {"absent", "active"}]
    /\ leads = {} /\ spam = {}
    /\ day = 0 /\ week = 0 /\ month = 0
    /\ query = NoQuery
    /\ step = 0 /\ since = 0
    /\ got = [n \in Names |-> 0]
    /\ offset = 0 /\ shown = <<>> /\ standing = {}
    /\ disturbed = {} /\ commits = 0

-----------------------------------------------------------------------------
\* An owner asks for the summary, for the statistics of a widget or for the
\* first page of leads, of one widget or of all.  A widget that is not the
\* owner's is not found, and nothing more is asked.
Ask(q) ==
    /\ step = 0
    /\ q.op = "summary" => q.widget = None
    /\ q.op = "stats" => q.widget # None
    /\ q.widget # None => Finds(q, q.widget)
    /\ query' = q
    /\ step' = 1 /\ since' = day
    /\ got' = [n \in Names |-> 0]
    /\ offset' = 0 /\ shown' = <<>>
    /\ standing' = IF q.op = "list" THEN IdsOf(q) ELSE {}
    /\ disturbed' = {}
    /\ UNCHANGED <<dbVars, clockVars, commits>>

\* The next statement that counts.
Read ==
    /\ step # 0
    /\ step <= Counts[query.op]
    /\ LET turn == Turn[query.op]
           now == Numbers(query)
       IN  got' = [n \in Names |-> IF n \in DOMAIN turn /\ turn[n] = step
                                   THEN now[n] ELSE got[n]]
    /\ step' = step + 1
    /\ UNCHANGED <<dbVars, clockVars, query, since, walkVars, disturbed, commits>>

\* list_submissions' second statement, the page itself.
ReadPage ==
    /\ query.op = "list" /\ step = 2
    /\ shown' = Append(shown, PageAt(query, offset))
    /\ step' = 3
    /\ UNCHANGED <<dbVars, clockVars, query, got, since, offset, standing, disturbed, commits>>

Full(page) == Cardinality(page) = Page
LastPage == shown[Len(shown)]

\* After a full page the owner asks for the next one: another request, whose
\* widget may not be found any more.
NextPage ==
    /\ query.op = "list" /\ step = 3
    /\ Full(LastPage)
    /\ query.widget # None => Finds(query, query.widget)
    /\ step' = 1 /\ since' = day
    /\ offset' = offset + Page
    /\ UNCHANGED <<dbVars, clockVars, query, got, shown, standing, disturbed, commits>>

\* The answer, or the last page, has arrived.
Complete ==
    /\ step # 0
    /\ query.op # "list" => step = Counts[query.op] + 1
    /\ query.op = "list" => step = 3 /\ ~Full(LastPage)

NotFound == query.widget # None /\ ~Finds(query, query.widget)

Finish ==
    /\ Complete \/ (query.op = "list" /\ step = 3 /\ NotFound)
    /\ query' = NoQuery /\ step' = 0 /\ since' = 0
    /\ got' = [n \in Names |-> 0]
    /\ offset' = 0 /\ shown' = <<>> /\ standing' = {}
    /\ disturbed' = {}
    /\ UNCHANGED <<dbVars, clockVars, commits>>

-----------------------------------------------------------------------------
\* What happens in the meantime.
Meanwhile(kinds) ==
    /\ commits < Commits
    /\ commits' = commits + 1
    /\ disturbed' = IF step = 0 THEN {} ELSE disturbed \cup kinds
    /\ UNCHANGED <<query, step, got, since, walkVars>>

\* A lead of a widget that is there, created less than a day ago; the tenant
\* is copied from the widget.
StoreLead(w, id) ==
    /\ There(w)
    /\ id > day
    /\ \A l \in leads : l.id # id
    /\ \E enriched \in BOOLEAN :
          leads' = leads \cup {[id |-> id, widget |-> w, tenant |-> Owner[w], enriched |-> enriched]}
    /\ UNCHANGED <<state, spam, clockVars>>
    /\ Meanwhile({"stored"})

RecordSpam(w) ==
    /\ There(w)
    /\ LET id == Cardinality({s \in spam : s.widget = w})
       IN  spam' = spam \cup {[id |-> id, widget |-> w, tenant |-> Owner[w]]}
    /\ UNCHANGED <<state, leads, clockVars>>
    /\ Meanwhile({})

CreateWidget(w) ==
    /\ state[w] = "absent"
    /\ \E s \in {"active", "inactive"} : state' = [state EXCEPT ![w] = s]
    /\ UNCHANGED <<leads, spam, clockVars>>
    /\ Meanwhile({"created"})

ToggleWidget(w) ==
    /\ There(w)
    /\ state' = [state EXCEPT ![w] = IF @ = "active" THEN "inactive" ELSE "active"]
    /\ UNCHANGED <<leads, spam, clockVars>>
    /\ Meanwhile({"toggled"})

\* The delete takes leads and spam events along.
DeleteWidget(w) ==
    /\ There(w)
    /\ state' = [state EXCEPT ![w] = "deleted"]
    /\ leads' = {l \in leads : l.widget # w}
    /\ spam' = {s \in spam : s.widget # w}
    /\ UNCHANGED clockVars
    /\ Meanwhile({"deleted"})

\* Time passes, but a lead that was not a day old when the request began is
\* not a week old before its answer is complete.
Older(d, k, m) ==
    /\ day <= d /\ week <= k /\ month <= m
    /\ m <= k /\ k <= d
    /\ step # 0 => k <= since
    /\ <<d, k, m>> # clockVars
    /\ day' = d /\ week' = k /\ month' = m
    /\ UNCHANGED dbVars
    /\ Meanwhile({})

Next ==
    \/ \E q \in Query : Ask(q)
    \/ Read \/ ReadPage \/ NextPage \/ Finish
    \/ \E w \in Widget, id \in Lead : StoreLead(w, id)
    \/ \E w \in Widget : RecordSpam(w) \/ CreateWidget(w) \/ ToggleWidget(w) \/ DeleteWidget(w)
    \/ \E d, k, m \in 0..Newest : Older(d, k, m)

Spec == Init /\ [][Next]_vars

-----------------------------------------------------------------------------
Without(kinds) == disturbed \cap kinds = {}

\* The numbers of one answer, counted by different statements over different
\* columns, agree unless a commit of a kind that can part them came between:
\* in particular enriched exceeds total, and the success rate 1, only if a
\* lead was stored meanwhile.
NumbersAgree ==
    LET n == got
    IN
    /\ query.op = "summary" /\ Complete =>
          /\ Without({"stored"}) => n.enriched <= n.total /\ n.last7d <= n.total
          /\ Without({"deleted"}) => n.last24h <= n.last7d /\ n.total <= n.perWidget
          /\ Without({"stored", "deleted"}) => n.perWidget = n.total
          /\ Without({"created", "deleted"}) => n.rows = n.widgets
          /\ Without({"created", "toggled", "deleted"}) => n.rowsActive = n.active
    /\ query.op = "stats" /\ Complete =>
          /\ Without({"stored"}) => n.last7d <= n.byDay /\ n.total <= n.byCountry
          /\ Without({"deleted"}) => n.byDay <= n.byCountry /\ n.byCountry <= n.total

\* An owner who walks through the pages misses no lead that was there when the
\* walk began, unless leads were deleted, and sees none twice, unless leads
\* were stored.
WalkIsComplete ==
    query.op = "list" /\ Complete =>
        /\ Without({"deleted"}) => standing \subseteq UNION {shown[i] : i \in 1..Len(shown)}
        /\ Without({"stored"}) =>
              \A i, j \in 1..Len(shown) : i # j => shown[i] \cap shown[j] = {}

\* What the statements of a request would give.
View(q) == <<q.widget # None => Finds(q, q.widget), Numbers(q), PageAt(q, offset)>>

\* Nothing happens to a tenant's own widgets and their leads and spam.
Undisturbed(t) ==
    LET own == {w \in Widget : Owner[w] = t}
    IN  /\ \A w \in own : state'[w] = state[w]
        /\ {l \in leads' : l.widget \in own} = {l \in leads : l.widget \in own}
        /\ {s \in spam' : s.widget \in own} = {s \in spam : s.widget \in own}

\* Tenants are isolated: as long as nothing happens to a tenant's own widgets
\* and their leads, no commit of another changes what any statement of the
\* tenant's request would give.
OthersChangeNothing ==
    [][step # 0 /\ UNCHANGED clockVars /\ Undisturbed(query.tenant) => View(query)' = View(query)]_dbVars
===============================================================================
