---------------------------- MODULE DashboardProofs ----------------------------
(***************************************************************************)
(* The dashboard's answers agree with themselves, a walk through its pages *)
(* is complete and tenants are isolated, for all tenants and widgets, any  *)
(* number of leads, any page size and any number of commits meanwhile.     *)
(*                                                                         *)
(* The argument: while no commit of a kind intervenes, what a statement    *)
(* has counted keeps bounding what the next ones may still count (Bounds); *)
(* and the leads at places up to the end of the pages read so far are      *)
(* those that were shown (Walk).                                           *)
(***************************************************************************)
EXTENDS Dashboard, SequenceTheorems, FiniteSetTheorems, TLAPS

Kinds == {"stored", "deleted", "created", "toggled"}

Typed ==
    /\ state \in [Widget -> State]
    /\ leads \subseteq Row /\ IsFiniteSet(leads)
    /\ spam \subseteq SpamRow /\ IsFiniteSet(spam)
    /\ day \in Nat /\ week \in Nat /\ month \in Nat
    /\ month <= week /\ week <= day
    /\ query \in Query \cup {NoQuery}
    /\ step \in Nat /\ since \in Nat
    /\ got \in [Names -> Nat]
    /\ offset \in Nat /\ shown \in Seq(SUBSET Lead) /\ standing \subseteq Lead
    /\ disturbed \subseteq Kinds

\* What is asked was allowed to be asked; since the request began, no lead
\* that was not a day old then became a week old.
Asked ==
    step # 0 =>
        /\ query \in Query
        /\ query.op = "summary" => query.widget = None
        /\ query.widget # None => Owner[query.widget] = query.tenant
        /\ week <= since /\ since <= day

\* Leads and spam belong to a widget that is there, and to its tenant.
Copies ==
    /\ \A l \in leads : There(l.widget) /\ l.tenant = Owner[l.widget]
    /\ \A s \in spam : There(s.widget) /\ s.tenant = Owner[s.widget]

Recent(q, boundary) == {l \in LeadsOf(q) : l.id > boundary}
ActiveRows(q) == {w \in Rows(q) : state[w] = "active"}

\* After each statement of a summary: what its number tells about the numbers
\* that were counted and about those that will be.
SummaryBounds ==
    query.op = "summary" =>
        /\ step > 1 /\ Without({"created", "deleted"}) => got["widgets"] = Cardinality(Rows(query))
        /\ step > 2 /\ Without({"created", "toggled", "deleted"}) =>
              got["active"] = Cardinality(ActiveRows(query))
        /\ step > 3 /\ Without({"stored"}) => Cardinality(LeadsOf(query)) <= got["total"]
        /\ step > 3 /\ Without({"deleted"}) => got["total"] <= Cardinality(LeadsOf(query))
        /\ step > 4 /\ Without({"stored"}) => got["enriched"] <= got["total"]
        /\ step > 6 /\ Without({"created", "deleted"}) => got["rows"] = got["widgets"]
        /\ step > 6 /\ Without({"created", "toggled", "deleted"}) => got["rowsActive"] = got["active"]
        /\ step > 6 /\ Without({"stored"}) => got["perWidget"] <= got["total"]
        /\ step > 6 /\ Without({"deleted"}) => got["total"] <= got["perWidget"]
        /\ step > 7 /\ Without({"deleted"}) => got["last24h"] <= Cardinality(Recent(query, since))
        /\ step > 8 /\ Without({"stored"}) => got["last7d"] <= got["total"]
        /\ step > 8 /\ Without({"deleted"}) => got["last24h"] <= got["last7d"]

\* The same for the statistics of a widget.
StatsBounds ==
    query.op = "stats" =>
        /\ step > 1 /\ Without({"stored"}) => Cardinality(Recent(query, week)) <= got["byDay"]
        /\ step > 1 /\ Without({"deleted"}) => got["byDay"] <= Cardinality(LeadsOf(query))
        /\ step > 2 /\ Without({"stored"}) => Cardinality(LeadsOf(query)) <= got["byCountry"]
        /\ step > 2 /\ Without({"deleted"}) => got["byCountry"] <= Cardinality(LeadsOf(query))
        /\ step > 2 /\ Without({"deleted"}) => got["byDay"] <= got["byCountry"]
        /\ step > 3 /\ Without({"stored"}) => got["total"] <= got["byCountry"]
        /\ step > 3 /\ Without({"deleted"}) => got["byCountry"] <= got["total"]
        /\ step > 4 /\ Without({"stored"}) => got["last7d"] <= got["byDay"]

Bounds == step # 0 => SummaryBounds /\ StatsBounds

Shown == UNION {shown[i] : i \in 1..Len(shown)}

\* The end of the pages read so far.
Reach == offset + (IF step = 3 THEN Page ELSE 0)

\* Without deletions, leads only move away from the head, so that those which
\* were there and are within reach were shown; without new leads they only
\* move to the head, so that those which were shown stay within reach.
Walk ==
    query.op = "list" /\ step # 0 =>
        /\ step \in 1..3
        /\ step = 3 => shown # <<>>
        /\ Without({"deleted"}) =>
              /\ standing \subseteq IdsOf(query)
              /\ \A id \in standing : Place(id, IdsOf(query)) <= Reach => id \in Shown
              /\ step = 3 /\ ~Full(LastPage) => standing \subseteq Shown
        /\ Without({"stored"}) =>
              /\ \A id \in Shown \cap IdsOf(query) : Place(id, IdsOf(query)) <= Reach
              /\ \A i, j \in 1..Len(shown) : i # j => shown[i] \cap shown[j] = {}

\* The inductive invariant.
IInv == Typed /\ Asked /\ Copies /\ Bounds /\ Walk


\* A part of a finite set has no more elements.
LEMMA Fewer ==
    ASSUME NEW T, IsFiniteSet(T), NEW S, S \subseteq T
    PROVE  /\ IsFiniteSet(S)
           /\ Cardinality(S) \in Nat /\ Cardinality(T) \in Nat
           /\ Cardinality(S) <= Cardinality(T)
<1>1. IsFiniteSet(S) /\ Cardinality(S) <= Cardinality(T)
  BY FS_Subset
<1> QED
  BY <1>1, FS_CardinalityType

-----------------------------------------------------------------------------
(* Places in a list.                                                       *)

\* Place numbers a finite set of leads from 1, each once.
LEMMA PlaceRange ==
    ASSUME NEW ids \in SUBSET Nat, IsFiniteSet(ids), NEW id \in ids
    PROVE  Place(id, ids) \in 1..Cardinality(ids)
<1> DEFINE ahead == {other \in ids : other >= id}
<1>1. ahead \subseteq ids /\ id \in ahead
  OBVIOUS
<1>2. IsFiniteSet(ahead) /\ Cardinality(ahead) \in Nat /\ Cardinality(ids) \in Nat
      /\ Cardinality(ahead) <= Cardinality(ids)
  BY <1>1, Fewer
<1>3. Cardinality(ahead) # 0
  BY <1>1, <1>2, FS_EmptySet
<1> QED
  BY <1>2, <1>3 DEF Place

\* The newer of two leads has the smaller place.
LEMMA PlaceOrder ==
    ASSUME NEW ids \in SUBSET Nat, IsFiniteSet(ids), NEW a \in ids, NEW b \in ids, a < b
    PROVE  Place(b, ids) < Place(a, ids)
<1> DEFINE aheadA == {other \in ids : other >= a}
           aheadB == {other \in ids : other >= b}
<1> a \in Nat /\ b \in Nat
  OBVIOUS
<1>1. aheadA \subseteq ids /\ aheadB \subseteq aheadA /\ a \in aheadA /\ a \notin aheadB
  <2>1. \A other \in ids : other >= b => other >= a
    OBVIOUS
  <2>2. a >= a /\ ~(a >= b)
    OBVIOUS
  <2> QED
    BY <2>1, <2>2
<1>2. IsFiniteSet(aheadA)
  BY <1>1, Fewer
<1>3. /\ Cardinality(aheadB) \in Nat /\ Cardinality(aheadA) \in Nat
      /\ Cardinality(aheadB) <= Cardinality(aheadA)
  BY <1>1, <1>2, Fewer
<1>4. Cardinality(aheadB) # Cardinality(aheadA)
  BY <1>1, <1>2, FS_Subset
<1> QED
  BY <1>3, <1>4 DEF Place

\* A place grows, if at all, when the list does.
LEMMA PlaceGrows ==
    ASSUME NEW more \in SUBSET Nat, IsFiniteSet(more), NEW ids, ids \subseteq more, NEW id \in ids
    PROVE  /\ Place(id, ids) \in Nat /\ Place(id, more) \in Nat
           /\ Place(id, ids) <= Place(id, more)
<1> DEFINE ahead == {other \in ids : other >= id}
           aheadMore == {other \in more : other >= id}
<1>1. aheadMore \subseteq more /\ ahead \subseteq aheadMore
  OBVIOUS
<1>2. IsFiniteSet(aheadMore)
  BY <1>1, Fewer
<1> QED
  BY <1>1, <1>2, Fewer DEF Place

\* Every place of the list is taken: the map from leads to places is one to
\* one between sets of one size.
LEMMA PlaceTaken ==
    ASSUME NEW ids \in SUBSET Nat, IsFiniteSet(ids), NEW k \in 1..Cardinality(ids)
    PROVE  \E id \in ids : Place(id, ids) = k
<1> DEFINE n == Cardinality(ids)
           f == [id \in ids |-> Place(id, ids)]
<1>1. n \in Nat
  BY FS_CardinalityType
<1>2. IsFiniteSet(1..n) /\ Cardinality(1..n) = n
  BY <1>1, FS_Interval
<1>3. f \in [ids -> 1..n]
  BY PlaceRange
<1>4. ASSUME NEW a \in ids, NEW b \in ids, a # b PROVE f[a] # f[b]
  <2>1. a < b \/ b < a
    BY <1>4
  <2>2. Place(a, ids) \in Nat /\ Place(b, ids) \in Nat
    BY PlaceRange, <1>1
  <2> QED
    BY <2>1, <2>2, PlaceOrder
<1>5. f \in Injection(ids, 1..n)
  BY <1>3, <1>4 DEF Injection, IsInjective
<1>6. f \in Surjection(ids, 1..n)
  BY <1>2, <1>5, FS_Injection
<1> QED
  BY <1>6 DEF Surjection

\* A page that is not full is the last: it reaches the end of the list.
LEMMA PageNotFull ==
    ASSUME NEW ids \in SUBSET Nat, IsFiniteSet(ids), NEW from \in Nat,
           NEW page, page = {id \in ids : Place(id, ids) \in (from + 1)..(from + Page)},
           ~Full(page), NEW id \in ids
    PROVE  Place(id, ids) <= from + Page
<1> USE PageAssumption
<1> DEFINE n == Cardinality(ids)
           places == (from + 1)..(from + Page)
           g == [x \in page |-> Place(x, ids)]
<1>1. n \in Nat /\ Place(id, ids) \in 1..n
  BY PlaceRange, FS_CardinalityType
<1>2. SUFFICES ASSUME Place(id, ids) > from + Page PROVE FALSE
  BY <1>1
<1>3. places \subseteq 1..n
  BY <1>1, <1>2
<1>4. g \in [page -> places]
  OBVIOUS
<1>5. \A k \in places : \E x \in page : g[x] = k
  <2> SUFFICES ASSUME NEW k \in places PROVE \E x \in page : g[x] = k
    OBVIOUS
  <2>1. PICK x \in ids : Place(x, ids) = k
    BY <1>3, PlaceTaken
  <2>2. x \in page
    BY <2>1
  <2> QED
    BY <2>1, <2>2
<1>6. g \in Surjection(page, places)
  BY <1>4, <1>5 DEF Surjection
<1>7. \A a, b \in page : a # b => g[a] # g[b]
  <2> SUFFICES ASSUME NEW a \in page, NEW b \in page, a # b PROVE g[a] # g[b]
    OBVIOUS
  <2>1. a \in ids /\ b \in ids /\ a \in Nat /\ b \in Nat
    OBVIOUS
  <2>2. a < b \/ b < a
    BY <2>1
  <2>3. Place(a, ids) \in Nat /\ Place(b, ids) \in Nat
    BY <2>1, PlaceRange, <1>1
  <2> QED
    BY <2>1, <2>2, <2>3, PlaceOrder
<1>8. g \in Injection(page, places)
  BY <1>4, <1>7 DEF Injection, IsInjective
<1>9. IsFiniteSet(page)
  BY Fewer
<1>10. Cardinality(places) = Page
  BY FS_Interval
<1>11. Cardinality(page) = Cardinality(places)
  <2>1. Cardinality(places) = Cardinality(page) <=> g \in Injection(page, places)
    BY <1>6, <1>9, FS_Surjection
  <2> QED
    BY <1>8, <2>1
<1> QED
  BY <1>10, <1>11 DEF Full

-----------------------------------------------------------------------------
(* What the statements count.                                              *)

LEMMA LeadsAreFinite ==
    ASSUME Typed, NEW q
    PROVE  /\ IsFiniteSet(LeadsOf(q)) /\ IsFiniteSet(SpamOf(q)) /\ IsFiniteSet(Rows(q))
           /\ LeadsOf(q) \subseteq leads
           /\ IsFiniteSet(leads)
<1>1. IsFiniteSet(leads) /\ IsFiniteSet(spam) /\ IsFiniteSet(Widget)
  BY WidgetAssumption DEF Typed
<1>2. LeadsOf(q) \subseteq leads /\ SpamOf(q) \subseteq spam /\ Rows(q) \subseteq Widget
  BY DEF LeadsOf, SpamOf, Rows
<1> QED
  BY <1>1, <1>2, FS_Subset

LEMMA IdsAreFinite ==
    ASSUME Typed, NEW q
    PROVE  IdsOf(q) \subseteq Lead /\ IdsOf(q) \in SUBSET Nat /\ IsFiniteSet(IdsOf(q))
<1> USE PageAssumption
<1>1. IdsOf(q) \subseteq Lead
  BY DEF IdsOf, LeadsOf, Typed, Row
<1>2. IsFiniteSet(Lead) /\ Lead \subseteq Nat
  BY FS_Interval DEF Lead
<1> QED
  BY <1>1, <1>2, FS_Subset

\* The count of a part of the leads is a number, at most the whole.
LEMMA CountOfLeads ==
    ASSUME Typed, NEW q, NEW part, part \subseteq LeadsOf(q)
    PROVE  /\ Cardinality(part) \in Nat /\ Cardinality(LeadsOf(q)) \in Nat
           /\ Cardinality(part) <= Cardinality(LeadsOf(q))
BY LeadsAreFinite, Fewer

LEMMA CountOfRows ==
    ASSUME Typed, NEW q, NEW part, part \subseteq Rows(q)
    PROVE  Cardinality(part) \in Nat
BY LeadsAreFinite, Fewer

\* A summary's leads are those of its rows.
LEMMA SummaryLeads ==
    ASSUME Typed, Copies, NEW q, q.widget = None
    PROVE  {l \in leads : l.widget \in Rows(q)} = LeadsOf(q)
<1>1. ASSUME NEW l \in leads PROVE l.widget \in Rows(q) <=> Mine(q, l)
  <2>1. l.widget \in Widget /\ There(l.widget) /\ l.tenant = Owner[l.widget]
    BY DEF Typed, Row, Copies
  <2> QED
    BY <2>1 DEF Rows, Finds, Mine
<1> QED
  BY <1>1 DEF LeadsOf

LEMMA NumbersTyped ==
    ASSUME Typed, NEW q
    PROVE  /\ Cardinality(Rows(q)) \in Nat
           /\ Cardinality(ActiveRows(q)) \in Nat
           /\ Cardinality(LeadsOf(q)) \in Nat
           /\ Cardinality({l \in LeadsOf(q) : l.enriched}) \in Nat
           /\ Cardinality(SpamOf(q)) \in Nat
           /\ Cardinality({l \in leads : l.widget \in Rows(q)}) \in Nat
           /\ \A boundary : Cardinality(Recent(q, boundary)) \in Nat
<1>1. Cardinality(Rows(q)) \in Nat /\ Cardinality(ActiveRows(q)) \in Nat
  BY CountOfRows DEF ActiveRows
<1>2. Cardinality(LeadsOf(q)) \in Nat /\ Cardinality({l \in LeadsOf(q) : l.enriched}) \in Nat
  BY CountOfLeads
<1>3. \A boundary : Cardinality(Recent(q, boundary)) \in Nat
  BY CountOfLeads DEF Recent
<1>4. Cardinality(SpamOf(q)) \in Nat
  BY LeadsAreFinite, FS_CardinalityType
<1>5. Cardinality({l \in leads : l.widget \in Rows(q)}) \in Nat
  BY LeadsAreFinite, Fewer
<1> QED
  BY <1>1, <1>2, <1>3, <1>4, <1>5

\* The names of the numbers, one by one.
LEMMA NumbersByName ==
    ASSUME NEW q
    PROVE  /\ Numbers(q)["widgets"] = Cardinality(Rows(q))
           /\ Numbers(q)["active"] = Cardinality(ActiveRows(q))
           /\ Numbers(q)["total"] = Cardinality(LeadsOf(q))
           /\ Numbers(q)["enriched"] = Cardinality({l \in LeadsOf(q) : l.enriched})
           /\ Numbers(q)["spam"] = Cardinality(SpamOf(q))
           /\ Numbers(q)["rows"] = Cardinality(Rows(q))
           /\ Numbers(q)["rowsActive"] = Cardinality(ActiveRows(q))
           /\ Numbers(q)["perWidget"] = Cardinality({l \in leads : l.widget \in Rows(q)})
           /\ Numbers(q)["last24h"] = Cardinality(Recent(q, day))
           /\ Numbers(q)["last7d"] = Cardinality(Recent(q, week))
           /\ Numbers(q)["byDay"] = Cardinality(Recent(q, month))
           /\ Numbers(q)["byCountry"] = Cardinality(LeadsOf(q))
<1>1. {w \in Widget : Finds(q, w)} = Rows(q)
  BY DEF Rows
<1>2. {w \in Widget : Finds(q, w) /\ state[w] = "active"} = ActiveRows(q)
  BY DEF Rows, ActiveRows
<1>3. {w \in Rows(q) : state[w] = "active"} = ActiveRows(q)
  BY DEF ActiveRows
<1>4. /\ {l \in LeadsOf(q) : l.id > day} = Recent(q, day)
      /\ {l \in LeadsOf(q) : l.id > week} = Recent(q, week)
      /\ {l \in LeadsOf(q) : l.id > month} = Recent(q, month)
  BY DEF Recent
<1> QED
  BY <1>1, <1>2, <1>3, <1>4 DEF Numbers

\* What a statement of a summary counts, and what it leaves as it was.
LEMMA ReadSummary ==
    ASSUME Typed, Read, query.op = "summary"
    PROVE  /\ step <= 8
           /\ got'["widgets"] = IF step = 1 THEN Cardinality(Rows(query)) ELSE got["widgets"]
           /\ got'["active"] = IF step = 2 THEN Cardinality(ActiveRows(query)) ELSE got["active"]
           /\ got'["total"] = IF step = 3 THEN Cardinality(LeadsOf(query)) ELSE got["total"]
           /\ got'["enriched"] = IF step = 4 THEN Cardinality({l \in LeadsOf(query) : l.enriched})
                                 ELSE got["enriched"]
           /\ got'["rows"] = IF step = 6 THEN Cardinality(Rows(query)) ELSE got["rows"]
           /\ got'["rowsActive"] = IF step = 6 THEN Cardinality(ActiveRows(query)) ELSE got["rowsActive"]
           /\ got'["perWidget"] = IF step = 6 THEN Cardinality({l \in leads : l.widget \in Rows(query)})
                                  ELSE got["perWidget"]
           /\ got'["last24h"] = IF step = 7 THEN Cardinality(Recent(query, day)) ELSE got["last24h"]
           /\ got'["last7d"] = IF step = 8 THEN Cardinality(Recent(query, week)) ELSE got["last7d"]
<1> DEFINE turn == Turn["summary"]
<1>1. /\ step <= Counts["summary"]
      /\ got' = [n \in Names |-> IF n \in DOMAIN turn /\ turn[n] = step
                                 THEN Numbers(query)[n] ELSE got[n]]
  BY DEF Read
<1>2. /\ DOMAIN turn = {"widgets", "active", "total", "enriched", "spam", "rows", "rowsActive",
                        "perWidget", "last24h", "last7d"}
      /\ turn["widgets"] = 1 /\ turn["active"] = 2 /\ turn["total"] = 3 /\ turn["enriched"] = 4
      /\ turn["rows"] = 6 /\ turn["rowsActive"] = 6 /\ turn["perWidget"] = 6
      /\ turn["last24h"] = 7 /\ turn["last7d"] = 8
  BY DEF Turn
<1>3. step <= 8
  BY <1>1 DEF Counts
<1> HIDE DEF turn
<1>4. \A n \in Names \cap DOMAIN turn : got'[n] = IF turn[n] = step THEN Numbers(query)[n] ELSE got[n]
  BY <1>1
<1>5. {"widgets", "active", "total", "enriched", "spam", "rows", "rowsActive",
                        "perWidget", "last24h", "last7d"} \subseteq Names
  BY DEF Names
<1>6. /\ Numbers(query)["widgets"] = Cardinality(Rows(query))
      /\ Numbers(query)["active"] = Cardinality(ActiveRows(query))
      /\ Numbers(query)["total"] = Cardinality(LeadsOf(query))
      /\ Numbers(query)["enriched"] = Cardinality({l \in LeadsOf(query) : l.enriched})
      /\ Numbers(query)["rows"] = Cardinality(Rows(query))
      /\ Numbers(query)["rowsActive"] = Cardinality(ActiveRows(query))
      /\ Numbers(query)["perWidget"] = Cardinality({l \in leads : l.widget \in Rows(query)})
      /\ Numbers(query)["last24h"] = Cardinality(Recent(query, day))
      /\ Numbers(query)["last7d"] = Cardinality(Recent(query, week))
  BY NumbersByName, Zenon
<1> QED
  BY <1>2, <1>3, <1>4, <1>5, <1>6

LEMMA ReadStats ==
    ASSUME Typed, Read, query.op = "stats"
    PROVE  /\ step <= 5
           /\ got'["byDay"] = IF step = 1 THEN Cardinality(Recent(query, month)) ELSE got["byDay"]
           /\ got'["byCountry"] = IF step = 2 THEN Cardinality(LeadsOf(query)) ELSE got["byCountry"]
           /\ got'["total"] = IF step = 3 THEN Cardinality(LeadsOf(query)) ELSE got["total"]
           /\ got'["last7d"] = IF step = 4 THEN Cardinality(Recent(query, week)) ELSE got["last7d"]
<1> DEFINE turn == Turn["stats"]
<1>1. /\ step <= Counts["stats"]
      /\ got' = [n \in Names |-> IF n \in DOMAIN turn /\ turn[n] = step
                                 THEN Numbers(query)[n] ELSE got[n]]
  BY DEF Read
<1>2. /\ DOMAIN turn = {"byDay", "byCountry", "total", "last7d", "spam"}
      /\ turn["byDay"] = 1 /\ turn["byCountry"] = 2 /\ turn["total"] = 3 /\ turn["last7d"] = 4
  BY DEF Turn
<1>3. step <= 5
  BY <1>1 DEF Counts
<1> HIDE DEF turn
<1>4. \A n \in Names \cap DOMAIN turn : got'[n] = IF turn[n] = step THEN Numbers(query)[n] ELSE got[n]
  BY <1>1
<1>5. {"byDay", "byCountry", "total", "last7d", "spam"} \subseteq Names
  BY DEF Names
<1>6. /\ Numbers(query)["byDay"] = Cardinality(Recent(query, month))
      /\ Numbers(query)["byCountry"] = Cardinality(LeadsOf(query))
      /\ Numbers(query)["total"] = Cardinality(LeadsOf(query))
      /\ Numbers(query)["last7d"] = Cardinality(Recent(query, week))
  BY NumbersByName, Zenon
<1> QED
  BY <1>2, <1>3, <1>4, <1>5, <1>6

LEMMA EveryNumber ==
    ASSUME Typed, NEW q, NEW n \in Names
    PROVE  Numbers(q)[n] \in Nat
<1>1. /\ Cardinality(Rows(q)) \in Nat /\ Cardinality(ActiveRows(q)) \in Nat
      /\ Cardinality(LeadsOf(q)) \in Nat /\ Cardinality(SpamOf(q)) \in Nat
      /\ Cardinality({l \in LeadsOf(q) : l.enriched}) \in Nat
      /\ Cardinality({l \in leads : l.widget \in Rows(q)}) \in Nat
      /\ Cardinality(Recent(q, day)) \in Nat /\ Cardinality(Recent(q, week)) \in Nat
      /\ Cardinality(Recent(q, month)) \in Nat
  BY NumbersTyped, Zenon
<1>2. /\ Numbers(q)["widgets"] = Cardinality(Rows(q))
      /\ Numbers(q)["active"] = Cardinality(ActiveRows(q))
      /\ Numbers(q)["rows"] = Cardinality(Rows(q))
      /\ Numbers(q)["rowsActive"] = Cardinality(ActiveRows(q))
      /\ Numbers(q)["spam"] = Cardinality(SpamOf(q))
  BY NumbersByName, Zenon
<1>3. /\ Numbers(q)["total"] = Cardinality(LeadsOf(q))
      /\ Numbers(q)["enriched"] = Cardinality({l \in LeadsOf(q) : l.enriched})
      /\ Numbers(q)["perWidget"] = Cardinality({l \in leads : l.widget \in Rows(q)})
      /\ Numbers(q)["last24h"] = Cardinality(Recent(q, day))
      /\ Numbers(q)["last7d"] = Cardinality(Recent(q, week))
      /\ Numbers(q)["byDay"] = Cardinality(Recent(q, month))
      /\ Numbers(q)["byCountry"] = Cardinality(LeadsOf(q))
  BY NumbersByName, Zenon
<1> QED
  BY <1>1, <1>2, <1>3, Zenon DEF Names

-----------------------------------------------------------------------------
(* What commits do to a request under way.                                 *)

\* Everything a commit or the clock does, as far as the bounds depend on it.
Others ==
    /\ UNCHANGED <<query, step, got, since, walkVars>>
    /\ step # 0 => disturbed \subseteq disturbed'
    /\ step # 0 /\ "stored" \notin disturbed' => leads' \subseteq leads
    /\ step # 0 /\ "deleted" \notin disturbed' => leads \subseteq leads'
    /\ step # 0 /\ disturbed' \cap {"created", "deleted"} = {} => \A w \in Widget : There(w)' = There(w)
    /\ step # 0 /\ disturbed' \cap {"created", "toggled", "deleted"} = {} => state' = state
    /\ week <= week'

Commit(w) == RecordSpam(w) \/ CreateWidget(w) \/ ToggleWidget(w) \/ DeleteWidget(w)

LEMMA CommitIsOthers ==
    ASSUME Typed, NEW w \in Widget, (\E id \in Lead : StoreLead(w, id)) \/ Commit(w)
    PROVE  Others
<1> week \in Nat /\ week <= week
  BY DEF Typed
<1> USE DEF Meanwhile, clockVars
<1>1. CASE \E id \in Lead : StoreLead(w, id)
  <2>1. PICK id \in Lead, enriched \in BOOLEAN :
           leads' = leads \cup {[id |-> id, widget |-> w, tenant |-> Owner[w], enriched |-> enriched]}
    BY <1>1 DEF StoreLead
  <2>2. state' = state /\ (step # 0 => disturbed' = disturbed \cup {"stored"})
    BY <1>1 DEF StoreLead
  <2>3. \A v \in Widget : There(v)' = There(v)
    BY <2>2 DEF There
  <2> QED
    BY <1>1, <2>1, <2>2, <2>3 DEF StoreLead, Others
<1>2. CASE RecordSpam(w)
  <2>1. \A v \in Widget : There(v)' = There(v)
    BY <1>2 DEF There, RecordSpam
  <2> QED
    BY <1>2, <2>1 DEF RecordSpam, Others
<1>3. CASE CreateWidget(w)
  BY <1>3 DEF CreateWidget, Others
<1>4. CASE ToggleWidget(w)
  <2>1. \A v \in Widget : There(v)' = There(v)
    BY <1>4 DEF There, ToggleWidget, Typed
  <2> QED
    BY <1>4, <2>1 DEF ToggleWidget, Others
<1>5. CASE DeleteWidget(w)
  <2>1. leads' \subseteq leads
    BY <1>5 DEF DeleteWidget
  <2>2. step # 0 => disturbed' = disturbed \cup {"deleted"}
    BY <1>5 DEF DeleteWidget
  <2> QED
    BY <1>5, <2>1, <2>2 DEF DeleteWidget, Others
<1> QED
  BY <1>1, <1>2, <1>3, <1>4, <1>5 DEF Commit

LEMMA OlderIsOthers ==
    ASSUME Typed, NEW d, NEW k, NEW m, Older(d, k, m)
    PROVE  Others
<1>1. \A v \in Widget : There(v)' = There(v)
  BY DEF There, Older, dbVars
<1> QED
  BY <1>1 DEF Older, Others, Meanwhile, dbVars

-----------------------------------------------------------------------------
(* Types, and the copies of the tenant.                                    *)

LEMMA InitTyped == Init => Typed /\ Asked /\ Copies
<1> SUFFICES ASSUME Init PROVE Typed /\ Asked /\ Copies
  OBVIOUS
<1>1. state \in [Widget -> State] /\ got \in [Names -> Nat]
  BY DEF Init, State
<1>2. IsFiniteSet(leads) /\ IsFiniteSet(spam)
  BY FS_EmptySet DEF Init
<1>3. shown \in Seq(SUBSET Lead) /\ query \in Query \cup {NoQuery}
  BY DEF Init
<1>4. Typed
  BY <1>1, <1>2, <1>3 DEF Init, Typed
<1> QED
  BY <1>4 DEF Init, Asked, Copies

LEMMA CommitTyped ==
    ASSUME Typed, Copies, NEW w \in Widget, (\E id \in Lead : StoreLead(w, id)) \/ Commit(w)
    PROVE  Typed' /\ Copies'
<1> USE OwnerAssumption
<1>1. /\ UNCHANGED <<day, week, month, query, step, since, got, offset, shown, standing>>
      /\ disturbed' \subseteq Kinds
  BY DEF StoreLead, Commit, RecordSpam, CreateWidget, ToggleWidget, DeleteWidget, Meanwhile,
         clockVars, walkVars, Typed, Kinds
<1>2. /\ state' \in [Widget -> State]
      /\ leads' \subseteq Row /\ IsFiniteSet(leads')
      /\ spam' \subseteq SpamRow /\ IsFiniteSet(spam')
      /\ Copies'
  <2>1. CASE \E id \in Lead : StoreLead(w, id)
    <3>1. PICK id \in Lead : StoreLead(w, id)
      BY <2>1
    <3>2. PICK enriched \in BOOLEAN :
             leads' = leads \cup {[id |-> id, widget |-> w, tenant |-> Owner[w], enriched |-> enriched]}
      BY <3>1 DEF StoreLead
    <3> DEFINE row == [id |-> id, widget |-> w, tenant |-> Owner[w], enriched |-> enriched]
    <3>3. row \in Row /\ row.widget = w /\ row.tenant = Owner[w]
      BY DEF Row
    <3> HIDE DEF row
    <3>4. leads' = leads \cup {row} /\ state' = state /\ spam' = spam /\ There(w)
      BY <3>1, <3>2 DEF StoreLead, row
    <3>5. IsFiniteSet(leads')
      BY <3>4, FS_AddElement DEF Typed
    <3>6. Copies'
      BY <3>3, <3>4 DEF Copies, There
    <3> QED
      BY <3>3, <3>4, <3>5, <3>6 DEF Typed
  <2>2. CASE RecordSpam(w)
    <3> DEFINE id == Cardinality({s \in spam : s.widget = w})
               row == [id |-> id, widget |-> w, tenant |-> Owner[w]]
    <3>1. id \in Nat
      BY Fewer DEF Typed
    <3>2. row \in SpamRow /\ row.widget = w /\ row.tenant = Owner[w]
      BY <3>1 DEF SpamRow
    <3>3. spam' = spam \cup {row} /\ state' = state /\ leads' = leads /\ There(w)
      BY <2>2 DEF RecordSpam
    <3> HIDE DEF row
    <3>4. IsFiniteSet(spam')
      BY <3>3, FS_AddElement DEF Typed
    <3>5. Copies'
      BY <3>2, <3>3 DEF Copies, There
    <3> QED
      BY <3>2, <3>3, <3>4, <3>5 DEF Typed
  <2>3. CASE CreateWidget(w)
    <3>1. PICK s \in {"active", "inactive"} : state' = [state EXCEPT ![w] = s]
      BY <2>3 DEF CreateWidget
    <3>2. leads' = leads /\ spam' = spam /\ state' \in [Widget -> State]
      BY <2>3, <3>1 DEF CreateWidget, Typed, State
    <3>3. \A v \in Widget : There(v) => There(v)'
      BY <3>1 DEF There, Typed
    <3> QED
      BY <3>2, <3>3 DEF Typed, Copies, Row, SpamRow
  <2>4. CASE ToggleWidget(w)
    <3>1. leads' = leads /\ spam' = spam /\ state' \in [Widget -> State]
      BY <2>4 DEF ToggleWidget, Typed, State
    <3>2. \A v \in Widget : There(v) => There(v)'
      BY <2>4 DEF ToggleWidget, There, Typed
    <3> QED
      BY <3>1, <3>2 DEF Typed, Copies, Row, SpamRow
  <2>5. CASE DeleteWidget(w)
    <3>1. /\ state' \in [Widget -> State]
          /\ leads' = {l \in leads : l.widget # w} /\ spam' = {s \in spam : s.widget # w}
      BY <2>5 DEF DeleteWidget, Typed, State
    <3>2. IsFiniteSet(leads') /\ IsFiniteSet(spam')
      BY <3>1, Fewer DEF Typed
    <3>3. \A v \in Widget : v # w /\ There(v) => There(v)'
      BY <2>5 DEF DeleteWidget, There, Typed
    <3> QED
      BY <3>1, <3>2, <3>3 DEF Typed, Copies, Row, SpamRow
  <2> QED
    BY <2>1, <2>2, <2>3, <2>4, <2>5 DEF Commit
<1> QED
  BY <1>1, <1>2 DEF Typed

LEMMA OwnTyped ==
    ASSUME Typed, Asked, Copies, (\E q \in Query : Ask(q)) \/ Read \/ ReadPage \/ NextPage \/ Finish
    PROVE  Typed' /\ Asked' /\ Copies'
<1> USE PageAssumption
<1>1. UNCHANGED <<dbVars, clockVars>>
  BY DEF Ask, Read, ReadPage, NextPage, Finish
<1>2. UNCHANGED <<state, leads, spam, day, week, month>>
  BY <1>1 DEF dbVars, clockVars
<1>3. Copies'
  BY <1>2 DEF Copies, There
<1>4. [n \in Names |-> 0] \in [Names -> Nat]
  OBVIOUS
<1>5. CASE \E q \in Query : Ask(q)
  <2>1. PICK q \in Query : Ask(q)
    BY <1>5
  <2>2. IdsOf(q) \subseteq Lead
    BY IdsAreFinite
  <2>3. standing' \subseteq Lead
    BY <2>1, <2>2 DEF Ask
  <2>4. Typed'
    BY <1>2, <1>4, <2>1, <2>3 DEF Typed, Ask
  <2>5. q.widget # None => Owner[q.widget] = q.tenant
    BY <2>1 DEF Ask, Finds
  <2>6. Asked'
    BY <1>2, <2>1, <2>5 DEF Typed, Asked, Ask
  <2> QED
    BY <1>3, <2>4, <2>6
<1>6. CASE Read
  <2>1. got' \in [Names -> Nat]
    BY <1>6, EveryNumber DEF Read, Typed
  <2>2. UNCHANGED <<query, since, offset, shown, standing, disturbed>> /\ step' = step + 1 /\ step # 0
    BY <1>6 DEF Read, walkVars
  <2> QED
    BY <1>2, <1>3, <2>1, <2>2 DEF Typed, Asked
<1>7. CASE ReadPage
  <2>1. PageAt(query, offset) \in SUBSET Lead
    BY IdsAreFinite DEF PageAt
  <2>2. shown' \in Seq(SUBSET Lead)
    BY <1>7, <2>1, AppendProperties DEF ReadPage, Typed
  <2>3. UNCHANGED <<query, got, since, offset, standing, disturbed>> /\ step' = 3 /\ step = 2
    BY <1>7 DEF ReadPage
  <2> QED
    BY <1>2, <1>3, <2>2, <2>3 DEF Typed, Asked
<1>8. CASE NextPage
  <2>1. UNCHANGED <<query, got, shown, standing, disturbed>> /\ step' = 1 /\ step = 3 /\ since' = day
    BY <1>8 DEF NextPage
  <2>2. offset' \in Nat
    BY <1>8 DEF NextPage, Typed
  <2> QED
    BY <1>2, <1>3, <2>1, <2>2 DEF Typed, Asked
<1>9. CASE Finish
  <2>1. query' = NoQuery /\ step' = 0 /\ since' = 0 /\ got' = [n \in Names |-> 0]
        /\ offset' = 0 /\ shown' = <<>> /\ standing' = {} /\ disturbed' = {}
    BY <1>9 DEF Finish
  <2> QED
    BY <1>2, <1>3, <1>4, <2>1 DEF Typed, Asked
<1> QED
  BY <1>5, <1>6, <1>7, <1>8, <1>9

LEMMA OlderTyped ==
    ASSUME Typed, Asked, Copies, NEW d \in 0..Newest, NEW k \in 0..Newest, NEW m \in 0..Newest,
           Older(d, k, m)
    PROVE  Typed' /\ Asked' /\ Copies'
<1> USE PageAssumption
<1>1. UNCHANGED <<state, leads, spam, query, step, since, got, offset, shown, standing>>
  BY DEF Older, dbVars, Meanwhile, walkVars
<1>2. disturbed' \subseteq Kinds
  BY DEF Older, Meanwhile, Typed, Kinds
<1>3. day' = d /\ week' = k /\ month' = m /\ m <= k /\ k <= d /\ day <= d /\ (step # 0 => k <= since)
  BY DEF Older
<1>4. Copies'
  BY <1>1 DEF Copies, There
<1>5. Typed'
  BY <1>1, <1>2, <1>3 DEF Typed
<1>6. Asked'
  BY <1>1, <1>3 DEF Typed, Asked
<1> QED
  BY <1>4, <1>5, <1>6

LEMMA CommitAsked ==
    ASSUME Asked, NEW w \in Widget, (\E id \in Lead : StoreLead(w, id)) \/ Commit(w)
    PROVE  Asked'
<1>1. UNCHANGED <<day, week, query, step, since>>
  BY DEF StoreLead, Commit, RecordSpam, CreateWidget, ToggleWidget, DeleteWidget, Meanwhile, clockVars
<1> QED
  BY <1>1 DEF Asked

LEMMA IdleTyped ==
    ASSUME Typed, Asked, Copies, UNCHANGED vars
    PROVE  Typed' /\ Asked' /\ Copies'
<1>1. UNCHANGED <<state, leads, spam, day, week, month, query, step, since, got, offset, shown, standing, disturbed>>
  BY DEF vars, dbVars, clockVars, walkVars
<1> QED
  BY <1>1 DEF Typed, Asked, Copies, There

-----------------------------------------------------------------------------
(* The bounds.                                                             *)

LEMMA OthersCount ==
    ASSUME Typed, Typed', Others, step # 0
    PROVE  /\ "stored" \notin disturbed' =>
                 /\ Cardinality(LeadsOf(query))' <= Cardinality(LeadsOf(query))
                 /\ Cardinality(Recent(query, week))' <= Cardinality(Recent(query, week))
           /\ "deleted" \notin disturbed' =>
                 /\ Cardinality(LeadsOf(query)) <= Cardinality(LeadsOf(query))'
                 /\ Cardinality(Recent(query, since)) <= Cardinality(Recent(query, since))'
           /\ disturbed' \cap {"created", "deleted"} = {} => Rows(query)' = Rows(query)
           /\ disturbed' \cap {"created", "toggled", "deleted"} = {} =>
                 ActiveRows(query)' = ActiveRows(query)
<1>1. query' = query /\ since' = since /\ week <= week'
  BY DEF Others
<1>2. /\ IsFiniteSet(LeadsOf(query)) /\ IsFiniteSet(LeadsOf(query)')
      /\ IsFiniteSet(Recent(query, week)) /\ IsFiniteSet(Recent(query, since)')
  <2>1. IsFiniteSet(LeadsOf(query)) /\ Recent(query, week) \subseteq LeadsOf(query)
    BY LeadsAreFinite DEF Recent
  <2>2. \A q : IsFiniteSet(LeadsOf(q))
    BY LeadsAreFinite
  <2>3. \A q : IsFiniteSet(LeadsOf(q)')
    <3> SUFFICES ASSUME NEW q PROVE IsFiniteSet(LeadsOf(q)')
      OBVIOUS
    <3>1. IsFiniteSet(leads')
      BY DEF Typed
    <3>2. LeadsOf(q)' \subseteq leads'
      BY DEF LeadsOf
    <3> QED
      BY <3>1, <3>2, FS_Subset
  <2>4. Recent(query, since)' \subseteq LeadsOf(query)'
    BY DEF Recent
  <2>5. IsFiniteSet(LeadsOf(query)')
    BY <1>1, <2>3 DEF LeadsOf, Mine
  <2> QED
    BY <2>1, <2>4, <2>5, FS_Subset
<1>3. ASSUME "stored" \notin disturbed'
      PROVE  /\ Cardinality(LeadsOf(query))' <= Cardinality(LeadsOf(query))
             /\ Cardinality(Recent(query, week))' <= Cardinality(Recent(query, week))
  <2>1. leads' \subseteq leads
    BY <1>3 DEF Others
  <2>2. LeadsOf(query)' \subseteq LeadsOf(query)
    BY <1>1, <2>1 DEF LeadsOf, Mine
  <2>3. \A l \in leads' : l.id \in Nat
    BY PageAssumption DEF Typed, Row, Lead
  <2>4. Recent(query, week)' \subseteq Recent(query, week)
    <3>1. \A l \in LeadsOf(query)' : l.id > week' => l.id > week
      BY <1>1, <2>3 DEF LeadsOf, Typed
    <3> QED
      BY <2>2, <3>1 DEF Recent
  <2> QED
    BY <1>2, <2>2, <2>4, Fewer
<1>4. ASSUME "deleted" \notin disturbed'
      PROVE  /\ Cardinality(LeadsOf(query)) <= Cardinality(LeadsOf(query))'
             /\ Cardinality(Recent(query, since)) <= Cardinality(Recent(query, since))'
  <2>1. leads \subseteq leads'
    BY <1>4 DEF Others
  <2>2. LeadsOf(query) \subseteq LeadsOf(query)'
    BY <1>1, <2>1 DEF LeadsOf, Mine
  <2>3. Recent(query, since) \subseteq Recent(query, since)'
    BY <1>1, <2>2 DEF Recent
  <2> QED
    BY <1>2, <2>2, <2>3, Fewer
<1>5. ASSUME disturbed' \cap {"created", "deleted"} = {} PROVE Rows(query)' = Rows(query)
  <2>1. \A w \in Widget : There(w)' = There(w)
    BY <1>5 DEF Others
  <2> QED
    BY <1>1, <2>1 DEF Rows, Finds
<1>6. ASSUME disturbed' \cap {"created", "toggled", "deleted"} = {}
      PROVE  ActiveRows(query)' = ActiveRows(query)
  <2>1. Rows(query)' = Rows(query) /\ state' = state
    <3>1. disturbed' \cap {"created", "deleted"} = {}
      BY <1>6
    <3> QED
      BY <1>5, <1>6, <3>1 DEF Others
  <2> QED
    BY <2>1 DEF ActiveRows
<1> QED
  BY <1>3, <1>4, <1>5, <1>6

LEMMA CountsTyped ==
    ASSUME Typed
    PROVE  /\ Cardinality(LeadsOf(query)) \in Nat
           /\ Cardinality({l \in LeadsOf(query) : l.enriched}) <= Cardinality(LeadsOf(query))
           /\ Cardinality({l \in LeadsOf(query) : l.enriched}) \in Nat
           /\ \A b : /\ Cardinality(Recent(query, b)) \in Nat
                     /\ Cardinality(Recent(query, b)) <= Cardinality(LeadsOf(query))
BY CountOfLeads DEF Recent

LEMMA GotTyped ==
    ASSUME Typed
    PROVE  \A n \in Names : got[n] \in Nat
BY DEF Typed

LEMMA OthersKeepBounds ==
    ASSUME Typed, Typed', Others, Bounds
    PROVE  Bounds'
<1>1. UNCHANGED <<query, step, since, got>>
  BY DEF Others
<1>2. SUFFICES ASSUME step # 0 PROVE SummaryBounds' /\ StatsBounds'
  BY <1>1 DEF Bounds
<1>3. disturbed \subseteq disturbed'
  BY <1>2 DEF Others
<1>4. \A kinds : Without(kinds)' => Without(kinds)
  BY <1>3 DEF Without
<1>5. \A n \in Names : got[n] \in Nat
  BY GotTyped
<1>6. /\ Without({"stored"})' => "stored" \notin disturbed'
      /\ Without({"deleted"})' => "deleted" \notin disturbed'
      /\ Without({"created", "deleted"})' <=> disturbed' \cap {"created", "deleted"} = {}
      /\ Without({"created", "toggled", "deleted"})' <=> disturbed' \cap {"created", "toggled", "deleted"} = {}
  BY DEF Without
<1> DEFINE all == Cardinality(LeadsOf(query))
           weeks == Cardinality(Recent(query, week))
           days == Cardinality(Recent(query, since))
<1>7. /\ all \in Nat /\ weeks \in Nat /\ days \in Nat
      /\ all' \in Nat /\ weeks' \in Nat /\ days' \in Nat
  <2>1. all \in Nat /\ weeks \in Nat /\ days \in Nat
    BY CountsTyped
  <2>2. IsFiniteSet(LeadsOf(query)')
    <3>1. IsFiniteSet(leads') /\ LeadsOf(query)' \subseteq leads'
      BY DEF Typed, LeadsOf
    <3> QED
      BY <3>1, FS_Subset
  <2>3. Recent(query, week)' \subseteq LeadsOf(query)' /\ Recent(query, since)' \subseteq LeadsOf(query)'
    BY DEF Recent
  <2> QED
    BY <2>1, <2>2, <2>3, Fewer
<1>8. /\ "stored" \notin disturbed' => all' <= all /\ weeks' <= weeks
      /\ "deleted" \notin disturbed' => all <= all' /\ days <= days'
  BY <1>2, OthersCount
<1>9. /\ Without({"created", "deleted"})' => Rows(query)' = Rows(query)
      /\ Without({"created", "toggled", "deleted"})' => ActiveRows(query)' = ActiveRows(query)
  BY <1>2, <1>6, OthersCount
<1>10. SummaryBounds /\ StatsBounds
  BY <1>2 DEF Bounds
<1>11. SummaryBounds'
  <2> SUFFICES ASSUME query.op = "summary" PROVE SummaryBounds'
    BY <1>1 DEF SummaryBounds
  <2>1. /\ step > 1 /\ Without({"created", "deleted"})' => got["widgets"] = Cardinality(Rows(query)')
        /\ step > 2 /\ Without({"created", "toggled", "deleted"})' =>
              got["active"] = Cardinality(ActiveRows(query)')
    BY <1>4, <1>9, <1>10 DEF SummaryBounds
  <2>2. step > 3 /\ Without({"stored"})' => all' <= got["total"]
    BY <1>4, <1>5, <1>6, <1>7, <1>8, <1>10 DEF SummaryBounds, Names
  <2>3. step > 3 /\ Without({"deleted"})' => got["total"] <= all'
    BY <1>4, <1>5, <1>6, <1>7, <1>8, <1>10 DEF SummaryBounds, Names
  <2>4. step > 7 /\ Without({"deleted"})' => got["last24h"] <= days'
    BY <1>4, <1>5, <1>6, <1>7, <1>8, <1>10 DEF SummaryBounds, Names
  <2>5. /\ step > 4 /\ Without({"stored"})' => got["enriched"] <= got["total"]
        /\ step > 6 /\ Without({"created", "deleted"})' => got["rows"] = got["widgets"]
        /\ step > 6 /\ Without({"created", "toggled", "deleted"})' => got["rowsActive"] = got["active"]
        /\ step > 6 /\ Without({"stored"})' => got["perWidget"] <= got["total"]
        /\ step > 6 /\ Without({"deleted"})' => got["total"] <= got["perWidget"]
        /\ step > 8 /\ Without({"stored"})' => got["last7d"] <= got["total"]
        /\ step > 8 /\ Without({"deleted"})' => got["last24h"] <= got["last7d"]
    BY <1>4, <1>10 DEF SummaryBounds
  <2> QED
    BY <1>1, <2>1, <2>2, <2>3, <2>4, <2>5 DEF SummaryBounds
<1>12. StatsBounds'
  <2> SUFFICES ASSUME query.op = "stats" PROVE StatsBounds'
    BY <1>1 DEF StatsBounds
  <2>1. /\ step > 1 /\ Without({"stored"})' => weeks' <= got["byDay"]
        /\ step > 2 /\ Without({"stored"})' => all' <= got["byCountry"]
    BY <1>4, <1>5, <1>6, <1>7, <1>8, <1>10 DEF StatsBounds, Names
  <2>2. /\ step > 1 /\ Without({"deleted"})' => got["byDay"] <= all'
        /\ step > 2 /\ Without({"deleted"})' => got["byCountry"] <= all'
    BY <1>4, <1>5, <1>6, <1>7, <1>8, <1>10 DEF StatsBounds, Names
  <2>3. /\ step > 2 /\ Without({"deleted"})' => got["byDay"] <= got["byCountry"]
        /\ step > 3 /\ Without({"stored"})' => got["total"] <= got["byCountry"]
        /\ step > 3 /\ Without({"deleted"})' => got["byCountry"] <= got["total"]
        /\ step > 4 /\ Without({"stored"})' => got["last7d"] <= got["byDay"]
    BY <1>4, <1>10 DEF StatsBounds
  <2> QED
    BY <1>1, <2>1, <2>2, <2>3 DEF StatsBounds
<1> QED
  BY <1>11, <1>12

LEMMA ReadKeepsBounds ==
    ASSUME Typed, Asked, Copies, Read, Bounds
    PROVE  Bounds'
<1>1. /\ UNCHANGED <<state, leads, spam, day, week, month, query, since, disturbed>>
      /\ step' = step + 1 /\ step # 0 /\ step \in Nat
  BY DEF Read, dbVars, clockVars, Typed
<1>2. SummaryBounds /\ StatsBounds
  BY <1>1 DEF Bounds
<1>3. \A n \in Names : got[n] \in Nat
  BY GotTyped
<1>4. \A kinds : Without(kinds)' <=> Without(kinds)
  BY <1>1 DEF Without
<1> DEFINE all == Cardinality(LeadsOf(query))
           good == Cardinality({l \in LeadsOf(query) : l.enriched})
           recent(b) == Cardinality(Recent(query, b))
           rows == Cardinality(Rows(query))
           act == Cardinality(ActiveRows(query))
<1>5. LeadsOf(query)' = LeadsOf(query) /\ Rows(query)' = Rows(query)
  BY <1>1 DEF LeadsOf, Mine, Rows, Finds, There
<1>6. /\ Recent(query, week)' = Recent(query, week) /\ Recent(query, since)' = Recent(query, since)
      /\ ActiveRows(query)' = ActiveRows(query)
  BY <1>1, <1>5 DEF Recent, ActiveRows
<1>7. all \in Nat /\ good \in Nat /\ good <= all
      /\ recent(day) \in Nat /\ recent(week) \in Nat /\ recent(month) \in Nat /\ recent(since) \in Nat
      /\ recent(week) <= all /\ recent(month) <= all
  BY CountsTyped
<1>8. recent(day) <= recent(since) /\ recent(since) <= recent(week) /\ recent(week) <= recent(month)
  <2>1. \A b \in Nat, c \in Nat : b <= c => recent(c) <= recent(b)
    <3> SUFFICES ASSUME NEW b \in Nat, NEW c \in Nat, b <= c PROVE recent(c) <= recent(b)
      OBVIOUS
    <3>1. \A l \in LeadsOf(query) : l.id \in Nat
      BY PageAssumption DEF LeadsOf, Typed, Row, Lead
    <3>2. Recent(query, c) \subseteq Recent(query, b)
      BY <3>1 DEF Recent
    <3>3. IsFiniteSet(Recent(query, b))
      BY LeadsAreFinite, Fewer DEF Recent
    <3> QED
      BY <3>2, <3>3, Fewer
  <2> QED
    BY <1>1, <2>1 DEF Typed, Asked
<1>9. SummaryBounds'
  <2> SUFFICES ASSUME query.op = "summary" PROVE SummaryBounds'
    BY <1>1 DEF SummaryBounds
  <2> DEFINE each == Cardinality({l \in leads : l.widget \in Rows(query)})
  <2>1. each = all
    <3>1. query.widget = None
      BY <1>1 DEF Asked
    <3> QED
      BY <3>1, SummaryLeads
  <2>2. /\ step <= 8
        /\ got'["widgets"] = IF step = 1 THEN rows ELSE got["widgets"]
        /\ got'["active"] = IF step = 2 THEN act ELSE got["active"]
        /\ got'["total"] = IF step = 3 THEN all ELSE got["total"]
        /\ got'["enriched"] = IF step = 4 THEN good ELSE got["enriched"]
        /\ got'["rows"] = IF step = 6 THEN rows ELSE got["rows"]
        /\ got'["rowsActive"] = IF step = 6 THEN act ELSE got["rowsActive"]
        /\ got'["perWidget"] = IF step = 6 THEN all ELSE got["perWidget"]
        /\ got'["last24h"] = IF step = 7 THEN recent(day) ELSE got["last24h"]
        /\ got'["last7d"] = IF step = 8 THEN recent(week) ELSE got["last7d"]
    BY <2>1, ReadSummary
  <2>3. /\ got["widgets"] \in Nat /\ got["active"] \in Nat /\ got["total"] \in Nat /\ got["enriched"] \in Nat
        /\ got["rows"] \in Nat /\ got["rowsActive"] \in Nat /\ got["perWidget"] \in Nat
        /\ got["last24h"] \in Nat /\ got["last7d"] \in Nat
    BY <1>3 DEF Names
  <2> HIDE DEF all, good, rows, act, recent
  <2>4. /\ step' > 1 /\ Without({"created", "deleted"}) => got'["widgets"] = rows
        /\ step' > 2 /\ Without({"created", "toggled", "deleted"}) => got'["active"] = act
        /\ step' > 6 /\ Without({"created", "deleted"}) => got'["rows"] = got'["widgets"]
        /\ step' > 6 /\ Without({"created", "toggled", "deleted"}) => got'["rowsActive"] = got'["active"]
    BY <1>1, <1>2, <2>2 DEF SummaryBounds, rows, act
  <2>5. /\ step' > 3 /\ Without({"stored"}) => all <= got'["total"]
        /\ step' > 4 /\ Without({"stored"}) => got'["enriched"] <= got'["total"]
        /\ step' > 6 /\ Without({"stored"}) => got'["perWidget"] <= got'["total"]
        /\ step' > 8 /\ Without({"stored"}) => got'["last7d"] <= got'["total"]
    BY <1>1, <1>2, <1>7, <1>8, <2>2, <2>3 DEF SummaryBounds, all
  <2>6. /\ step' > 3 /\ Without({"deleted"}) => got'["total"] <= all
        /\ step' > 6 /\ Without({"deleted"}) => got'["total"] <= got'["perWidget"]
        /\ step' > 7 /\ Without({"deleted"}) => got'["last24h"] <= recent(since)
        /\ step' > 8 /\ Without({"deleted"}) => got'["last24h"] <= got'["last7d"]
    BY <1>1, <1>2, <1>7, <1>8, <2>2, <2>3 DEF SummaryBounds, all, recent
  <2> USE DEF all, rows, act, recent
  <2> QED
    BY <1>1, <1>4, <1>5, <1>6, <2>4, <2>5, <2>6 DEF SummaryBounds
<1>10. StatsBounds'
  <2> SUFFICES ASSUME query.op = "stats" PROVE StatsBounds'
    BY <1>1 DEF StatsBounds
  <2>1. /\ step <= 5
        /\ got'["byDay"] = IF step = 1 THEN recent(month) ELSE got["byDay"]
        /\ got'["byCountry"] = IF step = 2 THEN all ELSE got["byCountry"]
        /\ got'["total"] = IF step = 3 THEN all ELSE got["total"]
        /\ got'["last7d"] = IF step = 4 THEN recent(week) ELSE got["last7d"]
    BY ReadStats
  <2>2. /\ got["byDay"] \in Nat /\ got["byCountry"] \in Nat /\ got["total"] \in Nat /\ got["last7d"] \in Nat
    BY <1>3 DEF Names
  <2> HIDE DEF all, recent
  <2>3. /\ step' > 1 /\ Without({"stored"}) => recent(week) <= got'["byDay"]
        /\ step' > 2 /\ Without({"stored"}) => all <= got'["byCountry"]
        /\ step' > 3 /\ Without({"stored"}) => got'["total"] <= got'["byCountry"]
        /\ step' > 4 /\ Without({"stored"}) => got'["last7d"] <= got'["byDay"]
    BY <1>1, <1>2, <1>7, <1>8, <2>1, <2>2 DEF StatsBounds, all, recent
  <2>4. /\ step' > 1 /\ Without({"deleted"}) => got'["byDay"] <= all
        /\ step' > 2 /\ Without({"deleted"}) => got'["byCountry"] <= all
        /\ step' > 2 /\ Without({"deleted"}) => got'["byDay"] <= got'["byCountry"]
        /\ step' > 3 /\ Without({"deleted"}) => got'["byCountry"] <= got'["total"]
    BY <1>1, <1>2, <1>7, <1>8, <2>1, <2>2 DEF StatsBounds, all
  <2> USE DEF all, recent
  <2> QED
    BY <1>1, <1>4, <1>5, <1>6, <2>3, <2>4 DEF StatsBounds
<1> QED
  BY <1>9, <1>10 DEF Bounds

-----------------------------------------------------------------------------
(* The walk through the pages.                                             *)

LEMMA AskKeepsWalk ==
    ASSUME Typed, NEW q \in Query, Ask(q)
    PROVE  Walk'
<1> USE PageAssumption
<1>1. /\ query' = q /\ step' = 1 /\ offset' = 0 /\ shown' = <<>> /\ leads' = leads
      /\ (q.op = "list" => standing' = IdsOf(q))
  BY DEF Ask, dbVars
<1>2. SUFFICES ASSUME q.op = "list" PROVE Walk'
  BY <1>1 DEF Walk
<1>3. IdsOf(query)' = IdsOf(q)
  BY <1>1 DEF IdsOf, LeadsOf, Mine
<1>4. Reach' = 0
  BY <1>1 DEF Reach
<1>5. \A id \in IdsOf(q) : Place(id, IdsOf(q)) \in Nat /\ ~(Place(id, IdsOf(q)) <= 0)
  <2>1. IdsOf(q) \in SUBSET Nat /\ IsFiniteSet(IdsOf(q)) /\ Cardinality(IdsOf(q)) \in Nat
    BY IdsAreFinite, FS_CardinalityType
  <2>2. \A id \in IdsOf(q) : Place(id, IdsOf(q)) \in 1..Cardinality(IdsOf(q))
    BY <2>1, PlaceRange
  <2> QED
    BY <2>1, <2>2
<1>6. Shown' = {} /\ 1..Len(shown') = {}
  BY <1>1 DEF Shown
<1>7. standing' = IdsOf(q)
  BY <1>1, <1>2
<1>8. /\ standing' \subseteq IdsOf(query)'
      /\ \A id \in standing' : Place(id, IdsOf(query)') <= Reach' => id \in Shown'
  BY <1>3, <1>4, <1>5, <1>7
<1> QED
  BY <1>1, <1>3, <1>6, <1>8 DEF Walk, Place

\* What else is shown by one page more.
LEMMA OnePageMore ==
    ASSUME Typed, NEW page \in SUBSET Lead, shown' = Append(shown, page)
    PROVE  /\ Len(shown) \in Nat /\ Len(shown') = Len(shown) + 1
           /\ \A i \in 1..Len(shown) : shown'[i] = shown[i]
           /\ shown'[Len(shown')] = page
           /\ Shown' = Shown \cup page
<1>1. shown \in Seq(SUBSET Lead)
  BY DEF Typed
<1>2. /\ Len(shown) \in Nat /\ Len(shown') = Len(shown) + 1
      /\ \A i \in 1..Len(shown) : shown'[i] = shown[i]
      /\ shown'[Len(shown')] = page
  BY <1>1, AppendProperties, LenProperties
<1>3. 1..Len(shown') = 1..Len(shown) \cup {Len(shown')}
  BY <1>2
<1>4. Shown' = Shown \cup page
  BY <1>2, <1>3 DEF Shown
<1> QED
  BY <1>2, <1>4

LEMMA ReadPageKeepsWalk ==
    ASSUME Typed, Walk, ReadPage
    PROVE  Walk'
<1> USE PageAssumption
<1> DEFINE ids == IdsOf(query)
           page == {id \in ids : Place(id, ids) \in (offset + 1)..(offset + Page)}
<1>1. /\ query.op = "list" /\ step = 2 /\ step' = 3 /\ offset' = offset /\ query' = query
      /\ shown' = Append(shown, page) /\ standing' = standing /\ disturbed' = disturbed
      /\ leads' = leads
  BY DEF ReadPage, dbVars, PageAt
<1>2. ids \subseteq Lead /\ ids \in SUBSET Nat /\ IsFiniteSet(ids) /\ Cardinality(ids) \in Nat
  BY IdsAreFinite, FS_CardinalityType
<1>3. \A id \in ids : Place(id, ids) \in Nat
  <2>1. \A id \in ids : Place(id, ids) \in 1..Cardinality(ids)
    BY <1>2, PlaceRange
  <2> QED
    BY <1>2, <2>1
<1>4. IdsOf(query)' = ids
  BY <1>1 DEF IdsOf, LeadsOf, Mine
<1>5. page \in SUBSET Lead
  BY <1>2
<1>6. /\ Len(shown) \in Nat /\ Len(shown') = Len(shown) + 1
      /\ \A i \in 1..Len(shown) : shown'[i] = shown[i]
      /\ shown'[Len(shown')] = page
      /\ Shown' = Shown \cup page
  BY <1>1, <1>5, OnePageMore
<1>7. /\ Reach = offset /\ Reach' = offset + Page /\ offset \in Nat
  BY <1>1 DEF Reach, Typed
<1>8. \A kinds : Without(kinds)' <=> Without(kinds)
  BY <1>1 DEF Without
<1> HIDE DEF ids
<1>9. ASSUME Without({"deleted"})
      PROVE  /\ standing \subseteq ids
             /\ \A id \in standing : Place(id, ids) <= offset + Page => id \in Shown'
             /\ ~Full(page) => standing \subseteq Shown'
  <2>1. /\ standing \subseteq ids
        /\ \A id \in standing : Place(id, ids) <= offset => id \in Shown
    BY <1>1, <1>7, <1>9 DEF Walk, ids
  <2>2. ASSUME NEW id \in standing, Place(id, ids) <= offset + Page PROVE id \in Shown'
    <3>1. id \in ids /\ Place(id, ids) \in Nat
      BY <1>3, <2>1
    <3>2. CASE Place(id, ids) <= offset
      BY <1>6, <2>1, <3>2
    <3>3. CASE ~(Place(id, ids) <= offset)
      <4>1. Place(id, ids) \in (offset + 1)..(offset + Page)
        BY <1>7, <2>2, <3>1, <3>3
      <4> QED
        BY <1>6, <3>1, <4>1
    <3> QED
      BY <3>2, <3>3
  <2>3. ASSUME ~Full(page) PROVE standing \subseteq Shown'
    <3>1. \A id \in ids : Place(id, ids) <= offset + Page
      BY <1>2, <1>7, <2>3, PageNotFull
    <3> QED
      BY <2>1, <2>2, <3>1
  <2> QED
    BY <2>1, <2>2, <2>3
<1>10. ASSUME Without({"stored"})
       PROVE  /\ \A id \in Shown' \cap ids : Place(id, ids) <= offset + Page
              /\ \A i, j \in 1..Len(shown') : i # j => shown'[i] \cap shown'[j] = {}
  <2>1. /\ \A id \in Shown \cap ids : Place(id, ids) <= offset
        /\ \A i, j \in 1..Len(shown) : i # j => shown[i] \cap shown[j] = {}
    BY <1>1, <1>7, <1>10 DEF Walk, ids
  <2>2. \A id \in page : id \in ids /\ Place(id, ids) \in Nat /\ Place(id, ids) <= offset + Page
                         /\ ~(Place(id, ids) <= offset)
    BY <1>7
  <2>3. \A id \in Shown' \cap ids : Place(id, ids) <= offset + Page
    BY <1>3, <1>6, <1>7, <2>1, <2>2
  <2>4. page \cap Shown = {}
    BY <2>1, <2>2
  <2>5. \A i \in 1..Len(shown) : shown[i] \subseteq Shown
    BY DEF Shown
  <2>6. \A i \in 1..Len(shown') : i \in 1..Len(shown) \/ i = Len(shown')
    BY <1>6
  <2>7. \A i \in 1..Len(shown) : shown'[i] \cap page = {}
    BY <1>6, <2>4, <2>5
  <2>8. \A i, j \in 1..Len(shown') : i # j => shown'[i] \cap shown'[j] = {}
    BY <1>6, <2>1, <2>6, <2>7
  <2> QED
    BY <2>3, <2>8
<1>11. LastPage' = page /\ shown' # <<>>
  BY <1>6 DEF LastPage
<1>12. Full(LastPage)' <=> Full(page)
  BY <1>11 DEF Full
<1> HIDE DEF page
<1>13. /\ Without({"deleted"})' =>
              /\ standing' \subseteq IdsOf(query)'
              /\ \A id \in standing' : Place(id, IdsOf(query)') <= Reach' => id \in Shown'
              /\ step' = 3 /\ ~Full(LastPage)' => standing' \subseteq Shown'
  BY <1>1, <1>4, <1>7, <1>8, <1>9, <1>12
<1>14. /\ Without({"stored"})' =>
              /\ \A id \in Shown' \cap IdsOf(query)' : Place(id, IdsOf(query)') <= Reach'
              /\ \A i, j \in 1..Len(shown') : i # j => shown'[i] \cap shown'[j] = {}
  BY <1>4, <1>7, <1>8, <1>10
<1> QED
  BY <1>1, <1>11, <1>13, <1>14 DEF Walk, Place

LEMMA NextPageKeepsWalk ==
    ASSUME Typed, Walk, NextPage
    PROVE  Walk'
<1>1. /\ query.op = "list" /\ step = 3 /\ step' = 1 /\ offset' = offset + Page /\ query' = query
      /\ UNCHANGED <<shown, standing, disturbed, leads>>
  BY DEF NextPage, dbVars
<1>2. Reach' = Reach
  BY <1>1, PageAssumption DEF Reach, Typed
<1>3. IdsOf(query)' = IdsOf(query)
  BY <1>1 DEF IdsOf, LeadsOf, Mine
<1> QED
  BY <1>1, <1>2, <1>3 DEF Walk, Shown, Without, Place

LEMMA ReadKeepsWalk ==
    ASSUME Typed, Walk, Read
    PROVE  Walk'
<1>1. UNCHANGED <<query, offset, shown, standing, disturbed, leads>> /\ step' = step + 1 /\ step # 0
  BY DEF Read, dbVars, walkVars
<1>2. SUFFICES ASSUME query.op = "list" PROVE Walk'
  BY <1>1 DEF Walk
<1>3. step = 1
  <2>1. step <= Counts["list"]
    BY <1>2 DEF Read
  <2> QED
    BY <1>1, <2>1 DEF Counts, Typed
<1>4. Reach' = Reach
  BY <1>1, <1>3 DEF Reach
<1>5. IdsOf(query)' = IdsOf(query)
  BY <1>1 DEF IdsOf, LeadsOf, Mine
<1> QED
  BY <1>1, <1>3, <1>4, <1>5 DEF Walk, Shown, Without, Place

LEMMA OthersKeepWalk ==
    ASSUME Typed, Typed', Others, Walk
    PROVE  Walk'
<1>1. UNCHANGED <<query, step, offset, shown, standing>>
  BY DEF Others, walkVars
<1>2. SUFFICES ASSUME query.op = "list", step # 0 PROVE Walk'
  BY <1>1 DEF Walk
<1>3. disturbed \subseteq disturbed'
  BY <1>2 DEF Others
<1>4. \A kinds : Without(kinds)' => Without(kinds)
  BY <1>3 DEF Without
<1>5. Reach' = Reach /\ Shown' = Shown /\ LastPage' = LastPage
  BY <1>1 DEF Reach, Shown, LastPage
<1> DEFINE ids == IdsOf(query)
<1>6. ids \in SUBSET Nat /\ IsFiniteSet(ids)
  BY IdsAreFinite
<1>7. ids' \in SUBSET Nat /\ IsFiniteSet(ids')
  <2>1. ids' \subseteq Lead
    BY DEF IdsOf, LeadsOf, Typed, Row
  <2>2. IsFiniteSet(Lead) /\ Lead \subseteq Nat
    BY PageAssumption, FS_Interval DEF Lead
  <2> QED
    BY <2>1, <2>2, FS_Subset
<1>8. Without({"deleted"})' => ids \subseteq ids'
  BY <1>1, <1>2 DEF Others, Without, IdsOf, LeadsOf, Mine
<1>9. Without({"stored"})' => ids' \subseteq ids
  BY <1>1, <1>2 DEF Others, Without, IdsOf, LeadsOf, Mine
<1>10. Reach \in Nat
  BY PageAssumption DEF Reach, Typed
<1> HIDE DEF ids
<1>11. ASSUME Without({"deleted"})'
       PROVE  /\ standing \subseteq ids'
              /\ \A id \in standing : Place(id, ids') <= Reach => id \in Shown
              /\ step = 3 /\ ~Full(LastPage) => standing \subseteq Shown
  <2>1. /\ standing \subseteq ids
        /\ \A id \in standing : Place(id, ids) <= Reach => id \in Shown
        /\ step = 3 /\ ~Full(LastPage) => standing \subseteq Shown
    BY <1>2, <1>4, <1>11 DEF Walk, ids
  <2>2. \A id \in standing : Place(id, ids) \in Nat /\ Place(id, ids') \in Nat
                             /\ Place(id, ids) <= Place(id, ids')
    BY <1>7, <1>8, <1>11, <2>1, PlaceGrows
  <2> QED
    BY <1>8, <1>10, <1>11, <2>1, <2>2
<1>12. ASSUME Without({"stored"})'
       PROVE  /\ \A id \in Shown \cap ids' : Place(id, ids') <= Reach
              /\ \A i, j \in 1..Len(shown) : i # j => shown[i] \cap shown[j] = {}
  <2>1. /\ \A id \in Shown \cap ids : Place(id, ids) <= Reach
        /\ \A i, j \in 1..Len(shown) : i # j => shown[i] \cap shown[j] = {}
    BY <1>2, <1>4, <1>12 DEF Walk, ids
  <2>2. \A id \in ids' : Place(id, ids) \in Nat /\ Place(id, ids') \in Nat
                         /\ Place(id, ids') <= Place(id, ids)
    BY <1>6, <1>9, <1>12, PlaceGrows
  <2> QED
    BY <1>9, <1>10, <1>12, <2>1, <2>2
<1>13. Full(LastPage)' <=> Full(LastPage)
  BY <1>5 DEF Full
<1>14. step \in 1..3 /\ (step = 3 => shown # <<>>)
  BY <1>2 DEF Walk
<1>15. ids' = IdsOf(query)'
  BY DEF ids
<1> QED
  BY <1>1, <1>5, <1>11, <1>12, <1>13, <1>14, <1>15 DEF Walk, Place

-----------------------------------------------------------------------------
(* The invariant.                                                          *)

LEMMA InitIInv == Init => IInv
<1> SUFFICES ASSUME Init PROVE IInv
  OBVIOUS
<1>1. step = 0 /\ query.op = "none"
  BY DEF Init, NoQuery
<1> QED
  BY <1>1, InitTyped DEF IInv, Bounds, Walk

LEMMA NextIInv == IInv /\ [Next]_vars => IInv'
<1> SUFFICES ASSUME IInv, [Next]_vars PROVE IInv'
  OBVIOUS
<1> USE DEF IInv
<1>1. ASSUME NEW q \in Query, Ask(q) PROVE IInv'
  <2>1. Typed' /\ Asked' /\ Copies'
    BY <1>1, OwnTyped
  <2>2. Bounds'
    BY <1>1 DEF Ask, Bounds, SummaryBounds, StatsBounds
  <2> QED
    BY <1>1, <2>1, <2>2, AskKeepsWalk
<1>2. CASE Read
  BY <1>2, OwnTyped, ReadKeepsBounds, ReadKeepsWalk
<1>3. CASE ReadPage
  <2>1. Typed' /\ Asked' /\ Copies'
    BY <1>3, OwnTyped
  <2>2. Bounds'
    BY <1>3 DEF ReadPage, Bounds, SummaryBounds, StatsBounds
  <2> QED
    BY <1>3, <2>1, <2>2, ReadPageKeepsWalk
<1>4. CASE NextPage
  <2>1. Typed' /\ Asked' /\ Copies'
    BY <1>4, OwnTyped
  <2>2. Bounds'
    BY <1>4 DEF NextPage, Bounds, SummaryBounds, StatsBounds
  <2> QED
    BY <1>4, <2>1, <2>2, NextPageKeepsWalk
<1>5. CASE Finish
  <2>1. Typed' /\ Asked' /\ Copies'
    BY <1>5, OwnTyped
  <2>2. step' = 0
    BY <1>5 DEF Finish
  <2> QED
    BY <2>1, <2>2 DEF Bounds, Walk
<1>6. ASSUME NEW w \in Widget, (\E id \in Lead : StoreLead(w, id)) \/ Commit(w) PROVE IInv'
  <2>1. Typed' /\ Asked' /\ Copies'
    BY <1>6, CommitTyped, CommitAsked
  <2>2. Others
    BY <1>6, CommitIsOthers
  <2> QED
    BY <2>1, <2>2, OthersKeepBounds, OthersKeepWalk
<1>7. ASSUME NEW d \in 0..Newest, NEW k \in 0..Newest, NEW m \in 0..Newest, Older(d, k, m) PROVE IInv'
  <2>1. Typed' /\ Asked' /\ Copies'
    BY <1>7, OlderTyped
  <2>2. Others
    BY <1>7, OlderIsOthers
  <2> QED
    BY <2>1, <2>2, OthersKeepBounds, OthersKeepWalk
<1>8. CASE UNCHANGED vars
  <2>1. Typed' /\ Asked' /\ Copies'
    BY <1>8, IdleTyped
  <2>2. Bounds' /\ Walk'
    BY <1>8 DEF vars, dbVars, clockVars, walkVars, Bounds, SummaryBounds, StatsBounds, Walk, Reach,
                Shown, Without, IdsOf, LeadsOf, Mine, Place, Rows, ActiveRows, Recent, Finds, There,
                Full, LastPage
  <2> QED
    BY <2>1, <2>2
<1> QED
  <2>1. CASE Next
    BY <1>1, <1>2, <1>3, <1>4, <1>5, <1>6, <1>7, <2>1 DEF Next, Commit
  <2> QED
    BY <1>8, <2>1

\* The inductive invariant holds in every reachable state.
THEOREM Invariance == Spec => []IInv
<1>1. Init => IInv
  BY InitIInv
<1>2. IInv /\ [Next]_vars => IInv'
  BY NextIInv
<1> QED
  BY <1>1, <1>2, PTL DEF Spec

\* The numbers of one answer agree, unless a commit of a kind that parts them
\* came between the statements that count them.
THEOREM NumbersAgreeAlways == Spec => []NumbersAgree
<1>1. IInv => NumbersAgree
  <2> SUFFICES ASSUME IInv PROVE NumbersAgree
    OBVIOUS
  <2>1. \A n \in Names : got[n] \in Nat
    BY GotTyped DEF IInv
  <2>2. \A kinds \in SUBSET Kinds : Without(kinds) <=> disturbed \cap kinds = {}
    BY DEF Without
  <2>3. Without({"stored", "deleted"}) => Without({"stored"}) /\ Without({"deleted"})
    BY DEF Without
  <2>4. ASSUME query.op = "summary", Complete
        PROVE  /\ Without({"stored"}) => got["enriched"] <= got["total"] /\ got["last7d"] <= got["total"]
               /\ Without({"deleted"}) => got["last24h"] <= got["last7d"] /\ got["total"] <= got["perWidget"]
               /\ Without({"stored", "deleted"}) => got["perWidget"] = got["total"]
               /\ Without({"created", "deleted"}) => got["rows"] = got["widgets"]
               /\ Without({"created", "toggled", "deleted"}) => got["rowsActive"] = got["active"]
    <3>1. step = 9
      BY <2>4 DEF Complete, Counts
    <3>2. SummaryBounds
      BY <3>1 DEF IInv, Bounds
    <3>3. got["perWidget"] \in Nat /\ got["total"] \in Nat
      BY <2>1 DEF Names
    <3> QED
      BY <2>3, <2>4, <3>1, <3>2, <3>3 DEF SummaryBounds
  <2>5. ASSUME query.op = "stats", Complete
        PROVE  /\ Without({"stored"}) => got["last7d"] <= got["byDay"] /\ got["total"] <= got["byCountry"]
               /\ Without({"deleted"}) => got["byDay"] <= got["byCountry"] /\ got["byCountry"] <= got["total"]
    <3>1. step = 6
      BY <2>5 DEF Complete, Counts
    <3>2. StatsBounds
      BY <3>1 DEF IInv, Bounds
    <3> QED
      BY <2>5, <3>1, <3>2 DEF StatsBounds
  <2> QED
    BY <2>4, <2>5 DEF NumbersAgree
<1> QED
  BY <1>1, Invariance, PTL

\* A walk through the pages misses no lead that was there when it began,
\* unless leads were deleted, and shows none twice, unless leads were stored.
THEOREM WalkIsCompleteAlways == Spec => []WalkIsComplete
<1>1. IInv => WalkIsComplete
  BY DEF IInv, Walk, WalkIsComplete, Complete, Shown
<1> QED
  BY <1>1, Invariance, PTL

\* As long as nothing happens to a tenant's own widgets, no commit of another
\* tenant changes what the statements of the tenant's request would give.
THEOREM OthersChangeNothingAlways == Spec => OthersChangeNothing
<1> DEFINE Isolated ==
      step # 0 /\ UNCHANGED clockVars /\ Undisturbed(query.tenant) => View(query)' = View(query)
<1>1. ASSUME IInv, IInv', [Next]_vars PROVE [Isolated]_dbVars
  <2> SUFFICES ASSUME step # 0, UNCHANGED clockVars, Undisturbed(query.tenant), dbVars' # dbVars
               PROVE  View(query)' = View(query)
    OBVIOUS
  <2>1. UNCHANGED <<query, offset>>
    <3>1. PICK w \in Widget : (\E id \in Lead : StoreLead(w, id)) \/ Commit(w)
      BY <1>1 DEF Next, Commit, Ask, Read, ReadPage, NextPage, Finish, Older, vars
    <3> QED
      BY <3>1 DEF StoreLead, Commit, RecordSpam, CreateWidget, ToggleWidget, DeleteWidget, Meanwhile, walkVars
  <2> DEFINE own == {w \in Widget : Owner[w] = query.tenant}
  <2>2. /\ \A w \in own : state'[w] = state[w]
        /\ \A l : l.widget \in own => (l \in leads' <=> l \in leads)
        /\ \A s : s.widget \in own => (s \in spam' <=> s \in spam)
    BY DEF Undisturbed
  <2>3. /\ \A l \in leads : l.widget \in Widget /\ l.tenant = Owner[l.widget]
        /\ \A l \in leads' : l.widget \in Widget /\ l.tenant = Owner[l.widget]
        /\ \A s \in spam : s.widget \in Widget /\ s.tenant = Owner[s.widget]
        /\ \A s \in spam' : s.widget \in Widget /\ s.tenant = Owner[s.widget]
    BY <1>1 DEF IInv, Typed, Copies, Row, SpamRow
  <2>4. query.widget # None => query.widget \in own
    <3>1. query \in Query /\ (query.widget # None => Owner[query.widget] = query.tenant)
      BY <1>1 DEF IInv, Asked
    <3> QED
      BY <3>1 DEF Query
  <2>5. \A w \in Widget : Finds(query, w)' <=> Finds(query, w)
    BY <2>1, <2>2 DEF Finds, There
  <2>6. LeadsOf(query)' = LeadsOf(query)
    BY <2>1, <2>2, <2>3 DEF LeadsOf, Mine
  <2>7. SpamOf(query)' = SpamOf(query)
    BY <2>1, <2>2, <2>3, <2>4 DEF SpamOf
  <2>8. Rows(query)' = Rows(query)
    BY <2>5 DEF Rows
  <2>9. \A w \in Rows(query) : w \in own
    BY DEF Rows, Finds
  <2>10. {l \in leads : l.widget \in Rows(query)}' = {l \in leads : l.widget \in Rows(query)}
    BY <2>2, <2>8, <2>9
  <2>11. /\ {w \in Rows(query) : state[w] = "active"}' = {w \in Rows(query) : state[w] = "active"}
         /\ {w \in Widget : Finds(query, w)}' = {w \in Widget : Finds(query, w)}
         /\ {w \in Widget : Finds(query, w) /\ state[w] = "active"}'
            = {w \in Widget : Finds(query, w) /\ state[w] = "active"}
    <3>1. \A w \in Widget : Finds(query, w) => state'[w] = state[w]
      BY <2>2 DEF Finds
    <3> QED
      BY <2>2, <2>5, <2>8, <2>9, <3>1
  <2>12. Numbers(query)' = Numbers(query)
    <3>1. UNCHANGED <<day, week, month>>
      BY DEF clockVars
    <3> QED
      BY <2>6, <2>7, <2>8, <2>10, <2>11, <3>1 DEF Numbers
  <2>13. PageAt(query, offset)' = PageAt(query, offset)
    BY <2>1, <2>6 DEF PageAt, IdsOf, Place
  <2>14. (query.widget # None => Finds(query, query.widget))'
         <=> (query.widget # None => Finds(query, query.widget))
    BY <2>1, <2>4, <2>5
  <2> QED
    BY <2>12, <2>13, <2>14 DEF View
<1> QED
  <2>1. IInv /\ IInv' /\ [Next]_vars => [Isolated]_dbVars
    BY <1>1
  <2> QED
    BY <2>1, Invariance, PTL DEF Spec, OthersChangeNothing
===============================================================================
