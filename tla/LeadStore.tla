------------------------------ MODULE LeadStore ------------------------------
(***************************************************************************)
(* What the submission endpoint promises, with the endpoint left out.      *)
(*                                                                         *)
(* A lead is stored together with all the side effects it owes, in one     *)
(* step; a widget holds at most one lead per idempotency key; a request is *)
(* answered at most once with a lead, and only with its own lead or with   *)
(* the stored lead of the same widget and key; leads and their side        *)
(* effects leave the store only with their widget.                         *)
(***************************************************************************)
CONSTANTS
    Request,    \* submission requests; a lead is named by the request that stored it
    Widget,
    EventType,  \* kinds of side effect a lead can owe
    NoKey,      \* the request carries no Idempotency-Key header
    None        \* no lead

VARIABLES
    target,     \* widget each request addresses
    key,        \* idempotency key each request carries
    live,       \* widgets that exist
    rows,       \* stored leads
    events,     \* <<lead, type>> pairs of queued side effects
    leadId      \* lead each request was answered with, or None

avars == <<target, key, live, rows, events, leadId>>

SameKey(q, r) == key[q] # NoKey /\ key[q] = key[r] /\ target[q] = target[r]

AInit ==
    /\ live = Widget
    /\ rows = {}
    /\ events = {}
    /\ leadId = [r \in Request |-> None]

\* A request comes in; it has neither been stored nor answered.
Ask(r) ==
    /\ r \notin rows
    /\ leadId[r] = None
    /\ \A q \in Request : leadId[q] # r
    /\ \A q \in Request \ {r} : target'[q] = target[q] /\ key'[q] = key[q]
    /\ UNCHANGED <<live, rows, events, leadId>>

\* The lead and everything it owes become visible together.
Store(r) ==
    /\ target[r] \in live
    /\ r \notin rows
    /\ \A q \in rows : ~SameKey(q, r)
    /\ rows' = rows \cup {r}
    /\ \E owed \in SUBSET EventType : events' = events \cup ({r} \X owed)
    /\ UNCHANGED <<target, key, live, leadId>>

Answer(r) ==
    /\ leadId[r] = None
    /\ \E i \in rows :
          /\ i = r \/ SameKey(i, r)
          /\ leadId' = [leadId EXCEPT ![r] = i]
    /\ UNCHANGED <<target, key, live, rows, events>>

\* ON DELETE CASCADE takes the widget's leads and their side effects along.
Drop(w) ==
    /\ live' = live \ {w}
    /\ rows' = {r \in rows : target[r] # w}
    /\ events' = {e \in events : target[e[1]] # w}
    /\ UNCHANGED <<target, key, leadId>>

ANext ==
    \/ \E r \in Request : Ask(r) \/ Store(r) \/ Answer(r)
    \/ \E w \in Widget : Drop(w)

ASpec == AInit /\ [][ANext]_avars
==============================================================================
