# Lead-capture platform: TLA+ models, checks and proofs

The repository is an API (FastAPI, PostgreSQL) with which tenants define
widgets, embed them in any web site with one script tag, and collect what
visitors submit. The promises that are hard to keep are about concurrency and
failure: a lead that was acknowledged is stored, once per idempotency key,
together with the side effects it owes; side effects are retried without being
repeated needlessly; a flood is held off without burying anyone else; an edited
widget is not served from a stale cache for long; one busy corner of the
process does not starve the rest; tenants see their own data, and numbers that
agree. These modules model the code that makes those promises; `PROJECT.json`
maps every definition to its lines.

## 1. Inventory of the system

| Component | State it keeps | Operations | Hard part | What makes it correct |
|---|---|---|---|---|
| Submission endpoint (`routers/public.py`, `services/submission_service.py`) | rows of `submissions`, `spam_events`; the session's transaction | `POST /api/public/submissions` | a coroutine that awaits in the middle and runs synchronous statements around it; other processes; edits and deletes of the widget meanwhile; crashes | one lead per key and widget, answers name it; acknowledged = stored; lead and side effects together; errors leave nothing, but for a commit nobody heard of and a refresh that fails |
| Outbox (`outbox/worker.py`, `outbox/handlers.py`) | rows of `outbox_events`, row locks | claim a batch, run handlers, retry, dead-letter, commit | handlers act on the world before the commit; several drains; lost answers; the cascade of a delete | no double claim, bounded attempts, settled is final, repeats only after a loss, everything settles |
| Rate limiter (`ratelimit.py`) | a deque of times per IP and per widget, in memory | `check` | boundary of the window, rounding, two buckets consulted in order | no window over the limit, no refusal below it, honest advertisements |
| Widgets and their public config (`services/widget_service.py`, `routers/widgets.py`, config route of `public.py`) | rows of `widgets` with `config_version` | create, PATCH, DELETE, config with ETag | read-modify-write on threads; caches | a 304 confirms only what is current; bounded staleness |
| Embedded script (`static/widget.js`) | the rendered form, its clock, its button | load config, render, submit, show the answer | forms outlive the configuration they show; answers get lost | an honest visitor is refused only for a reason; one filling, one lead |
| Validation and spam (`schemas.py`, `spam.py`, `validate_against_widget`) | none | check one payload, gate after gate | agreement of script, schema and service; the order of the gates | accepted leads fit the widget until it is edited; bots do not learn why |
| Enrichment (`enrichment/`) | none | walk two providers | time-outs and errors of any kind during the submission | ends, never raises, never costs the lead |
| Connections (`db.py`) and the event loop | a pool of 5 + 10 connections | one session per request or drain | synchronous waits on the event loop, which others need to give connections back | no leak; every session ends |
| Accounts (`routers/auth.py`, `deps.py`, `security.py`) | rows of `tenants` | register, login, me; the seed script's upsert | races between SELECT and INSERT; tokens that outlive what they were issued for | one account per address; answers tell what happened; a token leads to its own account |
| Dashboard (`services/dashboard_service.py`) | none (reads) | summary, list, stats | several statements, several snapshots; pages by offset | numbers that agree; complete walks; isolation of tenants |
| Plumbing (`main.py`, `errors.py`, `config.py`, `routers/health.py`), migrations, seed data | none | middleware, error shape, tables | - | - |

Interactions. The endpoint reads a widget, asks the limiter, and commits leads
together with outbox rows; the worker, a task of the API process that drains on
a thread, reads those rows and calls mail server and webhooks; the tenant's
PATCH changes what the endpoint and the config route read; DELETE cascades to
leads, outbox and spam rows, and waits for the locks of flushed leads and
claimed events; the script gets its form from the config route through the
browser's cache and posts to the endpoint; all of them draw on one pool of
connections; the dashboard reads what the others have committed.

## 2. Modules

    LeadStore      <- Submission      <- MCSubmission,   SubmissionProofs
    SideEffects    <- Outbox          <- MCOutbox
    Submission, Outbox <- Pipeline    <- MCPipeline,     OutboxProofs
                      RateLimiter     <- MCRateLimiter,  RateLimiterProofs
                      WidgetConfig    <- MCWidgetConfig, WidgetConfigProofs
                      Intake                          <- IntakeProofs
                      ConnectionPool                  <- ConnectionPoolProofs
                      Accounts        <- MCAccounts,     AccountsProofs
                      Dashboard       <- MCDashboard,    DashboardProofs

`LeadStore` and `SideEffects` are abstract specifications; an arrow from
`Submission` and `Outbox` to them is a refinement, `Pipeline` is a composition.
A definition whose comment begins with "Variant" is a plausible slip of the
code it stands beside; nothing uses it, it serves to see that a property would
notice.

### Submission

`pc[r]` is the next statement of request `r`: `Lookup` (widget, origin, limiter,
spam, validation), `RecordSpam`, `FindByKey`, `Resume` (after `await
enrich_ip`), `Insert` (`db.flush`), `Conflict` (the `except IntegrityError`
branch), `Commit`, `Refresh`. Each is one action because PostgreSQL at READ
COMMITTED shows every statement what was committed before it. `loop[p]` is the
request that holds the event loop of process `p`: the coroutine gives it up at
the one `await` and at its end, so statements of requests of one process
interleave only there, those of two processes anywhere. An INSERT waits while
another session has flushed the same key (`Blocks`); DELETE of a widget waits
while a flushed row refers to it. `EditWidget` and `DeleteWidget` are the
tenant's concurrent calls, `Crash(p)` kills a process with all its requests.
Spam events are kept because writing one can fail like any insert. The checks
that need no database are a free choice among their outcomes (see Intake).

A statement may also fail for a reason outside the program: no connection within
the pool's time, a lost one, a value PostgreSQL refuses (an `ip` of more than 64
characters, a NUL in the data, a key of more than 128). Only an IntegrityError
of the flush is caught, so each of these is a 500 (`Fail`), and `Commit` may have
done its work and not be heard of. The history variable `fault` remembers where
a request was struck: `refresh`, `commit`, or elsewhere; `ErrorLeavesNothing`
says that the first two are the only ones that leave a lead behind a 500, and
`ServerErrorCause` what a 500 means when nothing failed from outside.

`LeadStore` is the abstract store: a lead appears with everything it owes in
one step, one per key and widget; an answer names the request's own lead or the
one under its key; leads leave with their widget only. `StoreSpec` says that
Submission implements it, with the variables of the same names and all the
statements between them hidden.

### Outbox

Committed columns (`status`, `attempts`, `wait` for `next_attempt_at` relative
to now) are separate from what a worker's session holds (`claimed`, `todo`,
`draft`) and from what the world has seen (`performed`). `Claim` is the
SELECT ... FOR UPDATE SKIP LOCKED, `Handle` one handler with its three outcomes
(done; failed without effect; failed although it took effect), `Commit` the one
commit per batch, `Rollback` the death of the process or of the connection,
`Withdraw` the cascade, `Queue` the endpoint's commit. `unrecorded` counts the
effects no recorded delivery stands for. More than one worker stands for
several processes. `SideEffects` is the abstract outbox without workers,
claims and transactions.

### Pipeline

`Pipeline` extends Outbox, names its rows by lead and type, and instantiates
Submission as `Api` (with `answer` for its `status`, which is the outbox's name
for a column). They meet in three places: the commit of a lead queues its
outbox rows (`Store` = `Api!Commit` and `Queue`), a
process that dies takes its worker along, and perhaps the DELETEs it was running
(`Crash`), and the DELETE of a widget,
which is two steps here because it waits in the middle: `BeginDelete` locks the
widget's row, from then on every INSERT that refers to the widget waits, on its
event loop (`Write`); `FinishDelete` cascades and commits once no worker holds
one of the widget's events. Request, side effect and delete are followed to the
end under fairness.

### RateLimiter

A check is one action (`RefuseIp`, `RefuseWidget`, `Admit`) since the coroutine
does not await in it. Buckets are the deques; the logs are history variables
with every hit ever counted, so that the properties do not depend on what the
buckets still remember. Time is in ticks, several to a second, because
`retry_after` rounds. The code reads the clock once per bucket, the model once
per check: the two readings are microseconds apart, and each bucket's log holds
the time of its own.

### WidgetConfig

PATCH is two actions, `ReadRow` and `WriteRow`, as its handler runs on a
thread; the UPDATE writes the columns whose value differs from the one read,
and the version as a value. `Load` is the config endpoint as a browser meets it
(404, 304, 200, 500), `LoadFresh` a page served from the browser's cache,
`Submit` a careful visitor and the server's judgement of what `widget.js`
collected, `Store` what becomes of it after the `await enrich_ip` in between,
during which the widget may be edited or deleted (`pending`). `late` is history: how long the cached config has not been the
widget's.

### Intake

One submission at a time on its way through the gates in their order: `Body`
(the middleware's Content-Length check), `Schema` (`SubmissionCreate`),
`Identify` (widget, origin), `RateLimit`, `Filter` (`classify`), `Validate`
(`validate_against_widget`), `Find` (a lead of the same key), `Enrich` (the
provider chain, one provider per step), `Store` (INSERT, COMMIT, refresh), and
`Fail` wherever a statement can. `code` and `named` are the answer: its status
and whether it names a lead. Before the gates is the form: `Type` and `Wait` are
the visitor, `Send` the submit listener, which limits no input, so that the body
may exceed the limit; `Reply` and `Lose` are what the script does with an answer
and without one; a 500 is no JSON and looks to it like a network error. `Forge`
is a program that posts any payload. Values are classes (missing, blank, good,
bad, long, nested), since the checks see no more. Whether the widget has an
origin allow-list does not change during a behaviour.

### ConnectionPool

Sessions of three kinds: submissions are coroutines whose statements run on the
event loop, handlers of the other routes run on threads and need the loop
between their steps (to start, to go from `current_tenant` to the handler, to
close), drains run on threads and close their sessions themselves. `Checkout`
and `GiveUp` are the pool's two answers to the first statement of a
transaction. `enrich_ip` keeps the connection and gives up the loop (`Decide`,
`Resume`); commit, rollback and close give the connection back.

### Accounts

A request is `register`, `login`, `whoami` (a request with a token) or a run of
the seed script; SELECT and INSERT are steps of their own because handlers run
on threads. An account is named by the request that opened it, an address is a
name and its case. A statement may fail here too (`Fail`, and a COMMIT that is
not heard of in `Insert`); `fault` remembers which. `earlier` remembers what had been answered when a request
arrived, which is what "from then on" means in `OwnersGetIn`.

### Dashboard

`query` is the answer being put together, `step` its next statement (`Turn`
says which statement gives which number, `Numbers` what it would give now),
`got` the numbers so far. `disturbed` is history: the kinds of commits that came
between. Leads are a set of rows, each named by its place in the order of
`created_at`, which presumes that no two are equal; as it is set before the
commit, a lead may appear behind newer ones. The clock is three boundaries in that order: leads up to `day`, `week`
and `month` are older than a day, a week, 30 days. A lead's place in a list is
how many leads of the list are as new (`Place`), and a page is the leads at
places `offset + 1` to `offset + Page`. A walk asks for pages until one is not
full.

## 3. What the runs check

| Run | Instance | Shows |
|---|---|---|
| `submission` | 3 requests, 2 processes, 1 widget, keys {k1, none, blank}, 1 crash, failing statements in any of them | replays agree; acknowledged leads last; what errors leave; the program's own causes of a 500; a retry finds its lead; no insert waits for its own process |
| `submission_widgets` | 2 requests, 2 processes, 2 widgets sharing a key, 1 kind of side effect, owed or not, 1 crash, 1 edit, failing statements | the outbox equals what stored leads owe; refinement of LeadStore, and with it: answers stay with their widget and key |
| `outbox` | 3 events of 2 leads, 2 workers, 2 attempts, batches of 2, 1 rollback | attempts, repeats; refinement of SideEffects |
| `pipeline` | 2 requests, 1 process with its worker, 1 widget, 2 attempts, 1 crash and 1 rollback, or 1 failing statement; fairness | nothing is sent for a lead that is not stored; every stored lead is followed up, one behind a 500 too; every request is answered |
| `limiter` | 2 IPs, 2 widgets, limits 2 and 3, window 3 ticks, 2 ticks a second, 6 checks | windows, refusals, Retry-After, remaining, the flooder |
| `config` | 1 PATCH at a time, 1 browser, several field lists and null, versions to 4 | ETags, staleness, agreement of form and validation, accepted leads and edits that overtake them |
| `pool` | 2 submissions, 1 handler, 1 drain, 2 connections, fairness | no leak; a stall ends in a failed request; every session ends; no deadlock |
| `intake` | 2 fields (one required, both with a format), 2 providers, 3 submissions, a form open for up to more than the limit | honest visitors are heard; one lead per filling; bots do not learn why |
| `accounts` | 3 requests of any kind for one address in two spellings, 3 passwords of which one is too long, tokens of 2 ticks, 1 crash, 1 failing statement | one account per address; answers tell the outcome; owners get in; sessions are their own |
| `dashboard` | 2 tenants, 3 widgets, 2 leads, pages of 1, 3 commits or moves of the clock | numbers agree; walks are complete; tenants do not see each other |

Two runs end in a violation, of what a comment or a test says:

| Run | Statement refuted | What happens |
|---|---|---|
| `pool_failure` | enrichment degrades, "so neither can turn a good submission into a failure" (`submission_service.py`) | submissions that await `enrich_ip` hold all connections; the next waits for one on the event loop that should resume them, and fails |
| `config_etag` | "New version => new config ETag => caches refetch instead of serving stale" (`widget_service.py`) | overlapping PATCHes write the same version for different configurations |

Other disagreements between code and documents that the modules show or allow,
without a run of their own:

- A blank `Idempotency-Key` is no key to the lookup and a key to the
  constraint: the second submission with one is a 500. `ServerErrorCause` names
  this as one of the program's two own ways to a 500; the other is a widget
  deleted between lookup and insert.
- `errors.py` says "A 500 means we have a bug, never that input was bad", the
  README "bad payload? → 4xx, never 500". A NUL in a field, or a first
  `X-Forwarded-For` entry of more than 64 characters, passes every check and is
  refused by PostgreSQL: a 500 (`Submission!Fail`). So is a NUL in the name of a
  registration (`Accounts!Fail`).
- A 500 does not mean that nothing happened: after the commit
  `db.refresh(submission)` and `db.refresh(tenant)` begin a new transaction, and
  when that fails the lead or the account is there. The visitor, who is shown a
  network error, sends the form again and makes a second lead
  (`OneLeadPerFilling`); the registrant is told 409 when he tries again, and gets
  in by logging in (`OwnersGetIn`).
- `public.py` says of the answer to a caught bot "Same shape a real submission
  gets: the bot learns nothing". It gets `"id": null`, where a stored lead has a
  UUID, as `tests/test_protection.py` asserts: the bot can tell that it was
  caught. Why, it cannot (`BotLearnsNoReason`), as `spam.py` says.
- An honest form of twelve fields can exceed `max_body_bytes`, and is refused
  with a 413 though every field is within its own limit.
- A PATCH with `"fields": null` is stored, and the config endpoint answers 500
  from then on: `WidgetConfig!Load` takes that step.
- The 429 carries no `Retry-After` header although the limiter computes one
  (`ratelimit.py`, README): the AppError the endpoint raises has no headers.
- "Sent once" (`docs/design.md`, README) is at least once: a batch that is
  rolled back after its handlers ran is handled again. `OnceUnlessUnrecorded`
  counts exactly those repetitions.
- Who loses the race of two registrations is told 500, where 409 was meant
  (`AnswerTellsOutcome` allows both).
- A form that is rendered for more than a day is refused with a 422, since its
  clock is not restarted when it is emptied; `HonestIsHeard` names it among the
  reasons (`Amiss`).
- PATCH does not repeat the check for repeated field names; of two inputs with
  one name only what the last one holds is sent.
- `list_submissions` counts before it reads the page, so `total` may be less
  than what the page shows.

Why the bounds are enough. Three requests are a winner, a loser and a third
that comes when either has crashed, been struck or been answered; one crash hits
any of the points between two statements. An edit changes nothing the properties
of `submission` speak of, and is left to `submission_widgets`. Two workers and two attempts give every order
of claim, failure, rollback and retry of one event, three events make batches
overlap a lead. `pipeline` has one process, because the circle it is about
(request, DELETE, worker's batch) closes within one; two requests are needed
for one to wait while the other's lead is being sent. A
statement fails only where no crash and no rollback comes too (`FaultsComeAlone`),
since all of them together make too many states for liveness. Six checks on two IPs and
two widgets fill both kinds of bucket, and six ticks are two full windows, so
hits expire and buckets fill again. Four versions let the fields change, change
back and change again. One visitor suffices for WidgetConfig because visitors
share nothing but the row, and for Intake because its properties are about one
form. Two connections are the least that two holders of different kinds can
share; the third submission of `pool_failure` finds them gone. Three requests
on one address are two that race and a third that logs in or comes with a
token; two addresses share nothing. Two leads and pages of one are a walk in
which a lead moves from one page to the next; with three commits, leads can be
stored before the request and a third commit come between any two of its
statements, or a widget be created, filled and deleted under it. One move of the
clock takes any number of leads over any of the three boundaries.

Named bounds in guards: `MaxCrashes`, `MaxEdits`, `MaxFaults` (requests in which a
statement fails), `MaxRollbacks`, `MaxLate`,
`MaxTime`, `MaxChecks`, `MaxVersion`, `MaxSends`, `MaxElapsed` (a real limit of
the code, one tick beyond which the clock stops), `Commits`. Symmetry is used
in safety runs only. Deadlock is checked in `pool` and `pool_failure`; the
other instances stop when their requests are answered or their bounds used up.

Fairness. `Pipeline`: weak fairness of each request's own steps, of each
process's worker, of a DELETE that has begun, and of time. asyncio runs ready
coroutines in turn, `enrich_ip` and the handlers end by their time-outs,
`_loop` polls for ever and survives every exception, PostgreSQL wakes waiters
when the lock goes. No fairness of arrivals, of the start of deletes, of
crashes or rollbacks; those are bounded, so not every batch is lost. That the
loop keeps running presumes a process with `OUTBOX_WORKER_ENABLED`.
`ConnectionPool`: a session on its way that needs the loop, or runs on a
thread, goes on in the end (strong fairness, since the loop is taken by others
in between, and asyncio serves ready tasks in turn); for a session that waits
for a connection only that it gets one or its time runs out (weak), because the
pool promises no more.

## 4. What is proved

Eight modules hold proofs, checked by TLAPS, for every value of the constants
that satisfies the assumptions in the modules (keys distinct from the markers,
`LeadOf` a function to leads, limits and windows positive, forms sequences of
named fields, bounds natural numbers).

*Submission.* None of the properties is inductive alone. The invariant `IInv`
adds: who holds an event loop is at a statement that needs it, and conversely
(`LoopOwned`); what a request at each statement already knows (`Progress`);
stored leads are of live widgets (`RowsOfLiveWidgets`); keys are unique among
stored leads, and among them and the one flushed (`KeyUnique`); a lead that is
gone although its request got past the commit has lost its widget
(`LossHasCause`). From it follow type correctness, `ReplaysAgree`,
`AnswerIsOwn`, `AckDurable`, `OutboxAtomic`, `ErrorLeavesNothing`,
`ServerErrorCause`, `RetryFindsLead`, `NoSelfBlocking`, and that the endpoint implements
`LeadStore`: every action is a step of the abstract store or leaves it alone.

*Outbox.* `IInv` adds that no two workers hold one event (`ExclusiveClaim`, what
the row locks are for), that claimed rows are pending (`ClaimsArePending`), that
a draft is exactly one attempt ahead of its row, with an outcome that fits
(`DraftsFollowRows`), and that an effect of an event which is neither recorded
nor in a draft as delivered is counted as unrecorded (`Accounted`). From it
follow the state invariants, the two action properties (`PerformedOnlyWhilePending`,
`SettledIsFinal`), and the refinement of `SideEffects`.

*Pipeline* (in OutboxProofs, since Pipeline extends Outbox). Every step of the
composition is a step of Outbox or leaves it alone, and likewise of Submission
(`OutboxInPipeline`, `SubmissionInPipeline`): what is proved of the outbox holds
behind the endpoint. `OneTable` ties the two together: a row the workers see as
pending or settled is one the endpoint has committed and nobody has deleted, and
its lead is stored. Since a handler runs only for a pending row (an Outbox
theorem), nothing is sent without its lead: `PerformedWhileStored`. That a
delete cannot overtake a batch rests on `ClaimsArePending`: the guard of
`Withdraw` keeps a claimed row from going while its handler runs.

*RateLimiter.* The buckets forget, the properties are about logs. `IInv` says
that a bucket is the tail of its log and that the forgotten part is at least a
window old (`Tails`). A hit that finds room comes, therefore, a window after
the limit-th hit before it, which is `IpWindow` and `WidgetWindow`; a refusal
finds the bucket full within the window, `RefusedOnlyWhenFull`. For what a
client is told, two more invariants: the hit that keeps the bucket full has
left the window when the advised time is over (`Advice`, from which
`RetryAfterSuffices`), and what is said to remain is free in both buckets
(`Promise`, from which `RemainingIsHonest`). For `OneFlooderCannotFill`, `Trail`
compares the two kinds of log: if one IP sent the last k hits of a widget, its
own log has at least k hits, and the k-th from the end is at least as recent. So
if it alone filled the widget's window, its own window would hold more than
`IpLimit` hits, which `IpWindow` excludes.

*ConnectionPool.* `IInv` is the type, the pool's bound and `NoLeak`;
`StallCostsARequest` is a case distinction over the actions of a stalled state:
all but the time-out of the submission on the loop leave the holders where
they are, since everything they could do next needs the loop.

*Accounts.* `IInv` adds how far each request is, that it has an account only
from its INSERT on, and behind an answer other than 201 only if COMMIT or refresh
failed (`Progress`), that what a request found answered
stays answered (`KnownIsThere`), what an answer is about (`AnswerIsAbout`) and
that tokens come from answers (`TokenWasIssued`). The four properties are its
conjuncts: with `OneAccountPerEmail` the SELECT of a login finds one account at
most, which is what `OwnersGetIn` needs.

*Intake.* `IInv` adds what each gate has let through (`SpamIsCaught`), what the
form can send at all (`FormIsPlain`), and that a stored lead of the present
filling is still being answered, or its answer was lost or a 500
(`FillingEnds`), from which `OneLeadPerFilling`. `HonestIsHeard` is kept gate by
gate: what a gate refuses of a plain form is the visitor's own (`Deserved`), and
a 201 that is not the filter's comes with the lead it appends.

*WidgetConfig.* For any number of editors: types and `RefusedOnlyIfChanged`, by
a lemma about field lists: a name in a list has a last field (a well-founded
minimum). With one editor at most: `NoStale304`, `BoundedStaleness` and
`LeadFitsVersion`, by `CacheInv`, which says that nobody else writes between an
editor's read and write (`NoOverlap`), that neither a cache nor a submission on
its way knows a version still to come (`Unborn`), and that a version tells which
fields it stands for (`VersionTells`, `PendingTells`). The run `config_etag` shows that
the assumption is needed.

*Dashboard.* Two invariants over the statements of an answer. `Bounds` says of
each number what it bounds as long as no commit of the kind that could break the
bound has come: `total`, once counted, is at least the number of leads now there
unless one was stored, so that `enriched`, counted next, cannot exceed it; what
was less than a day old stays within the week, because the clock does not move
six days during a request. `Walk` says that without deletions every lead that
was there at the start and is within reach of the pages read was shown, and
without new leads every lead shown is still within reach, so that the next page
repeats none. It needs that places are numbers from 1 to the length of the list,
each taken once (`PlaceTaken`: an injection between finite sets of one size is
onto); hence a page that is not full is the last (`PageNotFull`). Isolation is
an action property that follows from `Copies`: a lead's tenant is its widget's
owner, so the tenant's filter selects the leads of the tenant's own widgets.

Only model-checked: liveness (`RequestAnswered`, `LeadIsFollowedUp`,
`EverySessionEnds`), which is out of the prover's reach as ENABLED and fairness
are. Every safety property of a passing run is proved. No module that is
proved about declares a RECURSIVE operator.

## 5. What is not modelled

- What providers answer, texts, colours and other columns that decide nothing.
- Allocation of public ids: five tries over 64 random bits, and the unique index.
- `client_ip`: the key of the limiter is taken as given.
- CORS headers, health, settings, the immutable bundle, the demo site.
- The migration, which runs once and alone; the seed script's widgets and
  leads, which it makes by calls of the functions modelled here.
- Which values PostgreSQL refuses: `Fail` lets a statement of any request fail.
- What becomes of the old drain when `stop()` gives up waiting for it: nothing in
  the repository starts the worker again in the same process.
- Several API processes each have their own limiter; the repository's README
  says so under its limitations.

## 6. Plan

Done: LeadStore and Submission; SideEffects and Outbox; their composition;
RateLimiter; WidgetConfig; Intake; ConnectionPool; Accounts; Dashboard; proofs
of every safety property of the runs.

Left, should the code grow in these directions: several processes in the
`pipeline` run, whose states are too many for a liveness check of a few
minutes; an abstract specification of the pipeline as a whole (a lead and what
it owes, followed to the end), which both refinements together should imply.
