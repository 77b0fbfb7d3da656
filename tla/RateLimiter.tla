----------------------------- MODULE RateLimiter -----------------------------
(***************************************************************************)
(* The two sliding windows in front of the submission endpoint             *)
(* (app/ratelimit.py).                                                     *)
(*                                                                         *)
(* A check is one step: the endpoint is a coroutine and awaits nothing     *)
(* between reading the clock and appending to the buckets.  Time is        *)
(* counted in ticks, Second of them to a second, because retry_after       *)
(* rounds to seconds what the buckets keep in fractions.                   *)
(*                                                                         *)
(* The logs are history: every hit a bucket ever counted.  A bucket of the *)
(* code forgets; the properties are about the logs.                        *)
(***************************************************************************)
EXTENDS Integers, Sequences, FiniteSets

CONSTANTS
    IP, Widget,
    IpLimit,      \* settings.rate_limit_ip_per_minute
    WidgetLimit,  \* settings.rate_limit_widget_per_minute
    Window,       \* the rolling window, in ticks
    Second,       \* ticks per second
    MaxTime,      \* bound on the clock
    MaxChecks     \* bound on the number of checks

ASSUME LimitAssumption == IpLimit \in Nat \ {0} /\ WidgetLimit \in Nat \ {0}
ASSUME ClockAssumption == Window \in Nat \ {0} /\ Second \in Nat \ {0}
ASSUME BoundAssumption == MaxTime \in Nat /\ MaxChecks \in Nat

VARIABLES
    now,         \* time.monotonic()
    ipHits,      \* bucket of each IP: times of its hits, oldest first
    widgetHits,  \* bucket of each widget
    ipLog,       \* every hit the IP's bucket has counted
    widgetLog,   \* every hit the widget's bucket has counted
    sender,      \* the IP behind each entry of widgetLog
    decision,    \* the last LimitDecision, with whom and when it concerned
    checks

buckets == <<ipHits, widgetHits>>
logs == <<ipLog, widgetLog, sender>>
vars == <<now, ipHits, widgetHits, ipLog, widgetLog, sender, decision, checks>>

Time == 0..MaxTime

\* Smaller and larger of two numbers.
Least(a, b) == IF a <= b THEN a ELSE b
Most(a, b) == IF a >= b THEN a ELSE b

\* Variant: a hit exactly one window old still counts.
StaleLate(bucket, n) ==
    /\ n \in 0..Len(bucket)
    /\ \A i \in 1..n : bucket[i] < now - Window
    /\ n < Len(bucket) => bucket[n + 1] >= now - Window

\* Variant: eviction takes hits that are still in the window.
StaleEarly(bucket, n) ==
    /\ n \in 0..Len(bucket)
    /\ \A i \in 1..n : bucket[i] <= now - Window + 1
    /\ n < Len(bucket) => bucket[n + 1] > now - Window + 1

\* The eviction loop pops n hits off the head of the bucket.
Stale(bucket, n) ==
    /\ n \in 0..Len(bucket)
    /\ \A i \in 1..n : bucket[i] <= now - Window
    /\ n < Len(bucket) => bucket[n + 1] > now - Window

\* Variant: the fraction of a second is cut off.
RetryAfterCut(bucket) == Most(1, (bucket[1] + Window - now) \div Second)

\* max(1, int(bucket[0] + window - now) + 1), in seconds
RetryAfter(bucket) == Most(1, (bucket[1] + Window - now) \div Second + 1)

Refusal(ip, w, scope, bucket) ==
    [ip |-> ip, widget |-> w, at |-> now, allowed |-> FALSE, scope |-> scope,
     remaining |-> 0, retryAfter |-> RetryAfter(bucket)]

\* Variant: the IP's own budget is reported, whatever the widget has left.
RemainingOfIp(ipLeft, widgetLeft) == ipLeft

\* min(ip_decision, widget_decision, key=remaining)
Remaining(ipLeft, widgetLeft) == Least(ipLeft, widgetLeft)

Admission(ip, w, ipLeft, widgetLeft) ==
    [ip |-> ip, widget |-> w, at |-> now, allowed |-> TRUE,
     scope |-> IF ipLeft <= widgetLeft THEN "ip" ELSE "widget",
     remaining |-> Remaining(ipLeft, widgetLeft), retryAfter |-> 0]

Init ==
    /\ now = 0
    /\ ipHits = [ip \in IP |-> <<>>]
    /\ widgetHits = [w \in Widget |-> <<>>]
    /\ ipLog = [ip \in IP |-> <<>>]
    /\ widgetLog = [w \in Widget |-> <<>>]
    /\ sender = [w \in Widget |-> <<>>]
    /\ decision \in [ip : IP, widget : Widget, at : {0}, allowed : {TRUE}, scope : {"ip"},
                     remaining : {0}, retryAfter : {0}]
    /\ checks = 0

-----------------------------------------------------------------------------
\* What both buckets keep after eviction when their check begins.
Rest(bucket, n) == SubSeq(bucket, n + 1, Len(bucket))

Counted ==
    /\ checks < MaxChecks
    /\ checks' = checks + 1
    /\ UNCHANGED now

\* Variant: the widget's bucket is asked, and charged, before the IP's.
RefuseIpAfterWidget(ip, w) ==
    \E n \in 0..Len(ipHits[ip]), m \in 0..Len(widgetHits[w]) :
        LET bucket == Rest(ipHits[ip], n)
        IN  /\ Stale(ipHits[ip], n) /\ Stale(widgetHits[w], m)
            /\ Len(bucket) >= IpLimit
            /\ Len(widgetHits[w]) - m < WidgetLimit
            /\ ipHits' = [ipHits EXCEPT ![ip] = bucket]
            /\ widgetHits' = [widgetHits EXCEPT ![w] = Append(Rest(@, m), now)]
            /\ widgetLog' = [widgetLog EXCEPT ![w] = Append(@, now)]
            /\ sender' = [sender EXCEPT ![w] = Append(@, ip)]
            /\ decision' = Refusal(ip, w, "ip", bucket)
            /\ Counted
            /\ UNCHANGED ipLog

\* The IP's bucket is full: the widget's is not asked.
RefuseIp(ip, w) ==
    \E n \in 0..Len(ipHits[ip]) :
        LET bucket == Rest(ipHits[ip], n)
        IN  /\ Stale(ipHits[ip], n)
            /\ Len(bucket) >= IpLimit
            /\ ipHits' = [ipHits EXCEPT ![ip] = bucket]
            /\ decision' = Refusal(ip, w, "ip", bucket)
            /\ Counted
            /\ UNCHANGED <<widgetHits, logs>>

\* The IP's bucket counts the hit, the widget's is full.
RefuseWidget(ip, w) ==
    \E n \in 0..Len(ipHits[ip]), m \in 0..Len(widgetHits[w]) :
        LET bucket == Rest(widgetHits[w], m)
        IN  /\ Stale(ipHits[ip], n) /\ Stale(widgetHits[w], m)
            /\ Len(ipHits[ip]) - n < IpLimit
            /\ Len(bucket) >= WidgetLimit
            /\ ipHits' = [ipHits EXCEPT ![ip] = Append(Rest(@, n), now)]
            /\ ipLog' = [ipLog EXCEPT ![ip] = Append(@, now)]
            /\ widgetHits' = [widgetHits EXCEPT ![w] = bucket]
            /\ decision' = Refusal(ip, w, "widget", bucket)
            /\ Counted
            /\ UNCHANGED <<widgetLog, sender>>

\* Both buckets count the hit.
Admit(ip, w) ==
    \E n \in 0..Len(ipHits[ip]), m \in 0..Len(widgetHits[w]) :
        /\ Stale(ipHits[ip], n) /\ Stale(widgetHits[w], m)
        /\ Len(ipHits[ip]) - n < IpLimit
        /\ Len(widgetHits[w]) - m < WidgetLimit
        /\ ipHits' = [ipHits EXCEPT ![ip] = Append(Rest(@, n), now)]
        /\ widgetHits' = [widgetHits EXCEPT ![w] = Append(Rest(@, m), now)]
        /\ ipLog' = [ipLog EXCEPT ![ip] = Append(@, now)]
        /\ widgetLog' = [widgetLog EXCEPT ![w] = Append(@, now)]
        /\ sender' = [sender EXCEPT ![w] = Append(@, ip)]
        /\ decision' = Admission(ip, w, IpLimit - Len(ipHits'[ip]),
                                 WidgetLimit - Len(widgetHits'[w]))
        /\ Counted

Tick ==
    /\ now < MaxTime
    /\ now' = now + 1
    /\ UNCHANGED <<buckets, logs, decision, checks>>

Next ==
    \/ \E ip \in IP, w \in Widget : RefuseIp(ip, w) \/ RefuseWidget(ip, w) \/ Admit(ip, w)
    \/ Tick

Spec == Init /\ [][Next]_vars

-----------------------------------------------------------------------------
\* The clock, the buckets and their logs, and a decision of the shape of
\* LimitDecision: neither a negative remainder nor a negative retry_after.
TypeOK ==
    /\ now \in Time
    /\ ipHits \in [IP -> Seq(Time)]
    /\ widgetHits \in [Widget -> Seq(Time)]
    /\ ipLog \in [IP -> Seq(Time)]
    /\ widgetLog \in [Widget -> Seq(Time)]
    /\ sender \in [Widget -> Seq(IP)]
    /\ decision \in [ip : IP, widget : Widget, at : Time, allowed : BOOLEAN,
                     scope : {"ip", "widget"}, remaining : Nat, retryAfter : Nat]
    /\ checks \in 0..MaxChecks

\* Of any limit + 1 successive hits the last comes a whole window after the
\* first: no window of any position ever holds more than limit.
Spaced(log, limit) ==
    \A i \in 1..(Len(log) - limit) : log[i + limit] >= log[i] + Window

\* "Per IP (stops one flooder)": over the whole history, however the IP's
\* hits are spread over widgets and refusals of widgets.
IpWindow == \A ip \in IP : Spaced(ipLog[ip], IpLimit)

\* "Per widget (stops a distributed flood burying one customer)", whatever
\* number of IPs take part.
WidgetWindow == \A w \in Widget : Spaced(widgetLog[w], WidgetLimit)

\* The bucket is full in the window that ends now.
Full(log, limit) ==
    Len(log) >= limit /\ log[Len(log) - limit + 1] > now - Window

\* A check is refused only when the bucket it names really counted its limit
\* within the window: what eviction forgot was out of it.
RefusedOnlyWhenFull ==
    decision.at = now /\ ~decision.allowed =>
        IF decision.scope = "ip" THEN Full(ipLog[decision.ip], IpLimit)
                                 ELSE Full(widgetLog[decision.widget], WidgetLimit)

\* A client that waits the advertised seconds finds a place in the bucket that
\* refused it, as long as nobody else has come in the meantime.
RetryAfterSuffices ==
    ~decision.allowed /\ now >= decision.at + decision.retryAfter * Second =>
        IF decision.scope = "ip" THEN ~Full(ipLog[decision.ip], IpLimit)
                                 ELSE ~Full(widgetLog[decision.widget], WidgetLimit)

\* X-RateLimit-Remaining promises no request that either bucket would refuse.
RemainingIsHonest ==
    decision.allowed /\ decision.remaining > 0 =>
        /\ ~Full(ipLog[decision.ip], IpLimit)
        /\ ~Full(widgetLog[decision.widget], WidgetLimit)
        /\ decision.remaining <= IpLimit - Len(ipHits[decision.ip])
        /\ decision.remaining <= WidgetLimit - Len(widgetHits[decision.widget])

\* test_a_legitimate_request_from_another_ip_still_succeeds_during_a_flood: as
\* long as an IP may send less than a widget accepts, one flooder alone never
\* fills a widget's window, whatever it is refused.
OneFlooderCannotFill ==
    IpLimit < WidgetLimit =>
        \A w \in Widget :
            Full(widgetLog[w], WidgetLimit) =>
                Cardinality({sender[w][i] : i \in (Len(sender[w]) - WidgetLimit + 1)..Len(sender[w])}) > 1
===============================================================================
