-------------------------- MODULE RateLimiterProofs --------------------------
(***************************************************************************)
(* The rate limits hold for every set of IPs and widgets, every limit and  *)
(* every window.                                                           *)
(*                                                                         *)
(* The argument: a bucket is the tail of its log, and every logged hit it  *)
(* has forgotten is at least one window old (TailOf).  So a hit that finds *)
(* fewer than limit entries in the bucket comes a whole window after the   *)
(* limit-th hit before it.                                                 *)
(***************************************************************************)
EXTENDS RateLimiter, SequenceTheorems, FiniteSetTheorems, TLAPS

\* The bucket remembers the end of the log and has forgotten only old hits.
TailOf(bucket, log, t) ==
    /\ Len(bucket) <= Len(log)
    /\ \A i \in 1..Len(bucket) : bucket[i] = log[Len(log) - Len(bucket) + i]
    /\ \A i \in 1..(Len(log) - Len(bucket)) : log[i] <= t - Window

\* Every bucket is such a tail, and holds no more than its limit.
Tails ==
    /\ \A ip \in IP : TailOf(ipHits[ip], ipLog[ip], now) /\ Len(ipHits[ip]) <= IpLimit
    /\ \A w \in Widget : TailOf(widgetHits[w], widgetLog[w], now) /\ Len(widgetHits[w]) <= WidgetLimit

\* The inductive invariant.
IInv ==
    /\ TypeOK /\ Tails /\ decision.at <= now
    /\ IpWindow /\ WidgetWindow /\ RefusedOnlyWhenFull

\* Eviction: the rest of a tail is a tail, since only old hits were popped.
LEMMA EvictionKeepsTail ==
    ASSUME now \in Int, NEW bucket \in Seq(Time), NEW log \in Seq(Time), TailOf(bucket, log, now),
           NEW n \in 0..Len(bucket), Stale(bucket, n)
    PROVE  /\ Rest(bucket, n) \in Seq(Time)
           /\ Len(Rest(bucket, n)) = Len(bucket) - n
           /\ TailOf(Rest(bucket, n), log, now)
           /\ Rest(bucket, n) # <<>> => Rest(bucket, n)[1] > now - Window
<1> USE ClockAssumption DEF Time
<1>1. /\ Rest(bucket, n) \in Seq(Time)
      /\ Len(Rest(bucket, n)) = Len(bucket) - n
      /\ \A i \in 1..(Len(bucket) - n) : Rest(bucket, n)[i] = bucket[n + i]
  <2>1. \A i \in (n + 1)..Len(bucket) : bucket[i] \in Time
    <3> HIDE DEF Time
    <3>1. Len(bucket) \in Nat
      BY LenProperties
    <3>2. \A i \in 1..Len(bucket) : bucket[i] \in Time
      BY ElementOfSeq
    <3>3. \A i \in (n + 1)..Len(bucket) : i \in 1..Len(bucket)
      BY <3>1
    <3> QED
      BY <3>2, <3>3, Zenon
  <2> HIDE DEF Time
  <2>2. /\ Rest(bucket, n) \in Seq(Time)
        /\ Len(Rest(bucket, n)) = IF n + 1 <= Len(bucket) THEN Len(bucket) - (n + 1) + 1 ELSE 0
        /\ \A i \in 1..(Len(bucket) - (n + 1) + 1) : Rest(bucket, n)[i] = bucket[(n + 1) + i - 1]
    BY <2>1, SubSeqProperties DEF Rest
  <2>3. ASSUME NEW i \in 1..(Len(bucket) - n) PROVE Rest(bucket, n)[i] = bucket[n + i]
    <3>1. Len(bucket) \in Nat
      BY LenProperties
    <3>2. i \in 1..(Len(bucket) - (n + 1) + 1) /\ (n + 1) + i - 1 = n + i
      BY <3>1
    <3> QED
      BY <2>2, <3>2
  <2> QED
    BY <2>2, <2>3
<1> DEFINE rest == Rest(bucket, n)
<1> HIDE DEF rest
<1>2. Len(rest) <= Len(log)
  BY <1>1 DEF TailOf, rest
<1>3. ASSUME NEW i \in 1..Len(rest) PROVE rest[i] = log[Len(log) - Len(rest) + i]
  BY <1>1 DEF TailOf, rest
<1>4. ASSUME NEW i \in 1..(Len(log) - Len(rest)) PROVE log[i] <= now - Window
  <2>1. CASE i <= Len(log) - Len(bucket)
    BY <2>1 DEF TailOf
  <2>2. CASE i > Len(log) - Len(bucket)
    <3> DEFINE j == i - (Len(log) - Len(bucket))
    <3>1. j \in 1..n /\ Len(log) - Len(bucket) + j = i
      BY <1>1, <2>2 DEF rest
    <3>2. bucket[j] = log[i]
      BY <3>1 DEF TailOf
    <3> QED
      BY <3>1, <3>2 DEF Stale
  <2> QED
    BY <1>1, <2>1, <2>2 DEF rest
<1>5. rest # <<>> => rest[1] > now - Window
  BY <1>1 DEF Stale, rest
<1> QED
  BY <1>1, <1>2, <1>3, <1>4, <1>5 DEF TailOf, rest

\* Counting: a hit goes to the end of both.
LEMMA HitKeepsTail ==
    ASSUME now \in Time, NEW bucket \in Seq(Time), NEW log \in Seq(Time), TailOf(bucket, log, now)
    PROVE  /\ Append(bucket, now) \in Seq(Time) /\ Append(log, now) \in Seq(Time)
           /\ Len(Append(bucket, now)) = Len(bucket) + 1
           /\ TailOf(Append(bucket, now), Append(log, now), now)
<1> USE ClockAssumption, BoundAssumption DEF Time
<1> DEFINE b == Append(bucket, now)
           l == Append(log, now)
<1>1. /\ b \in Seq(Time) /\ Len(b) = Len(bucket) + 1 /\ b[Len(bucket) + 1] = now
      /\ \A i \in 1..Len(bucket) : b[i] = bucket[i]
  BY AppendProperties
<1>2. /\ l \in Seq(Time) /\ Len(l) = Len(log) + 1 /\ l[Len(log) + 1] = now
      /\ \A i \in 1..Len(log) : l[i] = log[i]
  BY AppendProperties
<1> HIDE DEF b, l
<1>3. Len(bucket) \in Nat /\ Len(log) \in Nat /\ Len(bucket) <= Len(log)
  BY DEF TailOf
<1>4. ASSUME NEW i \in 1..Len(b) PROVE b[i] = l[Len(l) - Len(b) + i]
  <2>1. CASE i = Len(bucket) + 1
    BY <1>1, <1>2, <1>3, <2>1
  <2>2. CASE i \in 1..Len(bucket)
    <3>1. b[i] = log[Len(log) - Len(bucket) + i]
      BY <1>1, <2>2 DEF TailOf
    <3>2. Len(log) - Len(bucket) + i \in 1..Len(log)
      BY <1>3, <2>2
    <3>3. Len(l) - Len(b) = Len(log) - Len(bucket)
      BY <1>1, <1>2, <1>3
    <3>4. l[Len(log) - Len(bucket) + i] = log[Len(log) - Len(bucket) + i]
      BY <1>2, <3>2
    <3> QED
      BY <3>1, <3>3, <3>4
  <2> QED
    BY <1>1, <1>3, <2>1, <2>2
<1>5. ASSUME NEW i \in 1..(Len(l) - Len(b)) PROVE l[i] <= now - Window
  <2>0. Len(l) - Len(b) = Len(log) - Len(bucket)
    BY <1>1, <1>2, <1>3
  <2>1. i \in 1..(Len(log) - Len(bucket)) /\ i \in 1..Len(log)
    BY <1>3, <2>0
  <2> QED
    BY <1>2, <2>1 DEF TailOf
<1>6. TailOf(b, l, now)
  BY <1>1, <1>2, <1>3, <1>4, <1>5 DEF TailOf
<1> QED
  BY <1>1, <1>2, <1>6 DEF b, l

\* Spacing: a hit that finds room comes a window after the limit-th before it.
LEMMA HitKeepsSpacing ==
    ASSUME now \in Time, NEW bucket \in Seq(Time), NEW log \in Seq(Time), TailOf(bucket, log, now),
           NEW limit \in Nat \ {0}, Len(bucket) < limit, Spaced(log, limit)
    PROVE  Spaced(Append(log, now), limit)
<1> USE ClockAssumption, BoundAssumption DEF Time
<1> DEFINE new == Append(log, now)
<1>0. /\ Len(new) = Len(log) + 1 /\ new[Len(log) + 1] = now
      /\ \A i \in 1..Len(log) : new[i] = log[i]
  BY AppendProperties
<1> HIDE DEF new
<1>1. Len(log) \in Nat /\ Len(bucket) \in Nat /\ Len(bucket) <= Len(log)
      /\ \A i \in 1..Len(log) : log[i] \in Int
  BY ElementOfSeq, LenProperties DEF TailOf
<1>2. ASSUME NEW i \in 1..(Len(new) - limit) PROVE new[i + limit] >= new[i] + Window
  <2>1. i \in 1..Len(log)
    BY <1>0, <1>1
  <2>2. CASE i + limit <= Len(log)
    <3>1. i + limit \in 1..Len(log) /\ i \in 1..(Len(log) - limit)
      BY <1>1, <2>1, <2>2
    <3> QED
      BY <1>0, <2>1, <3>1 DEF Spaced
  <2>3. CASE i + limit = Len(log) + 1
    <3>1. i \in 1..(Len(log) - Len(bucket))
      BY <1>1, <2>3
    <3>2. log[i] <= now - Window
      BY <3>1 DEF TailOf
    <3>3. new[i + limit] = now /\ new[i] = log[i] /\ log[i] \in Int /\ now \in Int
      BY <1>0, <1>1, <2>1, <2>3
    <3> QED
      BY <3>2, <3>3
  <2>4. i + limit <= Len(log) \/ i + limit = Len(log) + 1
    <3>1. \A a, b, c \in Int : a <= b + 1 - c => a + c <= b \/ a + c = b + 1
      OBVIOUS
    <3>2. i \in Int /\ limit \in Int /\ Len(log) \in Int /\ i <= Len(log) + 1 - limit
      BY <1>0, <1>1
    <3> QED
      BY <3>1, <3>2, Zenon
  <2> QED
    BY <2>2, <2>3, <2>4
<1> QED
  BY <1>2 DEF Spaced, new

\* The initial state satisfies the inductive invariant.
LEMMA InitIInv == Init => IInv
<1> SUFFICES ASSUME Init PROVE IInv
  OBVIOUS
<1> USE LimitAssumption, ClockAssumption, BoundAssumption DEF Init
<1>1. TypeOK
  <2>1. now \in Time /\ 0 \in Time /\ checks \in 0..MaxChecks
    BY DEF Time
  <2>2. <<>> \in Seq(Time) /\ <<>> \in Seq(IP)
    BY EmptySeq
  <2>3. decision \in [ip : IP, widget : Widget, at : Time, allowed : BOOLEAN,
                      scope : {"ip", "widget"}, remaining : Nat, retryAfter : Nat]
    <3>1. PICK ip \in IP, w \in Widget :
            decision = [ip |-> ip, widget |-> w, at |-> 0, allowed |-> TRUE,
                        scope |-> "ip", remaining |-> 0, retryAfter |-> 0]
      OBVIOUS
    <3> HIDE DEF Init
    <3> QED
      BY <2>1, <3>1
  <2> QED
    BY <2>1, <2>2, <2>3 DEF TypeOK
<1>2. Tails /\ decision.at <= now
  BY DEF Tails, TailOf
<1>3. IpWindow /\ WidgetWindow
  BY DEF IpWindow, WidgetWindow, Spaced
<1>4. RefusedOnlyWhenFull
  BY DEF RefusedOnlyWhenFull
<1> QED
  BY <1>1, <1>2, <1>3, <1>4 DEF IInv

\* A refusal at a bucket that is exactly full finds it full in the log.
LEMMA FullBucket ==
    ASSUME now \in Int, NEW bucket \in Seq(Time), NEW log \in Seq(Time), TailOf(bucket, log, now),
           NEW limit \in Nat \ {0}, Len(bucket) = limit, bucket[1] > now - Window
    PROVE  Full(log, limit)
<1>1. Len(log) - Len(bucket) + 1 = Len(log) - limit + 1 /\ Len(log) >= limit
  BY DEF TailOf
<1>2. bucket[1] = log[Len(log) - limit + 1]
  BY <1>1 DEF TailOf
<1> QED
  BY <1>1, <1>2 DEF Full

\* A refusal is a well-formed decision, and so is an admission.
LEMMA Decisions ==
    ASSUME now \in Time, NEW ip \in IP, NEW w \in Widget
    PROVE  /\ \A bucket \in Seq(Time), scope \in {"ip", "widget"} :
                 bucket # <<>> =>
                   Refusal(ip, w, scope, bucket) \in
                     [ip : IP, widget : Widget, at : Time, allowed : BOOLEAN,
                      scope : {"ip", "widget"}, remaining : Nat, retryAfter : Nat]
           /\ \A a, b \in Nat :
                 Admission(ip, w, a, b) \in
                   [ip : IP, widget : Widget, at : Time, allowed : BOOLEAN,
                    scope : {"ip", "widget"}, remaining : Nat, retryAfter : Nat]
<1>1. ASSUME NEW bucket \in Seq(Time), bucket # <<>> PROVE RetryAfter(bucket) \in Nat
  <2>0. Len(bucket) \in Nat /\ Len(bucket) # 0
    BY <1>1, LenProperties, EmptySeq
  <2>1. bucket[1] \in Time
    BY <2>0, ElementOfSeq
  <2>2. (bucket[1] + Window - now) \div Second \in Int
    BY <2>1, ClockAssumption DEF Time
  <2> QED
    BY <2>2 DEF RetryAfter, Most
<1>2. \A a, b \in Nat : Remaining(a, b) \in Nat
  BY DEF Remaining, Least
<1> QED
  BY <1>1, <1>2 DEF Refusal, Admission

\* The IP's bucket is full: it is evicted and nothing is counted.
LEMMA RefuseIpKeeps == ASSUME IInv, NEW ip \in IP, NEW w \in Widget, RefuseIp(ip, w) PROVE IInv'
<1> USE LimitAssumption, BoundAssumption DEF IInv
<1>1. PICK n \in 0..Len(ipHits[ip]) :
         /\ Stale(ipHits[ip], n)
         /\ Len(Rest(ipHits[ip], n)) >= IpLimit
         /\ ipHits' = [ipHits EXCEPT ![ip] = Rest(ipHits[ip], n)]
         /\ decision' = Refusal(ip, w, "ip", Rest(ipHits[ip], n))
         /\ checks < MaxChecks /\ checks' = checks + 1
         /\ UNCHANGED <<now, widgetHits, ipLog, widgetLog, sender>>
  BY DEF RefuseIp, Counted, logs
<1> DEFINE rest == Rest(ipHits[ip], n)
<1>2. /\ now \in Time /\ now \in Int
      /\ ipHits[ip] \in Seq(Time) /\ ipLog[ip] \in Seq(Time)
      /\ TailOf(ipHits[ip], ipLog[ip], now) /\ Len(ipHits[ip]) <= IpLimit
  BY DEF TypeOK, Tails, Time
<1>3. /\ rest \in Seq(Time) /\ Len(rest) = Len(ipHits[ip]) - n
      /\ TailOf(rest, ipLog[ip], now) /\ (rest # <<>> => rest[1] > now - Window)
  BY <1>1, <1>2, EvictionKeepsTail
<1> HIDE DEF rest
<1>4. Len(rest) = IpLimit /\ rest # <<>>
  BY <1>1, <1>2, <1>3 DEF rest
<1>5. Full(ipLog[ip], IpLimit)
  BY <1>2, <1>3, <1>4, FullBucket
<1>5a. ipHits' = [ipHits EXCEPT ![ip] = rest] /\ decision' = Refusal(ip, w, "ip", rest)
  BY <1>1 DEF rest
<1>6. TypeOK'
  <2>1. decision' \in [ip : IP, widget : Widget, at : Time, allowed : BOOLEAN,
                       scope : {"ip", "widget"}, remaining : Nat, retryAfter : Nat]
    BY <1>2, <1>3, <1>4, <1>5a, Decisions
  <2>2. ipHits' \in [IP -> Seq(Time)]
    BY <1>3, <1>5a DEF TypeOK
  <2>3. checks' \in 0..MaxChecks
    BY <1>1 DEF TypeOK
  <2> QED
    BY <1>1, <2>1, <2>2, <2>3 DEF TypeOK
<1>7. Tails' /\ (decision.at <= now)'
  <2>1. \A i \in IP : ipHits'[i] = IF i = ip THEN rest ELSE ipHits[i]
    BY <1>5a DEF TypeOK
  <2>2. (decision.at <= now)'
    BY <1>1, <1>2, <1>5a DEF Refusal
  <2> QED
    BY <1>1, <1>2, <1>3, <1>4, <2>1, <2>2 DEF Tails
<1>8. IpWindow' /\ WidgetWindow'
  BY <1>1 DEF IpWindow, WidgetWindow, Spaced
<1>9. RefusedOnlyWhenFull'
  BY <1>1, <1>5, <1>5a DEF RefusedOnlyWhenFull, Refusal, Full
<1> QED
  BY <1>6, <1>7, <1>8, <1>9

\* The widget's bucket is full: only the IP's counts the hit.
LEMMA RefuseWidgetKeeps ==
    ASSUME IInv, NEW ip \in IP, NEW w \in Widget, RefuseWidget(ip, w) PROVE IInv'
<1> USE LimitAssumption, BoundAssumption DEF IInv
<1>1. PICK n \in 0..Len(ipHits[ip]), m \in 0..Len(widgetHits[w]) :
         /\ Stale(ipHits[ip], n) /\ Stale(widgetHits[w], m)
         /\ Len(ipHits[ip]) - n < IpLimit
         /\ Len(Rest(widgetHits[w], m)) >= WidgetLimit
         /\ ipHits' = [ipHits EXCEPT ![ip] = Append(Rest(ipHits[ip], n), now)]
         /\ ipLog' = [ipLog EXCEPT ![ip] = Append(ipLog[ip], now)]
         /\ widgetHits' = [widgetHits EXCEPT ![w] = Rest(widgetHits[w], m)]
         /\ decision' = Refusal(ip, w, "widget", Rest(widgetHits[w], m))
         /\ checks < MaxChecks /\ checks' = checks + 1
         /\ UNCHANGED <<now, widgetLog, sender>>
  BY DEF RefuseWidget, Counted
<1> DEFINE ipRest == Rest(ipHits[ip], n)
           wRest == Rest(widgetHits[w], m)
<1>2. /\ now \in Time /\ now \in Int
      /\ ipHits[ip] \in Seq(Time) /\ ipLog[ip] \in Seq(Time)
      /\ widgetHits[w] \in Seq(Time) /\ widgetLog[w] \in Seq(Time)
      /\ TailOf(ipHits[ip], ipLog[ip], now)
      /\ TailOf(widgetHits[w], widgetLog[w], now) /\ Len(widgetHits[w]) <= WidgetLimit
      /\ Spaced(ipLog[ip], IpLimit)
  BY DEF TypeOK, Tails, Time, IpWindow
<1>3. ipRest \in Seq(Time) /\ Len(ipRest) < IpLimit /\ TailOf(ipRest, ipLog[ip], now)
  BY <1>1, <1>2, EvictionKeepsTail
<1>4. /\ wRest \in Seq(Time) /\ Len(wRest) = Len(widgetHits[w]) - m
      /\ TailOf(wRest, widgetLog[w], now) /\ (wRest # <<>> => wRest[1] > now - Window)
  BY <1>1, <1>2, EvictionKeepsTail
<1> HIDE DEF ipRest, wRest
<1>5. Len(wRest) = WidgetLimit /\ wRest # <<>>
  BY <1>1, <1>2, <1>4 DEF wRest
<1>6. Full(widgetLog[w], WidgetLimit)
  BY <1>2, <1>4, <1>5, FullBucket
<1>7. /\ Append(ipRest, now) \in Seq(Time) /\ Append(ipLog[ip], now) \in Seq(Time)
      /\ Len(Append(ipRest, now)) = Len(ipRest) + 1
      /\ TailOf(Append(ipRest, now), Append(ipLog[ip], now), now)
  BY <1>2, <1>3, HitKeepsTail
<1>8. Spaced(Append(ipLog[ip], now), IpLimit)
  BY <1>2, <1>3, HitKeepsSpacing
<1>8a. /\ ipHits' = [ipHits EXCEPT ![ip] = Append(ipRest, now)]
       /\ widgetHits' = [widgetHits EXCEPT ![w] = wRest]
       /\ decision' = Refusal(ip, w, "widget", wRest)
  BY <1>1 DEF ipRest, wRest
<1>9. TypeOK'
  <2>1. decision' \in [ip : IP, widget : Widget, at : Time, allowed : BOOLEAN,
                       scope : {"ip", "widget"}, remaining : Nat, retryAfter : Nat]
    BY <1>2, <1>4, <1>5, <1>8a, Decisions
  <2>2. ipHits' \in [IP -> Seq(Time)] /\ ipLog' \in [IP -> Seq(Time)]
    <3>1. ipHits' \in [IP -> Seq(Time)]
      BY <1>7, <1>8a DEF TypeOK
    <3>2. ipLog' \in [IP -> Seq(Time)]
      BY <1>1, <1>7 DEF TypeOK
    <3> QED
      BY <3>1, <3>2
  <2>3. widgetHits' \in [Widget -> Seq(Time)]
    BY <1>4, <1>8a DEF TypeOK
  <2>4. checks' \in 0..MaxChecks
    BY <1>1 DEF TypeOK
  <2> QED
    BY <1>1, <2>1, <2>2, <2>3, <2>4 DEF TypeOK
<1>10. Tails' /\ (decision.at <= now)'
  <2>1. \A i \in IP : /\ ipHits'[i] = IF i = ip THEN Append(ipRest, now) ELSE ipHits[i]
                      /\ ipLog'[i] = IF i = ip THEN Append(ipLog[ip], now) ELSE ipLog[i]
    BY <1>1, <1>8a DEF TypeOK
  <2>2. \A x \in Widget : widgetHits'[x] = IF x = w THEN wRest ELSE widgetHits[x]
    BY <1>8a DEF TypeOK
  <2>3. (decision.at <= now)'
    BY <1>1, <1>2, <1>8a DEF Refusal
  <2>4. Len(ipRest) \in Nat /\ Len(Append(ipRest, now)) <= IpLimit
    BY <1>3, <1>7
  <2>5. ASSUME NEW i \in IP
        PROVE  TailOf(ipHits'[i], ipLog'[i], now') /\ Len(ipHits'[i]) <= IpLimit
    BY <1>1, <1>7, <2>1, <2>4 DEF Tails
  <2>6. ASSUME NEW x \in Widget
        PROVE  TailOf(widgetHits'[x], widgetLog'[x], now') /\ Len(widgetHits'[x]) <= WidgetLimit
    BY <1>1, <1>4, <1>5, <2>2 DEF Tails
  <2> QED
    BY <2>3, <2>5, <2>6 DEF Tails
<1>11. IpWindow' /\ WidgetWindow'
  BY <1>1, <1>8 DEF IpWindow, WidgetWindow, Spaced, TypeOK
<1>12. RefusedOnlyWhenFull'
  BY <1>1, <1>6, <1>8a DEF RefusedOnlyWhenFull, Refusal, Full
<1> QED
  BY <1>9, <1>10, <1>11, <1>12

\* Both buckets find room and count the hit.
LEMMA AdmitKeeps == ASSUME IInv, NEW ip \in IP, NEW w \in Widget, Admit(ip, w) PROVE IInv'
<1> USE LimitAssumption, BoundAssumption DEF IInv
<1>1. PICK n \in 0..Len(ipHits[ip]), m \in 0..Len(widgetHits[w]) :
         /\ Stale(ipHits[ip], n) /\ Stale(widgetHits[w], m)
         /\ Len(ipHits[ip]) - n < IpLimit
         /\ Len(widgetHits[w]) - m < WidgetLimit
         /\ ipHits' = [ipHits EXCEPT ![ip] = Append(Rest(ipHits[ip], n), now)]
         /\ widgetHits' = [widgetHits EXCEPT ![w] = Append(Rest(widgetHits[w], m), now)]
         /\ ipLog' = [ipLog EXCEPT ![ip] = Append(ipLog[ip], now)]
         /\ widgetLog' = [widgetLog EXCEPT ![w] = Append(widgetLog[w], now)]
         /\ sender' = [sender EXCEPT ![w] = Append(sender[w], ip)]
         /\ decision' = Admission(ip, w, IpLimit - Len(ipHits'[ip]),
                                  WidgetLimit - Len(widgetHits'[w]))
         /\ checks < MaxChecks /\ checks' = checks + 1
         /\ UNCHANGED now
  BY DEF Admit, Counted
<1> DEFINE ipRest == Rest(ipHits[ip], n)
           wRest == Rest(widgetHits[w], m)
<1>2. /\ now \in Time /\ now \in Int
      /\ ipHits[ip] \in Seq(Time) /\ ipLog[ip] \in Seq(Time)
      /\ widgetHits[w] \in Seq(Time) /\ widgetLog[w] \in Seq(Time)
      /\ sender[w] \in Seq(IP)
      /\ TailOf(ipHits[ip], ipLog[ip], now) /\ TailOf(widgetHits[w], widgetLog[w], now)
      /\ Spaced(ipLog[ip], IpLimit) /\ Spaced(widgetLog[w], WidgetLimit)
  BY DEF TypeOK, Tails, Time, IpWindow, WidgetWindow
<1>3. ipRest \in Seq(Time) /\ Len(ipRest) < IpLimit /\ TailOf(ipRest, ipLog[ip], now)
  BY <1>1, <1>2, EvictionKeepsTail
<1>4. wRest \in Seq(Time) /\ Len(wRest) < WidgetLimit /\ TailOf(wRest, widgetLog[w], now)
  BY <1>1, <1>2, EvictionKeepsTail
<1> HIDE DEF ipRest, wRest
<1>5. /\ Append(ipRest, now) \in Seq(Time) /\ Append(ipLog[ip], now) \in Seq(Time)
      /\ Len(Append(ipRest, now)) = Len(ipRest) + 1
      /\ TailOf(Append(ipRest, now), Append(ipLog[ip], now), now)
  BY <1>2, <1>3, HitKeepsTail
<1>6. /\ Append(wRest, now) \in Seq(Time) /\ Append(widgetLog[w], now) \in Seq(Time)
      /\ Len(Append(wRest, now)) = Len(wRest) + 1
      /\ TailOf(Append(wRest, now), Append(widgetLog[w], now), now)
  BY <1>2, <1>4, HitKeepsTail
<1>7. Spaced(Append(ipLog[ip], now), IpLimit) /\ Spaced(Append(widgetLog[w], now), WidgetLimit)
  BY <1>2, <1>3, <1>4, HitKeepsSpacing
<1>7a. /\ ipHits' = [ipHits EXCEPT ![ip] = Append(ipRest, now)]
       /\ widgetHits' = [widgetHits EXCEPT ![w] = Append(wRest, now)]
  BY <1>1 DEF ipRest, wRest
<1>7b. /\ Len(ipRest) \in Nat /\ Len(wRest) \in Nat
       /\ Len(Append(ipRest, now)) <= IpLimit /\ Len(Append(wRest, now)) <= WidgetLimit
  BY <1>3, <1>4, <1>5, <1>6
<1>8. TypeOK'
  <2>1. IpLimit - Len(ipHits'[ip]) \in Nat /\ WidgetLimit - Len(widgetHits'[w]) \in Nat
    <3>1. ipHits'[ip] = Append(ipRest, now) /\ widgetHits'[w] = Append(wRest, now)
      BY <1>7a DEF TypeOK
    <3> QED
      BY <1>5, <1>6, <1>7b, <3>1
  <2>2. decision' \in [ip : IP, widget : Widget, at : Time, allowed : BOOLEAN,
                       scope : {"ip", "widget"}, remaining : Nat, retryAfter : Nat]
    BY <1>1, <1>2, <2>1, Decisions
  <2>3. Append(sender[w], ip) \in Seq(IP)
    BY <1>2, AppendProperties
  <2>4. ipHits' \in [IP -> Seq(Time)] /\ ipLog' \in [IP -> Seq(Time)]
    <3>1. ipHits' \in [IP -> Seq(Time)]
      BY <1>5, <1>7a DEF TypeOK
    <3>2. ipLog' \in [IP -> Seq(Time)]
      BY <1>1, <1>5 DEF TypeOK
    <3> QED
      BY <3>1, <3>2
  <2>5. widgetHits' \in [Widget -> Seq(Time)] /\ widgetLog' \in [Widget -> Seq(Time)]
    <3>1. widgetHits' \in [Widget -> Seq(Time)]
      BY <1>6, <1>7a DEF TypeOK
    <3>2. widgetLog' \in [Widget -> Seq(Time)]
      BY <1>1, <1>6 DEF TypeOK
    <3> QED
      BY <3>1, <3>2
  <2>6. sender' \in [Widget -> Seq(IP)]
    BY <1>1, <2>3 DEF TypeOK
  <2>7. checks' \in 0..MaxChecks
    BY <1>1 DEF TypeOK
  <2> QED
    BY <1>1, <1>2, <2>2, <2>4, <2>5, <2>6, <2>7 DEF TypeOK
<1>9. Tails' /\ (decision.at <= now)'
  <2>1. \A i \in IP : /\ ipHits'[i] = IF i = ip THEN Append(ipRest, now) ELSE ipHits[i]
                      /\ ipLog'[i] = IF i = ip THEN Append(ipLog[ip], now) ELSE ipLog[i]
    BY <1>1, <1>7a DEF TypeOK
  <2>2. \A x \in Widget :
          /\ widgetHits'[x] = IF x = w THEN Append(wRest, now) ELSE widgetHits[x]
          /\ widgetLog'[x] = IF x = w THEN Append(widgetLog[w], now) ELSE widgetLog[x]
    BY <1>1, <1>7a DEF TypeOK
  <2>3. (decision.at <= now)'
    BY <1>1, <1>2 DEF Admission
  <2>4. ASSUME NEW i \in IP
        PROVE  TailOf(ipHits'[i], ipLog'[i], now') /\ Len(ipHits'[i]) <= IpLimit
    BY <1>1, <1>5, <1>7b, <2>1 DEF Tails
  <2>5. ASSUME NEW x \in Widget
        PROVE  TailOf(widgetHits'[x], widgetLog'[x], now') /\ Len(widgetHits'[x]) <= WidgetLimit
    BY <1>1, <1>6, <1>7b, <2>2 DEF Tails
  <2> QED
    BY <2>3, <2>4, <2>5 DEF Tails
<1>10. IpWindow' /\ WidgetWindow'
  BY <1>1, <1>7 DEF IpWindow, WidgetWindow, Spaced, TypeOK
<1>11. RefusedOnlyWhenFull'
  BY <1>1 DEF RefusedOnlyWhenFull, Admission
<1> QED
  BY <1>8, <1>9, <1>10, <1>11

\* As time passes old hits stay old, and a past decision is past.
LEMMA TickKeeps == ASSUME IInv, Tick PROVE IInv'
<1> USE ClockAssumption, BoundAssumption DEF IInv, Tick, buckets, logs
<1>1. /\ TypeOK' /\ now' > now /\ now \in Int /\ now' \in Int
      /\ decision.at \in Int /\ decision' = decision
  BY DEF TypeOK, Time
<1>2. Tails' /\ (decision.at <= now)'
  <2>1. ASSUME NEW b \in Seq(Time), NEW l \in Seq(Time), TailOf(b, l, now)
        PROVE  TailOf(b, l, now')
    <3>1. \A i \in 1..(Len(l) - Len(b)) : l[i] \in Int
      <4>1. Len(b) \in Nat /\ Len(l) \in Nat /\ \A i \in 1..Len(l) : l[i] \in Time
        BY ElementOfSeq, LenProperties
      <4> QED
        BY <4>1 DEF Time
    <3> QED
      BY <1>1, <2>1, <3>1 DEF TailOf
  <2> QED
    BY <1>1, <2>1 DEF Tails, TypeOK
<1>3. IpWindow' /\ WidgetWindow'
  BY DEF IpWindow, WidgetWindow, Spaced
<1>4. RefusedOnlyWhenFull'
  BY <1>1 DEF RefusedOnlyWhenFull
<1> QED
  BY <1>1, <1>2, <1>3, <1>4

\* The inductive step, one case per disjunct of Next.
LEMMA IInvStep == IInv /\ [Next]_vars => IInv'
<1> SUFFICES ASSUME IInv, [Next]_vars PROVE IInv'
  OBVIOUS
<1>1. ASSUME NEW ip \in IP, NEW w \in Widget, RefuseIp(ip, w) PROVE IInv'
  BY <1>1, RefuseIpKeeps
<1>2. ASSUME NEW ip \in IP, NEW w \in Widget, RefuseWidget(ip, w) PROVE IInv'
  BY <1>2, RefuseWidgetKeeps
<1>3. ASSUME NEW ip \in IP, NEW w \in Widget, Admit(ip, w) PROVE IInv'
  BY <1>3, AdmitKeeps
<1>4. CASE Tick
  BY <1>4, TickKeeps
<1>5. CASE UNCHANGED vars
  BY <1>5 DEF vars, IInv, TypeOK, Tails, IpWindow, WidgetWindow, Spaced, RefusedOnlyWhenFull, Full
<1> QED
  BY <1>1, <1>2, <1>3, <1>4, <1>5 DEF Next

\* The inductive invariant holds in every reachable state of the limiter.
THEOREM Invariance == Spec => []IInv
<1>1. Init => IInv
  BY InitIInv
<1>2. IInv /\ [Next]_vars => IInv'
  BY IInvStep
<1> QED
  BY <1>1, <1>2, PTL DEF Spec

\* The limiter's state always has its type.
THEOREM TypeCorrect == Spec => []TypeOK
<1>1. IInv => TypeOK
  BY DEF IInv
<1> QED
  BY <1>1, Invariance, PTL

\* Per IP: no window, wherever it lies, holds more than the IP's limit of
\* counted requests (RateLimiter.check of ratelimit.py), for any limit.
THEOREM IpWindowAlways == Spec => []IpWindow
<1>1. IInv => IpWindow
  BY DEF IInv
<1> QED
  BY <1>1, Invariance, PTL

\* Per widget: the same for a widget's requests, from any number of IPs.
THEOREM WidgetWindowAlways == Spec => []WidgetWindow
<1>1. IInv => WidgetWindow
  BY DEF IInv
<1> QED
  BY <1>1, Invariance, PTL

\* Nobody is refused on account of hits that have left the window.
THEOREM RefusedOnlyWhenFullAlways == Spec => []RefusedOnlyWhenFull
<1>1. IInv => RefusedOnlyWhenFull
  BY DEF IInv
<1> QED
  BY <1>1, Invariance, PTL

-----------------------------------------------------------------------------
(* What a decision tells the client. *)

\* The hit that keeps the bucket full is out of the window by the advised time.
Expires(log, limit) ==
    Len(log) >= limit =>
        log[Len(log) - limit + 1] + Window <= decision.at + decision.retryAfter * Second

Advice ==
    ~decision.allowed =>
        IF decision.scope = "ip" THEN Expires(ipLog[decision.ip], IpLimit)
                                 ELSE Expires(widgetLog[decision.widget], WidgetLimit)

\* What is said to remain is free in both buckets.
Promise ==
    decision.allowed /\ decision.remaining > 0 =>
        /\ decision.remaining <= IpLimit - Len(ipHits[decision.ip])
        /\ decision.remaining <= WidgetLimit - Len(widgetHits[decision.widget])

\* Division rounds down by less than the divisor.
LEMMA DivisionIsClose ==
    ASSUME NEW x \in Nat, NEW s \in Nat \ {0}
    PROVE  x \div s \in Nat /\ x <= (x \div s + 1) * s
  OBVIOUS

\* retry_after, rounded up, reaches past the bucket's first hit's window.
LEMMA RetryAfterReaches ==
    ASSUME now \in Time, NEW bucket \in Seq(Time), bucket # <<>>, bucket[1] > now - Window
    PROVE  bucket[1] + Window <= now + RetryAfter(bucket) * Second
<1> DEFINE x == bucket[1] + Window - now
<1>1. Len(bucket) \in Nat /\ Len(bucket) # 0
  BY LenProperties, EmptySeq
<1>2. bucket[1] \in Time
  BY <1>1, ElementOfSeq
<1>3. x \in Nat /\ Second \in Nat \ {0} /\ now \in Nat /\ bucket[1] \in Nat
  BY <1>2, ClockAssumption, BoundAssumption DEF Time
<1>4. x \div Second \in Nat /\ x <= (x \div Second + 1) * Second
  BY <1>3, DivisionIsClose
<1>5. RetryAfter(bucket) = x \div Second + 1
  <2> DEFINE d == x \div Second
  <2>1. RetryAfter(bucket) = Most(1, d + 1)
    BY DEF RetryAfter
  <2> HIDE DEF d
  <2>2. d \in Nat
    BY <1>4 DEF d
  <2>3. Most(1, d + 1) = d + 1
    BY <2>2 DEF Most
  <2> QED
    BY <2>1, <2>3 DEF d
<1> DEFINE y == (x \div Second + 1) * Second
<1>6. RetryAfter(bucket) * Second = y /\ x <= y /\ y \in Int
  BY <1>3, <1>4, <1>5
<1> HIDE DEF y
<1>7. bucket[1] + Window <= now + y
  BY <1>3, <1>6, ClockAssumption
<1> QED
  BY <1>6, <1>7

\* What a log holds are times.
LEMMA LogHoldsTimes ==
    ASSUME NEW log \in Seq(Time), NEW i \in 1..Len(log)
    PROVE  log[i] \in Nat /\ Len(log) \in Nat
<1>1. log[i] \in Time /\ Len(log) \in Nat
  BY ElementOfSeq, LenProperties
<1> QED
  BY <1>1 DEF Time

\* A refusal's advice is good for the log of the bucket it names.
LEMMA RefusalExpires ==
    ASSUME now \in Time, NEW bucket \in Seq(Time), NEW log \in Seq(Time), TailOf(bucket, log, now),
           NEW limit \in Nat \ {0}, Len(bucket) = limit, bucket[1] > now - Window
    PROVE  log[Len(log) - limit + 1] + Window <= now + RetryAfter(bucket) * Second
<1>1. bucket[1] = log[Len(log) - limit + 1] /\ bucket # <<>>
  BY DEF TailOf
<1> QED
  BY <1>1, RetryAfterReaches

\* A bucket with room is not full in the log.
LEMMA RoomIsSeen ==
    ASSUME now \in Time, NEW bucket \in Seq(Time), NEW log \in Seq(Time), TailOf(bucket, log, now),
           NEW limit \in Nat \ {0}, Len(bucket) < limit
    PROVE  ~Full(log, limit)
<1> SUFFICES ASSUME Len(log) >= limit PROVE log[Len(log) - limit + 1] <= now - Window
  <2>1. Len(log) \in Nat
    BY LenProperties
  <2>2. Len(log) >= limit => log[Len(log) - limit + 1] \in Nat
    BY <2>1, LogHoldsTimes
  <2> QED
    BY <2>1, <2>2, ClockAssumption DEF Full, Time
<1>1. Len(log) - limit + 1 \in 1..(Len(log) - Len(bucket))
  BY LenProperties
<1> QED
  BY <1>1 DEF TailOf

\* A full IP bucket advises for the IP.
LEMMA RefuseIpAdvises ==
    ASSUME IInv, NEW ip \in IP, NEW w \in Widget, RefuseIp(ip, w)
    PROVE  Advice' /\ Promise'
<1>1. PICK n \in 0..Len(ipHits[ip]) :
         /\ Stale(ipHits[ip], n)
         /\ Len(Rest(ipHits[ip], n)) >= IpLimit
         /\ decision' = Refusal(ip, w, "ip", Rest(ipHits[ip], n))
         /\ ipLog' = ipLog
  BY DEF RefuseIp, logs
<1> DEFINE rest == Rest(ipHits[ip], n)
<1>2. /\ now \in Time /\ now \in Int /\ ipHits[ip] \in Seq(Time) /\ ipLog[ip] \in Seq(Time)
      /\ TailOf(ipHits[ip], ipLog[ip], now) /\ Len(ipHits[ip]) <= IpLimit
      /\ IpLimit \in Nat \ {0}
  BY LimitAssumption, BoundAssumption DEF IInv, TypeOK, Tails, Time
<1>3. /\ rest \in Seq(Time) /\ Len(rest) = Len(ipHits[ip]) - n
      /\ TailOf(rest, ipLog[ip], now) /\ (rest # <<>> => rest[1] > now - Window)
  BY <1>1, <1>2, EvictionKeepsTail
<1>4. Len(rest) = IpLimit /\ rest # <<>>
  BY <1>1, <1>2, <1>3
<1> HIDE DEF rest
<1>5. ipLog[ip][Len(ipLog[ip]) - IpLimit + 1] + Window <= now + RetryAfter(rest) * Second
  BY <1>2, <1>3, <1>4, RefusalExpires
<1>6. /\ decision'.at = now /\ decision'.retryAfter = RetryAfter(rest) /\ decision'.ip = ip
      /\ decision'.scope = "ip" /\ decision'.allowed = FALSE
  BY <1>1 DEF Refusal, rest
<1> QED
  BY <1>1, <1>5, <1>6 DEF Advice, Promise, Expires

\* A full widget bucket advises for the widget.
LEMMA RefuseWidgetAdvises ==
    ASSUME IInv, NEW ip \in IP, NEW w \in Widget, RefuseWidget(ip, w)
    PROVE  Advice' /\ Promise'
<1>1. PICK m \in 0..Len(widgetHits[w]) :
         /\ Stale(widgetHits[w], m)
         /\ Len(Rest(widgetHits[w], m)) >= WidgetLimit
         /\ decision' = Refusal(ip, w, "widget", Rest(widgetHits[w], m))
         /\ widgetLog' = widgetLog
  BY DEF RefuseWidget
<1> DEFINE rest == Rest(widgetHits[w], m)
<1>2. /\ now \in Time /\ now \in Int
      /\ widgetHits[w] \in Seq(Time) /\ widgetLog[w] \in Seq(Time)
      /\ TailOf(widgetHits[w], widgetLog[w], now) /\ Len(widgetHits[w]) <= WidgetLimit
      /\ WidgetLimit \in Nat \ {0}
  BY LimitAssumption, BoundAssumption DEF IInv, TypeOK, Tails, Time
<1>3. /\ rest \in Seq(Time) /\ Len(rest) = Len(widgetHits[w]) - m
      /\ TailOf(rest, widgetLog[w], now) /\ (rest # <<>> => rest[1] > now - Window)
  BY <1>1, <1>2, EvictionKeepsTail
<1>4. Len(rest) = WidgetLimit /\ rest # <<>>
  BY <1>1, <1>2, <1>3
<1> HIDE DEF rest
<1>5. widgetLog[w][Len(widgetLog[w]) - WidgetLimit + 1] + Window <= now + RetryAfter(rest) * Second
  BY <1>2, <1>3, <1>4, RefusalExpires
<1>6. /\ decision'.at = now /\ decision'.retryAfter = RetryAfter(rest) /\ decision'.widget = w
      /\ decision'.scope = "widget" /\ decision'.allowed = FALSE
  BY <1>1 DEF Refusal, rest
<1> QED
  BY <1>1, <1>5, <1>6 DEF Advice, Promise, Expires

\* An admission promises the smaller of what both buckets have left.
LEMMA AdmitPromises ==
    ASSUME IInv, NEW ip \in IP, NEW w \in Widget, Admit(ip, w)
    PROVE  Advice' /\ Promise'
<1> DEFINE a == IpLimit - Len(ipHits'[ip])
           b == WidgetLimit - Len(widgetHits'[w])
<1>1. decision' = Admission(ip, w, a, b)
  BY DEF Admit
<1>2. TypeOK'
  BY AdmitKeeps DEF IInv
<1>3. a \in Int /\ b \in Int
  BY <1>2, LimitAssumption, LenProperties DEF TypeOK
<1> HIDE DEF a, b
<1>4. Remaining(a, b) <= a /\ Remaining(a, b) <= b
  BY <1>3 DEF Remaining, Least
<1>5. /\ decision'.allowed = TRUE /\ decision'.remaining = Remaining(a, b)
      /\ decision'.ip = ip /\ decision'.widget = w
  BY <1>1 DEF Admission
<1> QED
  BY <1>4, <1>5 DEF Advice, Promise, a, b

\* Advice and promise are inductive, given the inductive invariant.
LEMMA TellsStep == IInv /\ Advice /\ Promise /\ [Next]_vars => Advice' /\ Promise'
<1> SUFFICES ASSUME IInv, Advice, Promise, [Next]_vars PROVE Advice' /\ Promise'
  OBVIOUS
<1>1. CASE Tick \/ UNCHANGED vars
  BY <1>1 DEF Tick, vars, buckets, logs, Advice, Promise, Expires
<1> QED
  BY <1>1, RefuseIpAdvises, RefuseWidgetAdvises, AdmitPromises DEF Next

\* Advice and promise hold in every reachable state.
THEOREM Tells == Spec => [](IInv /\ Advice /\ Promise)
<1>1. Init => Advice /\ Promise
  <2> SUFFICES ASSUME Init PROVE Advice /\ Promise
    OBVIOUS
  <2>1. decision.allowed = TRUE /\ decision.remaining = 0
    BY DEF Init
  <2> QED
    BY <2>1 DEF Advice, Promise
<1> QED
  BY <1>1, TellsStep, Invariance, PTL DEF Spec

\* Who waits the advertised seconds finds a place, if nobody else has come.
THEOREM RetryAfterSufficesAlways == Spec => []RetryAfterSuffices
<1>1. ASSUME TypeOK, NEW log \in Seq(Time), NEW limit \in Nat \ {0}, Expires(log, limit),
             now >= decision.at + decision.retryAfter * Second
      PROVE  ~Full(log, limit)
  <2> DEFINE by == decision.at + decision.retryAfter * Second
             hit == log[Len(log) - limit + 1]
  <2>1. now \in Int /\ Len(log) \in Nat /\ Window \in Int
    BY <1>1, LenProperties, ClockAssumption DEF TypeOK, Time
  <2>2. Len(log) >= limit => hit \in Nat
    BY <2>1, LogHoldsTimes
  <2>3. by \in Int
    <3>1. decision.at \in Int /\ decision.retryAfter \in Int /\ Second \in Int
      BY <1>1, ClockAssumption DEF TypeOK, Time
    <3> QED
      BY <3>1
  <2>4. Len(log) >= limit => hit + Window <= by
    BY <1>1 DEF Expires
  <2>5. now >= by
    BY <1>1
  <2> HIDE DEF by, hit
  <2>6. Len(log) >= limit => ~(hit > now - Window)
    BY <2>1, <2>2, <2>3, <2>4, <2>5
  <2> QED
    BY <2>6 DEF Full, hit
<1>2. IInv /\ Advice => RetryAfterSuffices
  BY <1>1, LimitAssumption DEF IInv, TypeOK, Advice, RetryAfterSuffices
<1> QED
  BY <1>2, Tells, PTL

\* X-RateLimit-Remaining promises no request that either bucket would refuse.
THEOREM RemainingIsHonestAlways == Spec => []RemainingIsHonest
<1>1. IInv /\ Promise => RemainingIsHonest
  <2> SUFFICES ASSUME IInv, Promise, decision.allowed, decision.remaining > 0
               PROVE  ~Full(ipLog[decision.ip], IpLimit) /\ ~Full(widgetLog[decision.widget], WidgetLimit)
    BY DEF RemainingIsHonest, Promise
  <2>1. /\ decision.ip \in IP /\ decision.widget \in Widget /\ decision.remaining \in Nat
        /\ now \in Time
        /\ ipHits[decision.ip] \in Seq(Time) /\ ipLog[decision.ip] \in Seq(Time)
        /\ widgetHits[decision.widget] \in Seq(Time) /\ widgetLog[decision.widget] \in Seq(Time)
    BY DEF IInv, TypeOK
  <2>2. Len(ipHits[decision.ip]) < IpLimit /\ Len(widgetHits[decision.widget]) < WidgetLimit
    BY <2>1, LenProperties, LimitAssumption DEF Promise
  <2>3. /\ TailOf(ipHits[decision.ip], ipLog[decision.ip], now)
        /\ TailOf(widgetHits[decision.widget], widgetLog[decision.widget], now)
    BY <2>1 DEF IInv, Tails
  <2> QED
    BY <2>1, <2>2, <2>3, RoomIsSeen, LimitAssumption
<1> QED
  BY <1>1, Tells, PTL

-----------------------------------------------------------------------------
(* A flooder: what one IP sent to a widget, it has in its own log.         *)

\* The last k hits of a widget all came from this IP.
Alone(senders, k, ip) == \A i \in (Len(senders) - k + 1)..Len(senders) : senders[i] = ip

\* The k-th last hit of an IP is no older than the k-th last of a widget.
Covers(own, log, k) == k <= Len(own) /\ own[Len(own) - k + 1] >= log[Len(log) - k + 1]

\* A log is in the order of time, and none of it is still to come.
Ordered(log, t) ==
    /\ \A i \in 1..Len(log) : log[i] <= t
    /\ \A i \in 1..(Len(log) - 1) : log[i] <= log[i + 1]

\* Whoever sent the last hits of a widget has as many in its own log, at
\* least as recent: its own log has them all, and those sent elsewhere too.
Trail ==
    /\ \A ip \in IP : Ordered(ipLog[ip], now)
    /\ \A w \in Widget : Len(sender[w]) = Len(widgetLog[w])
    /\ \A w \in Widget, ip \in IP : \A k \in 1..Len(widgetLog[w]) :
          Alone(sender[w], k, ip) => Covers(ipLog[ip], widgetLog[w], k)

\* What Append does to a log, in one place.
LEMMA Longer ==
    ASSUME NEW S, NEW log \in Seq(S), NEW x \in S
    PROVE  /\ Append(log, x) \in Seq(S) /\ Len(log) \in Nat
           /\ Len(Append(log, x)) = Len(log) + 1
           /\ Append(log, x)[Len(log) + 1] = x
           /\ \A i \in 1..Len(log) : Append(log, x)[i] = log[i]
BY AppendProperties, LenProperties

\* A log holds integers.
LEMMA LogHoldsIntegers ==
    ASSUME NEW log \in Seq(Time)
    PROVE  Len(log) \in Nat /\ \A i \in 1..Len(log) : log[i] \in Int
<1>1. \A i \in 1..Len(log) : log[i] \in Time
  BY ElementOfSeq
<1>2. \A t \in Time : t \in Int
  BY DEF Time
<1> QED
  BY <1>1, <1>2, LenProperties

\* A log that grows by the present stays in order.
LEMMA HitKeepsOrder ==
    ASSUME now \in Time, NEW log \in Seq(Time), Ordered(log, now)
    PROVE  Ordered(Append(log, now), now)
<1> DEFINE new == Append(log, now)
<1>1. /\ Len(log) \in Nat /\ Len(new) = Len(log) + 1 /\ new[Len(log) + 1] = now
      /\ \A i \in 1..Len(log) : new[i] = log[i]
  BY Longer
<1>2. now \in Int
  BY BoundAssumption DEF Time
<1> HIDE DEF new
<1>3. ASSUME NEW i \in 1..Len(new) PROVE new[i] <= now
  <2>1. CASE i \in 1..Len(log)
    BY <1>1, <2>1 DEF Ordered
  <2>2. CASE i = Len(log) + 1
    BY <1>1, <1>2, <2>2
  <2> QED
    BY <1>1, <2>1, <2>2
<1>4. ASSUME NEW i \in 1..(Len(new) - 1) PROVE new[i] <= new[i + 1]
  <2>1. i \in 1..Len(log) /\ new[i] = log[i]
    BY <1>1
  <2>2. CASE i = Len(log)
    BY <1>1, <2>1, <2>2 DEF Ordered
  <2>3. CASE i # Len(log)
    <3>1. i + 1 \in 1..Len(log) /\ i \in 1..(Len(log) - 1)
      BY <1>1, <2>1, <2>3
    <3>2. new[i + 1] = log[i + 1]
      BY <1>1, <3>1
    <3> QED
      BY <2>1, <3>1, <3>2 DEF Ordered
  <2> QED
    BY <2>2, <2>3
<1> QED
  BY <1>3, <1>4 DEF Ordered, new

\* An IP that hits again covers what it covered.
LEMMA HitKeepsCover ==
    ASSUME now \in Time, NEW own \in Seq(Time), Ordered(own, now),
           NEW log \in Seq(Time), NEW k \in 1..Len(log), Covers(own, log, k)
    PROVE  Covers(Append(own, now), log, k)
<1> DEFINE new == Append(own, now)
           at == Len(own) - k + 1
<1>1. /\ Len(own) \in Nat /\ Len(new) = Len(own) + 1 /\ new[Len(own) + 1] = now
      /\ \A i \in 1..Len(own) : new[i] = own[i]
  BY Longer
<1>2. Len(log) \in Nat /\ \A i \in 1..Len(log) : log[i] \in Int
  BY LogHoldsIntegers
<1>3. \A i \in 1..Len(own) : own[i] \in Int
  BY LogHoldsIntegers
<1> HIDE DEF new
<1>4. at \in 1..Len(own) /\ Len(new) - k + 1 = at + 1
  BY <1>1, <1>2 DEF Covers
<1>5. own[at] <= new[at + 1]
  <2>1. CASE at = Len(own)
    BY <1>1, <1>4, <2>1 DEF Ordered
  <2>2. CASE at # Len(own)
    <3>1. at \in 1..(Len(own) - 1) /\ at + 1 \in 1..Len(own)
      BY <1>1, <1>4, <2>2
    <3> QED
      BY <1>1, <3>1 DEF Ordered
  <2> QED
    BY <2>1, <2>2
<1>6. new[at + 1] \in Int
  <2>1. new \in Seq(Time)
    BY Longer DEF new
  <2>2. at + 1 \in 1..Len(new)
    BY <1>1, <1>4
  <2> QED
    BY <2>1, <2>2, LogHoldsIntegers
<1>7. own[at] \in Int /\ log[Len(log) - k + 1] \in Int /\ own[at] >= log[Len(log) - k + 1]
  <2>1. Len(log) - k + 1 \in 1..Len(log)
    BY <1>2
  <2> QED
    BY <1>2, <1>3, <1>4, <2>1 DEF Covers
<1>8. k <= Len(new)
  BY <1>1, <1>2 DEF Covers
<1> HIDE DEF at
<1>9. new[at + 1] >= log[Len(log) - k + 1]
  BY <1>5, <1>6, <1>7
<1> QED
  BY <1>4, <1>8, <1>9 DEF Covers, new

\* A hit that both count: the last of the widget is the last of its sender.
LEMMA AdmissionIsCovered ==
    ASSUME now \in Time, NEW ip \in IP, NEW from \in IP,
           NEW own \in Seq(Time), NEW log \in Seq(Time), NEW senders \in Seq(IP),
           Len(senders) = Len(log),
           \A k \in 1..Len(log) : Alone(senders, k, ip) => Covers(own, log, k),
           NEW k \in 1..(Len(log) + 1), Alone(Append(senders, from), k, ip)
    PROVE  ip = from /\ Covers(Append(own, now), Append(log, now), k)
<1> DEFINE newOwn == Append(own, now)
           newLog == Append(log, now)
           newFrom == Append(senders, from)
<1>1. /\ Len(own) \in Nat /\ Len(newOwn) = Len(own) + 1 /\ newOwn[Len(own) + 1] = now
      /\ \A i \in 1..Len(own) : newOwn[i] = own[i]
  BY Longer
<1>2. /\ Len(log) \in Nat /\ Len(newLog) = Len(log) + 1 /\ newLog[Len(log) + 1] = now
      /\ \A i \in 1..Len(log) : newLog[i] = log[i]
  BY Longer
<1>3. /\ Len(newFrom) = Len(log) + 1 /\ newFrom[Len(log) + 1] = from
      /\ \A i \in 1..Len(log) : newFrom[i] = senders[i]
  BY Longer
<1>4. now \in Int
  BY BoundAssumption DEF Time
<1>5. Alone(newFrom, k, ip)
  OBVIOUS
<1> HIDE DEF newOwn, newLog, newFrom
<1>6. ip = from
  <2>1. Len(log) + 1 \in (Len(newFrom) - k + 1)..Len(newFrom)
    BY <1>2, <1>3
  <2> QED
    BY <1>3, <1>5, <2>1 DEF Alone
<1>7. ASSUME k = 1 PROVE Covers(newOwn, newLog, k)
  <2>1. Len(newOwn) - k + 1 = Len(own) + 1 /\ Len(newLog) - k + 1 = Len(log) + 1
    BY <1>1, <1>2, <1>7
  <2>2. k <= Len(newOwn) /\ now >= now
    BY <1>1, <1>4, <1>7
  <2>3. newOwn[Len(newOwn) - k + 1] = now /\ newLog[Len(newLog) - k + 1] = now
    BY <1>1, <1>2, <2>1
  <2> QED
    BY <2>2, <2>3 DEF Covers
<1>8. ASSUME k # 1 PROVE Covers(newOwn, newLog, k)
  <2> DEFINE j == k - 1
  <2>1. j \in 1..Len(log)
    BY <1>2, <1>8
  <2>2. Alone(senders, j, ip)
    <3> SUFFICES ASSUME NEW i \in (Len(senders) - j + 1)..Len(senders) PROVE senders[i] = ip
      BY DEF Alone
    <3>1. i \in 1..Len(log) /\ i \in (Len(newFrom) - k + 1)..Len(newFrom)
      BY <1>2, <1>3, <2>1
    <3> QED
      BY <1>3, <1>5, <3>1 DEF Alone
  <2>3. Covers(own, log, j)
    BY <2>1, <2>2
  <2>4. /\ Len(newOwn) - k + 1 = Len(own) - j + 1 /\ Len(own) - j + 1 \in 1..Len(own)
        /\ Len(newLog) - k + 1 = Len(log) - j + 1 /\ Len(log) - j + 1 \in 1..Len(log)
        /\ k <= Len(newOwn)
    BY <1>1, <1>2, <2>1, <2>3 DEF Covers
  <2>5. /\ newOwn[Len(own) - j + 1] = own[Len(own) - j + 1]
        /\ newLog[Len(log) - j + 1] = log[Len(log) - j + 1]
    BY <1>1, <1>2, <2>4
  <2>6. own[Len(own) - j + 1] >= log[Len(log) - j + 1]
    BY <2>3 DEF Covers
  <2> HIDE DEF j
  <2>7. newOwn[Len(newOwn) - k + 1] >= newLog[Len(newLog) - k + 1]
    BY <2>4, <2>5, <2>6
  <2> QED
    BY <2>4, <2>7 DEF Covers
<1> QED
  BY <1>6, <1>7, <1>8 DEF newOwn, newLog

\* The trail of every IP survives a step.
LEMMA TrailStep == IInv /\ Trail /\ [Next]_vars => Trail'
<1> SUFFICES ASSUME IInv, Trail, [Next]_vars PROVE Trail'
  OBVIOUS
<1>1. /\ now \in Time /\ ipLog \in [IP -> Seq(Time)]
      /\ widgetLog \in [Widget -> Seq(Time)] /\ sender \in [Widget -> Seq(IP)]
  BY DEF IInv, TypeOK
<1>2. ASSUME UNCHANGED <<now, logs>> PROVE Trail'
  BY <1>2 DEF Trail, logs
<1>3. ASSUME NEW ip \in IP, UNCHANGED now, ipLog' = [ipLog EXCEPT ![ip] = Append(@, now)]
      PROVE  \A i \in IP :
                /\ Ordered(ipLog[i], now)'
                /\ i # ip => ipLog'[i] = ipLog[i]
                /\ i = ip => ipLog'[i] = Append(ipLog[i], now)
  <2> SUFFICES ASSUME NEW i \in IP
               PROVE  /\ Ordered(ipLog'[i], now)
                      /\ i # ip => ipLog'[i] = ipLog[i]
                      /\ i = ip => ipLog'[i] = Append(ipLog[i], now)
    BY <1>3 DEF Ordered
  <2>1. ipLog'[i] = IF i = ip THEN Append(ipLog[i], now) ELSE ipLog[i]
    BY <1>1, <1>3
  <2>2. Ordered(ipLog[i], now) /\ ipLog[i] \in Seq(Time)
    BY <1>1 DEF Trail
  <2>3. Ordered(Append(ipLog[i], now), now)
    BY <1>1, <2>2, HitKeepsOrder
  <2> QED
    BY <2>1, <2>2, <2>3
<1>4. ASSUME NEW ip \in IP, NEW w \in Widget, RefuseWidget(ip, w) PROVE Trail'
  <2>1. UNCHANGED <<now, widgetLog, sender>> /\ ipLog' = [ipLog EXCEPT ![ip] = Append(@, now)]
    BY <1>4 DEF RefuseWidget, Counted
  <2>2. ASSUME NEW v \in Widget, NEW i \in IP, NEW k \in 1..Len(widgetLog[v]), Alone(sender[v], k, i)
        PROVE  Covers(ipLog'[i], widgetLog[v], k)
    <3>1. Covers(ipLog[i], widgetLog[v], k) /\ Ordered(ipLog[i], now)
      BY <2>2 DEF Trail
    <3>2. ipLog[i] \in Seq(Time) /\ widgetLog[v] \in Seq(Time)
      BY <1>1
    <3>3. Covers(Append(ipLog[i], now), widgetLog[v], k)
      BY <1>1, <3>1, <3>2, HitKeepsCover
    <3> QED
      BY <1>3, <2>1, <3>1, <3>3
  <2> QED
    BY <1>3, <2>1, <2>2 DEF Trail
<1>5. ASSUME NEW ip \in IP, NEW w \in Widget, Admit(ip, w) PROVE Trail'
  <2>1. /\ UNCHANGED now /\ ipLog' = [ipLog EXCEPT ![ip] = Append(@, now)]
        /\ widgetLog' = [widgetLog EXCEPT ![w] = Append(@, now)]
        /\ sender' = [sender EXCEPT ![w] = Append(@, ip)]
    BY <1>5 DEF Admit, Counted
  <2>2. \A v \in Widget :
          /\ widgetLog'[v] = IF v = w THEN Append(widgetLog[v], now) ELSE widgetLog[v]
          /\ sender'[v] = IF v = w THEN Append(sender[v], ip) ELSE sender[v]
    BY <1>1, <2>1
  <2>3. \A v \in Widget : Len(sender'[v]) = Len(widgetLog'[v])
    <3>1. \A v \in Widget : Len(sender[v]) = Len(widgetLog[v])
      BY DEF Trail
    <3>2. \A v \in Widget : /\ Len(Append(widgetLog[v], now)) = Len(widgetLog[v]) + 1
                            /\ Len(Append(sender[v], ip)) = Len(sender[v]) + 1
      BY <1>1, Longer
    <3> QED
      BY <2>2, <3>1, <3>2
  <2>4. ASSUME NEW v \in Widget, NEW i \in IP, NEW k \in 1..Len(widgetLog'[v]), Alone(sender'[v], k, i)
        PROVE  Covers(ipLog'[i], widgetLog'[v], k)
    <3>1. /\ ipLog[i] \in Seq(Time) /\ widgetLog[v] \in Seq(Time) /\ sender[v] \in Seq(IP)
          /\ Ordered(ipLog[i], now) /\ Len(sender[v]) = Len(widgetLog[v])
          /\ \A j \in 1..Len(widgetLog[v]) :
                Alone(sender[v], j, i) => Covers(ipLog[i], widgetLog[v], j)
      BY <1>1 DEF Trail
    <3>2. CASE v = w
      <4>0. Len(Append(widgetLog[v], now)) = Len(widgetLog[v]) + 1
        BY <1>1, <3>1, Longer
      <4>1. k \in 1..(Len(widgetLog[v]) + 1) /\ Alone(Append(sender[v], ip), k, i)
        BY <2>2, <2>4, <3>2, <4>0
      <4>2. i = ip /\ Covers(Append(ipLog[i], now), Append(widgetLog[v], now), k)
        BY <1>1, <3>1, <4>1, AdmissionIsCovered
      <4> QED
        BY <1>3, <2>1, <2>2, <3>2, <4>2
    <3>3. CASE v # w
      <4>1. k \in 1..Len(widgetLog[v]) /\ Covers(ipLog[i], widgetLog[v], k)
        BY <2>2, <2>4, <3>1, <3>3
      <4>2. Covers(Append(ipLog[i], now), widgetLog[v], k)
        BY <1>1, <3>1, <4>1, HitKeepsCover
      <4> QED
        BY <1>3, <2>1, <2>2, <3>3, <4>1, <4>2
    <3> QED
      BY <3>2, <3>3
  <2> QED
    BY <1>3, <2>1, <2>3, <2>4 DEF Trail
<1>6. CASE Tick
  <2>1. UNCHANGED logs /\ now' = now + 1 /\ now \in Int
    BY <1>1, <1>6, BoundAssumption DEF Tick, Time
  <2>2. ASSUME NEW ip \in IP PROVE Ordered(ipLog[ip], now + 1)
    <3>1. Ordered(ipLog[ip], now) /\ \A i \in 1..Len(ipLog[ip]) : ipLog[ip][i] \in Int
      BY <1>1, LogHoldsIntegers DEF Trail
    <3> QED
      BY <2>1, <3>1 DEF Ordered
  <2> QED
    BY <2>1, <2>2 DEF Trail, logs, Ordered
<1>7. ASSUME NEW ip \in IP, NEW w \in Widget, RefuseIp(ip, w) PROVE Trail'
  BY <1>2, <1>7 DEF RefuseIp, Counted
<1>8. CASE UNCHANGED vars
  BY <1>2, <1>8 DEF vars, logs
<1> QED
  BY <1>4, <1>5, <1>6, <1>7, <1>8 DEF Next

\* Nobody has sent anything at the start.
LEMMA InitTrail == Init => Trail
<1> SUFFICES ASSUME Init PROVE Trail
  OBVIOUS
<1>1. Len(<<>>) = 0 /\ \A n : n \notin 1..0 /\ n \notin 1..(0 - 1)
  BY EmptySeq
<1> QED
  BY <1>1 DEF Init, Trail, Ordered

\* In every reachable state the IPs' own logs cover what they sent.
THEOREM TrailAlways == Spec => []Trail
  BY InitTrail, TrailStep, Invariance, PTL DEF Spec

\* One flooder never fills a widget's window, if an IP may send less than a
\* widget accepts: the window would be full in its own log first.
THEOREM OneFlooderCannotFillAlways == Spec => []OneFlooderCannotFill
<1>1. IInv /\ Trail => OneFlooderCannotFill
  <2> SUFFICES ASSUME IInv, Trail, IpLimit < WidgetLimit, NEW w \in Widget,
                      Full(widgetLog[w], WidgetLimit)
               PROVE  Cardinality({sender[w][i] : i \in (Len(sender[w]) - WidgetLimit + 1)..Len(sender[w])}) > 1
    BY DEF OneFlooderCannotFill
  <2> DEFINE first == Len(sender[w]) - WidgetLimit + 1
             last == Len(sender[w])
             from == {sender[w][i] : i \in first..last}
  <2>1. /\ widgetLog[w] \in Seq(Time) /\ sender[w] \in Seq(IP) /\ Len(sender[w]) = Len(widgetLog[w])
        /\ now \in Int /\ Window \in Nat \ {0} /\ IpLimit \in Nat \ {0} /\ WidgetLimit \in Nat \ {0}
    BY BoundAssumption, LimitAssumption, ClockAssumption DEF IInv, TypeOK, Trail, Time
  <2>2. Len(sender[w]) \in Nat /\ Len(widgetLog[w]) \in Nat
    BY <2>1, LenProperties
  <2>3. Len(widgetLog[w]) >= WidgetLimit /\ widgetLog[w][first] > now - Window
    BY <2>1 DEF Full
  <2>4. first \in 1..last /\ last \in first..last /\ WidgetLimit \in 1..Len(widgetLog[w])
    BY <2>1, <2>2, <2>3
  <2>5. IsFiniteSet(from)
    <3>1. IsFiniteSet(first..last)
      <4>1. first \in Int /\ last \in Int
        BY <2>1, <2>2
      <4> HIDE DEF first, last
      <4> QED
        BY <4>1, FS_Interval
    <3> DEFINE f == [i \in first..last |-> sender[w][i]]
    <3>2. f \in Surjection(first..last, from)
      <4> HIDE DEF first, last
      <4>1. f \in [first..last -> from]
        OBVIOUS
      <4>2. \A ip \in from : \E i \in first..last : f[i] = ip
        OBVIOUS
      <4> HIDE DEF f, from
      <4> QED
        BY <4>1, <4>2 DEF Surjection
    <3> HIDE DEF f, from, first, last
    <3> QED
      BY <3>1, <3>2, FS_Surjection
  <2>6. sender[w][last] \in from /\ sender[w][last] \in IP
    <3>1. last \in 1..Len(sender[w])
      BY <2>2, <2>4
    <3> QED
      BY <2>1, <2>4, <3>1, ElementOfSeq
  <2>7. ASSUME NEW ip, from = {ip} PROVE FALSE
    <3>0. ip \in IP /\ Alone(sender[w], WidgetLimit, ip)
      BY <2>6, <2>7 DEF Alone
    <3> DEFINE own == ipLog[ip]
               at == Len(own) - WidgetLimit + 1
    <3>1. own \in Seq(Time) /\ Spaced(own, IpLimit) /\ Ordered(own, now)
      BY <3>0 DEF IInv, TypeOK, IpWindow, Trail
    <3>2. Len(own) \in Nat /\ \A i \in 1..Len(own) : own[i] \in Int
      BY <3>1, LogHoldsIntegers
    <3>3. Covers(own, widgetLog[w], WidgetLimit)
      BY <2>4, <3>0 DEF Trail
    <3>4. WidgetLimit <= Len(own) /\ own[at] >= widgetLog[w][first]
      BY <2>1, <3>3 DEF Covers
    <3>5. at \in 1..(Len(own) - IpLimit) /\ at \in 1..Len(own) /\ at + IpLimit \in 1..Len(own)
      BY <2>1, <3>2, <3>4
    <3>6. widgetLog[w][first] \in Int
      <4>1. first \in 1..Len(widgetLog[w])
        BY <2>1, <2>4
      <4> QED
        BY <2>1, <4>1, LogHoldsIntegers
    <3>7. own[at + IpLimit] >= own[at] + Window /\ own[at + IpLimit] <= now
      BY <3>1, <3>5 DEF Spaced, Ordered
    <3>8. own[at] \in Int /\ own[at + IpLimit] \in Int
      BY <3>2, <3>5
    <3> DEFINE early == own[at]
               late == own[at + IpLimit]
               full == widgetLog[w][first]
    <3>9. early \in Int /\ late \in Int /\ full \in Int
      BY <3>6, <3>8
    <3>10. late >= early + Window /\ late <= now /\ early >= full /\ full > now - Window
      BY <2>3, <3>4, <3>7
    <3> HIDE DEF early, late, full
    <3> QED
      BY <2>1, <3>9, <3>10
  <2> HIDE DEF from, first, last
  <2>8. Cardinality(from) \in Nat /\ Cardinality(from) # 0 /\ Cardinality(from) # 1
    BY <2>5, <2>6, <2>7, FS_CardinalityType, FS_EmptySet, FS_Singleton
  <2>9. Cardinality(from) > 1
    BY <2>8
  <2> QED
    BY <2>9 DEF from, first, last
<1> QED
  BY <1>1, TrailAlways, Invariance, PTL
===============================================================================
