-------------------------- MODULE RateLimiter_proofs --------------------------
(***************************************************************************)
(* What the limiter guarantees for any number of threads, any budgets and  *)
(* windows, and any number of calls.                                       *)
(***************************************************************************)
EXTENDS RateLimiter, FiniteSetTheorems, TLAPS

-----------------------------------------------------------------------------
(* The budget.  What _content_events has dropped is out of both windows,   *)
(* and what it holds is the end of the history, oldest first.              *)

Dropped == Len(tokens) - Len(events)

EventsAreRecent ==
  /\ Dropped \in Nat
  /\ \A i \in 1..Len(events) : events[i] = tokens[Dropped + i]
  /\ \A i \in 1..Dropped : tokens[i] >= Hour

OldestFirst == \A i, j \in 1..Len(tokens) : i < j => tokens[i] >= tokens[j]

TokensTyped ==
  /\ events \in Seq(Ages)
  /\ tokens \in Seq(Ages)

BudgetInv == TokensTyped /\ EventsAreRecent /\ OldestFirst /\ BudgetKept

LEMMA BudgetInit == Init => BudgetInv
BY LimiterAssumption
   DEF Init, BudgetInv, TokensTyped, EventsAreRecent, Dropped, OldestFirst, BudgetKept, AtMost, Ages

LEMMA AgesGrow ==
  ASSUME NEW s \in Seq(Ages)
  PROVE  /\ AllOlder(s) \in Seq(Ages)
         /\ Len(AllOlder(s)) = Len(s)
         /\ \A i \in 1..Len(s) : AllOlder(s)[i] = Older(s[i])
         /\ \A i \in 1..Len(s) : s[i] \in Ages /\ Older(s[i]) \in Ages /\ Older(s[i]) >= s[i]
<1>1. \A i \in 1..Len(s) : s[i] \in Ages
  OBVIOUS
<1>2. \A a \in Ages : Older(a) \in Ages /\ Older(a) >= a
  BY LimiterAssumption DEF Ages, Older
<1> QED
  BY <1>1, <1>2 DEF AllOlder

LEMMA OneMore ==
  ASSUME NEW s \in Seq(Ages)
  PROVE  /\ Append(s, 0) \in Seq(Ages)
         /\ Len(Append(s, 0)) = Len(s) + 1
         /\ \A i \in 1..Len(s) : Append(s, 0)[i] = s[i]
         /\ Append(s, 0)[Len(s) + 1] = 0
<1>1. 0 \in Ages
  BY LimiterAssumption DEF Ages
<1> QED
  BY <1>1

LEMMA BudgetTick ==
  ASSUME BudgetInv, Tick
  PROVE  BudgetInv'
<1> USE DEF BudgetInv
<1>1. /\ events \in Seq(Ages) /\ tokens \in Seq(Ages)
      /\ events' = AllOlder(events) /\ tokens' = AllOlder(tokens)
  BY DEF Tick, TokensTyped
<1>2. /\ TokensTyped'
      /\ Len(events') = Len(events) /\ Len(tokens') = Len(tokens)
      /\ \A i \in 1..Len(events) : events'[i] = Older(events[i])
      /\ \A i \in 1..Len(tokens) : tokens'[i] = Older(tokens[i])
      /\ \A i \in 1..Len(tokens) : tokens[i] \in Ages /\ tokens'[i] \in Ages
                                     /\ tokens'[i] >= tokens[i]
  BY <1>1, AgesGrow DEF TokensTyped
<1>3. Len(events) \in Nat /\ Len(tokens) \in Nat
  BY <1>1
<1>4. EventsAreRecent'
  <2> DEFINE d == Len(tokens) - Len(events)
  <2>1. /\ d \in Nat
        /\ \A i \in 1..Len(events) : events[i] = tokens[d + i]
        /\ \A i \in 1..d : tokens[i] >= Hour
    BY DEF EventsAreRecent, Dropped
  <2>2. Dropped' = d
    BY <1>2 DEF Dropped
  <2>3. ASSUME NEW i \in 1..Len(events')
        PROVE  events'[i] = tokens'[d + i]
    <3>1. i \in 1..Len(events) /\ d + i \in 1..Len(tokens)
      BY <1>2, <1>3, <2>1
    <3> QED
      BY <1>2, <2>1, <3>1
  <2>4. ASSUME NEW i \in 1..d
        PROVE  tokens'[i] >= Hour
    <3>1. i \in 1..Len(tokens) /\ tokens[i] >= Hour
      BY <1>3, <2>1
    <3> QED
      BY <1>2, <3>1, LimiterAssumption DEF Ages
  <2> QED
    BY <2>1, <2>2, <2>3, <2>4 DEF EventsAreRecent
<1>5. OldestFirst'
  BY <1>2, <1>3, LimiterAssumption DEF OldestFirst, Older, Ages
<1>6. BudgetKept'
  BY <1>2, <1>3, LimiterAssumption DEF BudgetKept, AtMost, Ages
<1> QED
  BY <1>2, <1>4, <1>5, <1>6

(* _trim drops from the front what is out of the hour.                     *)
LEMMA TrimKeepsRecent ==
  ASSUME BudgetInv, NEW cut \in 0..Len(events), IsTrimPoint(cut),
         NEW s, s = SubSeq(events, cut + 1, Len(events))
  PROVE  /\ s \in Seq(Ages)
         /\ Len(s) = Len(events) - cut
         /\ Len(s) \in Nat /\ Len(tokens) \in Nat /\ Len(s) <= Len(tokens)
         /\ \A i \in 1..Len(s) : s[i] = tokens[Len(tokens) - Len(s) + i]
         /\ \A i \in 1..(Len(tokens) - Len(s)) : tokens[i] >= Hour
<1>1. /\ events \in Seq(Ages) /\ tokens \in Seq(Ages)
      /\ Len(events) \in Nat /\ Len(tokens) \in Nat
  BY DEF BudgetInv, TokensTyped
<1>2. /\ s \in Seq(Ages)
      /\ Len(s) = Len(events) - cut
      /\ \A i \in 1..Len(s) : s[i] = events[cut + i]
  BY <1>1
<1>3. /\ Len(tokens) - Len(events) \in Nat
      /\ \A i \in 1..Len(events) : events[i] = tokens[Len(tokens) - Len(events) + i]
      /\ \A i \in 1..(Len(tokens) - Len(events)) : tokens[i] >= Hour
  BY DEF BudgetInv, EventsAreRecent, Dropped
<1>4. \A i \in 1..cut : events[i] >= Hour
  BY DEF IsTrimPoint
<1>5. ASSUME NEW i \in 1..Len(s)
      PROVE  s[i] = tokens[Len(tokens) - Len(s) + i]
  <2>1. cut + i \in 1..Len(events) /\ s[i] = events[cut + i]
    BY <1>1, <1>2
  <2> DEFINE n == Len(tokens)
             m == Len(events)
             k == Len(s)
  <2>2. n \in Int /\ m \in Int /\ k \in Int /\ i \in Int /\ cut \in Int
    BY <1>1, <1>2
  <2>3. k = m - cut
    BY <1>2
  <2>4. n - m + (cut + i) = n - k + i
    <3> HIDE DEF n, m, k
    <3> QED
      BY <2>2, <2>3
  <2> QED
    BY <1>3, <2>1, <2>4
<1>6. ASSUME NEW i \in 1..(Len(tokens) - Len(s))
      PROVE  tokens[i] >= Hour
  <2>1. CASE i <= Len(tokens) - Len(events)
    BY <1>1, <1>3, <2>1
  <2>2. CASE i > Len(tokens) - Len(events)
    <3> DEFINE j == i - (Len(tokens) - Len(events))
    <3>1. j \in 1..cut /\ j \in 1..Len(events) /\ Len(tokens) - Len(events) + j = i
      BY <1>1, <1>2, <2>2
    <3> QED
      BY <1>3, <1>4, <3>1
  <2> QED
    BY <1>1, <2>1, <2>2
<1>7. Len(s) \in Nat /\ Len(s) <= Len(tokens)
  <2>1. Len(s) \in Nat /\ cut \in Nat /\ Len(s) = Len(events) - cut
    BY <1>2
  <2>2. Len(events) <= Len(tokens)
    BY <1>1, <1>3
  <2> QED
    BY <1>1, <2>1, <2>2
<1> QED
  BY <1>1, <1>2, <1>5, <1>6, <1>7

LEMMA BudgetTake ==
  ASSUME BudgetInv, NEW t \in Threads, TakeToken(t)
  PROVE  BudgetInv'
<1>1. PICK cut \in 0..Len(events) :
        LET s == SubSeq(events, cut + 1, Len(events)) IN
        /\ IsTrimPoint(cut)
        /\ ~HourFull(s) /\ ~MinuteFull(s)
        /\ events' = Append(s, 0)
  BY DEF TakeToken
<1> DEFINE s == SubSeq(events, cut + 1, Len(events))
           n == Len(tokens)
           k == Len(s)
<1>2. /\ s \in Seq(Ages) /\ k \in Nat /\ n \in Nat /\ k <= n
      /\ \A i \in 1..k : s[i] = tokens[n - k + i]
      /\ \A i \in 1..(n - k) : tokens[i] >= Hour
  BY <1>1, TrimKeepsRecent
<1>3. /\ tokens \in Seq(Ages) /\ OldestFirst /\ BudgetKept
      /\ \A i \in 1..n : tokens[i] \in Ages
  BY DEF BudgetInv, TokensTyped
<1>4. events' = Append(s, 0) /\ tokens' = Append(tokens, 0)
  BY <1>1 DEF TakeToken
<1>5. /\ tokens' \in Seq(Ages)
      /\ Len(tokens') = n + 1
      /\ \A i \in 1..n : tokens'[i] = tokens[i]
      /\ tokens'[n + 1] = 0
  BY <1>3, <1>4, OneMore
<1>6. /\ events' \in Seq(Ages)
      /\ Len(events') = k + 1
      /\ \A i \in 1..k : events'[i] = s[i]
      /\ events'[k + 1] = 0
  <2> HIDE DEF s
  <2> QED
    BY <1>2, <1>4, OneMore
<1>7. ~HourFull(s) /\ ~MinuteFull(s)
  BY <1>1
<1> HIDE DEF n, k, s
<1>8. EventsAreRecent'
  <2>1. Dropped' = n - k /\ Dropped' \in Nat
    BY <1>2, <1>5, <1>6 DEF Dropped
  <2>2. ASSUME NEW i \in 1..(k + 1)
        PROVE  events'[i] = tokens'[n - k + i]
    <3>1. CASE i \in 1..k
      <4>1. n - k + i \in 1..n
        BY <1>2, <3>1
      <4> QED
        BY <1>2, <1>5, <1>6, <3>1, <4>1
    <3>2. CASE i = k + 1
      <4>1. n - k + i = n + 1
        BY <1>2, <3>2
      <4> QED
        BY <1>5, <1>6, <3>2, <4>1
    <3> QED
      BY <1>2, <3>1, <3>2
  <2>3. \A i \in 1..(n - k) : tokens'[i] >= Hour
    <3>1. \A i \in 1..(n - k) : i \in 1..n
      BY <1>2
    <3> QED
      BY <1>2, <1>5, <3>1
  <2> QED
    BY <1>6, <2>1, <2>2, <2>3 DEF EventsAreRecent
<1>9. ASSUME NEW i \in 1..Len(tokens'), NEW j \in 1..Len(tokens'), i < j
      PROVE  tokens'[i] >= tokens'[j]
  <2>1. i \in 1..n /\ tokens'[i] = tokens[i]
    BY <1>2, <1>5, <1>9
  <2>2. CASE j \in 1..n
    BY <1>3, <1>5, <1>9, <2>1, <2>2 DEF OldestFirst, n
  <2>3. CASE j = n + 1
    BY <1>3, <1>5, <2>1, <2>3, LimiterAssumption DEF Ages
  <2> QED
    BY <1>2, <1>5, <2>2, <2>3
<1>10. ASSUME NEW i \in 1..(n + 1), i + PerHour <= n + 1
       PROVE  tokens'[i] >= Hour
  <2>1. CASE i + PerHour <= n
    <3>1. i \in 1..n
      BY <1>2, <2>1, LimiterAssumption
    <3> QED
      BY <1>3, <1>5, <2>1, <3>1 DEF BudgetKept, AtMost, n
  <2>2. CASE i + PerHour = n + 1
    <3>1. k < PerHour
      BY <1>2, <1>7, LimiterAssumption DEF HourFull, k
    <3>2. i \in 1..(n - k) /\ i \in 1..n
      BY <1>2, <2>2, <3>1, LimiterAssumption
    <3> QED
      BY <1>2, <1>5, <3>2
  <2> QED
    BY <1>2, <1>10, <2>1, <2>2, LimiterAssumption
<1>11. ASSUME NEW i \in 1..(n + 1), i + PerMinute <= n + 1
       PROVE  tokens'[i] >= Minute
  <2>1. CASE i + PerMinute <= n
    <3>1. i \in 1..n
      BY <1>2, <2>1, LimiterAssumption
    <3> QED
      BY <1>3, <1>5, <2>1, <3>1 DEF BudgetKept, AtMost, n
  <2>2. CASE i + PerMinute = n + 1
    <3>1. i \in 1..n /\ tokens'[i] = tokens[i]
      BY <1>2, <1>5, <2>2, LimiterAssumption
    <3>2. CASE k < PerMinute
      <4>1. i \in 1..(n - k)
        BY <1>2, <2>2, <3>2, LimiterAssumption
      <4>2. tokens[i] >= Hour
        BY <1>2, <4>1
      <4> QED
        BY <1>3, <3>1, <4>2, LimiterAssumption DEF Ages
    <3>3. CASE k >= PerMinute
      <4>1. PICK j \in (k - PerMinute + 1)..k : ~(s[j] < Minute)
        BY <1>7, <3>3 DEF MinuteFull, k
      <4>2. j \in 1..k /\ n - k + j \in 1..n /\ i <= n - k + j
        BY <1>2, <2>2, <3>3, <4>1, LimiterAssumption
      <4>3. tokens[n - k + j] = s[j] /\ tokens[n - k + j] \in Ages
        BY <1>2, <1>3, <4>2
      <4>4. tokens[i] >= tokens[n - k + j]
        <5>1. CASE i = n - k + j
          BY <1>3, <3>1, <4>3, <5>1 DEF Ages
        <5>2. CASE i < n - k + j
          BY <1>3, <3>1, <4>2, <5>2 DEF OldestFirst, n
        <5> QED
          BY <1>2, <4>2, <5>1, <5>2
      <4> QED
        BY <1>3, <3>1, <4>1, <4>3, <4>4, LimiterAssumption DEF Ages
    <3> QED
      BY <1>2, <3>2, <3>3, LimiterAssumption
  <2> QED
    BY <1>2, <1>11, <2>1, <2>2, LimiterAssumption
<1>12. BudgetKept'
  BY <1>5, <1>10, <1>11 DEF BudgetKept, AtMost
<1> QED
  BY <1>5, <1>6, <1>8, <1>9, <1>12 DEF BudgetInv, TokensTyped, OldestFirst

LEMMA BudgetAwait ==
  ASSUME BudgetInv, NEW t \in Threads, AwaitBudget(t)
  PROVE  BudgetInv'
<1>1. PICK cut \in 0..Len(events) :
        IsTrimPoint(cut) /\ events' = SubSeq(events, cut + 1, Len(events))
  BY DEF AwaitBudget
<1>2. tokens' = tokens
  BY DEF AwaitBudget
<1>3. /\ events' \in Seq(Ages)
      /\ Len(events') \in Nat /\ Len(tokens) \in Nat /\ Len(events') <= Len(tokens)
      /\ \A i \in 1..Len(events') : events'[i] = tokens[Len(tokens) - Len(events') + i]
      /\ \A i \in 1..(Len(tokens) - Len(events')) : tokens[i] >= Hour
  BY <1>1, TrimKeepsRecent
<1> QED
  BY <1>2, <1>3 DEF BudgetInv, TokensTyped, EventsAreRecent, Dropped, OldestFirst, BudgetKept, AtMost

LEMMA BudgetStep == BudgetInv /\ [Next]_vars => BudgetInv'
<1> SUFFICES ASSUME BudgetInv, [Next]_vars PROVE BudgetInv'
  OBVIOUS
<1>1. CASE Tick
  BY <1>1, BudgetTick
<1>2. CASE \E t \in Threads : TakeToken(t)
  BY <1>2, BudgetTake
<1>3. CASE \E t \in Threads : AwaitBudget(t)
  BY <1>3, BudgetAwait
<1>4. CASE UNCHANGED budget
  BY <1>4 DEF budget, BudgetInv, TokensTyped, EventsAreRecent, Dropped, OldestFirst, BudgetKept,
              AtMost
<1>5. Tick \/ (\E t \in Threads : TakeToken(t) \/ AwaitBudget(t)) \/ UNCHANGED budget
  BY DEF Next, Step, vars, budget, Begin, SkipBudget, Wake, Enter, Park, Leave, Succeeds,
         NetworkFails, SitOut, Refused
<1> QED
  BY <1>1, <1>2, <1>3, <1>4, <1>5

(* In any minute and in any hour no more requests pass before_request than *)
(* the budget allows, whatever the threads do and however time passes.     *)
THEOREM BudgetIsKept == Spec => []BudgetKept
<1>1. BudgetInv => BudgetKept
  BY DEF BudgetInv
<1> QED
  BY <1>1, BudgetInit, BudgetStep, PTL DEF Spec

-----------------------------------------------------------------------------
(* The gate and the loop of _request.                                      *)

(* A request that is out, or whose answer is not yet judged, has not been  *)
(* counted as an attempt or as a wait.                                     *)
Counted(t) ==
  call[t].sends <= call[t].attempt + call[t].waits
                     + (IF pc[t] \in {"sending", "judging"} THEN 1 ELSE 0)

CallsCounted ==
  /\ pc \in [Threads -> Places]
  /\ call \in [Threads -> [content : BOOLEAN, attempt : 0..(MaxRetry - 1),
                           waits : 0..MaxWaits, sends : Nat]]
  /\ \A t \in Threads : Counted(t)

LEMMA CountInit == Init => CallsCounted
BY RequestAssumption DEF Init, CallsCounted, Counted, NewCall, Places

(* The steps that leave the locals of the calls alone.                     *)
LEMMA CountElsewhere ==
  ASSUME CallsCounted, NEW t \in Threads, UNCHANGED call,
         \/ UNCHANGED pc
         \/ /\ pc[t] \notin {"sending", "judging"}
            /\ \E place \in Places \ {"sending", "judging"} : Goto(t, place)
         \/ pc[t] = "sending" /\ Notify(t, "judging")
  PROVE  CallsCounted'
<1>1. pc' \in [Threads -> Places]
  BY DEF CallsCounted, Goto, Notify, Places, Parked
<1>2. ASSUME NEW u \in Threads PROVE Counted(u)'
  <2>1. Counted(u) /\ call'[u] = call[u]
    BY DEF CallsCounted
  <2>2. pc'[u] \in {"sending", "judging"} <=> pc[u] \in {"sending", "judging"}
    BY DEF CallsCounted, Goto, Notify, Places, Parked
  <2> QED
    BY <2>1, <2>2 DEF Counted
<1> QED
  BY <1>1, <1>2 DEF CallsCounted

LEMMA CountEnter ==
  ASSUME CallsCounted, NEW t \in Threads, Enter(t)
  PROVE  CallsCounted'
<1>1. /\ pc' = [pc EXCEPT ![t] = "sending"] /\ pc[t] = "gate"
      /\ call' = [call EXCEPT ![t].sends = @ + 1]
  BY DEF Enter, Goto
<1>2. ASSUME NEW u \in Threads PROVE Counted(u)'
  BY <1>1, RequestAssumption DEF CallsCounted, Counted
<1> QED
  BY <1>1, <1>2 DEF CallsCounted, Places

LEMMA CountBegin ==
  ASSUME CallsCounted, NEW t \in Threads, Begin(t)
  PROVE  CallsCounted'
<1>1. PICK content \in BOOLEAN : call' = [call EXCEPT ![t] = NewCall(content)]
  BY DEF Begin
<1>2. pc' = [pc EXCEPT ![t] = "budget"]
  BY DEF Begin, Goto
<1>3. ASSUME NEW u \in Threads PROVE Counted(u)'
  BY <1>1, <1>2 DEF CallsCounted, Counted, NewCall
<1> QED
  BY <1>1, <1>2, <1>3, RequestAssumption DEF CallsCounted, Places, NewCall

LEMMA CountReturn ==
  ASSUME CallsCounted, NEW t \in Threads, Return(t)
  PROVE  CallsCounted'
<1>1. pc' = [pc EXCEPT ![t] = "idle"] /\ call' = [call EXCEPT ![t] = NewCall(FALSE)]
  BY DEF Return, Goto
<1>2. ASSUME NEW u \in Threads PROVE Counted(u)'
  BY <1>1 DEF CallsCounted, Counted, NewCall
<1> QED
  BY <1>1, <1>2, RequestAssumption DEF CallsCounted, Places, NewCall

LEMMA CountAttempt ==
  ASSUME CallsCounted, NEW t \in Threads, pc[t] = "judging",
         NEW retry \in BOOLEAN, UseAttempt(t, retry)
  PROVE  CallsCounted'
<1>1. CASE retry /\ call[t].attempt + 1 < MaxRetry
  <2>1. /\ call' = [call EXCEPT ![t].attempt = call[t].attempt + 1]
        /\ pc' = [pc EXCEPT ![t] = "sleeping"]
    BY <1>1 DEF UseAttempt, Goto
  <2>2. call[t].attempt + 1 \in 0..(MaxRetry - 1)
    BY <1>1, RequestAssumption DEF CallsCounted
  <2>3. ASSUME NEW u \in Threads PROVE Counted(u)'
    BY <2>1, RequestAssumption DEF CallsCounted, Counted
  <2> QED
    BY <2>1, <2>2, <2>3 DEF CallsCounted, Places
<1>2. CASE ~(retry /\ call[t].attempt + 1 < MaxRetry)
  BY <1>2, CountReturn DEF UseAttempt
<1> QED
  BY <1>1, <1>2

LEMMA CountSitOut ==
  ASSUME CallsCounted, NEW t \in Threads, SitOut(t)
  PROVE  CallsCounted'
<1>1. /\ pc[t] = "judging" /\ call[t].waits < MaxWaits
      /\ pc' = [pc EXCEPT ![t] = "sleeping"]
      /\ call' = [call EXCEPT ![t].waits = @ + 1]
  BY DEF SitOut, Goto
<1>2. ASSUME NEW u \in Threads PROVE Counted(u)'
  BY <1>1, RequestAssumption DEF CallsCounted, Counted
<1> QED
  BY <1>1, <1>2, RequestAssumption DEF CallsCounted, Places

LEMMA CountStep == CallsCounted /\ [Next]_vars => CallsCounted'
<1> SUFFICES ASSUME CallsCounted, [Next]_vars PROVE CallsCounted'
  OBVIOUS
<1>1. CASE Tick \/ UNCHANGED vars
  BY <1>1 DEF Tick, vars, CallsCounted, Counted
<1>2. ASSUME NEW t \in Threads, Begin(t) \/ Step(t)
      PROVE  CallsCounted'
  <2>1. CASE Begin(t)
    BY <2>1, CountBegin
  <2>2. CASE SkipBudget(t) \/ TakeToken(t) \/ AwaitBudget(t) \/ Wake(t) \/ Park(t)
    <3>1. UNCHANGED call /\ pc[t] \notin {"sending", "judging"}
      BY <2>2 DEF SkipBudget, TakeToken, AwaitBudget, Wake, Park
    <3>2. \E place \in {"gate", "sleeping", "budget", "parked"} : Goto(t, place)
      BY <2>2 DEF SkipBudget, TakeToken, AwaitBudget, Wake, Park
    <3> QED
      BY <3>1, <3>2, CountElsewhere DEF Places
  <2>3. CASE Enter(t)
    BY <2>3, CountEnter
  <2>4. CASE Leave(t)
    BY <2>4, CountElsewhere DEF Leave
  <2>5. CASE Succeeds(t)
    BY <2>5, CountReturn DEF Succeeds
  <2>6. CASE NetworkFails(t)
    BY <2>6, CountAttempt DEF NetworkFails
  <2>7. CASE SitOut(t)
    BY <2>7, CountSitOut
  <2>8. CASE Refused(t)
    BY <2>8, CountAttempt DEF Refused
  <2> QED
    BY <1>2, <2>1, <2>2, <2>3, <2>4, <2>5, <2>6, <2>7, <2>8 DEF Step
<1> QED
  BY <1>1, <1>2 DEF Next

(* One call of _request sends at most max_retry + MAX_RATE_LIMIT_WAITS     *)
(* requests, in whatever order refusals, penalties and failures come.      *)
THEOREM RequestsStayBounded == Spec => []RequestsBounded
<1>1. CallsCounted => RequestsBounded
  BY RequestAssumption DEF CallsCounted, Counted, RequestsBounded
<1> QED
  BY <1>1, CountInit, CountStep, PTL DEF Spec

-----------------------------------------------------------------------------
(* No wake-up is lost.  A slot that is given back is matched by a thread   *)
(* that looks again, and one that is taken by a thread that stops looking. *)

AtGate == {t \in Threads : pc[t] = "gate"}

GateInv ==
  /\ active \in Int
  /\ limit \in Nat \ {0}
  /\ pc \in [Threads -> Places]
  /\ NoIdleSlot

LEMMA AtGateFinite == IsFiniteSet(AtGate) /\ Cardinality(AtGate) \in Nat
BY RequestAssumption, FS_Subset, FS_CardinalityType DEF AtGate

LEMMA GateInit == Init => GateInv
BY RequestAssumption DEF Init, GateInv, NoIdleSlot, Parked, Places

(* A thread that was not at the gate comes to it.                          *)
LEMMA OneComes ==
  ASSUME GateInv, NEW t \in Threads, pc[t] # "gate",
         AtGate' = AtGate \cup {t}
  PROVE  Cardinality(AtGate') = Cardinality(AtGate) + 1
BY AtGateFinite, FS_AddElement DEF AtGate

(* A thread that was at the gate leaves it.                                *)
LEMMA OneGoes ==
  ASSUME GateInv, NEW t \in Threads, pc[t] = "gate",
         AtGate' = AtGate \ {t}
  PROVE  Cardinality(AtGate') = Cardinality(AtGate) - 1
<1>1. t \in AtGate /\ IsFiniteSet(AtGate)
  BY AtGateFinite DEF AtGate
<1> QED
  BY <1>1, FS_RemoveElement

(* Steps that neither touch the gate nor who waits there.                  *)
LEMMA GateElsewhere ==
  ASSUME GateInv, NEW t \in Threads, UNCHANGED active, limit' \in {1, limit},
         \/ UNCHANGED pc
         \/ /\ pc[t] \notin {"gate", "parked"}
            /\ \E place \in Places \ {"gate", "parked"} : Goto(t, place)
  PROVE  GateInv'
<1>1. pc' \in [Threads -> Places]
  BY DEF GateInv, Goto
<1>2. Parked' = Parked /\ AtGate' = AtGate
  BY DEF GateInv, Goto, Parked, AtGate
<1>3. limit' \in Nat \ {0} /\ limit' <= limit
  BY DEF GateInv
<1> QED
  BY <1>1, <1>2, <1>3, AtGateFinite DEF GateInv, NoIdleSlot, AtGate

LEMMA GateComes ==
  ASSUME GateInv, NEW t \in Threads, UNCHANGED gate, pc[t] = "budget", Goto(t, "gate")
  PROVE  GateInv'
<1>1. pc' \in [Threads -> Places]
  BY DEF GateInv, Goto, Places
<1>2. Parked' = Parked /\ AtGate' = AtGate \cup {t}
  BY DEF GateInv, Goto, Parked, AtGate
<1>3. Cardinality(AtGate') = Cardinality(AtGate) + 1
  BY <1>2, OneComes
<1> QED
  BY <1>1, <1>2, <1>3, AtGateFinite DEF GateInv, NoIdleSlot, AtGate, gate

LEMMA GateEnter ==
  ASSUME GateInv, NEW t \in Threads, Enter(t)
  PROVE  GateInv'
<1>1. pc[t] = "gate" /\ pc' = [pc EXCEPT ![t] = "sending"] /\ active' = active + 1 /\ limit' = limit
  BY DEF Enter, Goto
<1>2. Parked' = Parked /\ AtGate' = AtGate \ {t} /\ pc' \in [Threads -> Places]
  BY <1>1 DEF GateInv, Parked, AtGate, Places
<1>3. Cardinality(AtGate') = Cardinality(AtGate) - 1
  BY <1>1, <1>2, OneGoes
<1> QED
  BY <1>1, <1>2, <1>3, AtGateFinite DEF GateInv, NoIdleSlot, AtGate

LEMMA GatePark ==
  ASSUME GateInv, NEW t \in Threads, Park(t)
  PROVE  GateInv'
<1>1. pc' \in [Threads -> Places] /\ UNCHANGED <<active, limit>> /\ active >= limit
  BY DEF Park, GateInv, Goto, Places, gate
<1>2. Cardinality(AtGate)' \in Nat
  <2>1. AtGate' \subseteq Threads
    BY DEF AtGate
  <2> QED
    BY <2>1, RequestAssumption, FS_Subset, FS_CardinalityType
<1> QED
  BY <1>1, <1>2 DEF GateInv, NoIdleSlot, AtGate

LEMMA GateLeave ==
  ASSUME GateInv, NEW t \in Threads, Leave(t)
  PROVE  GateInv'
<1>1. pc[t] = "sending" /\ active' = active - 1 /\ limit' = limit
  BY DEF Leave
<1>2. CASE Parked = {} /\ Goto(t, "judging")
  <2>1. Parked' = {} /\ pc' \in [Threads -> Places]
    BY <1>1, <1>2 DEF GateInv, Parked, Goto, Places
  <2> QED
    BY <1>1, <2>1 DEF GateInv, NoIdleSlot
<1>3. ASSUME NEW u \in Parked, pc' = [pc EXCEPT ![t] = "judging", ![u] = "gate"]
      PROVE  GateInv'
  <2>1. u \in Threads /\ pc[u] = "parked" /\ u # t
    BY <1>1 DEF Parked
  <2>2. AtGate' = AtGate \cup {u} /\ pc' \in [Threads -> Places]
    BY <1>1, <1>3, <2>1 DEF GateInv, AtGate, Places
  <2>3. Cardinality(AtGate') = Cardinality(AtGate) + 1
    BY <2>1, <2>2, OneComes
  <2>4. active + Cardinality(AtGate) >= limit
    BY <1>3 DEF GateInv, NoIdleSlot, AtGate
  <2> QED
    BY <1>1, <2>2, <2>3, <2>4, AtGateFinite DEF GateInv, NoIdleSlot, AtGate
<1> QED
  BY <1>2, <1>3 DEF Leave, Notify

LEMMA GateStep == GateInv /\ [Next]_vars => GateInv'
<1> SUFFICES ASSUME GateInv, [Next]_vars PROVE GateInv'
  OBVIOUS
<1>1. CASE Tick \/ UNCHANGED vars
  BY <1>1 DEF Tick, vars, GateInv, NoIdleSlot, Parked
<1>2. ASSUME NEW t \in Threads, Begin(t) \/ Step(t)
      PROVE  GateInv'
  <2>1. CASE SkipBudget(t) \/ TakeToken(t)
    BY <2>1, GateComes DEF SkipBudget, TakeToken
  <2>2. CASE Begin(t) \/ AwaitBudget(t) \/ Wake(t) \/ Succeeds(t)
    <3>1. UNCHANGED gate /\ pc[t] \in {"idle", "budget", "sleeping", "judging"}
      BY <2>2 DEF Begin, AwaitBudget, Wake, Succeeds
    <3>2. \E place \in {"budget", "sleeping", "idle"} : Goto(t, place)
      BY <2>2 DEF Begin, AwaitBudget, Wake, Succeeds, Return
    <3> QED
      BY <3>1, <3>2, GateElsewhere DEF gate, Places
  <2>3. CASE NetworkFails(t) \/ SitOut(t) \/ Refused(t)
    <3>1. UNCHANGED active /\ limit' \in {1, limit} /\ pc[t] = "judging"
      BY <2>3 DEF NetworkFails, SitOut, Refused, Serialise, gate
    <3>2. \E place \in {"sleeping", "idle"} : Goto(t, place)
      BY <2>3 DEF NetworkFails, SitOut, Refused, UseAttempt, Return
    <3> QED
      BY <3>1, <3>2, GateElsewhere DEF Places
  <2>4. CASE Enter(t)
    BY <2>4, GateEnter
  <2>5. CASE Park(t)
    BY <2>5, GatePark
  <2>6. CASE Leave(t)
    BY <2>6, GateLeave
  <2> QED
    BY <1>2, <2>1, <2>2, <2>3, <2>4, <2>5, <2>6 DEF Step
<1> QED
  BY <1>1, <1>2 DEF Next

(* However many threads share the account and whenever the limit drops, a  *)
(* thread waits at the gate only while every slot is taken or claimed.     *)
THEOREM NoWakeUpIsLost == Spec => []NoIdleSlot
<1>1. GateInv => NoIdleSlot
  BY DEF GateInv
<1> QED
  BY <1>1, GateInit, GateStep, PTL DEF Spec

-----------------------------------------------------------------------------
(* What leaves in a minute.  The stamps still held back are the threads'   *)
(* at the gate; the stamps of the requests of the last minute, with those, *)
(* are the last of the history, and a request is never older than the      *)
(* stamp taken N places after its turn.                                    *)

Holding == {t \in Threads : call[t].content /\ pc[t] \in {"gate", "parked"}}

(* Stamps of requests that left more than a minute ago.                    *)
Before == Len(tokens) - Cardinality(Holding) - Len(sent)

NotOlder(j) ==
  LET k == Before + j + Cardinality(Threads) IN
  k <= Len(tokens) => tokens[k] <= sent[j]

SendsInv ==
  /\ sent \in Seq(Ages)
  /\ Len(sent) > 0 => sent[1] < Minute
  /\ Before \in Nat
  /\ \A j \in 1..Len(sent) : NotOlder(j)

SendsContext == TokensTyped /\ CallsCounted /\ SendsInv

LEMMA HoldingFinite ==
  /\ IsFiniteSet(Holding)
  /\ Cardinality(Holding) \in Nat
  /\ Cardinality(Threads) \in Nat
  /\ Cardinality(Holding) <= Cardinality(Threads)
BY RequestAssumption, FS_Subset, FS_CardinalityType DEF Holding

LEMMA SendsInit == Init => SendsInv
<1> SUFFICES ASSUME Init PROVE SendsInv
  OBVIOUS
<1>1. Holding = {}
  BY DEF Init, Holding
<1>2. Cardinality(Holding) = 0
  BY <1>1, FS_EmptySet
<1>3. tokens = <<>> /\ sent = <<>>
  BY DEF Init
<1> QED
  BY <1>2, <1>3 DEF SendsInv, Before

(* Who holds a stamp is changed by taking one and by sending only.         *)
LEMMA SendsElsewhere ==
  ASSUME SendsInv, UNCHANGED <<tokens, sent>>, Holding' = Holding
  PROVE  SendsInv'
BY DEF SendsInv, Before, NotOlder

(* A request drops out of the minute: its stamp is one more before them.  *)
LEMMA SendsTick ==
  ASSUME SendsContext, Tick
  PROVE  SendsInv'
<1>1. PICK cut \in 0..Len(sent) :
        LET s == AllOlder(sent) IN
        /\ cut < Len(s) => s[cut + 1] < Minute
        /\ sent' = SubSeq(s, cut + 1, Len(s))
  BY DEF Tick
<1> DEFINE s == AllOlder(sent)
           L == Len(sent)
           T == Len(tokens)
           N == Cardinality(Threads)
           B == Before
<1>2. /\ sent \in Seq(Ages) /\ tokens \in Seq(Ages) /\ L \in Nat /\ T \in Nat /\ N \in Nat
      /\ B \in Nat
  BY HoldingFinite DEF SendsContext, SendsInv, TokensTyped
<1>3. /\ s \in Seq(Ages) /\ Len(s) = L
      /\ \A i \in 1..L : s[i] = Older(sent[i]) /\ sent[i] \in Ages
  BY <1>2, AgesGrow
<1>4. /\ Len(tokens') = T
      /\ \A i \in 1..T : tokens'[i] = Older(tokens[i]) /\ tokens[i] \in Ages
  BY <1>2, AgesGrow DEF Tick
<1>5. /\ sent' \in Seq(Ages) /\ Len(sent') = L - cut
      /\ \A j \in 1..(L - cut) : sent'[j] = s[cut + j]
  <2> HIDE DEF s
  <2> QED
    BY <1>1, <1>2, <1>3 DEF s
<1>6. Holding' = Holding
  BY DEF Tick, Holding
<1>7. Before' = B + cut /\ Before' \in Nat
  <2>1. Before' = T - Cardinality(Holding) - (L - cut)
    BY <1>4, <1>5, <1>6 DEF Before
  <2>2. B = T - Cardinality(Holding) - L
    BY DEF Before
  <2> HIDE DEF B, T, L
  <2> QED
    BY <1>2, <2>1, <2>2, HoldingFinite
<1>8. Len(sent') > 0 => sent'[1] < Minute
  BY <1>1, <1>2, <1>3, <1>5
<1>9. ASSUME NEW j \in 1..Len(sent')
      PROVE  NotOlder(j)'
  <2>1. cut + j \in 1..L /\ sent'[j] = Older(sent[cut + j]) /\ sent[cut + j] \in Ages
    BY <1>2, <1>3, <1>5
  <2>2. ASSUME B + cut + j + N <= T
        PROVE  tokens'[B + cut + j + N] <= sent'[j]
    <3> DEFINE k == B + (cut + j) + N
    <3>1. B + cut + j + N = k /\ k \in 1..T
      <4> HIDE DEF B, T, L, N
      <4> QED
        BY <1>2, <2>1, <2>2
    <3>2. tokens[k] <= sent[cut + j]
      BY <2>1, <3>1 DEF SendsContext, SendsInv, NotOlder
    <3>3. tokens'[k] = Older(tokens[k]) /\ tokens[k] \in Ages
      BY <1>4, <3>1
    <3>4. \A a, b \in Ages : a <= b => Older(a) <= Older(b)
      BY LimiterAssumption DEF Older, Ages
    <3> QED
      BY <2>1, <3>1, <3>2, <3>3, <3>4
  <2> QED
    BY <1>4, <1>7, <2>2 DEF NotOlder
<1> QED
  BY <1>5, <1>7, <1>8, <1>9 DEF SendsInv

(* One more stamp, held back by one more thread.                           *)
LEMMA SendsTake ==
  ASSUME SendsContext, NEW t \in Threads, TakeToken(t)
  PROVE  SendsInv'
<1>1. /\ pc[t] = "budget" /\ call[t].content
      /\ pc' = [pc EXCEPT ![t] = "gate"]
      /\ tokens' = Append(tokens, 0) /\ UNCHANGED <<call, sent>>
  BY DEF TakeToken, Goto
<1> DEFINE T == Len(tokens)
           N == Cardinality(Threads)
           B == Before
<1>2. /\ tokens \in Seq(Ages) /\ sent \in Seq(Ages) /\ pc \in [Threads -> Places]
      /\ T \in Nat /\ N \in Nat /\ B \in Nat /\ Len(sent) \in Nat
  BY HoldingFinite DEF SendsContext, SendsInv, TokensTyped, CallsCounted
<1>3. /\ Len(tokens') = T + 1 /\ tokens'[T + 1] = 0
      /\ \A i \in 1..T : tokens'[i] = tokens[i]
  BY <1>1, <1>2, OneMore
<1>4. Holding' = Holding \cup {t} /\ t \notin Holding
  BY <1>1, <1>2 DEF Holding
<1>5. Cardinality(Holding') = Cardinality(Holding) + 1
  BY <1>4, HoldingFinite, FS_AddElement
<1>6. Before' = B
  BY <1>1, <1>2, <1>3, <1>5, HoldingFinite DEF Before
<1>7. ASSUME NEW j \in 1..Len(sent), B + j + N <= T + 1
      PROVE  tokens'[B + j + N] <= sent[j]
  <2> DEFINE k == B + j + N
  <2>1. k \in 1..(T + 1)
    <3> HIDE DEF B, T, N
    <3> QED
      BY <1>2, <1>7
  <2>2. sent[j] \in Ages
    BY <1>2
  <2>3. CASE k \in 1..T
    BY <1>2, <1>3, <2>3 DEF SendsContext, SendsInv, NotOlder
  <2>4. CASE k = T + 1
    <3>1. tokens'[k] = 0
      BY <1>3, <2>4
    <3> QED
      BY <2>2, <3>1, LimiterAssumption DEF Ages
  <2> HIDE DEF k
  <2>5. k \in 1..T \/ k = T + 1
    BY <1>2, <2>1
  <2> QED
    BY <2>3, <2>4, <2>5 DEF k
<1>8. ASSUME NEW j \in 1..Len(sent)
      PROVE  NotOlder(j)'
  BY <1>1, <1>3, <1>6, <1>7 DEF NotOlder
<1> QED
  BY <1>1, <1>2, <1>6, <1>8 DEF SendsContext, SendsInv

(* One request more and one stamp less held back; no stamp is N places     *)
(* after its turn yet.                                                     *)
LEMMA SendsEnter ==
  ASSUME SendsContext, NEW t \in Threads, Enter(t)
  PROVE  SendsInv'
<1>1. /\ pc[t] = "gate" /\ pc' = [pc EXCEPT ![t] = "sending"]
      /\ call' = [call EXCEPT ![t].sends = @ + 1]
      /\ tokens' = tokens
      /\ sent' = IF call[t].content THEN Append(sent, 0) ELSE sent
  BY DEF Enter, Goto, budget
<1> DEFINE T == Len(tokens)
           L == Len(sent)
           N == Cardinality(Threads)
           H == Cardinality(Holding)
           B == Before
<1>2. /\ sent \in Seq(Ages) /\ pc \in [Threads -> Places]
      /\ call \in [Threads -> [content : BOOLEAN, attempt : 0..(MaxRetry - 1),
                               waits : 0..MaxWaits, sends : Nat]]
      /\ T \in Nat /\ L \in Nat /\ N \in Nat /\ B \in Nat /\ H \in Nat /\ H <= N
      /\ B = T - H - L
  BY HoldingFinite DEF SendsContext, SendsInv, TokensTyped, CallsCounted, Before
<1>3. \A u \in Threads : call'[u].content = call[u].content
  BY <1>1, <1>2
<1>4. CASE ~call[t].content
  <2>1. Holding' = Holding
    BY <1>1, <1>2, <1>3, <1>4 DEF Holding
  <2> QED
    BY <1>1, <1>4, <2>1, SendsElsewhere DEF SendsContext
<1>5. CASE call[t].content
  <2>1. Holding' = Holding \ {t} /\ t \in Holding
    BY <1>1, <1>2, <1>3, <1>5 DEF Holding
  <2>2. Cardinality(Holding') = H - 1
    BY <2>1, HoldingFinite, FS_RemoveElement
  <2>3. /\ sent' \in Seq(Ages) /\ Len(sent') = L + 1 /\ sent'[L + 1] = 0
        /\ \A i \in 1..L : sent'[i] = sent[i]
    BY <1>1, <1>2, <1>5, OneMore
  <2>4. Before' = B
    <3>1. Before' = T - (H - 1) - (L + 1)
      BY <1>1, <2>2, <2>3 DEF Before
    <3> HIDE DEF T, H, L, B
    <3> QED
      BY <1>2, <3>1
  <2>5. sent'[1] < Minute
    <3>1. CASE L = 0
      BY <2>3, <3>1, LimiterAssumption
    <3>2. CASE L # 0
      BY <1>2, <2>3, <3>2 DEF SendsContext, SendsInv
    <3> QED
      BY <3>1, <3>2
  <2>6. ASSUME NEW j \in 1..(L + 1)
        PROVE  NotOlder(j)'
    <3>1. CASE j \in 1..L
      BY <1>1, <2>3, <2>4, <3>1 DEF NotOlder, SendsContext, SendsInv
    <3>2. CASE j = L + 1
      <4>1. ~(B + j + N <= T)
        <5> HIDE DEF T, H, L, B, N
        <5> QED
          BY <1>2, <3>2
      <4> QED
        BY <1>1, <2>4, <4>1 DEF NotOlder
    <3> HIDE DEF L
    <3> QED
      BY <1>2, <3>1, <3>2
  <2> QED
    BY <1>2, <2>3, <2>4, <2>5, <2>6 DEF SendsInv
<1> QED
  BY <1>4, <1>5

LEMMA SendsStep == SendsContext /\ [Next]_vars => SendsInv'
<1> SUFFICES ASSUME SendsContext, [Next]_vars PROVE SendsInv'
  OBVIOUS
<1>1. SendsInv /\ CallsCounted
  BY DEF SendsContext
<1>2. CASE UNCHANGED vars
  <2>1. Holding' = Holding /\ UNCHANGED <<tokens, sent>>
    BY <1>2 DEF vars, Holding
  <2> QED
    BY <1>1, <2>1, SendsElsewhere
<1>3. CASE Tick
  BY <1>3, SendsTick
<1>4. ASSUME NEW t \in Threads, Begin(t) \/ Step(t)
      PROVE  SendsInv'
  <2>1. CASE TakeToken(t)
    BY <2>1, SendsTake
  <2>2. CASE Enter(t)
    BY <2>2, SendsEnter
  <2>3. CASE SkipBudget(t) \/ AwaitBudget(t) \/ Wake(t) \/ Park(t)
    <3>1. /\ UNCHANGED <<call, tokens, sent>>
          /\ \/ pc[t] = "gate" /\ Goto(t, "parked")
             \/ pc[t] = "budget" /\ ~call[t].content /\ Goto(t, "gate")
             \/ pc[t] = "budget" /\ Goto(t, "sleeping")
             \/ pc[t] = "sleeping" /\ Goto(t, "budget")
      BY <2>3 DEF SkipBudget, AwaitBudget, Wake, Park, budget
    <3>2. Holding' = Holding
      BY <1>1, <3>1 DEF CallsCounted, Holding, Goto
    <3> QED
      BY <1>1, <3>1, <3>2, SendsElsewhere
  <2>4. CASE Leave(t)
    <3>1. /\ UNCHANGED <<call, tokens, sent>> /\ pc[t] = "sending" /\ Notify(t, "judging")
      BY <2>4 DEF Leave, budget
    <3>2. Holding' = Holding
      BY <1>1, <3>1 DEF CallsCounted, Holding, Goto, Notify, Parked
    <3> QED
      BY <1>1, <3>1, <3>2, SendsElsewhere
  <2>5. CASE Begin(t) \/ Succeeds(t) \/ NetworkFails(t) \/ SitOut(t) \/ Refused(t)
    <3>1. /\ UNCHANGED <<tokens, sent>> /\ pc[t] \in {"idle", "judging"}
          /\ \E place \in {"idle", "budget", "sleeping"} : Goto(t, place)
          /\ \A u \in Threads \ {t} : call'[u] = call[u]
      BY <1>1, <2>5 DEF CallsCounted, Begin, Succeeds, NetworkFails, SitOut, Refused, UseAttempt,
                        Return, budget
    <3>2. Holding' = Holding
      BY <1>1, <3>1 DEF CallsCounted, Holding, Goto
    <3> QED
      BY <1>1, <3>1, <3>2, SendsElsewhere
  <2> QED
    BY <1>4, <2>1, <2>2, <2>3, <2>4, <2>5 DEF Step
<1> QED
  BY <1>2, <1>3, <1>4 DEF Next

(* Of N + PerMinute + 1 requests in a minute, the first would have left    *)
(* before a stamp that the budget puts out of the minute.                  *)
LEMMA NearBudget ==
  ASSUME SendsContext, BudgetKept
  PROVE  SendsNearBudget
<1> DEFINE N == Cardinality(Threads)
           T == Len(tokens)
           L == Len(sent)
           B == Before
           H == Cardinality(Holding)
<1>1. /\ sent \in Seq(Ages) /\ tokens \in Seq(Ages)
      /\ T \in Nat /\ L \in Nat /\ N \in Nat /\ B \in Nat /\ H \in Nat
      /\ B = T - H - L
  BY HoldingFinite DEF SendsContext, SendsInv, TokensTyped, Before
<1>2. SUFFICES ASSUME L > PerMinute + N PROVE FALSE
  <2> HIDE DEF L, N
  <2>1. L <= PerMinute + N
    BY <1>1, <1>2, LimiterAssumption
  <2> QED
    BY <2>1 DEF SendsNearBudget, L, N
<1> DEFINE k == B + 1 + N
<1>3. k \in 1..T /\ k + PerMinute <= T /\ 1 \in 1..L
  <2> HIDE DEF L, N, T, B, H
  <2> QED
    BY <1>1, <1>2, LimiterAssumption
<1>4. tokens[k] >= Minute
  BY <1>3 DEF BudgetKept, AtMost
<1>5. tokens[k] <= sent[1]
  <2>1. NotOlder(1)
    BY <1>3 DEF SendsContext, SendsInv
  <2>2. k <= T
    BY <1>1, <1>3
  <2> QED
    BY <2>1, <2>2 DEF NotOlder
<1>6. sent[1] < Minute
  BY <1>1, <1>3 DEF SendsContext, SendsInv
<1>7. sent[1] \in Ages /\ tokens[k] \in Ages
  BY <1>1, <1>3
<1> QED
  BY <1>4, <1>5, <1>6, <1>7, LimiterAssumption DEF Ages

(* However the threads of a process interleave, what leaves in a minute is *)
(* at most the budget and one request for each thread, which may have held *)
(* its stamp at the gate.                                                  *)
THEOREM FewMoreThanBudget == Spec => []SendsNearBudget
<1>1. Init => BudgetInv /\ CallsCounted /\ SendsInv
  BY BudgetInit, CountInit, SendsInit
<1>2. BudgetInv /\ CallsCounted /\ SendsInv /\ [Next]_vars
        => (BudgetInv /\ CallsCounted /\ SendsInv)'
  BY BudgetStep, CountStep, SendsStep DEF BudgetInv, SendsContext
<1>3. BudgetInv /\ CallsCounted /\ SendsInv => SendsNearBudget
  BY NearBudget DEF BudgetInv, SendsContext
<1> QED
  BY <1>1, <1>2, <1>3, PTL DEF Spec

-----------------------------------------------------------------------------
(* The types.  A slot is counted for each thread that is sending and for   *)
(* no other, so _active never goes below zero.                             *)

Sending == {t \in Threads : pc[t] = "sending"}

SlotsCounted == active = Cardinality(Sending)

Clocks ==
  /\ limit \in 1..MaxConcurrency
  /\ timer \in [Threads -> Nat]
  /\ left \in [Threads -> 0..MaxCalls]

TypesInv == SendsContext /\ SlotsCounted /\ Clocks

LEMMA SendingFinite == IsFiniteSet(Sending) /\ Cardinality(Sending) \in Nat
BY RequestAssumption, FS_Subset, FS_CardinalityType DEF Sending

(* The backoff's factor, by way of the subsets of a set of n.              *)
LEMMA PowersOfTwo ==
  ASSUME NEW n \in Nat
  PROVE  2 ^ n \in Nat
<1>1. IsFiniteSet(1..n) /\ Cardinality(1..n) = n
  BY FS_Interval
<1>2. IsFiniteSet(SUBSET (1..n)) /\ Cardinality(SUBSET (1..n)) = 2 ^ n
  BY <1>1, FS_SUBSET
<1> QED
  BY <1>2, FS_CardinalityType

LEMMA MaxOfThree ==
  ASSUME NEW a \in Int, NEW b \in Int, NEW c \in Int
  PROVE  Max({a, b, c}) \in {a, b, c}
<1>1. \E x \in {a, b, c} : \A y \in {a, b, c} : x >= y
  <2>1. CASE a >= b /\ a >= c
    BY <2>1
  <2>2. CASE b >= a /\ b >= c
    BY <2>2
  <2>3. CASE c >= a /\ c >= b
    BY <2>3
  <2> QED
    BY <2>1, <2>2, <2>3
<1> QED
  BY <1>1 DEF Max

LEMMA MinOfTwo ==
  ASSUME NEW a \in Int, NEW b \in Int
  PROVE  Min({a, b}) \in {a, b}
<1>1. \E x \in {a, b} : \A y \in {a, b} : x =< y
  <2>1. CASE a <= b
    BY <2>1
  <2>2. CASE b <= a
    BY <2>2
  <2> QED
    BY <2>1, <2>2
<1> QED
  BY <1>1 DEF Min

(* before_request never asks for a sleep of negative length.               *)
LEMMA WaitIsNat ==
  ASSUME NEW s \in Seq(Ages)
  PROVE  WaitNeeded(s) \in Nat
<1> DEFINE a == IF HourFull(s) THEN Hour - s[1] ELSE 0
           b == IF MinuteFull(s) THEN Minute - s[Len(s) - PerMinute + 1] ELSE 0
<1>1. Len(s) \in Nat /\ \A i \in 1..Len(s) : s[i] \in Nat /\ s[i] <= Hour
  BY LimiterAssumption DEF Ages
<1>2. a \in Nat
  <2>1. CASE HourFull(s)
    <3>1. 1 \in 1..Len(s)
      BY <1>1, <2>1, LimiterAssumption DEF HourFull
    <3> QED
      BY <1>1, <2>1, <3>1, LimiterAssumption
  <2> QED
    BY <2>1
<1>3. b \in Nat
  <2>1. CASE MinuteFull(s)
    <3> DEFINE i == Len(s) - PerMinute + 1
    <3>1. i \in 1..Len(s) /\ i \in i..Len(s)
      BY <1>1, <2>1, LimiterAssumption DEF MinuteFull
    <3>2. s[i] < Minute
      BY <2>1, <3>1 DEF MinuteFull
    <3>3. s[i] \in Nat
      BY <1>1, <3>1
    <3> QED
      BY <2>1, <3>2, <3>3, LimiterAssumption
  <2> QED
    BY <2>1
<1>4. WaitNeeded(s) = Max({0, a, b})
  <2>1. {0} \cup (IF HourFull(s) THEN {Hour - s[1]} ELSE {})
            \cup (IF MinuteFull(s) THEN {Minute - s[Len(s) - PerMinute + 1]} ELSE {})
          = {0, a, b}
    <3>1. CASE HourFull(s) /\ MinuteFull(s)
      BY <3>1
    <3>2. CASE HourFull(s) /\ ~MinuteFull(s)
      BY <3>2
    <3>3. CASE ~HourFull(s) /\ MinuteFull(s)
      BY <3>3
    <3>4. CASE ~HourFull(s) /\ ~MinuteFull(s)
      BY <3>4
    <3> QED
      BY <3>1, <3>2, <3>3, <3>4
  <2> QED
    BY <2>1 DEF WaitNeeded
<1> HIDE DEF a, b
<1> QED
  BY <1>2, <1>3, <1>4, MaxOfThree

LEMMA PenaltyIsNat ==
  ASSUME NEW h \in Headers
  PROVE  PenaltyWait(h) \in Nat
<1> DEFINE a == IF h <= 0 THEN DefaultPenalty ELSE h
<1>1. a \in Nat /\ MaxPenalty \in Nat
  BY RequestAssumption
<1>2. PenaltyWait(h) = Min({a, MaxPenalty})
  BY DEF PenaltyWait
<1> HIDE DEF a
<1> QED
  BY <1>1, <1>2, MinOfTwo

(* Every sleep has a length, and a penalty lowers the limit to one.        *)
LEMMA ClocksKept ==
  ASSUME TypesInv, [Next]_vars
  PROVE  Clocks'
<1>1. Clocks /\ CallsCounted /\ TokensTyped
  BY DEF TypesInv, SendsContext
<1>2. CASE Tick \/ UNCHANGED vars
  BY <1>1, <1>2 DEF Clocks, Tick, vars
<1>3. ASSUME NEW t \in Threads, NEW n \in Nat, timer' = [timer EXCEPT ![t] = n],
             UNCHANGED left, limit' \in {1, limit}
      PROVE  Clocks'
  BY <1>1, <1>3, RequestAssumption DEF Clocks
<1>4. ASSUME NEW t \in Threads, Begin(t) \/ Step(t)
      PROVE  Clocks'
  <2>1. CASE \/ SkipBudget(t) \/ TakeToken(t) \/ Wake(t)
             \/ Enter(t) \/ Park(t) \/ Leave(t) \/ Succeeds(t)
    <3>1. UNCHANGED <<limit, timer, left>>
      BY <2>1 DEF gate, SkipBudget, TakeToken, Wake, Enter, Park, Leave, Succeeds, Return
    <3> QED
      BY <1>1, <3>1 DEF Clocks
  <2>2. CASE Begin(t)
    BY <1>1, <2>2, RequestAssumption DEF Clocks, gate, Begin
  <2>3. CASE AwaitBudget(t)
    <3>1. PICK cut \in 0..Len(events) :
            timer' = [timer EXCEPT ![t] = WaitNeeded(SubSeq(events, cut + 1, Len(events)))]
      BY <2>3 DEF AwaitBudget
    <3>2. SubSeq(events, cut + 1, Len(events)) \in Seq(Ages)
      BY <1>1 DEF TokensTyped
    <3>3. UNCHANGED <<left, limit>>
      BY <2>3 DEF AwaitBudget, gate
    <3> QED
      BY <1>3, <3>1, <3>2, <3>3, WaitIsNat
  <2>4. CASE SitOut(t)
    <3>1. PICK h \in Headers : timer' = [timer EXCEPT ![t] = PenaltyWait(h)]
      BY <2>4 DEF SitOut
    <3>2. UNCHANGED left /\ limit' \in {1, limit}
      BY <2>4 DEF SitOut, Serialise
    <3> QED
      BY <1>3, <3>1, <3>2, PenaltyIsNat
  <2>5. CASE NetworkFails(t) \/ Refused(t)
    <3>1. UNCHANGED left /\ limit' \in {1, limit}
      BY <2>5 DEF NetworkFails, Refused, Serialise, gate
    <3>2. PICK retry \in BOOLEAN : UseAttempt(t, retry)
      BY <2>5 DEF NetworkFails, Refused
    <3> DEFINE n == call[t].attempt
               k == n + 1
    <3>3. CASE ~(retry /\ k < MaxRetry)
      <4>1. UNCHANGED timer
        BY <3>2, <3>3 DEF UseAttempt, Return
      <4> QED
        BY <1>1, <3>1, <4>1, RequestAssumption DEF Clocks
    <3>4. CASE retry /\ k < MaxRetry
      <4>1. timer' = [timer EXCEPT ![t] = Backoff * 2 ^ (k - 1)]
        BY <3>2, <3>4, Zenon DEF UseAttempt
      <4>2. n \in Nat /\ k - 1 = n
        BY <1>1, RequestAssumption DEF CallsCounted
      <4> DEFINE p == 2 ^ n
      <4>3. p \in Nat
        BY <4>2, PowersOfTwo
      <4>4. timer' = [timer EXCEPT ![t] = Backoff * p]
        BY <4>1, <4>2
      <4> HIDE DEF p
      <4>5. Backoff * p \in Nat
        BY <4>3, RequestAssumption
      <4> QED
        BY <1>3, <3>1, <4>4, <4>5
    <3> QED
      BY <3>3, <3>4
  <2> QED
    BY <1>4, <2>1, <2>2, <2>3, <2>4, <2>5 DEF Step
<1> QED
  BY <1>2, <1>4 DEF Next

(* Only entering and leaving the slot move a thread to or from sending.    *)
LEMMA SlotsKept ==
  ASSUME TypesInv, [Next]_vars
  PROVE  SlotsCounted'
<1>1. SlotsCounted /\ pc \in [Threads -> Places]
  BY DEF TypesInv, SendsContext, CallsCounted
<1>2. ASSUME UNCHANGED active, Sending' = Sending
      PROVE  SlotsCounted'
  BY <1>1, <1>2 DEF SlotsCounted
<1>3. CASE Tick \/ UNCHANGED vars
  <2>1. UNCHANGED active /\ Sending' = Sending
    BY <1>3 DEF Tick, vars, Sending
  <2> QED
    BY <1>2, <2>1
<1>4. ASSUME NEW t \in Threads, Begin(t) \/ Step(t)
      PROVE  SlotsCounted'
  <2>1. CASE Enter(t)
    <3>1. active' = active + 1 /\ Sending' = Sending \cup {t} /\ t \notin Sending
      BY <1>1, <2>1 DEF Enter, Goto, Sending
    <3> QED
      BY <1>1, <3>1, SendingFinite, FS_AddElement DEF SlotsCounted
  <2>2. CASE Leave(t)
    <3>1. active' = active - 1 /\ t \in Sending
      BY <2>2 DEF Leave, Sending
    <3>2. Sending' = Sending \ {t}
      BY <1>1, <2>2 DEF Leave, Notify, Goto, Parked, Sending
    <3> QED
      BY <1>1, <3>1, <3>2, SendingFinite, FS_RemoveElement DEF SlotsCounted
  <2>3. CASE \/ Begin(t) \/ SkipBudget(t) \/ TakeToken(t) \/ AwaitBudget(t) \/ Wake(t) \/ Park(t)
             \/ Succeeds(t) \/ NetworkFails(t) \/ SitOut(t) \/ Refused(t)
    <3>1. UNCHANGED active /\ pc[t] # "sending"
      BY <2>3 DEF Begin, SkipBudget, TakeToken, AwaitBudget, Wake, Park, Succeeds, NetworkFails,
                  SitOut, Refused, gate
    <3>2. \E place \in Places \ {"sending"} : Goto(t, place)
      BY <2>3 DEF Begin, SkipBudget, TakeToken, AwaitBudget, Wake, Park, Succeeds, NetworkFails,
                  SitOut, Refused, UseAttempt, Return, Places
    <3>3. Sending' = Sending
      BY <1>1, <3>1, <3>2 DEF Goto, Sending
    <3> QED
      BY <1>2, <3>1, <3>3
  <2> QED
    BY <1>4, <2>1, <2>2, <2>3 DEF Step
<1> QED
  BY <1>3, <1>4 DEF Next

LEMMA TypesInit == Init => SlotsCounted /\ Clocks
<1> SUFFICES ASSUME Init PROVE SlotsCounted /\ Clocks
  OBVIOUS
<1>1. Sending = {} /\ active = 0
  BY DEF Init, Sending
<1>2. Clocks
  BY RequestAssumption DEF Init, Clocks
<1> QED
  BY <1>1, <1>2, FS_EmptySet DEF SlotsCounted

LEMMA TypesAreTypes == TypesInv => TypeOK
<1> SUFFICES ASSUME TypesInv PROVE TypeOK
  OBVIOUS
<1>1. TokensTyped /\ CallsCounted /\ sent \in Seq(Ages) /\ Clocks /\ SlotsCounted
  BY DEF TypesInv, SendsContext, SendsInv
<1>2. active \in Nat
  BY <1>1, SendingFinite DEF SlotsCounted
<1>3. call \in [Threads -> [content : BOOLEAN, attempt : 0..MaxRetry, waits : Nat, sends : Nat]]
  BY <1>1, RequestAssumption DEF CallsCounted
<1> QED
  BY <1>1, <1>2, <1>3 DEF TypeOK, TokensTyped, CallsCounted, Clocks

(* The limiter's variables keep their types whatever the headers, the      *)
(* budgets and the number of threads: no sleep is negative, the gate never *)
(* counts below zero, and its limit never reaches zero or grows.           *)
THEOREM LimiterTypes == Spec => []TypeOK
<1>1. Init => BudgetInv /\ TypesInv
  BY BudgetInit, CountInit, SendsInit, TypesInit DEF TypesInv, SendsContext, BudgetInv
<1>2. BudgetInv /\ TypesInv /\ [Next]_vars => (BudgetInv /\ TypesInv)'
  BY BudgetStep, CountStep, SendsStep, SlotsKept, ClocksKept DEF BudgetInv, TypesInv, SendsContext
<1> QED
  BY <1>1, <1>2, TypesAreTypes, PTL DEF Spec

(* The gate lets no more threads send at a time than its limit, which a    *)
(* penalty can only lower.                                                 *)
FewSend == Cardinality(Sending) <= MaxConcurrency

LEMMA FewSendStep ==
  ASSUME TypesInv, FewSend, [Next]_vars
  PROVE  FewSend'
<1>1. /\ active = Cardinality(Sending) /\ active' = Cardinality(Sending')
      /\ active \in Nat /\ limit \in 1..MaxConcurrency
  BY SlotsKept, SendingFinite DEF TypesInv, SlotsCounted, Clocks
<1>2. \/ active' = active
      \/ active' = active + 1 /\ active < limit
      \/ active' = active - 1
  BY DEF Next, Step, Tick, vars, gate, Begin, SkipBudget, TakeToken, AwaitBudget, Wake, Enter, Park,
         Leave, Succeeds, NetworkFails, SitOut, Refused
<1> QED
  BY <1>1, <1>2, RequestAssumption DEF FewSend

(* Whatever threads share the account, at most max_concurrency of their    *)
(* requests are out at a time.                                             *)
THEOREM GateHolds == Spec => []FewSend
<1>1. Init => BudgetInv /\ TypesInv /\ FewSend
  <2> SUFFICES ASSUME Init PROVE BudgetInv /\ TypesInv /\ FewSend
    OBVIOUS
  <2>1. BudgetInv /\ TypesInv
    BY BudgetInit, CountInit, SendsInit, TypesInit DEF TypesInv, SendsContext, BudgetInv
  <2>2. active = 0 /\ active = Cardinality(Sending)
    BY <2>1 DEF Init, TypesInv, SlotsCounted
  <2> QED
    BY <2>1, <2>2, RequestAssumption DEF FewSend
<1>2. BudgetInv /\ TypesInv /\ FewSend /\ [Next]_vars => (BudgetInv /\ TypesInv /\ FewSend)'
  BY BudgetStep, CountStep, SendsStep, SlotsKept, ClocksKept, FewSendStep
     DEF BudgetInv, TypesInv, SendsContext
<1> QED
  BY <1>1, <1>2, PTL DEF Spec
==============================================================================
