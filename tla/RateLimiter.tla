----------------------------- MODULE RateLimiter -----------------------------
(***************************************************************************)
(* One GitHub account as the threads of a process share it: the budget and *)
(* the gate of `rate_limit.py' and the retry loop `GitHubClient._request'. *)
(*                                                                         *)
(* Time is kept as ages: a token is as many ticks old as have passed since *)
(* it was taken, and counts no further than Hour, when it is forgotten.    *)
(***************************************************************************)
EXTENDS Integers, Sequences, FiniteSets, FiniteSetsExt

CONSTANTS
  Threads,          \* the tasks of the process that use the account
  PerMinute,        \* content_per_minute
  PerHour,          \* content_per_hour
  Minute, Hour,     \* the two windows, in ticks
  MaxConcurrency,   \* max_concurrency, the gate's limit at the start
  MaxRetry,         \* max_retry
  MaxWaits,         \* MAX_RATE_LIMIT_WAITS
  Backoff,          \* backoff_s, in ticks
  Headers,          \* what Retry-After, or the reset time, may amount to
  DefaultPenalty, MaxPenalty,
  MaxCalls          \* bound: calls each thread makes

ASSUME LimiterAssumption ==
  /\ PerMinute \in Nat \ {0}
  /\ PerHour \in Nat \ {0}
  /\ Minute \in Nat \ {0}
  /\ Hour \in Nat
  /\ Minute <= Hour

ASSUME RequestAssumption ==
  /\ IsFiniteSet(Threads)
  /\ MaxConcurrency \in Nat \ {0}
  /\ MaxRetry \in Nat \ {0}
  /\ MaxWaits \in Nat
  /\ Backoff \in Nat
  /\ Headers \subseteq Int
  /\ {DefaultPenalty, MaxPenalty} \subseteq Nat
  /\ MaxCalls \in Nat

VARIABLES
  events,   \* _content_events, as ages, oldest first
  active,   \* ConcurrencyGate._active
  limit,    \* ConcurrencyGate._limit
  pc,       \* where each thread is
  call,     \* the locals of its _request
  timer,    \* how long it still sleeps
  left,     \* calls it may still make
  tokens,   \* history: the ages of all tokens ever taken
  sent      \* history: the ages of the content requests sent in the last minute

budget == <<events, tokens>>
gate   == <<active, limit>>
vars   == <<events, active, limit, pc, call, timer, left, tokens, sent>>

Places == {"idle", "budget", "sleeping", "gate", "parked", "sending", "judging"}

(* `sends' is history: the requests this call has sent.                    *)
NewCall(content) == [content |-> content, attempt |-> 0, waits |-> 0, sends |-> 0]

Init ==
  /\ events = <<>> /\ tokens = <<>> /\ sent = <<>>
  /\ active = 0 /\ limit = MaxConcurrency
  /\ pc = [t \in Threads |-> "idle"]
  /\ call = [t \in Threads |-> NewCall(FALSE)]
  /\ timer = [t \in Threads |-> 0]
  /\ left = [t \in Threads |-> MaxCalls]

-----------------------------------------------------------------------------
(* Time passes, whatever the threads are doing; `sent' forgets from the    *)
(* front what is a minute old.                                             *)

Older(age) == IF age < Hour THEN age + 1 ELSE age
AllOlder(ages) == [i \in 1..Len(ages) |-> Older(ages[i])]

Tick ==
  /\ events' = AllOlder(events) /\ tokens' = AllOlder(tokens)
  /\ \E cut \in 0..Len(sent) :
       LET s == AllOlder(sent) IN
       /\ \A i \in 1..cut : s[i] >= Minute
       /\ cut < Len(s) => s[cut + 1] < Minute
       /\ sent' = SubSeq(s, cut + 1, Len(s))
  /\ timer' = [t \in Threads |-> IF timer[t] > 0 THEN timer[t] - 1 ELSE 0]
  /\ UNCHANGED <<active, limit, pc, call, left>>

-----------------------------------------------------------------------------
(* The budget.                                                             *)

\* MUTANT: forgets what is out of the minute.
Mutant_IsTrimPoint(cut) ==
  /\ \A i \in 1..cut : events[i] >= Minute
  /\ cut < Len(events) => events[cut + 1] < Minute

(* _trim: events' = what is left when the first `cut' are popped.          *)
IsTrimPoint(cut) ==
  /\ \A i \in 1..cut : events[i] >= Hour
  /\ cut < Len(events) => events[cut + 1] < Hour

HourFull(s) == Len(s) >= PerHour

(* Scanned from the right, per_minute stamps come before one that is a     *)
(* minute old.                                                             *)
MinuteFull(s) ==
  /\ Len(s) >= PerMinute
  /\ \A i \in (Len(s) - PerMinute + 1)..Len(s) : s[i] < Minute

WaitNeeded(s) ==
  Max({0} \cup (IF HourFull(s) THEN {Hour - s[1]} ELSE {})
          \cup (IF MinuteFull(s) THEN {Minute - s[Len(s) - PerMinute + 1]} ELSE {}))

Goto(t, place) == pc' = [pc EXCEPT ![t] = place]

(* before_request, for a request that only reads.                          *)
SkipBudget(t) ==
  /\ pc[t] = "budget"
  /\ ~call[t].content
  /\ Goto(t, "gate")
  /\ UNCHANGED <<budget, gate, call, timer, left, sent>>

(* before_request: the stamp is taken under the lock.                      *)
TakeToken(t) ==
  /\ pc[t] = "budget"
  /\ call[t].content
  /\ \E cut \in 0..Len(events) :
       LET s == SubSeq(events, cut + 1, Len(events)) IN
       /\ IsTrimPoint(cut)
       /\ ~HourFull(s) /\ ~MinuteFull(s)
       /\ events' = Append(s, 0)
  /\ tokens' = Append(tokens, 0)
  /\ Goto(t, "gate")
  /\ UNCHANGED <<gate, call, timer, left, sent>>

(* before_request: sleep outside the lock, then look again.                *)
AwaitBudget(t) ==
  /\ pc[t] = "budget"
  /\ call[t].content
  /\ \E cut \in 0..Len(events) :
       LET s == SubSeq(events, cut + 1, Len(events)) IN
       /\ IsTrimPoint(cut)
       /\ HourFull(s) \/ MinuteFull(s)
       /\ events' = s
       /\ timer' = [timer EXCEPT ![t] = WaitNeeded(s)]
  /\ Goto(t, "sleeping")
  /\ UNCHANGED <<gate, call, left, tokens, sent>>

\* MUTANT: before_request stands ahead of the loop.
Mutant_Wake(t) ==
  /\ pc[t] = "sleeping"
  /\ timer[t] = 0
  /\ Goto(t, "gate")
  /\ UNCHANGED <<budget, gate, call, timer, left, sent>>

(* Every sleep of the loop is followed by its head, before_request.        *)
Wake(t) ==
  /\ pc[t] = "sleeping"
  /\ timer[t] = 0
  /\ Goto(t, "budget")
  /\ UNCHANGED <<budget, gate, call, timer, left, sent>>

-----------------------------------------------------------------------------
(* The gate.                                                               *)

(* ConcurrencyGate.slot lets the thread in and the request goes out.       *)
Enter(t) ==
  /\ pc[t] = "gate"
  /\ active < limit
  /\ active' = active + 1
  /\ call' = [call EXCEPT ![t].sends = @ + 1]
  /\ sent' = IF call[t].content THEN Append(sent, 0) ELSE sent
  /\ Goto(t, "sending")
  /\ UNCHANGED <<budget, limit, timer, left>>

Park(t) ==
  /\ pc[t] = "gate"
  /\ active >= limit
  /\ Goto(t, "parked")
  /\ UNCHANGED <<budget, gate, call, timer, left, sent>>

Parked == {t \in Threads : pc[t] = "parked"}

\* MUTANT: a slot is given back without notify().
Mutant_Notify(t, place) == Goto(t, place)

(* notify(): one of the waiting threads, if there is one, looks again.     *)
Notify(t, place) ==
  \/ Parked = {} /\ Goto(t, place)
  \/ \E u \in Parked : pc' = [pc EXCEPT ![t] = place, ![u] = "gate"]

\* MUTANT: no finally around the request.
Mutant_Leave(t) ==
  /\ pc[t] = "sending"
  /\ active' \in {active, active - 1}
  /\ Notify(t, "judging")
  /\ UNCHANGED <<budget, limit, call, timer, left, sent>>

Leave(t) ==
  /\ pc[t] = "sending"
  /\ active' = active - 1
  /\ Notify(t, "judging")
  /\ UNCHANGED <<budget, limit, call, timer, left, sent>>

-----------------------------------------------------------------------------
(* What the loop makes of the answer.                                      *)

Begin(t) ==
  /\ pc[t] = "idle"
  /\ left[t] > 0
  /\ left' = [left EXCEPT ![t] = @ - 1]
  /\ \E content \in BOOLEAN : call' = [call EXCEPT ![t] = NewCall(content)]
  /\ Goto(t, "budget")
  /\ UNCHANGED <<budget, gate, timer, sent>>

(* The locals end with the call.                                           *)
Return(t) ==
  /\ Goto(t, "idle")
  /\ call' = [call EXCEPT ![t] = NewCall(FALSE)]
  /\ UNCHANGED timer

Succeeds(t) ==
  /\ pc[t] = "judging"
  /\ Return(t)
  /\ UNCHANGED <<budget, gate, left, sent>>

(* One attempt is used up: back off and try again, or raise.               *)
UseAttempt(t, retry) ==
  LET n == call[t].attempt + 1 IN
  IF retry /\ n < MaxRetry
  THEN /\ call' = [call EXCEPT ![t].attempt = n]
       /\ timer' = [timer EXCEPT ![t] = Backoff * 2 ^ (n - 1)]
       /\ Goto(t, "sleeping")
  ELSE Return(t)

(* No answer came.                                                         *)
NetworkFails(t) ==
  /\ pc[t] = "judging"
  /\ UseAttempt(t, TRUE)
  /\ UNCHANGED <<budget, gate, left, sent>>

PenaltyWait(header) ==
  Min({IF header <= 0 THEN DefaultPenalty ELSE header, MaxPenalty})

\* MUTANT: one slot less each time, down to none.
Mutant_Serialise(secondary) == limit' = IF secondary THEN limit - 1 ELSE limit

(* penalty_for: one secondary limit and the account goes serial.  (The     *)
(* threads notify_all() wakes find the gate no wider and wait again.)      *)
Serialise(secondary) == limit' = IF secondary THEN 1 ELSE limit

\* MUTANT: one wait too many.
Mutant_SitOut(t) ==
  /\ pc[t] = "judging"
  /\ call[t].waits <= MaxWaits
  /\ \E secondary \in BOOLEAN : Serialise(secondary)
  /\ call' = [call EXCEPT ![t].waits = @ + 1]
  /\ \E h \in Headers : timer' = [timer EXCEPT ![t] = PenaltyWait(h)]
  /\ Goto(t, "sleeping")
  /\ UNCHANGED <<budget, active, left, sent>>

(* A penalty is slept out without using up an attempt, MaxWaits times.     *)
SitOut(t) ==
  /\ pc[t] = "judging"
  /\ call[t].waits < MaxWaits
  /\ \E secondary \in BOOLEAN : Serialise(secondary)
  /\ call' = [call EXCEPT ![t].waits = @ + 1]
  /\ \E h \in Headers : timer' = [timer EXCEPT ![t] = PenaltyWait(h)]
  /\ Goto(t, "sleeping")
  /\ UNCHANGED <<budget, active, left, sent>>

(* Any other status, and a penalty too many, counts as an attempt; only a  *)
(* status of RETRYABLE_HTTP_STATUS_CODES is tried again.                   *)
Refused(t) ==
  /\ pc[t] = "judging"
  /\ \E secondary, retryable \in BOOLEAN :
       /\ secondary => call[t].waits >= MaxWaits
       /\ Serialise(secondary)
       /\ UseAttempt(t, retryable)
  /\ UNCHANGED <<budget, active, left, sent>>

-----------------------------------------------------------------------------
Step(t) ==
  \/ SkipBudget(t) \/ TakeToken(t) \/ AwaitBudget(t) \/ Wake(t)
  \/ Enter(t) \/ Park(t) \/ Leave(t)
  \/ Succeeds(t) \/ NetworkFails(t) \/ SitOut(t) \/ Refused(t)

Next == Tick \/ \E t \in Threads : Begin(t) \/ Step(t)

Spec == Init /\ [][Next]_vars

(* Time passes, the threads are scheduled, and a request that was sent     *)
(* ends (it has a timeout).  Nobody has to start a call.                   *)
FairSpec == Spec /\ WF_vars(Tick) /\ \A t \in Threads : WF_vars(Step(t))

-----------------------------------------------------------------------------
Ages == 0..Hour

TypeOK ==
  /\ {events, tokens, sent} \subseteq Seq(Ages)
  /\ active \in Nat
  /\ limit \in 1..MaxConcurrency
  /\ pc \in [Threads -> Places]
  /\ call \in [Threads -> [content : BOOLEAN, attempt : 0..MaxRetry, waits : Nat,
                           sends : Nat]]
  /\ timer \in [Threads -> Nat]
  /\ left \in [Threads -> 0..MaxCalls]

(* Of any n + 1 events in a row the first is at least `window' old when    *)
(* the last one happens, and so ever after.                                *)
AtMost(n, window, ages) ==
  \A i \in 1..Len(ages) : i + n <= Len(ages) => ages[i] >= window

(* Whatever threads share the limiter, and however long they sleep between *)
(* looking and looking again, before_request never lets more requests pass *)
(* than the budget of a minute and the budget of an hour.                  *)
BudgetKept ==
  /\ AtMost(PerMinute, Minute, tokens)
  /\ AtMost(PerHour, Hour, tokens)

(* A stamp is taken before the thread has its slot, and a penalty or a     *)
(* backoff is a request of its own: what really leaves in a minute exceeds *)
(* the budget by no more than the threads that may hold a stamp back.      *)
SendsNearBudget ==
  Len(sent) <= PerMinute + Cardinality(Threads)

(* While a thread waits at the gate no slot is free that nobody is about   *)
(* to take: notify() of one thread for each one that leaves, and           *)
(* notify_all() when the limit drops, lose no wake-up.                     *)
NoIdleSlot ==
  Parked # {} => active + Cardinality({t \in Threads : pc[t] = "gate"}) >= limit

(* Penalties do not use up attempts and attempts do not use up waits, but  *)
(* together they bound what one call of _request may send.                 *)
RequestsBounded ==
  \A t \in Threads : call[t].sends <= MaxRetry + MaxWaits

(* Every call of _request comes back, with an answer or with an exception: *)
(* no thread is left at the gate, or waiting for budget, for ever.         *)
CallsEnd == \A t \in Threads : pc[t] # "idle" ~> pc[t] = "idle"
==============================================================================
