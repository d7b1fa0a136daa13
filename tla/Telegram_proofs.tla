---------------------------- MODULE Telegram_proofs ----------------------------
(***************************************************************************)
(* What becomes of the session file, for any number of workers, processes, *)
(* logins, revocations and crashes.                                        *)
(***************************************************************************)
EXTENDS TelegramAccount, TLAPS

(* While nothing has been interrupted one attempt at most is under way: it *)
(* has the old session aside, and once it is connected the session file is *)
(* its own.                                                                *)
Attempting == {w \in Workers : pending[w] # Null}

Typed ==
  /\ disk \in [session : Keys \cup {Null}, backup : Keys \cup {Null}]
  /\ made \in Keys /\ authorized \subseteq Keys /\ revoked \subseteq Keys
  /\ pending \in [Workers -> Pending \cup {Null}]
  /\ interrupted \in {"no", "once", "again"}
  /\ \A w \in Attempting : pending[w].stage # "idle" => pending[w].key \in Keys

OneAttempt == \A v, w \in Attempting : v = w

AttemptIsSafe(w) ==
  /\ pending[w].aside
  /\ disk.backup \in Vouched
  /\ pending[w].stage # "idle" => disk.session = pending[w].key

SessionInv ==
  /\ Typed
  /\ interrupted = "no" =>
       /\ OneAttempt
       /\ \A w \in Attempting : AttemptIsSafe(w)
       /\ Attempting = {} => disk.session \in Vouched
  /\ interrupted = "once" =>
       /\ Attempting = {}
       /\ Vouched \cap {disk.session, disk.backup} # {}

LEMMA NullIsNone ==
  /\ Null \notin Keys
  /\ Null \notin Pending
BY LoginAssumption DEF Keys

LEMMA SessionInit == Init => SessionInv
<1> SUFFICES ASSUME Init PROVE SessionInv
  OBVIOUS
<1>1. 0 \in Keys
  BY LoginAssumption DEF Keys
<1>2. Attempting = {}
  BY DEF Init, LoginInit, Attempting
<1>3. Typed
  BY <1>1, <1>2 DEF Init, LoginInit, Typed
<1> QED
  BY <1>2, <1>3 DEF Init, LoginInit, SessionInv, OneAttempt, Vouched

-----------------------------------------------------------------------------
(* The steps of a login.                                                   *)

LEMMA RestoreTyped ==
  ASSUME Typed, NEW attempt \in Pending
  PROVE  Restore(disk, attempt) \in [session : Keys \cup {Null}, backup : Keys \cup {Null}]
BY DEF Typed, Restore

LEMMA AfterAbortTyped ==
  ASSUME Typed, NEW w \in Workers
  PROVE  AfterAbort(w) \in [session : Keys \cup {Null}, backup : Keys \cup {Null}]
<1>1. CASE pending[w] = Null
  BY <1>1 DEF Typed, AfterAbort
<1>2. CASE pending[w] # Null
  BY <1>2, RestoreTyped DEF Typed, AfterAbort
<1> QED
  BY <1>1, <1>2

(* Where nothing has crossed, the session is back after an abort.          *)
LEMMA AfterAbortSafe ==
  ASSUME SessionInv, interrupted = "no", NEW w \in Workers, Attempting \subseteq {w}
  PROVE  AfterAbort(w).session \in Vouched
<1>1. CASE w \in Attempting
  <2>1. pending[w].aside /\ disk.backup \in Vouched
    BY <1>1 DEF SessionInv, AttemptIsSafe
  <2>2. disk.backup # Null
    BY <2>1, NullIsNone DEF SessionInv, Typed, Vouched
  <2> QED
    BY <1>1, <2>1, <2>2 DEF AfterAbort, Restore, Attempting
<1>2. CASE w \notin Attempting
  BY <1>2 DEF SessionInv, AfterAbort, Attempting
<1> QED
  BY <1>1, <1>2

LEMMA SessionStart ==
  ASSUME SessionInv, NEW w \in Workers, Start(w)
  PROVE  SessionInv'
<1> DEFINE d == AfterAbort(w)
           new == [stage |-> "idle", key |-> Null, aside |-> d.session # Null]
<1>1. d \in [session : Keys \cup {Null}, backup : Keys \cup {Null}]
  BY AfterAbortTyped DEF SessionInv
<1>2. new \in Pending
  BY DEF Pending, Stages
<1>3. disk' \in [session : Keys \cup {Null}, backup : Keys \cup {Null}]
  BY <1>1 DEF Start, SetAside
<1>4. pending' = [pending EXCEPT ![w] = new]
  BY DEF Start
<1>5. Typed'
  BY <1>2, <1>3, <1>4 DEF SessionInv, Typed, Start, Attempting
<1>6. interrupted' # "once"
  BY DEF SessionInv, Typed, Start
<1>7. CASE interrupted' = "no"
  <2>1. interrupted = "no" /\ Attempting \subseteq {w}
    BY <1>7 DEF Start, Attempting
  <2>2. d.session \in Vouched
    BY <2>1, AfterAbortSafe
  <2>3. d.session # Null
    BY <2>2, NullIsNone DEF Vouched, SessionInv, Typed
  <2>4. disk'.backup = d.session
    BY <2>3 DEF Start, SetAside
  <2>5. Vouched' = Vouched
    BY DEF Start, Vouched
  <2>6. Attempting' \subseteq {w} /\ pending'[w] = new
    BY <2>1, <1>4 DEF Attempting, SessionInv, Typed
  <2>7. w \in Attempting'
    BY <2>6, <1>2, <1>4, NullIsNone DEF Attempting, SessionInv, Typed
  <2>8. pending'[w].stage = "idle" /\ pending'[w].aside
    <3>1. new = [stage |-> "idle", key |-> Null, aside |-> TRUE]
      BY <2>3, Zenon
    <3> QED
      BY <2>6, <3>1
  <2>9. AttemptIsSafe(w)'
    BY <2>2, <2>4, <2>5, <2>8 DEF AttemptIsSafe
  <2> QED
    BY <1>5, <1>7, <2>6, <2>7, <2>9 DEF SessionInv, OneAttempt
<1> QED
  BY <1>5, <1>6, <1>7 DEF SessionInv

(* What an open file, signed in or ended by an answer, leaves of the rest. *)
LEMMA OpenTyped ==
  ASSUME Typed, OpenSession
  PROVE  /\ disk' \in [session : Keys \cup {Null}, backup : Keys \cup {Null}]
         /\ made' \in Keys
         /\ disk'.backup = disk.backup
         /\ disk'.session = Opened /\ Opened \in Keys
         /\ disk.session # Null => disk'.session = disk.session
BY DEF Typed, OpenSession, Opened

LEMMA SessionConnect ==
  ASSUME SessionInv, NEW w \in Workers, Connect(w)
  PROVE  SessionInv'
<1> DEFINE new == [pending[w] EXCEPT !.stage = "connected", !.key = Opened]
<1>1. /\ Typed /\ pending[w] \in Pending /\ w \in Attempting
  BY DEF SessionInv, Typed, Connect, Attempting
<1>2. /\ disk' \in [session : Keys \cup {Null}, backup : Keys \cup {Null}]
      /\ made' \in Keys
      /\ disk'.backup = disk.backup
      /\ disk'.session = Opened /\ Opened \in Keys
  BY <1>1, OpenTyped DEF Connect
<1>3. /\ new \in Pending /\ new.key = Opened /\ new.aside = pending[w].aside
  BY <1>1, <1>2 DEF Pending, Stages
<1>4. /\ pending' = [pending EXCEPT ![w] = new]
      /\ UNCHANGED <<authorized, revoked, interrupted>>
  BY DEF Connect
<1>5. Typed'
  BY <1>1, <1>2, <1>3, <1>4 DEF Typed, Attempting
<1>6. Attempting' = Attempting /\ pending'[w] = new
  BY <1>1, <1>3, <1>4, NullIsNone DEF Attempting, Typed
<1>7. CASE interrupted = "no"
  <2>1. OneAttempt /\ AttemptIsSafe(w) /\ Attempting = {w}
    BY <1>1, <1>7 DEF SessionInv, OneAttempt
  <2>2. AttemptIsSafe(w)'
    BY <1>2, <1>3, <1>4, <1>6, <2>1 DEF AttemptIsSafe, Vouched
  <2> QED
    BY <1>4, <1>5, <1>6, <1>7, <2>1, <2>2 DEF SessionInv, OneAttempt
<1> QED
  BY <1>1, <1>4, <1>5, <1>7 DEF SessionInv

(* The next stage of an attempt.                                           *)
LEMMA SessionStage ==
  ASSUME SessionInv, NEW w \in Workers, NEW stage \in Stages,
         pending[w] # Null, pending[w].stage # "idle", Stage(w, stage),
         UNCHANGED <<disk, made, authorized, revoked, interrupted>>
  PROVE  SessionInv'
<1> DEFINE new == [pending[w] EXCEPT !.stage = stage]
<1>1. /\ Typed /\ pending[w] \in Pending /\ w \in Attempting
  BY DEF SessionInv, Typed, Attempting
<1>2. new \in Pending /\ new.key = pending[w].key /\ new.aside = pending[w].aside
  BY <1>1 DEF Pending
<1>3. pending' = [pending EXCEPT ![w] = new]
  BY DEF Stage
<1>4. Typed'
  BY <1>1, <1>2, <1>3 DEF Typed, Attempting
<1>5. Attempting' = Attempting /\ pending'[w] = new
  BY <1>1, <1>2, <1>3, NullIsNone DEF Attempting, Typed
<1>6. CASE interrupted = "no"
  <2>1. OneAttempt /\ AttemptIsSafe(w) /\ Attempting = {w}
    BY <1>1, <1>6 DEF SessionInv, OneAttempt
  <2>2. AttemptIsSafe(w)'
    BY <1>2, <1>5, <2>1 DEF AttemptIsSafe, Vouched
  <2> QED
    BY <1>4, <1>5, <1>6, <2>1, <2>2 DEF SessionInv, OneAttempt
<1> QED
  BY <1>1, <1>4, <1>6 DEF SessionInv

LEMMA SessionAbort ==
  ASSUME SessionInv, NEW w \in Workers, pending[w] # Null, Abort(w)
  PROVE  SessionInv'
<1>1. disk' \in [session : Keys \cup {Null}, backup : Keys \cup {Null}]
  BY AfterAbortTyped DEF SessionInv, Abort
<1>2. Typed'
  BY <1>1 DEF SessionInv, Typed, Abort, Attempting
<1>3. w \in Attempting /\ w \notin Attempting' /\ Attempting' \subseteq Attempting
  BY DEF Attempting, Abort, SessionInv, Typed
<1>4. CASE interrupted = "no"
  <2>1. Attempting = {w} /\ Attempting' = {}
    BY <1>3, <1>4 DEF SessionInv, OneAttempt
  <2>2. disk'.session \in Vouched'
    BY <1>4, <2>1, AfterAbortSafe DEF Abort, Vouched
  <2> QED
    BY <1>2, <1>4, <2>1, <2>2 DEF SessionInv, OneAttempt, Abort
<1> QED
  BY <1>2, <1>3, <1>4 DEF SessionInv, Abort

LEMMA SessionAccept ==
  ASSUME SessionInv, NEW w \in Workers, Accept(w)
  PROVE  SessionInv'
<1>1. /\ Typed /\ w \in Attempting
      /\ pending[w].stage # "idle" /\ pending[w].key \in Keys
  BY DEF SessionInv, Typed, Accept, Waiting, Attempting
<1>2. disk' \in [session : Keys \cup {Null}, backup : Keys \cup {Null}]
  BY <1>1 DEF Typed, Accept, Discard
<1>3. disk'.session = disk.session
  BY <1>1 DEF Typed, Accept, Discard
<1>4. Typed'
  BY <1>1, <1>2 DEF Typed, Accept, Attempting
<1>5. w \notin Attempting' /\ Attempting' \subseteq Attempting
  BY <1>1 DEF Attempting, Accept, Typed
<1>6. CASE interrupted = "no"
  <2>1. Attempting = {w} /\ AttemptIsSafe(w) /\ Attempting' = {}
    BY <1>1, <1>5, <1>6 DEF SessionInv, OneAttempt
  <2>2. disk.session = pending[w].key
    BY <1>1, <2>1 DEF AttemptIsSafe
  <2>3. disk'.session \in Vouched'
    BY <1>3, <2>2 DEF Accept, Vouched
  <2> QED
    BY <1>4, <1>6, <2>1, <2>3 DEF SessionInv, OneAttempt, Accept
<1> QED
  BY <1>1, <1>4, <1>6 DEF SessionInv, Accept

LEMMA SessionRevoke ==
  ASSUME SessionInv, NEW key, Revoke(key)
  PROVE  SessionInv'
<1>1. Vouched' = Vouched /\ Attempting' = Attempting
  BY DEF Revoke, Vouched, Attempting
<1>2. Typed'
  BY <1>1 DEF SessionInv, Typed, Revoke
<1> QED
  BY <1>1, <1>2 DEF SessionInv, Revoke, OneAttempt, AttemptIsSafe

LEMMA SessionForget ==
  ASSUME SessionInv, NEW w \in Workers, Forget(w)
  PROVE  SessionInv'
<1>1. /\ Attempting' = Attempting \ {w}
      /\ \A v \in Attempting' : pending'[v] = pending[v]
      /\ Vouched' = Vouched /\ UNCHANGED disk
  BY DEF SessionInv, Typed, Forget, Attempting, Vouched
<1>2. Typed'
  BY <1>1 DEF SessionInv, Typed, Forget
<1>3. CASE interrupted' = "no"
  <2>1. interrupted = "no" /\ w \notin Attempting /\ Attempting' = Attempting
    BY <1>1, <1>3 DEF Forget, Attempting
  <2> QED
    BY <1>1, <1>2, <1>3, <2>1 DEF SessionInv, OneAttempt, AttemptIsSafe
<1>4. CASE interrupted' = "once" /\ interrupted = "no"
  <2>1. Attempting = {w} /\ AttemptIsSafe(w)
    BY <1>4 DEF SessionInv, OneAttempt, Forget, Attempting
  <2>2. Attempting' = {} /\ disk'.backup \in Vouched'
    BY <1>1, <2>1 DEF AttemptIsSafe
  <2> QED
    BY <1>2, <1>4, <2>2 DEF SessionInv
<1>5. CASE interrupted' = "once" /\ interrupted = "once"
  BY <1>1, <1>2, <1>5 DEF SessionInv
<1> QED
  BY <1>2, <1>3, <1>4, <1>5 DEF SessionInv, Typed, Forget

-----------------------------------------------------------------------------
(* What a sync does to the file: a connection creates one where there is   *)
(* none.                                                                   *)

LEMMA SessionOpened ==
  ASSUME SessionInv, OpenSession, UNCHANGED <<authorized, revoked, pending, interrupted>>
  PROVE  SessionInv'
<1>1. /\ disk' \in [session : Keys \cup {Null}, backup : Keys \cup {Null}]
      /\ made' \in Keys
      /\ disk'.backup = disk.backup
      /\ disk.session # Null => disk'.session = disk.session
  BY OpenTyped DEF SessionInv
<1>2. Attempting' = Attempting /\ Vouched' = Vouched /\ Null \notin Vouched
  BY NullIsNone DEF Attempting, Vouched, SessionInv, Typed
<1>3. Typed'
  BY <1>1, <1>2 DEF SessionInv, Typed
<1>4. CASE interrupted = "no"
  <2>1. ASSUME NEW w \in Attempting
        PROVE  AttemptIsSafe(w)'
    <3>1. AttemptIsSafe(w) /\ (pending[w].stage # "idle" => pending[w].key \in Keys)
      BY <1>4 DEF SessionInv, Typed
    <3>2. pending[w].stage # "idle" => disk'.session = pending[w].key
      BY <1>1, <3>1, NullIsNone DEF AttemptIsSafe
    <3> QED
      BY <1>1, <1>2, <3>1, <3>2 DEF AttemptIsSafe
  <2>2. Attempting = {} => disk'.session \in Vouched
    BY <1>1, <1>2, <1>4 DEF SessionInv
  <2> QED
    BY <1>2, <1>3, <1>4, <2>1, <2>2 DEF SessionInv, OneAttempt
<1>5. CASE interrupted = "once"
  <2>1. Vouched \cap {disk'.session, disk'.backup} # {}
    BY <1>1, <1>2, <1>5 DEF SessionInv
  <2> QED
    BY <1>2, <1>3, <1>5, <2>1 DEF SessionInv
<1> QED
  BY <1>3, <1>4, <1>5 DEF SessionInv, Typed

LEMMA SessionUntouched ==
  ASSUME SessionInv, UNCHANGED loginVars
  PROVE  SessionInv'
BY DEF SessionInv, Typed, loginVars, OneAttempt, AttemptIsSafe, Attempting, Vouched

LEMMA SessionStep == SessionInv /\ [Next]_vars => SessionInv'
<1> SUFFICES ASSUME SessionInv, [Next]_vars PROVE SessionInv'
  OBVIOUS
<1>1. ASSUME NEW w \in Workers, Login(w)
      PROVE  SessionInv'
  <2>1. CASE CodeSent(w)
    BY <2>1, SessionStage DEF CodeSent, Stages
  <2>2. CASE PasswordNeeded(w)
    BY <2>2, SessionStage DEF PasswordNeeded, Stages
  <2>3. CASE StartFails(w) \/ GiveUp(w)
    BY <2>3, SessionAbort DEF StartFails, GiveUp, Waiting
  <2> QED
    BY <1>1, <2>1, <2>2, <2>3, SessionStart, SessionConnect DEF Login, LoginStep
<1>2. ASSUME NEW w \in Workers, Authorized(w)
      PROVE  SessionInv'
  BY <1>2, SessionAccept DEF Authorized
<1>3. CASE SessionEnds
  BY <1>3, SessionRevoke DEF SessionEnds
<1>4. ASSUME NEW p \in Processes, ProcessDies(p)
      PROVE  SessionInv'
  BY <1>4, SessionForget, SessionUntouched DEF ProcessDies
<1>5. CASE EnsureConnection
  <2>1. CASE OpenSession
    BY <1>5, <2>1, SessionOpened DEF EnsureConnection
  <2>2. CASE UNCHANGED <<disk, made>>
    BY <1>5, <2>2, SessionUntouched DEF EnsureConnection, loginVars
  <2> QED
    BY <1>5, <2>1, <2>2 DEF EnsureConnection
<1>6. CASE \/ \E p \in Processes : BeginRun(p)
           \/ NoSession \/ Request \/ Answered
           \/ NetworkFails \/ SelfHeal \/ AuthFails \/ RefusedAtOnce \/ Flush
           \/ LoadDocument \/ SaveDocument \/ DropDocument
  BY <1>6, SessionUntouched
     DEF BeginRun, NoSession, Request, Answered, NetworkFails, SelfHeal, AuthFails,
         RefusedAtOnce, Flush, LoadDocument, SaveDocument, DropDocument
<1>7. CASE UNCHANGED vars
  BY <1>7, SessionUntouched DEF vars
<1> QED
  BY <1>1, <1>2, <1>3, <1>4, <1>5, <1>6, <1>7 DEF Next

(* As long as attempts do not cross, and none is cut off, no login costs   *)
(* the account its session.                                                *)
THEOREM SessionSurvives == Spec => []WorkingSessionSurvives
<1>1. SessionInv => WorkingSessionSurvives
  BY DEF SessionInv, WorkingSessionSurvives, Attempting
<1> QED
  BY <1>1, SessionInit, SessionStep, PTL DEF Spec

(* And one that is cut off leaves the old session within reach.            *)
THEOREM SessionWithinReach == Spec => []SessionIsWithinReach
<1>1. SessionInv => SessionIsWithinReach
  <2>1. ASSUME SessionInv, interrupted = "no"
        PROVE  Vouched \cap {disk.session, disk.backup} # {}
    <3>1. CASE Attempting = {}
      BY <2>1, <3>1 DEF SessionInv
    <3>2. CASE Attempting # {}
      BY <2>1, <3>2 DEF SessionInv, AttemptIsSafe
    <3> QED
      BY <3>1, <3>2
  <2> QED
    BY <2>1 DEF SessionInv, Typed, SessionIsWithinReach
<1> QED
  BY <1>1, SessionInit, SessionStep, PTL DEF Spec

-----------------------------------------------------------------------------
(* The sync and the flag.  After a re-login that met no other holder of    *)
(* the document, the file, the sync in progress and every document loaded  *)
(* since have the account as available, until a sync retires it.           *)

AccountTyped ==
  /\ available \in BOOLEAN /\ docs \subseteq BOOLEAN /\ retired \subseteq Processes
  /\ client \in [Processes -> Keys \cup {Null}]
  /\ run \in Run \cup {Null}
  /\ run # Null /\ run.at # "walk" => run.tries < MaxRetry
  /\ steady \in BOOLEAN /\ relogin \in {"no", "quiet", "busy"}
  /\ crashes \in 0..MaxCrashes

FlagInv ==
  relogin = "quiet" => /\ available
                       /\ docs \subseteq {TRUE}
                       /\ run # Null => run.available

AccountInv == SessionInv /\ AccountTyped /\ FlagInv

LEMMA AccountInit == Init => AccountInv
<1> SUFFICES ASSUME Init PROVE AccountInv
  OBVIOUS
<1>1. client \in [Processes -> Keys \cup {Null}]
  BY DEF Init
<1>2. crashes = 0 /\ 0 \in 0..MaxCrashes
  BY AccountAssumption DEF Init
<1>3. AccountTyped
  BY <1>1, <1>2 DEF Init, AccountTyped
<1> QED
  BY <1>3, SessionInit DEF Init, AccountInv, FlagInv

LEMMA TryAgainTyped ==
  ASSUME AccountTyped, run # Null, run.at # "walk"
  PROVE  /\ TryAgain \in Run
         /\ TryAgain.available = run.available
         /\ TryAgain.at # "walk" => TryAgain.tries < MaxRetry
<1> DEFINE next == IF run.tries + 1 < MaxRetry THEN "connect" ELSE "walk"
<1>1. run \in Run /\ run.tries \in 0..MaxRetry /\ run.tries < MaxRetry
  BY DEF AccountTyped, Run
<1>2. run.tries + 1 \in 0..MaxRetry /\ next \in {"walk", "connect", "call"}
  BY <1>1, AccountAssumption
<1>3. TryAgain = [run EXCEPT !.tries = run.tries + 1, !.at = next]
  BY DEF TryAgain
<1>4. /\ TryAgain \in Run /\ TryAgain.available = run.available
      /\ TryAgain.at = next /\ TryAgain.tries = run.tries + 1
  BY <1>1, <1>2, <1>3 DEF Run
<1> QED
  BY <1>4

LEMMA ResetTyped ==
  ASSUME AccountTyped, NEW p, Reset(p)
  PROVE  client' \in [Processes -> Keys \cup {Null}]
BY DEF AccountTyped, Reset

LEMMA RetireTyped ==
  ASSUME AccountTyped, run # Null, Retire
  PROVE  /\ retired' \subseteq Processes
         /\ run' \in Run /\ run'.at = "walk"
         /\ relogin' = "no" /\ steady' \in BOOLEAN
<1>1. run \in Run /\ run.by \in Processes
  BY DEF AccountTyped, Run
<1>2. run' = [run EXCEPT !.available = FALSE, !.at = "walk"]
  BY DEF Retire
<1>3. run' \in Run /\ run'.at = "walk"
  BY <1>1, <1>2 DEF Run
<1> QED
  BY <1>1, <1>3 DEF Retire, AccountTyped

LEMMA AccountStep == AccountInv /\ [Next]_vars => AccountInv'
<1> SUFFICES ASSUME AccountInv, [Next]_vars PROVE AccountTyped' /\ FlagInv'
  BY SessionStep DEF AccountInv
<1> USE DEF AccountInv
<1>1. ASSUME NEW p \in Processes, BeginRun(p)
      PROVE  AccountTyped' /\ FlagInv'
  <2>1. run' \in Run /\ run'.at = "walk" /\ run'.available = available
    BY <1>1, AccountAssumption DEF BeginRun, Run, AccountTyped
  <2> QED
    BY <1>1, <2>1 DEF BeginRun, AccountTyped, FlagInv
<1>2. CASE NoSession
  BY <1>2, RetireTyped DEF NoSession, Eligible, AccountTyped, FlagInv
<1>3. CASE Request
  <2>1. run \in Run /\ 0 \in 0..MaxRetry /\ 0 < MaxRetry
    BY <1>3, AccountAssumption DEF Request, Eligible, AccountTyped
  <2>2. run' = [run EXCEPT !.at = "connect", !.tries = 0, !.healed = FALSE]
    BY <1>3 DEF Request
  <2>3. run' \in Run /\ run'.available = run.available /\ run'.tries = 0
    BY <2>1, <2>2 DEF Run
  <2>4. steady' \in BOOLEAN
    BY <1>3 DEF Request
  <2> QED
    BY <1>3, <2>1, <2>3, <2>4 DEF Request, Eligible, AccountTyped, FlagInv
<1>4. CASE EnsureConnection
  <2>1. run \in Run /\ run' = [run EXCEPT !.at = "call"] /\ run.tries < MaxRetry
    BY <1>4 DEF EnsureConnection, AccountTyped
  <2>2. run' \in Run /\ run'.available = run.available /\ run'.tries = run.tries
    BY <2>1 DEF Run
  <2>3. client' \in [Processes -> Keys \cup {Null}]
    BY <1>4, OpenTyped DEF EnsureConnection, AccountTyped, SessionInv
  <2>4. steady' \in BOOLEAN
    BY <1>4 DEF EnsureConnection, AccountTyped, StillSteady
  <2> QED
    BY <1>4, <2>1, <2>2, <2>3, <2>4 DEF EnsureConnection, AccountTyped, FlagInv
<1>5. CASE Answered
  <2>1. run \in Run /\ run' = [run EXCEPT !.at = "walk"]
    BY <1>5 DEF Answered, Calling, AccountTyped
  <2>2. run' \in Run /\ run'.available = run.available /\ run'.at = "walk"
    BY <2>1 DEF Run
  <2> QED
    BY <1>5, <2>2 DEF Answered, Calling, AccountTyped, FlagInv
<1>6. CASE NetworkFails
  <2>1. run # Null /\ run.at # "walk" /\ run' = TryAgain
    BY <1>6 DEF NetworkFails
  <2> QED
    BY <1>6, <2>1, TryAgainTyped DEF NetworkFails, AccountTyped, FlagInv
<1>7. CASE SelfHeal
  <2>1. run # Null /\ run.at # "walk" /\ run' = [TryAgain EXCEPT !.healed = TRUE]
    BY <1>7 DEF SelfHeal, Refused, Calling
  <2>2. /\ TryAgain \in Run /\ TryAgain.available = run.available
        /\ TryAgain.at # "walk" => TryAgain.tries < MaxRetry
    BY <2>1, TryAgainTyped
  <2>3. /\ run' \in Run /\ run'.available = run.available
        /\ run'.at # "walk" => run'.tries < MaxRetry
    BY <2>1, <2>2 DEF Run
  <2> QED
    BY <1>7, <2>1, <2>3, ResetTyped DEF SelfHeal, AccountTyped, FlagInv
<1>8. CASE AuthFails
  <2>1. client' \in [Processes -> Keys \cup {Null}]
    BY <1>8, ResetTyped DEF AuthFails, AccountTyped
  <2> QED
    BY <1>8, <2>1, RetireTyped DEF AuthFails, Refused, Calling, AccountTyped, FlagInv
<1>9. CASE Flush
  <2>1. run \in Run /\ run.available \in BOOLEAN
    BY <1>9 DEF Flush, AccountTyped, Run
  <2> QED
    BY <1>9, <2>1 DEF Flush, AccountTyped, FlagInv
<1>10. ASSUME NEW w \in Workers, Login(w)
       PROVE  AccountTyped' /\ FlagInv'
  BY <1>10 DEF Login, StillSteady, AccountTyped, FlagInv
<1>11. ASSUME NEW w \in Workers, Authorized(w)
       PROVE  AccountTyped' /\ FlagInv'
  <2>1. client' \in [Processes -> Keys \cup {Null}] /\ retired' \subseteq Processes
    BY <1>11, ResetTyped DEF Authorized, Reauthenticated, AccountTyped
  <2> QED
    BY <1>11, <2>1 DEF Authorized, Reauthenticated, StillSteady, AccountTyped, FlagInv
<1>12. CASE SessionEnds
  BY <1>12 DEF SessionEnds, StillSteady, AccountTyped, FlagInv
<1>13. ASSUME NEW p \in Processes, ProcessDies(p)
       PROVE  AccountTyped' /\ FlagInv'
  <2>1. steady' \in BOOLEAN
    BY <1>13 DEF ProcessDies
  <2>2. client' \in [Processes -> Keys \cup {Null}] /\ retired' \subseteq Processes
    BY <1>13 DEF ProcessDies, AccountTyped
  <2>3. crashes' \in 0..MaxCrashes
    BY <1>13, AccountAssumption DEF ProcessDies, AccountTyped
  <2>4. UNCHANGED <<available, docs, relogin>> /\ run' \in {run, Null}
    BY <1>13 DEF ProcessDies
  <2> QED
    BY <2>1, <2>2, <2>3, <2>4 DEF AccountTyped, FlagInv
<1>14. CASE RefusedAtOnce
  <2>1. run # Null /\ Retire /\ UNCHANGED <<available, docs, client, crashes>>
    BY <1>14 DEF RefusedAtOnce, Refused, Calling
  <2> QED
    BY <2>1, RetireTyped DEF AccountTyped, FlagInv
<1>15. CASE LoadDocument \/ SaveDocument \/ DropDocument
  <2>1. /\ UNCHANGED <<retired, client, run, steady, relogin, crashes>>
        /\ docs' \subseteq docs \cup {available}
        /\ available' \in docs \cup {available}
    BY <1>15 DEF LoadDocument, SaveDocument, DropDocument
  <2>2. docs' \subseteq BOOLEAN /\ available' \in BOOLEAN
    BY <2>1 DEF AccountTyped
  <2>3. AccountTyped'
    BY <2>1, <2>2 DEF AccountTyped
  <2>4. ASSUME relogin' = "quiet"
        PROVE  docs' \subseteq {TRUE} /\ available' = TRUE /\ (run # Null => run.available)
    <3>1. available = TRUE /\ docs \subseteq {TRUE} /\ (run # Null => run.available)
      BY <2>1, <2>4 DEF AccountTyped, FlagInv
    <3> QED
      BY <2>1, <3>1
  <2> QED
    BY <2>1, <2>3, <2>4 DEF FlagInv
<1>16. CASE UNCHANGED vars
  BY <1>16 DEF vars, accountVars, AccountTyped, FlagInv
<1> QED
  BY <1>1, <1>2, <1>3, <1>4, <1>5, <1>6, <1>7, <1>8, <1>9, <1>10, <1>11, <1>12, <1>13, <1>14,
     <1>15, <1>16 DEF Next

(* The types of all variables.                                             *)
THEOREM AccountTypesAreKept == Spec => []TypeOK
<1>1. AccountInv => TypeOK
  BY DEF AccountInv, AccountTyped, SessionInv, Typed, TypeOK
<1> QED
  BY <1>1, AccountInit, AccountStep, PTL DEF Spec

(* A re-login while no run, no request and no other process holds a copy   *)
(* of the document stays in it until a sync fails to authenticate again.   *)
THEOREM ReloginStays == Spec => []ReloginIsRecorded
<1>1. AccountInv => ReloginIsRecorded
  BY DEF AccountInv, FlagInv, ReloginIsRecorded
<1> QED
  BY <1>1, AccountInit, AccountStep, PTL DEF Spec

-----------------------------------------------------------------------------
(* Why a good session is kept.  A key that was just created is none that   *)
(* Telegram accepts, so the file is not good while an attempt is under     *)
(* way; as long as it stays good it is the same file, and a client that    *)
(* was opened anew on it is registered.                                    *)

KeysMade ==
  /\ authorized \subseteq 0..made
  /\ {disk.session, disk.backup} \subseteq (0..made) \cup {Null}
  /\ \A w \in Attempting : pending[w].key # Null => pending[w].key \in 0..made

AttemptIsNotGood ==
  interrupted = "no" /\ Attempting # {} => disk.session \notin authorized

SteadyIsGood == steady => disk.session \in authorized

RunIsNotRetired == run # Null /\ run.at # "walk" => run.by \notin retired

HealedIsRegistered ==
  interrupted # "again" /\ run # Null /\ run.at # "walk" /\ run.healed /\ steady
    => client[run.by] \in {Null, disk.session}

KeptInv ==
  /\ KeysMade
  /\ AttemptIsNotGood
  /\ SteadyIsGood
  /\ RunIsNotRetired
  /\ HealedIsRegistered

LEMMA KeptInit == Init => KeptInv
<1> SUFFICES ASSUME Init PROVE KeptInv
  OBVIOUS
<1>1. Attempting = {}
  BY DEF Init, LoginInit, Attempting
<1>2. KeysMade
  BY <1>1 DEF Init, LoginInit, KeysMade
<1>3. AttemptIsNotGood /\ SteadyIsGood /\ RunIsNotRetired /\ HealedIsRegistered
  BY <1>1 DEF Init, AttemptIsNotGood, SteadyIsGood, RunIsNotRetired, HealedIsRegistered
<1> QED
  BY <1>2, <1>3 DEF KeptInv

(* Null is no key, and the next key to be created is one nobody signed in. *)
LEMMA NewKey ==
  ASSUME Typed, KeysMade
  PROVE  /\ made \in Nat
         /\ Null \notin authorized /\ Null \notin 0..made
         /\ made + 1 \notin authorized
<1>1. Null \notin Nat
  BY LoginAssumption
<1>2. made \in Nat
  BY LoginAssumption DEF Typed, Keys
<1>3. \A key \in 0..made : key \in Nat /\ key < made + 1
  BY <1>2
<1>4. authorized \subseteq 0..made
  BY DEF KeysMade
<1>5. Null \notin 0..made /\ made + 1 \notin 0..made
  BY <1>1, <1>2, <1>3
<1> QED
  BY <1>2, <1>4, <1>5

(* Opening the session file makes at most the next key.                    *)
LEMMA KeysOpen ==
  ASSUME Typed, KeysMade, OpenSession, UNCHANGED authorized
  PROVE  /\ authorized' \subseteq 0..made'
         /\ {disk'.session, disk'.backup} \subseteq (0..made') \cup {Null}
         /\ Opened \in 0..made' /\ made \in Nat /\ made' \in Nat /\ made' >= made
<1>1. made \in Nat /\ Null \notin 0..made
  BY NewKey
<1>2. /\ disk' = [disk EXCEPT !.session = Opened]
      /\ disk'.session = Opened /\ disk'.backup = disk.backup
  BY DEF OpenSession, Typed
<1>3. CASE disk.session # Null
  BY <1>1, <1>2, <1>3 DEF OpenSession, Opened, KeysMade
<1>4. CASE disk.session = Null
  <2>1. made' = made + 1 /\ Opened = made + 1
    BY <1>4 DEF OpenSession, Opened
  <2> QED
    BY <1>1, <1>2, <2>1 DEF KeysMade
<1> QED
  BY <1>3, <1>4

(* An abort moves keys between the two files and makes none.               *)
LEMMA KeysAfterAbort ==
  ASSUME Typed, KeysMade, NEW w \in Workers
  PROVE  {AfterAbort(w).session, AfterAbort(w).backup} \subseteq (0..made) \cup {Null}
<1>1. CASE pending[w] = Null
  BY <1>1 DEF KeysMade, AfterAbort
<1>2. CASE pending[w] # Null
  BY <1>2 DEF Typed, KeysMade, AfterAbort, Restore
<1> QED
  BY <1>1, <1>2

LEMMA KeysStep ==
  ASSUME Typed, KeysMade, [Next]_vars
  PROVE  KeysMade'
<1>1. ASSUME UNCHANGED <<disk, made, authorized>>,
             \A v \in Attempting' : v \in Attempting /\ pending'[v].key = pending[v].key
      PROVE  KeysMade'
  BY <1>1 DEF KeysMade
<1>2. ASSUME UNCHANGED loginVars
      PROVE  KeysMade'
  BY <1>1, <1>2 DEF loginVars, Attempting
<1>3. ASSUME NEW w \in Workers, Start(w)
      PROVE  KeysMade'
  <2> DEFINE d == AfterAbort(w)
             new == [stage |-> "idle", key |-> Null, aside |-> d.session # Null]
  <2>1. {d.session, d.backup} \subseteq (0..made) \cup {Null}
    BY KeysAfterAbort
  <2>2. {disk'.session, disk'.backup} \subseteq (0..made) \cup {Null}
    <3>1. d \in [session : Keys \cup {Null}, backup : Keys \cup {Null}]
      BY AfterAbortTyped
    <3>2. disk' = SetAside(d)
      BY <1>3 DEF Start
    <3> HIDE DEF d
    <3> QED
      BY <2>1, <3>1, <3>2 DEF SetAside
  <2>3. pending' = [pending EXCEPT ![w] = new] /\ new.key = Null
    BY <1>3 DEF Start
  <2>4. ASSUME NEW v \in Attempting', pending'[v].key # Null
        PROVE  pending'[v].key \in 0..made
    <3> HIDE DEF new
    <3>1. v # w /\ pending'[v] = pending[v]
      BY <2>3, <2>4 DEF Typed, Attempting
    <3> QED
      BY <2>4, <3>1 DEF KeysMade, Attempting
  <2> QED
    BY <1>3, <2>2, <2>4 DEF KeysMade, Start
<1>4. ASSUME NEW w \in Workers, Connect(w)
      PROVE  KeysMade'
  <2>1. /\ authorized' \subseteq 0..made'
        /\ {disk'.session, disk'.backup} \subseteq (0..made') \cup {Null}
        /\ Opened \in 0..made' /\ made \in Nat /\ made' \in Nat /\ made' >= made
    BY <1>4, KeysOpen DEF Connect
  <2>2. /\ pending[w] \in Pending /\ pending[w] # Null
        /\ pending' = [pending EXCEPT ![w] =
             [pending[w] EXCEPT !.stage = "connected", !.key = Opened]]
    BY <1>4 DEF Connect, Typed
  <2>3. pending'[w].key = Opened /\ \A v \in Workers \ {w} : pending'[v] = pending[v]
    BY <2>2 DEF Typed, Pending
  <2>4. ASSUME NEW v \in Attempting', pending'[v].key # Null
        PROVE  pending'[v].key \in 0..made'
    <3>1. CASE v = w
      BY <2>1, <2>3, <3>1
    <3>2. CASE v # w
      <4>1. v \in Attempting /\ pending'[v].key = pending[v].key
        BY <2>3, <3>2 DEF Attempting
      <4>2. pending[v].key \in 0..made
        BY <2>4, <4>1 DEF KeysMade
      <4> QED
        BY <2>1, <4>1, <4>2
    <3> QED
      BY <3>1, <3>2
  <2> QED
    BY <2>1, <2>4 DEF KeysMade
<1>5. ASSUME NEW w \in Workers, CodeSent(w) \/ PasswordNeeded(w)
      PROVE  KeysMade'
  <2>1. PICK stage \in Stages :
          pending' = [pending EXCEPT ![w] = [pending[w] EXCEPT !.stage = stage]]
    BY <1>5 DEF CodeSent, PasswordNeeded, Stage, Stages
  <2>2. pending[w] \in Pending /\ pending[w] # Null
    BY <1>5 DEF CodeSent, PasswordNeeded, Typed
  <2>3. \A v \in Attempting' : v \in Attempting /\ pending'[v].key = pending[v].key
    BY <2>1, <2>2 DEF Typed, Pending, Attempting
  <2> QED
    BY <1>1, <1>5, <2>3 DEF CodeSent, PasswordNeeded
<1>6. ASSUME NEW w \in Workers, Abort(w)
      PROVE  KeysMade'
  <2>1. {disk'.session, disk'.backup} \subseteq (0..made) \cup {Null}
    BY <1>6, KeysAfterAbort DEF Abort
  <2>2. \A v \in Attempting' : v \in Attempting /\ pending'[v] = pending[v]
    BY <1>6 DEF Abort, Typed, Attempting
  <2> QED
    BY <1>6, <2>1, <2>2 DEF Abort, KeysMade
<1>7. ASSUME NEW w \in Workers, Accept(w)
      PROVE  KeysMade'
  <2>1. w \in Attempting /\ pending[w].key \in Keys
    BY <1>7 DEF Accept, Waiting, Typed, Attempting
  <2>2. pending[w].key \in 0..made
    BY <2>1, NullIsNone DEF KeysMade
  <2>3. {disk'.session, disk'.backup} \subseteq (0..made) \cup {Null}
    BY <1>7 DEF Accept, Discard, Typed, KeysMade
  <2>4. \A v \in Attempting' : v \in Attempting /\ pending'[v] = pending[v]
    BY <1>7 DEF Accept, Typed, Attempting
  <2> QED
    BY <1>7, <2>2, <2>3, <2>4 DEF Accept, KeysMade
<1>8. ASSUME NEW w \in Workers, Forget(w)
      PROVE  KeysMade'
  <2>1. \A v \in Attempting' : v \in Attempting /\ pending'[v].key = pending[v].key
    BY <1>8 DEF Forget, Typed, Attempting
  <2> QED
    BY <1>1, <1>8, <2>1 DEF Forget
<1>9. CASE SessionEnds
  BY <1>9 DEF SessionEnds, Revoke, KeysMade, Attempting
<1>10. CASE EnsureConnection
  <2>1. CASE OpenSession
    <3>1. /\ authorized' \subseteq 0..made'
          /\ {disk'.session, disk'.backup} \subseteq (0..made') \cup {Null}
          /\ made \in Nat /\ made' \in Nat /\ made' >= made
      BY <1>10, <2>1, KeysOpen DEF EnsureConnection
    <3>2. UNCHANGED pending
      BY <1>10 DEF EnsureConnection
    <3> QED
      BY <3>1, <3>2 DEF KeysMade, Attempting
  <2>2. CASE UNCHANGED <<disk, made>>
    BY <1>2, <1>10, <2>2 DEF EnsureConnection, loginVars
  <2> QED
    BY <1>10, <2>1, <2>2 DEF EnsureConnection
<1>11. ASSUME NEW p \in Processes, ProcessDies(p)
       PROVE  KeysMade'
  BY <1>2, <1>8, <1>11 DEF ProcessDies
<1>12. CASE \/ \E p \in Processes : BeginRun(p)
            \/ NoSession \/ Request \/ Answered
            \/ NetworkFails \/ SelfHeal \/ AuthFails \/ RefusedAtOnce \/ Flush
            \/ LoadDocument \/ SaveDocument \/ DropDocument \/ UNCHANGED vars
  BY <1>2, <1>12
     DEF BeginRun, NoSession, Request, Answered, NetworkFails, SelfHeal, AuthFails,
         RefusedAtOnce, Flush, LoadDocument, SaveDocument, DropDocument, vars
<1>13. ASSUME NEW w \in Workers, Login(w) \/ Authorized(w)
       PROVE  KeysMade'
  BY <1>3, <1>4, <1>5, <1>6, <1>7, <1>13 DEF Login, LoginStep, StartFails, GiveUp, Authorized
<1> QED
  BY <1>9, <1>10, <1>11, <1>12, <1>13 DEF Next

(* During an attempt the file is not good, or attempts have crossed.       *)
LEMMA NotSteadyInAttempt ==
  ASSUME SessionInv, AttemptIsNotGood, SteadyIsGood, Attempting # {}, interrupted # "again"
  PROVE  ~steady
BY DEF SessionInv, Typed, AttemptIsNotGood, SteadyIsGood

(* A login begins with no session file.                                    *)
LEMMA StartSetsAside ==
  ASSUME Typed, NEW w \in Workers, Start(w)
  PROVE  disk'.session = Null
<1> DEFINE d == AfterAbort(w)
<1>1. d \in [session : Keys \cup {Null}, backup : Keys \cup {Null}]
  BY AfterAbortTyped
<1>2. disk' = SetAside(d)
  BY DEF Start
<1> HIDE DEF d
<1> QED
  BY <1>1, <1>2 DEF SetAside

(* What is created where the file is not good is not good either.          *)
LEMMA OpenedIsNotGood ==
  ASSUME Typed, KeysMade, OpenSession, disk.session \notin authorized
  PROVE  disk'.session \notin authorized
<1>1. disk'.session = Opened
  BY OpenTyped
<1> QED
  BY <1>1, NewKey DEF Opened

(* An attempt starts by taking the file away, connects with a new key, and *)
(* is over once that key is signed in.                                     *)
LEMMA AttemptStep ==
  ASSUME SessionInv, KeptInv, [Next]_vars
  PROVE  AttemptIsNotGood'
<1>1. Typed /\ KeysMade /\ AttemptIsNotGood
  BY DEF SessionInv, KeptInv
<1> SUFFICES ASSUME interrupted' = "no", Attempting' # {}
             PROVE  disk'.session \notin authorized'
  BY DEF AttemptIsNotGood
<1>2. ASSUME Attempting' \subseteq Attempting, interrupted = "no",
             UNCHANGED disk, authorized' \subseteq authorized
      PROVE  disk'.session \notin authorized'
  BY <1>1, <1>2 DEF AttemptIsNotGood
<1>3. CASE UNCHANGED loginVars
  BY <1>2, <1>3 DEF loginVars, Attempting
<1>4. ASSUME NEW w \in Workers, Start(w)
      PROVE  disk'.session \notin authorized'
  <2>1. disk'.session = Null /\ authorized' = authorized
    BY <1>1, <1>4, StartSetsAside DEF Start
  <2> QED
    BY <1>1, <2>1, NewKey
<1>5. ASSUME NEW w \in Workers, Connect(w)
      PROVE  disk'.session \notin authorized'
  <2>1. w \in Attempting /\ interrupted = "no" /\ authorized' = authorized
    BY <1>5 DEF Connect, Attempting
  <2>2. disk.session \notin authorized
    BY <1>1, <2>1 DEF AttemptIsNotGood
  <2> QED
    BY <1>1, <1>5, <2>1, <2>2, OpenedIsNotGood DEF Connect
<1>6. ASSUME NEW w \in Workers, CodeSent(w) \/ PasswordNeeded(w)
      PROVE  disk'.session \notin authorized'
  <2>1. w \in Attempting /\ interrupted = "no" /\ UNCHANGED <<disk, authorized>>
    BY <1>6 DEF CodeSent, PasswordNeeded, Attempting
  <2> QED
    BY <1>1, <2>1 DEF AttemptIsNotGood
<1>7. ASSUME NEW w \in Workers, w \in Attempting, interrupted = "no",
             pending' = [pending EXCEPT ![w] = Null]
      PROVE  Attempting' = {}
  <2>1. Attempting \subseteq {w}
    BY <1>7 DEF SessionInv, OneAttempt
  <2> QED
    BY <1>1, <1>7, <2>1 DEF Typed, Attempting
<1>8. ASSUME NEW w \in Workers, StartFails(w) \/ GiveUp(w) \/ Accept(w)
      PROVE  FALSE
  <2>1. w \in Attempting /\ interrupted = "no" /\ pending' = [pending EXCEPT ![w] = Null]
    BY <1>8 DEF StartFails, GiveUp, Accept, Abort, Waiting, Attempting
  <2> QED
    BY <1>7, <2>1
<1>9. ASSUME NEW w \in Workers, Forget(w)
      PROVE  disk'.session \notin authorized'
  <2>1. interrupted = "no" /\ Attempting' \subseteq Attempting /\ UNCHANGED <<disk, authorized>>
    BY <1>1, <1>9 DEF Forget, Typed, Attempting
  <2> QED
    BY <1>2, <2>1
<1>10. CASE SessionEnds
  <2>1. /\ interrupted = "no" /\ Attempting' \subseteq Attempting
        /\ UNCHANGED disk /\ authorized' \subseteq authorized
    BY <1>10 DEF SessionEnds, Revoke, Attempting
  <2> QED
    BY <1>2, <2>1
<1>11. CASE EnsureConnection
  <2>1. Attempting # {} /\ interrupted = "no" /\ authorized' = authorized
    BY <1>11 DEF EnsureConnection, Attempting
  <2>2. disk.session \notin authorized
    BY <1>1, <2>1 DEF AttemptIsNotGood
  <2> QED
    BY <1>1, <1>11, <2>1, <2>2, OpenedIsNotGood DEF EnsureConnection
<1>12. ASSUME NEW p \in Processes, ProcessDies(p)
       PROVE  disk'.session \notin authorized'
  BY <1>3, <1>9, <1>12 DEF ProcessDies
<1>13. CASE \/ \E p \in Processes : BeginRun(p)
            \/ NoSession \/ Request \/ Answered
            \/ NetworkFails \/ SelfHeal \/ AuthFails \/ RefusedAtOnce \/ Flush
            \/ LoadDocument \/ SaveDocument \/ DropDocument \/ UNCHANGED vars
  BY <1>3, <1>13
     DEF BeginRun, NoSession, Request, Answered, NetworkFails, SelfHeal, AuthFails,
         RefusedAtOnce, Flush, LoadDocument, SaveDocument, DropDocument, vars
<1>14. ASSUME NEW w \in Workers, Login(w) \/ Authorized(w)
       PROVE  disk'.session \notin authorized'
  BY <1>4, <1>5, <1>6, <1>8, <1>14 DEF Login, LoginStep, Authorized
<1> QED
  BY <1>10, <1>11, <1>12, <1>13, <1>14 DEF Next

(* Every step that touches the file or what Telegram accepts looks at      *)
(* whether the file is still good.                                         *)
LEMMA SteadyStep ==
  ASSUME SteadyIsGood, [Next]_vars
  PROVE  SteadyIsGood'
<1>1. CASE StillSteady
  BY <1>1 DEF StillSteady, SteadyIsGood
<1>2. CASE Request
  BY <1>2 DEF Request, SteadyIsGood, loginVars
<1>3. CASE UNCHANGED <<disk, authorized, steady>>
  BY <1>3 DEF SteadyIsGood
<1>4. ASSUME NEW p \in Processes, BeginRun(p) \/ ProcessDies(p)
      PROVE  SteadyIsGood'
  <2>1. UNCHANGED <<disk, authorized>>
    BY <1>4 DEF BeginRun, ProcessDies, Forget, loginVars
  <2>2. CASE UNCHANGED steady
    BY <2>1, <2>2 DEF SteadyIsGood
  <2>3. CASE steady' = (steady /\ run' # Null)
    BY <2>1, <2>3 DEF SteadyIsGood
  <2> QED
    BY <1>4, <2>2, <2>3 DEF BeginRun, ProcessDies
<1>5. CASE EnsureConnection
  BY <1>1, <1>3, <1>5 DEF EnsureConnection
<1>6. CASE \/ SelfHeal \/ Flush
           \/ LoadDocument \/ SaveDocument \/ DropDocument \/ UNCHANGED vars
  BY <1>3, <1>6
     DEF SelfHeal, Flush, LoadDocument, SaveDocument, DropDocument, vars, accountVars, loginVars
<1>7. ASSUME NEW w \in Workers, Login(w) \/ Authorized(w)
      PROVE  SteadyIsGood'
  BY <1>1, <1>7 DEF Login, Authorized
<1>8. CASE SessionEnds
  BY <1>1, <1>8 DEF SessionEnds
<1>9. CASE NoSession \/ AuthFails \/ RefusedAtOnce \/ Answered
  BY <1>9 DEF NoSession, AuthFails, RefusedAtOnce, Answered, Retire, SteadyIsGood
<1>10. CASE NetworkFails
  <2>1. UNCHANGED <<disk, authorized>> /\ steady' = (steady /\ run'.at # "walk")
    BY <1>10 DEF NetworkFails, loginVars
  <2> QED
    BY <2>1 DEF SteadyIsGood
<1> QED
  BY <1>2, <1>10, <1>4, <1>5, <1>6, <1>7, <1>8, <1>9 DEF Next

(* A file that stays good is the same file.                                *)
LEMMA SteadyLogin ==
  ASSUME SessionInv, KeptInv, NEW w \in Workers, LoginStep(w) \/ Accept(w), StillSteady,
         steady', interrupted' # "again"
  PROVE  disk'.session = disk.session /\ interrupted # "again"
<1>1. Typed /\ KeysMade /\ AttemptIsNotGood /\ SteadyIsGood
  BY DEF SessionInv, KeptInv
<1>2. steady /\ disk'.session \in authorized'
  BY DEF StillSteady
<1>3. CASE Start(w)
  <2>1. disk'.session = Null /\ authorized' = authorized
    BY <1>1, <1>3, StartSetsAside DEF Start
  <2> QED
    BY <1>1, <1>2, <2>1, NewKey
<1>4. CASE ~Start(w)
  <2>1. interrupted' = interrupted /\ w \in Attempting
    BY <1>4 DEF LoginStep, Connect, CodeSent, PasswordNeeded, StartFails, GiveUp, Accept, Abort,
                Waiting, Attempting
  <2> QED
    BY <1>1, <1>2, <2>1, NotSteadyInAttempt
<1> QED
  BY <1>3, <1>4

(* Another attempt of the same request.                                    *)
LEMMA HealTyped ==
  ASSUME AccountTyped, run # Null, run.at # "walk"
  PROVE  TryAgain.by = run.by /\ TryAgain.healed = run.healed
<1>1. run \in Run
  BY DEF AccountTyped
<1> QED
  BY <1>1 DEF TryAgain, Run

(* A step that may drop the request's client but opens none.               *)
LEMMA StillRegistered ==
  ASSUME AccountTyped, KeptInv, run # Null, run.at # "walk",
         run' # Null => run'.by = run.by /\ run'.healed = run.healed,
         steady' => steady /\ disk'.session = disk.session,
         interrupted' # "again" /\ steady' => interrupted # "again",
         client'[run.by] \in {Null, client[run.by]}
  PROVE  HealedIsRegistered'
BY DEF KeptInv, HealedIsRegistered

LEMMA NoRequest ==
  ASSUME run' # Null => run'.at = "walk"
  PROVE  RunIsNotRetired' /\ HealedIsRegistered'
BY DEF RunIsNotRetired, HealedIsRegistered

LEMMA RequestStep ==
  ASSUME AccountInv, KeptInv, [Next]_vars
  PROVE  RunIsNotRetired' /\ HealedIsRegistered'
<1>1. /\ AccountTyped /\ SessionInv /\ Typed /\ KeysMade /\ SteadyIsGood
      /\ RunIsNotRetired /\ HealedIsRegistered
  BY DEF AccountInv, SessionInv, KeptInv
<1>2. ASSUME UNCHANGED run, retired' \subseteq retired,
             steady' => steady /\ disk'.session = disk.session,
             interrupted' # "again" /\ steady' => interrupted # "again",
             \A p \in Processes : client'[p] \in {Null, client[p]}
      PROVE  RunIsNotRetired' /\ HealedIsRegistered'
  <2>1. CASE run = Null \/ run.at = "walk"
    BY <1>2, <2>1, NoRequest
  <2>2. CASE run # Null /\ run.at # "walk"
    <3>1. run.by \in Processes
      BY <1>1, <2>2 DEF AccountTyped, Run
    <3> QED
      BY <1>1, <1>2, <2>2, <3>1, StillRegistered DEF RunIsNotRetired
  <2> QED
    BY <2>1, <2>2
<1>3. ASSUME NEW p \in Processes, BeginRun(p)
      PROVE  RunIsNotRetired' /\ HealedIsRegistered'
  BY <1>3, NoRequest DEF BeginRun
<1>4. CASE NoSession \/ AuthFails \/ RefusedAtOnce
  <2>1. run'.at = "walk"
    BY <1>1, <1>4, RetireTyped
       DEF NoSession, AuthFails, RefusedAtOnce, Eligible, Refused, Calling
  <2> QED
    BY <2>1, NoRequest
<1>5. CASE Request
  <2>1. /\ run \in Run /\ run' = [run EXCEPT !.at = "connect", !.tries = 0, !.healed = FALSE]
        /\ run.by \notin retired /\ retired' = retired
    BY <1>1, <1>5 DEF Request, Eligible, AccountTyped
  <2>2. run'.by = run.by /\ ~run'.healed
    BY <2>1 DEF Run
  <2> QED
    BY <2>1, <2>2 DEF RunIsNotRetired, HealedIsRegistered
<1>6. CASE EnsureConnection
  <2>1. /\ run \in Run /\ run # Null /\ run.at = "connect" /\ run' = [run EXCEPT !.at = "call"]
        /\ UNCHANGED <<retired, interrupted, authorized>>
    BY <1>1, <1>6 DEF EnsureConnection, AccountTyped
  <2>2. run'.by = run.by /\ run'.healed = run.healed /\ run.by \in Processes
    BY <2>1 DEF Run
  <2>3. RunIsNotRetired'
    BY <1>1, <2>1, <2>2 DEF RunIsNotRetired
  <2>4. CASE client[run.by] # Null
    <3>1. UNCHANGED <<disk, client, steady>>
      BY <1>6, <2>4 DEF EnsureConnection
    <3>2. HealedIsRegistered'
      BY <1>1, <2>1, <2>2, <3>1, StillRegistered
    <3> QED
      BY <2>3, <3>2
  <2>5. CASE client[run.by] = Null
    <3>1. OpenSession /\ client' = [client EXCEPT ![run.by] = Opened] /\ StillSteady
      BY <1>6, <2>5 DEF EnsureConnection
    <3>2. client'[run.by] = Opened /\ disk'.session = Opened
      BY <1>1, <2>2, <3>1, OpenTyped DEF AccountTyped
    <3> QED
      BY <2>2, <2>3, <3>2 DEF HealedIsRegistered
  <2> QED
    BY <2>4, <2>5
<1>7. CASE Answered
  <2>1. run \in Run /\ run' = [run EXCEPT !.at = "walk"]
    BY <1>1, <1>7 DEF Answered, Calling, AccountTyped
  <2>2. run'.at = "walk"
    BY <2>1 DEF Run
  <2> QED
    BY <2>2, NoRequest
<1>8. CASE NetworkFails
  <2>1. /\ run # Null /\ run.at # "walk" /\ run' = TryAgain
        /\ UNCHANGED <<disk, interrupted, retired, client>> /\ (steady' => steady)
    BY <1>8 DEF NetworkFails, loginVars
  <2>2. run'.by = run.by /\ run'.healed = run.healed
    BY <1>1, <2>1, HealTyped
  <2>3. HealedIsRegistered'
    BY <1>1, <2>1, <2>2, StillRegistered
  <2>4. RunIsNotRetired'
    BY <1>1, <2>1, <2>2 DEF RunIsNotRetired
  <2> QED
    BY <2>3, <2>4
<1>9. CASE SelfHeal
  <2>1. /\ run # Null /\ run.at = "call" /\ run' = [TryAgain EXCEPT !.healed = TRUE]
        /\ retired' = retired /\ client' = [client EXCEPT ![run.by] = Null]
    BY <1>9 DEF SelfHeal, Refused, Calling, Reset
  <2>2. run \in Run /\ TryAgain \in Run /\ TryAgain.by = run.by
    BY <1>1, <2>1, HealTyped, TryAgainTyped DEF AccountTyped
  <2>3. run'.by = run.by /\ run.by \in Processes
    BY <2>1, <2>2 DEF Run
  <2>4. client'[run.by] = Null
    BY <1>1, <2>1, <2>3 DEF AccountTyped
  <2> QED
    BY <1>1, <2>1, <2>3, <2>4 DEF RunIsNotRetired, HealedIsRegistered
<1>10. CASE Flush
  <2>1. run' # Null => run'.at = "walk"
    BY <1>10 DEF Flush
  <2> QED
    BY <2>1, NoRequest
<1>11. ASSUME NEW w \in Workers, Login(w)
       PROVE  RunIsNotRetired' /\ HealedIsRegistered'
  <2>1. /\ LoginStep(w) /\ StillSteady /\ UNCHANGED <<retired, client, run>>
    BY <1>11 DEF Login
  <2>2. interrupted = "again" => interrupted' = "again"
    BY <2>1 DEF LoginStep, Start, Connect, CodeSent, StartFails, PasswordNeeded, GiveUp, Abort
  <2>3. CASE steady' /\ interrupted' # "again"
    <3>1. steady /\ disk'.session = disk.session /\ interrupted # "again"
      BY <1>1, <2>1, <2>3, SteadyLogin DEF StillSteady
    <3> QED
      BY <1>2, <2>1, <3>1
  <2>4. CASE ~(steady' /\ interrupted' # "again")
    BY <1>1, <2>1, <2>4 DEF RunIsNotRetired, HealedIsRegistered
  <2> QED
    BY <2>3, <2>4
<1>12. ASSUME NEW w \in Workers, Authorized(w)
       PROVE  RunIsNotRetired' /\ HealedIsRegistered'
  <2>1. /\ Accept(w) /\ StillSteady /\ retired' = retired \ {w} /\ UNCHANGED <<run, interrupted>>
        /\ client' = [client EXCEPT ![w] = Null]
    BY <1>12 DEF Authorized, Reauthenticated, Reset, Accept
  <2>2. \A p \in Processes : client'[p] \in {Null, client[p]}
    BY <1>1, <2>1 DEF AccountTyped
  <2>3. CASE steady' /\ interrupted' # "again"
    <3>1. steady /\ disk'.session = disk.session
      BY <1>1, <2>1, <2>3, SteadyLogin DEF StillSteady
    <3> QED
      BY <1>2, <2>1, <2>2, <3>1
  <2>4. CASE ~(steady' /\ interrupted' # "again")
    BY <1>1, <2>1, <2>4 DEF RunIsNotRetired, HealedIsRegistered
  <2> QED
    BY <2>3, <2>4
<1>13. CASE SessionEnds
  <2>1. /\ UNCHANGED <<disk, interrupted, retired, client, run>> /\ StillSteady
    BY <1>13 DEF SessionEnds, Revoke
  <2> QED
    BY <1>2, <2>1 DEF StillSteady
<1>14. ASSUME NEW p \in Processes, ProcessDies(p)
       PROVE  RunIsNotRetired' /\ HealedIsRegistered'
  <2>1. /\ client' = [client EXCEPT ![p] = Null] /\ retired' = retired \ {p}
        /\ UNCHANGED disk /\ (steady' => steady)
        /\ run' = IF run # Null /\ run.by = p THEN Null ELSE run
    BY <1>14 DEF ProcessDies, Forget, loginVars
  <2>2. interrupted = "again" => interrupted' = "again"
    BY <1>14 DEF ProcessDies, Forget, loginVars
  <2>3. \A q \in Processes : client'[q] \in {Null, client[q]}
    BY <1>1, <2>1 DEF AccountTyped
  <2>4. CASE run' = run
    BY <1>2, <2>1, <2>2, <2>3, <2>4
  <2>5. CASE run' = Null
    BY <2>5, NoRequest
  <2> QED
    BY <2>1, <2>4, <2>5
<1>15. CASE LoadDocument \/ SaveDocument \/ DropDocument \/ UNCHANGED vars
  <2>1. UNCHANGED <<disk, interrupted, retired, client, run, steady>>
    BY <1>15 DEF LoadDocument, SaveDocument, DropDocument, vars, accountVars, loginVars
  <2> QED
    BY <1>1, <2>1 DEF RunIsNotRetired, HealedIsRegistered
<1> QED
  BY <1>3, <1>4, <1>5, <1>6, <1>7, <1>8, <1>9, <1>10, <1>11, <1>12, <1>13, <1>14, <1>15 DEF Next

LEMMA KeptStep == AccountInv /\ KeptInv /\ [Next]_vars => KeptInv'
<1> SUFFICES ASSUME AccountInv, KeptInv, [Next]_vars PROVE KeptInv'
  OBVIOUS
<1>1. SessionInv /\ Typed /\ KeysMade /\ SteadyIsGood
  BY DEF AccountInv, SessionInv, KeptInv
<1> QED
  BY <1>1, KeysStep, AttemptStep, SteadyStep, RequestStep DEF KeptInv

(* The step that retires an account in the middle of a request.            *)
RetiresGood ==
  /\ run # Null /\ run.at = "call" /\ steady /\ interrupted # "again"
  /\ retired' # retired /\ run.by \in retired'

(* Only a failed authentication retires an account in the middle of a      *)
(* request, and not of a request that has healed.                          *)
LEMMA GoodIsKept ==
  ASSUME AccountInv, KeptInv, [Next]_vars, RetiresGood
  PROVE  ~run.healed /\ (run.tries = MaxRetry - 1 \/ UNCHANGED client)
<1>1. run # Null /\ run.at = "call" /\ run.by \notin retired /\ SteadyIsGood /\ HealedIsRegistered
  BY DEF KeptInv, RunIsNotRetired, RetiresGood
<1>2. run.by \in retired' /\ run.by \notin retired
  BY <1>1 DEF RetiresGood
<1>3. AuthFails \/ RefusedAtOnce
  <2>1. ~(retired' \subseteq retired)
    BY <1>2
  <2>2. NoSession => run.at = "walk"
    BY DEF NoSession, Eligible
  <2>3. \A p \in Processes : BeginRun(p) \/ ProcessDies(p) => retired' \subseteq retired
    BY DEF BeginRun, ProcessDies
  <2>4. \A w \in Workers : Login(w) \/ Authorized(w) => retired' \subseteq retired
    BY DEF Login, Authorized, Reauthenticated
  <2>5. Request \/ EnsureConnection \/ Answered \/ NetworkFails \/ SelfHeal \/ Flush
          \/ LoadDocument \/ SaveDocument \/ DropDocument
          \/ SessionEnds \/ UNCHANGED vars => retired' \subseteq retired
    BY DEF Request, EnsureConnection, Answered, NetworkFails, SelfHeal, Flush, LoadDocument,
           SaveDocument, DropDocument, SessionEnds, vars, accountVars
  <2> QED
    BY <1>1, <2>1, <2>2, <2>3, <2>4, <2>5 DEF Next
<1>4. Key # Null /\ Key \notin authorized
  BY <1>3 DEF AuthFails, RefusedAtOnce, Refused
<1>5. ~run.healed
  <2>1. SUFFICES ASSUME run.healed PROVE FALSE
    OBVIOUS
  <2>2. Key \in {Null, disk.session} /\ disk.session \in authorized
    BY <1>1, <2>1 DEF HealedIsRegistered, SteadyIsGood, RetiresGood, Key
  <2> QED
    BY <1>4, <2>2
<1>6. CASE AuthFails
  <2>1. run.tries + 1 = MaxRetry
    BY <1>5, <1>6 DEF AuthFails
  <2>2. run.tries \in Nat
    BY <1>1, AccountAssumption DEF AccountInv, AccountTyped, Run
  <2> QED
    BY <1>5, <2>1, <2>2
<1>7. CASE RefusedAtOnce
  BY <1>5, <1>7 DEF RefusedAtOnce
<1> QED
  BY <1>3, <1>6, <1>7

(* A run that retires an account whose session file was good all through   *)
(* the request had not reloaded that file: it was out of attempts, or the  *)
(* client on the old key met an error that is not reloaded for.            *)
THEOREM GoodSessionStays == Spec => GoodSessionIsKept
<1>1. AccountInv /\ KeptInv /\ [Next]_vars
        => [/\ run # Null /\ run.at = "call" /\ steady /\ interrupted # "again"
            /\ retired' # retired /\ run.by \in retired'
            => ~run.healed /\ (run.tries = MaxRetry - 1 \/ UNCHANGED client)]_vars
  BY GoodIsKept DEF RetiresGood
<1> QED
  BY <1>1, AccountInit, AccountStep, KeptInit, KeptStep, PTL DEF Spec, GoodSessionIsKept
==============================================================================
