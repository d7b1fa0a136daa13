----------------------------- MODULE TelegramLogin -----------------------------
(***************************************************************************)
(* The login of a Telegram account from the web (telegram_login.py).       *)
(*                                                                         *)
(* Each worker has a login manager of its own.  A login is several         *)
(* requests: it sets the session file aside, connects, which creates one,  *)
(* has Telegram send a code, and signs in with the code and perhaps a      *)
(* password; an attempt that ends otherwise puts the old file back.        *)
(* Pyrogram and Telegram are external, file operations do not fail.        *)
(***************************************************************************)
EXTENDS Naturals

CONSTANTS
  Workers,  \* the processes that serve web requests
  MaxKeys,  \* bound: session files that get created
  Null

(* A session file is known by the auth key in it; 0 is the one the account *)
(* has at first.                                                           *)
Keys == 0..MaxKeys

Stages  == {"idle", "connected", "code_sent", "password_needed"}
Pending == [stage : Stages, key : Keys \cup {Null}, aside : BOOLEAN]

ASSUME LoginAssumption == MaxKeys \in Nat /\ Null \notin Nat \cup Pending

VARIABLES
  disk,        \* the keys in <account>.session and <account>.session.bak
  made,        \* the last key that was created
  authorized,  \* the keys Telegram accepts
  revoked,     \* and those it accepted once
  pending,     \* per worker: _pending of the account, or Null
  interrupted  \* history: an attempt ended half-way ("once"); another began
               \* after that, or during one of another worker ("again")

loginVars == <<disk, made, authorized, revoked, pending, interrupted>>

LoginInit ==
  /\ disk = [session |-> 0, backup |-> Null]
  /\ made = 0 /\ authorized = {0} /\ revoked = {}
  /\ pending = [w \in Workers |-> Null]
  /\ interrupted = "no"

-----------------------------------------------------------------------------
(* The two files.                                                          *)

\* MUTANT: the file is removed.
Mutant_SetAside(d) == [d EXCEPT !.session = Null]

SetAside(d) ==
  IF d.session = Null THEN d ELSE [session |-> Null, backup |-> d.session]

\* MUTANT: what a failed attempt left is not removed.
Mutant_Restore(d, attempt) ==
  IF attempt.aside /\ d.backup # Null /\ d.session = Null
  THEN [session |-> d.backup, backup |-> Null]
  ELSE d

Restore(d, attempt) ==
  IF attempt.aside /\ d.backup # Null
  THEN [session |-> d.backup, backup |-> Null]
  ELSE [d EXCEPT !.session = Null]

Discard(d, attempt) == IF attempt.aside THEN [d EXCEPT !.backup = Null] ELSE d

(* connect() opens the file or creates one, with a key nobody knows.       *)
Opened == IF disk.session # Null THEN disk.session ELSE made + 1
OpenSession ==
  /\ Opened \in Keys
  /\ disk' = [disk EXCEPT !.session = Opened]
  /\ made' = IF disk.session # Null THEN made ELSE Opened

-----------------------------------------------------------------------------
(* The requests of one worker take turns (_lock); start() keeps its turn   *)
(* until the code is sent.                                                 *)
Waiting(w) == pending[w] # Null /\ pending[w].stage \in {"code_sent", "password_needed"}
MayRequest(w) == pending[w] = Null \/ Waiting(w)

Stage(w, stage) == pending' = [pending EXCEPT ![w].stage = stage]

(* _abort_locked.                                                          *)
AfterAbort(w) == IF pending[w] = Null THEN disk ELSE Restore(disk, pending[w])
Abort(w) ==
  /\ disk' = AfterAbort(w)
  /\ pending' = [pending EXCEPT ![w] = Null]
  /\ UNCHANGED <<made, authorized, revoked, interrupted>>

Start(w) ==
  /\ MayRequest(w)
  /\ disk' = SetAside(AfterAbort(w))
  /\ pending' = [pending EXCEPT ![w] =
       [stage |-> "idle", key |-> Null, aside |-> AfterAbort(w).session # Null]]
  /\ interrupted' = IF \/ interrupted = "once"
                       \/ \E v \in Workers \ {w} : pending[v] # Null
                    THEN "again" ELSE interrupted
  /\ UNCHANGED <<made, authorized, revoked>>

Connect(w) ==
  /\ pending[w] # Null /\ pending[w].stage = "idle"
  /\ OpenSession
  /\ pending' = [pending EXCEPT ![w] = [@ EXCEPT !.stage = "connected", !.key = Opened]]
  /\ UNCHANGED <<authorized, revoked, interrupted>>

CodeSent(w) ==
  /\ pending[w] # Null /\ pending[w].stage = "connected"
  /\ Stage(w, "code_sent")
  /\ UNCHANGED <<disk, made, authorized, revoked, interrupted>>

(* connect() or send_code() raises.                                        *)
StartFails(w) ==
  /\ pending[w] # Null /\ ~Waiting(w)
  /\ Abort(w)

(* submit_code: a wrong code changes nothing, an expired one and any other *)
(* error end the attempt.                                                  *)
PasswordNeeded(w) ==
  /\ pending[w] # Null /\ pending[w].stage = "code_sent"
  /\ Stage(w, "password_needed")
  /\ UNCHANGED <<disk, made, authorized, revoked, interrupted>>

(* The same in submit_password; and cancel().                              *)
GiveUp(w) == Waiting(w) /\ Abort(w)

(* The code or the password is right: _finalize_locked.                    *)
Accept(w) ==
  /\ Waiting(w)
  /\ authorized' = authorized \cup {pending[w].key}
  /\ disk' = Discard(disk, pending[w])
  /\ pending' = [pending EXCEPT ![w] = Null]
  /\ UNCHANGED <<made, revoked, interrupted>>

LoginStep(w) ==
  Start(w) \/ Connect(w) \/ CodeSent(w) \/ StartFails(w) \/ PasswordNeeded(w) \/ GiveUp(w)

-----------------------------------------------------------------------------
(* The operator ends the session from another device.                      *)
Revoke(key) ==
  /\ key \in authorized
  /\ authorized' = authorized \ {key}
  /\ revoked' = revoked \cup {key}
  /\ UNCHANGED <<disk, made, pending, interrupted>>

(* The worker dies: the attempt is gone, the files stay as they are.       *)
Forget(w) ==
  /\ pending' = [pending EXCEPT ![w] = Null]
  /\ interrupted' = IF pending[w] # Null /\ interrupted = "no" THEN "once" ELSE interrupted
  /\ UNCHANGED <<disk, made, authorized, revoked>>

-----------------------------------------------------------------------------
Vouched == authorized \cup revoked

(* start(): "The previous file is restored if the flow is cancelled or     *)
(* errors out before completing": whatever the attempts come to, and       *)
(* whatever a sync connects to meanwhile, between them the session file    *)
(* is one that was signed in, as long as attempts do not cross.            *)
WorkingSessionSurvives ==
  interrupted = "no" /\ (\A w \in Workers : pending[w] = Null) => disk.session \in Vouched

(* During an attempt, and after one whose worker died in the middle, the   *)
(* old session is within reach, under one of the two names.                *)
SessionIsWithinReach ==
  interrupted # "again" => Vouched \cap {disk.session, disk.backup} # {}
==============================================================================
