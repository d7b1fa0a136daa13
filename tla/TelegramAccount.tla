---------------------------- MODULE TelegramAccount ----------------------------
(***************************************************************************)
(* A Telegram account between the sync that uploads to it and the web that *)
(* logs it in: the session file, the clients each process keeps connected, *)
(* the account's flag in index.json, and the set of accounts that each     *)
(* process has retired.                                                    *)
(***************************************************************************)
EXTENDS TelegramLogin, FiniteSets

CONSTANTS
  Processes,   \* the gunicorn master and its workers
  MaxRetry,    \* attempts of one request (settings.max_retry)
  MaxDocs,     \* bound: different flags in documents that others hold at a time
  MaxRevokes,  \* bound: sessions that are ended from another device
  MaxCrashes   \* bound: processes that die

ASSUME AccountAssumption ==
  /\ Workers \subseteq Processes /\ Null \notin Processes
  /\ MaxRetry \in Nat \ {0} /\ MaxDocs \in Nat
  /\ MaxRevokes \in Nat /\ MaxCrashes \in Nat

VARIABLES
  available,  \* the account's flag in index.json
  docs,       \* that flag in the documents that others than the sync have loaded
              \* and may write back, of whatever process
  retired,    \* the processes whose _runtime_unavailable_accounts has it
  client,     \* per process: the key of the connected client, or Null
  run,        \* the sync in progress, of one process at most, or Null
  steady,     \* history: during the request in progress the session file was good
  relogin,    \* history: of the last login, if no sync has failed since:
              \* "quiet" if nobody held the document then, else "busy"
  crashes

accountVars == <<available, docs, retired, client, run, steady, relogin, crashes>>
vars == <<loginVars, accountVars>>

Run == [by : Processes, available : BOOLEAN, at : {"walk", "connect", "call"},
        tries : 0..MaxRetry, healed : BOOLEAN]

Init ==
  /\ LoginInit
  /\ available = TRUE /\ docs = {} /\ retired = {}
  /\ client = [p \in Processes |-> Null]
  /\ run = Null
  /\ steady = FALSE /\ relogin = "no" /\ crashes = 0

StillSteady == steady' = (steady /\ disk'.session \in authorized')

-----------------------------------------------------------------------------
(* The sync, of the process that has sync.lock.                            *)

(* The run works on the document as it is now, flag included.              *)
BeginRun(p) ==
  /\ run = Null
  /\ run' = [by |-> p, available |-> available, at |-> "walk", tries |-> 0, healed |-> FALSE]
  /\ UNCHANGED <<loginVars, available, docs, retired, client, steady, relogin, crashes>>

(* _mark_account_unavailable, in the run's document.                       *)
Retire ==
  /\ retired' = retired \cup {run.by}
  /\ run' = [run EXCEPT !.available = FALSE, !.at = "walk"]
  /\ steady' = FALSE
  /\ relogin' = "no"

(* remaining_telegram_accounts, for the next file.                         *)
Eligible == run # Null /\ run.at = "walk" /\ run.available /\ run.by \notin retired

NoSession ==
  /\ Eligible
  /\ disk.session = Null
  /\ Retire
  /\ UNCHANGED <<loginVars, available, docs, client, crashes>>

Request ==
  /\ Eligible
  /\ disk.session # Null
  /\ run' = [run EXCEPT !.at = "connect", !.tries = 0, !.healed = FALSE]
  /\ steady' = (disk.session \in authorized)
  /\ UNCHANGED <<loginVars, available, docs, retired, client, relogin, crashes>>

(* _ensure_connection: the cached client, or a new one on the file.        *)
EnsureConnection ==
  /\ run # Null /\ run.at = "connect"
  /\ run' = [run EXCEPT !.at = "call"]
  /\ UNCHANGED <<authorized, revoked, pending, interrupted, available, docs, retired, relogin, crashes>>
  /\ IF client[run.by] # Null
     THEN UNCHANGED <<disk, made, client, steady>>
     ELSE /\ OpenSession
          /\ client' = [client EXCEPT ![run.by] = Opened]
          /\ StillSteady

Calling == run # Null /\ run.at = "call"
Key == client[run.by]

(* The request is done, or a re-login has just dropped the client: an      *)
(* error that is neither retried nor taken for an expired session.         *)
Answered ==
  /\ Calling
  /\ Key \in authorized \cup {Null}
  /\ run' = [run EXCEPT !.at = "walk"]
  /\ steady' = FALSE
  /\ UNCHANGED <<loginVars, available, docs, retired, client, relogin, crashes>>

\* MUTANT: one attempt more.
Mutant_TryAgain == [run EXCEPT !.tries = @ + 1,
                               !.at = IF run.tries <= MaxRetry THEN "connect" ELSE "walk"]

(* A network error or a FloodWait: the next attempt, or the error of this  *)
(* copy alone.                                                             *)
TryAgain == [run EXCEPT !.tries = @ + 1,
                        !.at = IF run.tries + 1 < MaxRetry THEN "connect" ELSE "walk"]

NetworkFails ==
  /\ run # Null /\ run.at \in {"connect", "call"}
  /\ run' = TryAgain
  /\ steady' = (steady /\ run'.at # "walk")
  /\ UNCHANGED <<loginVars, available, docs, retired, client, relogin, crashes>>

\* MUTANT: the next attempt keeps the client.
Mutant_Reset(p) == UNCHANGED client

(* reset(): the next attempt reads the session file again.                 *)
Reset(p) == client' = [client EXCEPT ![p] = Null]

(* Telegram does not accept the key of the connected client.               *)
Refused == Calling /\ Key # Null /\ Key \notin authorized

SelfHeal ==
  /\ Refused
  /\ ~run.healed /\ run.tries + 1 < MaxRetry
  /\ Reset(run.by)
  /\ run' = [TryAgain EXCEPT !.healed = TRUE]
  /\ UNCHANGED <<loginVars, available, docs, retired, steady, relogin, crashes>>

(* Healed once, or no attempt is left: _is_telegram_auth_failure.          *)
AuthFails ==
  /\ Refused
  /\ \/ run.healed /\ UNCHANGED client
     \/ ~run.healed /\ run.tries + 1 = MaxRetry /\ Reset(run.by)
  /\ Retire
  /\ UNCHANGED <<loginVars, available, docs, crashes>>

(* AUTH_KEY_INVALID, UNAUTHORIZED, SESSION_REVOKED: the client has no        *)
(* reload for these, and _is_telegram_auth_failure takes them as they are.   *)
RefusedAtOnce ==
  /\ Refused
  /\ ~run.healed
  /\ Retire
  /\ UNCHANGED <<loginVars, available, docs, client, crashes>>

(* The document is written every few seconds and at the end.               *)
Flush ==
  /\ run # Null /\ run.at = "walk"
  /\ available' = run.available
  /\ run' \in {run, Null}
  /\ UNCHANGED <<loginVars, docs, retired, client, steady, relogin, crashes>>

-----------------------------------------------------------------------------
(* Other writers of the whole document: a verify run from its start to its   *)
(* end, the handler of a task that raised, a request that triggers a task,   *)
(* a login of another account, a starting process.                          *)

LoadDocument ==
  /\ Cardinality(docs \cup {available}) <= MaxDocs
  /\ docs' = docs \cup {available}
  /\ UNCHANGED <<loginVars, available, retired, client, run, steady, relogin, crashes>>

(* Two documents with one flag are one here: the other may be left.         *)
SaveDocument ==
  /\ \E flag \in docs : available' = flag /\ docs' \in {docs, docs \ {flag}}
  /\ UNCHANGED <<loginVars, retired, client, run, steady, relogin, crashes>>

(* An error or a death comes before the save.                               *)
DropDocument ==
  /\ \E flag \in docs : docs' = docs \ {flag}
  /\ UNCHANGED <<loginVars, available, retired, client, run, steady, relogin, crashes>>

-----------------------------------------------------------------------------
(* The login, and what happens to the account from outside.                *)

Login(w) ==
  /\ LoginStep(w)
  /\ StillSteady
  /\ UNCHANGED <<available, docs, retired, client, run, relogin, crashes>>

\* MUTANT: the flag in the document is left to the sync.
Mutant_Reauthenticated(w) ==
  /\ Reset(w)
  /\ retired' = retired \ {w}
  /\ UNCHANGED available

(* on_authorized, in the worker; mark_telegram_account_reauthenticated     *)
(* loads and saves the document.                                           *)
Reauthenticated(w) ==
  /\ Reset(w)
  /\ available' = TRUE
  /\ retired' = retired \ {w}

Authorized(w) ==
  /\ Accept(w)
  /\ Reauthenticated(w)
  /\ relogin' = IF run = Null /\ docs = {} THEN "quiet" ELSE "busy"
  /\ StillSteady
  /\ UNCHANGED <<docs, run, crashes>>

SessionEnds ==
  /\ Cardinality(revoked) < MaxRevokes
  /\ \E key \in authorized : Revoke(key)
  /\ StillSteady
  /\ UNCHANGED <<available, docs, retired, client, run, relogin, crashes>>

ProcessDies(p) ==
  /\ crashes < MaxCrashes
  /\ crashes' = crashes + 1
  /\ IF p \in Workers THEN Forget(p) ELSE UNCHANGED loginVars
  /\ client' = [client EXCEPT ![p] = Null]
  /\ retired' = retired \ {p}
  /\ run' = IF run # Null /\ run.by = p THEN Null ELSE run
  /\ steady' = (steady /\ run' # Null)
  /\ UNCHANGED <<available, docs, relogin>>

Next ==
  \/ \E p \in Processes : BeginRun(p) \/ ProcessDies(p)
  \/ NoSession \/ Request \/ EnsureConnection \/ Answered
  \/ NetworkFails \/ SelfHeal \/ AuthFails \/ RefusedAtOnce \/ Flush
  \/ LoadDocument \/ SaveDocument \/ DropDocument
  \/ \E w \in Workers : Login(w) \/ Authorized(w)
  \/ SessionEnds

Spec == Init /\ [][Next]_vars

-----------------------------------------------------------------------------
TypeOK ==
  /\ disk \in [session : Keys \cup {Null}, backup : Keys \cup {Null}]
  /\ made \in Keys /\ authorized \subseteq Keys /\ revoked \subseteq Keys
  /\ pending \in [Workers -> Pending \cup {Null}]
  /\ interrupted \in {"no", "once", "again"}
  /\ available \in BOOLEAN /\ docs \subseteq BOOLEAN /\ retired \subseteq Processes
  /\ client \in [Processes -> Keys \cup {Null}]
  /\ run \in Run \cup {Null}
  /\ steady \in BOOLEAN /\ relogin \in {"no", "quiet", "busy"}
  /\ crashes \in 0..MaxCrashes

(* _request reloads the session file once before it gives up on an          *)
(* AUTH_KEY_UNREGISTERED: a run does not retire an account whose session file *)
(* was good all through the request, once it has reloaded it; nor before,     *)
(* unless the network had used up the other attempts, or Telegram refused the *)
(* key with an error that is not reloaded for (the client is kept then), or   *)
(* crossing logins exchanged the file.                                        *)
GoodSessionIsKept ==
  [][/\ run # Null /\ run.at = "call" /\ steady /\ interrupted # "again"
     /\ retired' # retired /\ run.by \in retired'
     => ~run.healed /\ (run.tries = MaxRetry - 1 \/ UNCHANGED client)]_vars

(* A re-login while nobody works on a copy of the document is not lost: until  *)
(* a sync fails to authenticate again, index.json has the account as available. *)
ReloginIsRecorded == relogin = "quiet" => available

(* mark_telegram_account_reauthenticated: "the scheduler picks it up the   *)
(* next time it reloads state at the start of a run".                      *)
ReloginIsPickedUp ==
  [][run = Null /\ run' # Null /\ relogin # "no"
       => run'.available /\ run'.by \notin retired]_vars
==============================================================================
