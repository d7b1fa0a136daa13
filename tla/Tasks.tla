-------------------------------- MODULE Tasks --------------------------------
(***************************************************************************)
(* The task runner of `service.py', its schedulers (`runtime.py') and the  *)
(* web requests that touch the same locks and the same document.           *)
(*                                                                         *)
(* A thread is <<process, job>>: the runs of a task in one process follow  *)
(* one another (_task_locks), so that <<p, "sync">> is the sync run of p,  *)
(* whether its scheduler or a web request starts it; <<p, "web">> is a web *)
(* request that writes the document or looks at the running flags.         *)
(***************************************************************************)
EXTENDS StateDocument

TaskNames == {"sync", "verify"}

CONSTANTS
  Threads,     \* the threads there are
  Scheduled,   \* those of a SchedulerThread
  MaxTriggers, \* bound: manual triggers
  MaxFailures, \* bound: runs that raise
  MaxCrashes   \* bound: processes that die

Writes == [by : Threads, at : {"tmp", "state", "unlinked"}, filled : BOOLEAN]

ASSUME TasksAssumption ==
  /\ Threads \subseteq Processes \X {"sync", "verify", "web"}
  /\ Scheduled \subseteq {thread \in Threads : thread[2] # "web"}
  /\ Null \notin Threads \cup Writes
  /\ {MaxTriggers, MaxFailures, MaxCrashes} \subseteq Nat

VARIABLES
  pc,        \* where each thread is
  lock,      \* sync.lock and verify.lock: the thread that holds each, or Null
  live,      \* per process: _live_state, as the thread it belongs to, or Null
  ended,     \* scheduled threads an exception has ended
  up,        \* the processes that are running
  failures, crashes, triggers,
  clash      \* history: two processes have been writing at once

runVars     == <<pc, lock, live, ended, up>>
boundVars   == <<failures, crashes, triggers>>
vars == <<documentVars, runVars, boundVars, clash>>

Runs == {thread \in Threads : thread[2] \in TaskNames}
Requests == Threads \ Runs

Idle     == "idle"
Begun    == {"load", "start", "run", "flush", "finish"}  \* within the file lock
Handling == {"handle", "report"}                         \* after it
Places   == {Idle, "asked", "web", "probe"} \cup Begun \cup Handling

Init ==
  /\ DocumentInit
  /\ pc = [thread \in Threads |-> Idle]
  /\ lock = [t \in TaskNames |-> Null]
  /\ live = [p \in Processes |-> Null]
  /\ ended = {} /\ up = Processes
  /\ failures = 0 /\ crashes = 0 /\ triggers = 0
  /\ clash = FALSE

Goto(thread, place) == pc' = [pc EXCEPT ![thread] = place]
Alive(thread) == thread[1] \in up /\ thread \notin ended

-----------------------------------------------------------------------------
(* The start of a run.                                                     *)

(* A scheduler runs its task every interval, a worker when it is asked to. *)
Due(run) == Alive(run) /\ pc[run] = IF run \in Scheduled THEN Idle ELSE "asked"

(* Whoever saves has the state manager's lock, which load() takes too.     *)
MayLoad(thread) == MayWrite(thread[1])

(* _run_task: both locks are taken.                                        *)
Acquire(run) ==
  /\ Due(run)
  /\ lock[run[2]] = Null
  /\ lock' = [lock EXCEPT ![run[2]] = run]
  /\ Goto(run, "load")
  /\ UNCHANGED <<documentVars, live, ended, up, boundVars, clash>>

(* Another process has the file lock: the turn is lost.  The answer is     *)
(* made from the live state, or else from the document.                    *)
SkipTurn(run) ==
  /\ Due(run)
  /\ lock[run[2]] # Null
  /\ IF live[run[1]] # Null \/ Readable
     THEN Goto(run, Idle)
     ELSE Goto(run, "handle")
  /\ UNCHANGED <<documentVars, lock, live, ended, up, boundVars, clash>>

\* MUTANT: the web's own threads count as schedulers.
Mutant_Escape(run) ==
  /\ Goto(run, Idle)
  /\ ended' = ended \cup {run}

(* An exception leaves _run_task: it ends the thread, and a scheduler for  *)
(* good; nothing starts it again.                                          *)
Escape(run) ==
  /\ Goto(run, Idle)
  /\ ended' = IF run \in Scheduled THEN ended \cup {run} ELSE ended

\* MUTANT: _live_state is put away at a regular end only.
Mutant_Unwind(run) ==
  /\ lock' = [lock EXCEPT ![run[2]] = Null]
  /\ Goto(run, "handle")
  /\ UNCHANGED live

\* MUTANT: the file lock is given back at a regular end only.
Mutant_Unwind_lock(run) ==
  /\ live' = [live EXCEPT ![run[1]] = IF pc[run] \in {"load", "start"} THEN @ ELSE Null]
  /\ Goto(run, "handle")
  /\ UNCHANGED lock

(* An exception within the run: what surrounds the callback puts _live_state *)
(* away and the `with' gives the file lock back, before the handler.       *)
Unwind(run) ==
  /\ live' = [live EXCEPT ![run[1]] = IF pc[run] \in {"load", "start"} THEN @ ELSE Null]
  /\ lock' = [lock EXCEPT ![run[2]] = Null]
  /\ Goto(run, "handle")

Load(run) ==
  /\ pc[run] = "load"
  /\ MayLoad(run)
  /\ IF Readable
     THEN /\ Goto(run, "start")
          /\ UNCHANGED <<live, lock>>
     ELSE Unwind(run)
  /\ UNCHANGED <<documentVars, ended, up, boundVars, clash>>

-----------------------------------------------------------------------------
(* save(), in three steps.                                                 *)

Save(thread) ==
  /\ MayWrite(thread[1])
  /\ OpenTmp(thread)
  /\ clash' = (clash \/ \E p \in Processes \ {thread[1]} : writing[p] # Null)

Open(thread) ==
  /\ pc[thread] \in {"start", "report", "web"}
  /\ Save(thread)
  /\ UNCHANGED <<runVars, boundVars>>

Fill(thread) ==
  /\ FillTmp(thread)
  /\ UNCHANGED <<runVars, boundVars, clash>>

(* run_background, after mark_manual_trigger: a thread for the run.  (If   *)
(* this process has one already, the new one finds its lock and ends.)     *)
StartThread(request) ==
  \E run \in Runs :
    /\ run[1] = request[1]
    /\ pc' = [pc EXCEPT ![request] = Idle, ![run] = IF @ = Idle THEN "asked" ELSE @]

(* After the save: the run goes on, or is over and its locks are free.     *)
After(thread) ==
  \/ /\ pc[thread] = "start"
     /\ Goto(thread, "run")
     /\ live' = [live EXCEPT ![thread[1]] = thread]
     /\ UNCHANGED lock
  \/ /\ pc[thread] = "flush"
     /\ Goto(thread, "run")
     /\ UNCHANGED <<live, lock>>
  \/ /\ pc[thread] = "finish"
     /\ Goto(thread, Idle)
     /\ live' = [live EXCEPT ![thread[1]] = Null]
     /\ lock' = [lock EXCEPT ![thread[2]] = Null]
  \/ /\ pc[thread] = "report"
     /\ Goto(thread, Idle)
     /\ UNCHANGED <<live, lock>>
  \/ /\ pc[thread] = "web"
     /\ StartThread(thread)
     /\ UNCHANGED <<live, lock>>

Replace(thread) ==
  /\ ReplaceOk(thread)
  /\ After(thread)
  /\ UNCHANGED <<ended, up, boundVars, clash>>

(* save() raises: a run goes to its handler, the handler and a request     *)
(* have none.                                                              *)
ReplaceRaises(thread) ==
  /\ ReplaceFails(thread)
  /\ \/ /\ pc[thread] \in Begun
        /\ Unwind(thread)
        /\ UNCHANGED ended
     \/ /\ pc[thread] \in {"report", "web"}
        /\ Escape(thread)
        /\ UNCHANGED <<live, lock>>
  /\ UNCHANGED <<up, boundVars, clash>>

-----------------------------------------------------------------------------
(* What a run does.                                                        *)

(* _maybe_persist_progress, and the saves at the end of the two tasks.     *)
Flush(run) ==
  /\ pc[run] = "run"
  /\ Goto(run, "flush")
  /\ Save(run)
  /\ UNCHANGED <<lock, live, ended, up, boundVars>>

(* _run_task saves the result.                                             *)
Finish(run) ==
  /\ pc[run] = "run"
  /\ Goto(run, "finish")
  /\ Save(run)
  /\ UNCHANGED <<lock, live, ended, up, boundVars>>

(* The callback raises.                                                    *)
Raise(run) ==
  /\ pc[run] = "run"
  /\ failures < MaxFailures
  /\ failures' = failures + 1
  /\ Unwind(run)
  /\ UNCHANGED <<documentVars, ended, up, crashes, triggers, clash>>

(* The handler starts from the document as it is now.                      *)
Handle(run) ==
  /\ pc[run] = "handle"
  /\ MayLoad(run) /\ Readable
  /\ Goto(run, "report")
  /\ UNCHANGED <<documentVars, lock, live, ended, up, boundVars, clash>>

HandlerRaises(run) ==
  /\ pc[run] = "handle"
  /\ MayLoad(run) /\ ~Readable
  /\ Escape(run)
  /\ UNCHANGED <<documentVars, lock, live, up, boundVars, clash>>

-----------------------------------------------------------------------------
(* Web requests.                                                           *)

(* mark_manual_trigger: load, change a field of its own, save.             *)
Trigger(request) ==
  /\ Alive(request) /\ pc[request] = Idle
  /\ MayLoad(request)
  /\ triggers < MaxTriggers
  /\ triggers' = triggers + 1
  /\ Readable
  /\ Goto(request, "web")
  /\ UNCHANGED <<documentVars, lock, live, ended, up, failures, crashes, clash>>

\* MUTANT: the probe takes the lock from who has it.
Mutant_Probe(request, t) ==
  /\ Alive(request) /\ pc[request] = Idle
  /\ lock' = [lock EXCEPT ![t] = request]
  /\ Goto(request, "probe")
  /\ UNCHANGED <<documentVars, live, ended, up, boundVars, clash>>

(* _is_task_file_lock_held takes the lock to see whether it is taken.      *)
Probe(request, t) ==
  /\ Alive(request) /\ pc[request] = Idle
  /\ lock[t] = Null
  /\ lock' = [lock EXCEPT ![t] = request]
  /\ Goto(request, "probe")
  /\ UNCHANGED <<documentVars, live, ended, up, boundVars, clash>>

ProbeEnds(request) ==
  /\ pc[request] = "probe"
  /\ lock' = [t \in TaskNames |-> IF lock[t] = request THEN Null ELSE lock[t]]
  /\ Goto(request, Idle)
  /\ UNCHANGED <<documentVars, live, ended, up, boundVars, clash>>

-----------------------------------------------------------------------------
(* A process dies: its locks and what it had in memory go, and the running *)
(* flags it has saved stay.                                                *)
Crash(p) ==
  LET dead == {thread \in Threads : thread[1] = p} IN
  /\ p \in up /\ crashes < MaxCrashes
  /\ crashes' = crashes + 1
  /\ up' = up \ {p}
  /\ pc' = [thread \in Threads |-> IF thread \in dead THEN Idle ELSE pc[thread]]
  /\ lock' = [t \in TaskNames |-> IF lock[t] \in dead THEN Null ELSE lock[t]]
  /\ live' = [live EXCEPT ![p] = Null]
  /\ ended' = ended \ dead
  /\ StopWriting(p)
  /\ UNCHANGED <<failures, triggers, clash>>

(* bootstrap_service loads the document before anything else.              *)
Restart(p) ==
  /\ p \notin up
  /\ Readable
  /\ up' = up \cup {p}
  /\ UNCHANGED <<documentVars, pc, lock, live, ended, boundVars, clash>>

-----------------------------------------------------------------------------
SaveStep(thread) == Open(thread) \/ Fill(thread) \/ Replace(thread) \/ ReplaceRaises(thread)

RunStep(run) ==
  \/ SaveStep(run)
  \/ Load(run) \/ Finish(run)
  \/ Handle(run) \/ HandlerRaises(run)

LockStep(run) == Load(run) \/ Open(run) \/ Handle(run) \/ HandlerRaises(run)

RunNext(run) ==
  Acquire(run) \/ SkipTurn(run) \/ RunStep(run) \/ Flush(run) \/ Raise(run)

RequestNext(request) ==
  \/ Trigger(request) \/ SaveStep(request) \/ ProbeEnds(request)
  \/ \E t \in TaskNames : Probe(request, t)

Next ==
  \/ \E run \in Runs : RunNext(run)
  \/ \E request \in Requests : RequestNext(request)
  \/ \E p \in Processes : Crash(p) \/ Restart(p)

Spec == Init /\ [][Next]_vars

(* A scheduler starts a run after every interval and skips its turn while  *)
(* another holds the lock, probes and runs elsewhere end (SF Acquire); a   *)
(* run walks over finitely many files (SF Finish); the lock of the state   *)
(* manager is given in time to a thread that waits for it (SF LockStep); a *)
(* process that died is started again.                                     *)
FairSpec ==
  /\ Spec
  /\ \A run \in Runs : WF_vars(RunStep(run)) /\ SF_vars(LockStep(run)) /\ SF_vars(Finish(run))
  /\ \A run \in Scheduled : SF_vars(Acquire(run))
  /\ \A request \in Requests : WF_vars(SaveStep(request)) /\ WF_vars(ProbeEnds(request))
  /\ \A p \in Processes : WF_vars(Restart(p))

-----------------------------------------------------------------------------
TypeOK ==
  /\ text \in [state : Texts, tmp : Texts]
  /\ writing \in [Processes -> Writes \cup {Null}]
  /\ pc \in [Threads -> Places]
  /\ lock \in [TaskNames -> Threads \cup {Null}]
  /\ live \in [Processes -> Runs \cup {Null}]
  /\ ended \subseteq Scheduled /\ up \subseteq Processes
  /\ failures \in 0..MaxFailures /\ crashes \in 0..MaxCrashes
  /\ triggers \in 0..MaxTriggers /\ clash \in BOOLEAN

(* sync.lock and verify.lock give mutual exclusion between the processes:  *)
(* no two runs of a task are in progress at once, whoever starts them, and *)
(* whatever probes, exceptions and crashes do to the locks.                *)
OneRunPerTask ==
  \A r1, r2 \in Runs :
    r1[2] = r2[2] /\ pc[r1] \in Begun /\ pc[r2] \in Begun => r1 = r2

(* Sync and verify share the _live_state of their process and each clears  *)
(* it when it ends: the web may miss a run in progress, but what it shows  *)
(* never is the state of a run that is over.                               *)
LiveStateIsOfARun ==
  \A p \in Processes : live[p] # Null => pc[live[p]] \in {"run", "flush", "finish"}

(* Writing aside and renaming protects index.json, and the schedulers that *)
(* an unreadable one would end, from a crash or an exception at any point  *)
(* of any save, as long as no two processes write at once.                 *)
DocumentSurvives == ~clash => Readable /\ ended = {}

(* Whatever takes a lock at the wrong moment, raises or dies, there is     *)
(* another sync in the end, unless two processes wrote at once.            *)
SyncKeepsRunning ==
  []<>(clash \/ \E run \in Runs : run[2] = "sync" /\ pc[run] = "run")
==============================================================================
