----------------------------- MODULE Tasks_proofs -----------------------------
(***************************************************************************)
(* What the locks, the live state and index.json guarantee for any number  *)
(* of processes, threads, manual triggers, failures and crashes.           *)
(***************************************************************************)
EXTENDS Tasks, TLAPS

LEMMA ThreadFacts ==
  /\ Null \notin Threads /\ Null \notin Writes
  /\ Runs \subseteq Threads /\ Requests \subseteq Threads
  /\ Scheduled \subseteq Runs
  /\ \A thread \in Threads : thread[1] \in Processes
  /\ \A run \in Runs : run[2] \in TaskNames
<1>1. Threads \subseteq Processes \X {"sync", "verify", "web"}
  BY TasksAssumption
<1> QED
  BY <1>1, TasksAssumption DEF Runs, Requests, TaskNames

-----------------------------------------------------------------------------
(* Types.                                                                  *)

LEMMA TypeSave ==
  ASSUME TypeOK, NEW thread \in Threads, Save(thread)
  PROVE  /\ text' \in [state : Texts, tmp : Texts]
         /\ writing' \in [Processes -> Writes \cup {Null}]
         /\ clash' \in BOOLEAN
<1>1. Write(thread) \in Writes
  BY DEF Write, Writes
<1> QED
  BY <1>1, ThreadFacts DEF TypeOK, Save, OpenTmp, Texts

LEMMA TypeUnwind ==
  ASSUME TypeOK, NEW run \in Runs, Unwind(run)
  PROVE  /\ pc' \in [Threads -> Places]
         /\ lock' \in [TaskNames -> Threads \cup {Null}]
         /\ live' \in [Processes -> Runs \cup {Null}]
BY ThreadFacts DEF TypeOK, Unwind, Goto, Places, Handling

LEMMA TypeEscape ==
  ASSUME TypeOK, NEW thread \in Threads, Escape(thread)
  PROVE  /\ pc' \in [Threads -> Places]
         /\ ended' \subseteq Scheduled
BY ThreadFacts DEF TypeOK, Escape, Goto, Places

LEMMA TypeAfter ==
  ASSUME TypeOK, NEW thread \in Threads, pc[thread] \in Begun => thread \in Runs, After(thread)
  PROVE  /\ pc' \in [Threads -> Places]
         /\ lock' \in [TaskNames -> Threads \cup {Null}]
         /\ live' \in [Processes -> Runs \cup {Null}]
<1>1. pc' \in [Threads -> Places]
  <2>1. CASE StartThread(thread)
    BY <2>1, ThreadFacts DEF TypeOK, StartThread, Places
  <2> QED
    BY <2>1 DEF TypeOK, After, Goto, Places, Begun
<1>2. /\ lock' \in [TaskNames -> Threads \cup {Null}]
      /\ live' \in [Processes -> Runs \cup {Null}]
  BY ThreadFacts DEF TypeOK, After, Begun
<1> QED
  BY <1>1, <1>2

LEMMA TypeReplace ==
  ASSUME TypeOK, NEW thread \in Threads, ReplaceOk(thread)
  PROVE  /\ text' \in [state : Texts, tmp : Texts]
         /\ writing' \in [Processes -> Writes \cup {Null}]
<1>1. \A w \in Writes \cup {Null} : Renamed(w) \in Writes \cup {Null}
  BY ThreadFacts DEF Renamed, Writes
<1> QED
  BY <1>1 DEF TypeOK, ReplaceOk, Texts

LEMMA TypeFill ==
  ASSUME TypeOK, NEW thread \in Threads, FillTmp(thread)
  PROVE  /\ text' \in [state : Texts, tmp : Texts]
         /\ writing' \in [Processes -> Writes \cup {Null}]
<1> DEFINE w == writing[thread[1]]
<1>1. w \in Writes
  BY ThreadFacts DEF TypeOK, FillTmp, WritesFor
<1>2. [w EXCEPT !.filled = TRUE] \in Writes
  BY <1>1 DEF Writes
<1>3. writing' \in [Processes -> Writes \cup {Null}]
  BY <1>2, ThreadFacts DEF TypeOK, FillTmp
<1>4. text' \in [state : Texts, tmp : Texts]
  <2>1. CASE w.at = "unlinked"
    BY <2>1 DEF TypeOK, FillTmp
  <2>2. CASE w.at = "tmp"
    BY <2>2 DEF TypeOK, FillTmp, Texts
  <2>3. CASE w.at = "state"
    BY <2>3 DEF TypeOK, FillTmp, Texts
  <2> QED
    BY <1>1, <2>1, <2>2, <2>3 DEF Writes
<1> QED
  BY <1>3, <1>4

-----------------------------------------------------------------------------
(* The locks.  A run within its task has the file lock of the task, and    *)
(* only runs are ever within one.                                          *)

RunsHoldTheirLock ==
  \A run \in Runs : pc[run] \in Begun => lock[run[2]] = run

RequestsAreNoRuns ==
  /\ \A request \in Requests : pc[request] \in {Idle, "web", "probe"}
  /\ \A run \in Runs : pc[run] \notin {"web", "probe"}

(* The live state of a process is that of a run of this process.           *)
LiveInv ==
  \A p \in Processes :
    live[p] # Null => /\ live[p] \in Runs /\ live[p][1] = p
                      /\ pc[live[p]] \in {"run", "flush", "finish"}

Inv == TypeOK /\ RunsHoldTheirLock /\ RequestsAreNoRuns /\ LiveInv

LEMMA InitInv == Init => Inv
<1> SUFFICES ASSUME Init PROVE Inv
  OBVIOUS
<1>1. TypeOK
  <2>1. text \in [state : Texts, tmp : Texts] /\ writing \in [Processes -> Writes \cup {Null}]
    BY DEF Init, DocumentInit, Texts
  <2>2. /\ pc \in [Threads -> Places]
        /\ lock \in [TaskNames -> Threads \cup {Null}]
        /\ live \in [Processes -> Runs \cup {Null}]
    BY DEF Init, Places
  <2>3. /\ failures \in 0..MaxFailures /\ crashes \in 0..MaxCrashes
        /\ triggers \in 0..MaxTriggers
    BY TasksAssumption DEF Init
  <2> QED
    BY <2>1, <2>2, <2>3 DEF Init, TypeOK
<1>2. RunsHoldTheirLock /\ RequestsAreNoRuns /\ LiveInv
  BY ThreadFacts
     DEF Init, RunsHoldTheirLock, RequestsAreNoRuns, LiveInv, Begun, Idle
<1> QED
  BY <1>1, <1>2 DEF Inv

(* What moves only a thread that is within no task and goes to none.       *)
LEMMA Aside ==
  ASSUME Inv, UNCHANGED <<lock, live>>, TypeOK', NEW thread \in Threads, NEW place,
         Goto(thread, place), pc[thread] \notin Begun, place \notin Begun,
         thread \in Requests => place \in {Idle, "web", "probe"},
         thread \in Runs => place \notin {"web", "probe"}
  PROVE  Inv'
<1> USE ThreadFacts DEF Inv, TypeOK, Goto
<1>1. RunsHoldTheirLock'
  BY DEF RunsHoldTheirLock
<1>2. RequestsAreNoRuns'
  BY DEF RequestsAreNoRuns, Requests
<1>3. LiveInv'
  BY DEF LiveInv, Begun
<1> QED
  BY <1>1, <1>2, <1>3

LEMMA InvAcquire ==
  ASSUME Inv, NEW run \in Runs, Acquire(run)
  PROVE  Inv'
<1> USE ThreadFacts DEF Inv, TypeOK, Acquire, Goto
<1>1. pc[run] \in {Idle, "asked"}
  BY DEF Due
<1>2. TypeOK'
  BY DEF Places, Begun, documentVars, boundVars
<1>3. RunsHoldTheirLock'
  BY DEF RunsHoldTheirLock
<1>4. RequestsAreNoRuns'
  BY DEF RequestsAreNoRuns, Requests
<1>5. LiveInv'
  BY <1>1 DEF LiveInv, Idle
<1> QED
  BY <1>2, <1>3, <1>4, <1>5

LEMMA InvSkipTurn ==
  ASSUME Inv, NEW run \in Runs, SkipTurn(run)
  PROVE  Inv'
<1>1. pc[run] \in {Idle, "asked"}
  BY DEF SkipTurn, Due
<1>2. PICK place \in {Idle, "handle"} : Goto(run, place)
  BY DEF SkipTurn
<1>3. TypeOK'
  BY <1>2, ThreadFacts
     DEF Inv, TypeOK, SkipTurn, Goto, Places, Handling, documentVars, boundVars
<1> QED
  BY <1>1, <1>2, <1>3, Aside, ThreadFacts DEF SkipTurn, Idle, Begun, Requests

LEMMA InvUnwind ==
  ASSUME Inv, TypeOK', NEW run \in Runs, pc[run] \in Begun, Unwind(run)
  PROVE  Inv'
<1> USE ThreadFacts DEF Inv, TypeOK, Unwind, Goto
<1>1. RunsHoldTheirLock'
  BY DEF RunsHoldTheirLock, Begun
<1>2. RequestsAreNoRuns'
  BY DEF RequestsAreNoRuns, Requests
<1>3. LiveInv'
  BY DEF LiveInv, Begun
<1> QED
  BY <1>1, <1>2, <1>3

LEMMA InvLoad ==
  ASSUME Inv, NEW run \in Runs, Load(run)
  PROVE  Inv'
<1>1. CASE Unwind(run)
  <2>1. TypeOK'
    BY <1>1, TypeUnwind DEF Inv, TypeOK, Load, documentVars, boundVars
  <2> QED
    BY <1>1, <2>1, InvUnwind DEF Load, Begun
<1>2. CASE Goto(run, "start") /\ UNCHANGED <<live, lock>>
  <2> USE <1>2, ThreadFacts DEF Inv, TypeOK, Load, Goto
  <2>1. TypeOK'
    BY DEF Places, Begun, documentVars, boundVars
  <2>2. RunsHoldTheirLock'
    BY DEF RunsHoldTheirLock, Begun
  <2>3. RequestsAreNoRuns'
    BY DEF RequestsAreNoRuns, Requests
  <2>4. LiveInv'
    BY DEF LiveInv
  <2> QED
    BY <2>1, <2>2, <2>3, <2>4
<1> QED
  BY <1>1, <1>2 DEF Load

LEMMA InvOpen ==
  ASSUME Inv, NEW thread \in Threads, Open(thread)
  PROVE  Inv'
<1>1. TypeOK'
  BY TypeSave DEF Inv, TypeOK, Open, runVars, boundVars
<1> QED
  BY <1>1
     DEF Inv, Open, runVars, RunsHoldTheirLock, RequestsAreNoRuns, LiveInv

LEMMA InvFill ==
  ASSUME Inv, NEW thread \in Threads, Fill(thread)
  PROVE  Inv'
<1>1. TypeOK'
  BY TypeFill DEF Inv, TypeOK, Fill, runVars, boundVars
<1> QED
  BY <1>1
     DEF Inv, Fill, runVars, RunsHoldTheirLock, RequestsAreNoRuns, LiveInv

LEMMA InvReplace ==
  ASSUME Inv, NEW thread \in Threads, Replace(thread)
  PROVE  Inv'
<1> USE ThreadFacts DEF Inv, TypeOK, Goto
<1>1. pc[thread] \in Begun => thread \in Runs
  BY DEF RequestsAreNoRuns, Requests, Begun, Idle
<1>2. TypeOK'
  BY <1>1, TypeReplace, TypeAfter DEF Replace, boundVars
<1>3. CASE pc[thread] = "web" /\ StartThread(thread) /\ UNCHANGED <<live, lock>>
  <2>1. PICK run \in Runs :
          pc' = [pc EXCEPT ![thread] = Idle, ![run] = IF @ = Idle THEN "asked" ELSE @]
    BY <1>3 DEF StartThread
  <2>2. thread \in Requests
    BY <1>3 DEF RequestsAreNoRuns, Requests
  <2>3. /\ pc'[thread] = Idle
        /\ \A r \in Runs : pc'[r] = pc[r] \/ (pc[r] = Idle /\ pc'[r] = "asked")
        /\ \A r \in Requests \ {thread} : pc'[r] = pc[r]
    BY <2>1, <2>2 DEF Requests
  <2>4. RunsHoldTheirLock'
    BY <1>3, <2>3 DEF RunsHoldTheirLock, Begun
  <2>5. RequestsAreNoRuns'
    BY <2>3 DEF RequestsAreNoRuns
  <2>6. LiveInv'
    BY <1>3, <2>3 DEF LiveInv, Idle
  <2> QED
    BY <1>2, <2>4, <2>5, <2>6
<1>4. CASE /\ pc[thread] = "start" /\ Goto(thread, "run")
           /\ live' = [live EXCEPT ![thread[1]] = thread] /\ UNCHANGED lock
  <2>1. thread \in Runs
    BY <1>1, <1>4 DEF Begun
  <2>2. RunsHoldTheirLock'
    BY <1>4 DEF RunsHoldTheirLock, Begun
  <2>3. RequestsAreNoRuns'
    BY <1>4, <2>1 DEF RequestsAreNoRuns, Requests
  <2>4. LiveInv'
    BY <1>4, <2>1 DEF LiveInv
  <2> QED
    BY <1>2, <2>2, <2>3, <2>4
<1>5. CASE pc[thread] = "flush" /\ Goto(thread, "run") /\ UNCHANGED <<live, lock>>
  <2>1. thread \in Runs
    BY <1>1, <1>5 DEF Begun
  <2>2. RunsHoldTheirLock'
    BY <1>5 DEF RunsHoldTheirLock, Begun
  <2>3. RequestsAreNoRuns'
    BY <1>5, <2>1 DEF RequestsAreNoRuns, Requests
  <2>4. LiveInv'
    BY <1>5, <2>1 DEF LiveInv
  <2> QED
    BY <1>2, <2>2, <2>3, <2>4
<1>6. CASE /\ pc[thread] = "finish" /\ Goto(thread, Idle)
           /\ live' = [live EXCEPT ![thread[1]] = Null]
           /\ lock' = [lock EXCEPT ![thread[2]] = Null]
  <2>1. thread \in Runs
    BY <1>1, <1>6 DEF Begun
  <2>2. RunsHoldTheirLock'
    BY <1>6, <2>1 DEF RunsHoldTheirLock, Begun, Idle
  <2>3. RequestsAreNoRuns'
    BY <1>6, <2>1 DEF RequestsAreNoRuns, Requests, Idle
  <2>4. LiveInv'
    BY <1>6, <2>1 DEF LiveInv
  <2> QED
    BY <1>2, <2>2, <2>3, <2>4
<1>7. CASE pc[thread] = "report" /\ Goto(thread, Idle) /\ UNCHANGED <<live, lock>>
  BY <1>2, <1>7, Aside DEF Begun, Idle, Requests
<1> QED
  BY <1>3, <1>4, <1>5, <1>6, <1>7 DEF Replace, After

LEMMA InvReplaceRaises ==
  ASSUME Inv, NEW thread \in Threads, ReplaceRaises(thread)
  PROVE  Inv'
<1>1. text' = text /\ writing' \in [Processes -> Writes \cup {Null}]
  BY DEF Inv, TypeOK, ReplaceRaises, ReplaceFails
<1>2. CASE pc[thread] \in Begun /\ Unwind(thread) /\ UNCHANGED ended
  <2>1. thread \in Runs
    BY <1>2 DEF Inv, RequestsAreNoRuns, Requests, Begun, Idle
  <2>2. TypeOK'
    BY <1>1, <1>2, <2>1, TypeUnwind DEF Inv, TypeOK, ReplaceRaises, boundVars
  <2> QED
    BY <1>2, <2>1, <2>2, InvUnwind
<1>3. CASE pc[thread] \in {"report", "web"} /\ Escape(thread) /\ UNCHANGED <<live, lock>>
  <2>1. TypeOK'
    BY <1>1, <1>3, TypeEscape DEF Inv, TypeOK, ReplaceRaises, boundVars
  <2> QED
    BY <1>3, <2>1, Aside DEF Escape, Begun, Idle
<1> QED
  BY <1>2, <1>3 DEF ReplaceRaises

(* Flush and Finish.                                                       *)
LEMMA InvWithin ==
  ASSUME Inv, NEW run \in Runs, pc[run] = "run", NEW place \in {"flush", "finish"},
         Goto(run, place), Save(run), UNCHANGED <<lock, live, ended, up, boundVars>>
  PROVE  Inv'
<1> USE ThreadFacts DEF Inv, TypeOK, Goto
<1>1. TypeOK'
  BY TypeSave DEF Places, Begun, boundVars
<1>2. RunsHoldTheirLock'
  BY DEF RunsHoldTheirLock, Begun
<1>3. RequestsAreNoRuns'
  BY DEF RequestsAreNoRuns, Requests
<1>4. LiveInv'
  BY DEF LiveInv
<1> QED
  BY <1>1, <1>2, <1>3, <1>4

LEMMA InvRaise ==
  ASSUME Inv, NEW run \in Runs, Raise(run)
  PROVE  Inv'
<1>1. TypeOK'
  BY TypeUnwind, TasksAssumption DEF Inv, TypeOK, Raise, documentVars
<1> QED
  BY <1>1, InvUnwind DEF Raise, Begun

LEMMA InvHandle ==
  ASSUME Inv, NEW run \in Runs, Handle(run) \/ HandlerRaises(run)
  PROVE  Inv'
<1> USE ThreadFacts DEF Inv
<1>1. CASE Handle(run)
  <2>1. TypeOK'
    BY <1>1 DEF TypeOK, Handle, Goto, Places, Handling, documentVars, boundVars
  <2> QED
    BY <1>1, <2>1, Aside DEF Handle, Begun, Requests
<1>2. CASE HandlerRaises(run)
  <2>1. TypeOK'
    BY <1>2, TypeEscape DEF TypeOK, HandlerRaises, documentVars, boundVars
  <2> QED
    BY <1>2, <2>1, Aside DEF HandlerRaises, Escape, Begun, Idle, Requests
<1> QED
  BY <1>1, <1>2

LEMMA InvTrigger ==
  ASSUME Inv, NEW request \in Requests, Trigger(request)
  PROVE  Inv'
<1> USE ThreadFacts DEF Inv
<1>1. TypeOK'
  BY TasksAssumption DEF TypeOK, Trigger, Goto, Places, documentVars
<1> QED
  BY <1>1, Aside DEF Trigger, Begun, Idle, Requests

LEMMA InvProbe ==
  ASSUME Inv, NEW request \in Requests, NEW t \in TaskNames, Probe(request, t)
  PROVE  Inv'
<1> USE ThreadFacts DEF Inv, TypeOK, Probe, Goto
<1>1. TypeOK'
  BY DEF Places, documentVars, boundVars
<1>2. RunsHoldTheirLock'
  BY DEF RunsHoldTheirLock, Requests
<1>3. RequestsAreNoRuns'
  BY DEF RequestsAreNoRuns, Requests
<1>4. LiveInv'
  BY DEF LiveInv, Requests
<1> QED
  BY <1>1, <1>2, <1>3, <1>4

LEMMA InvProbeEnds ==
  ASSUME Inv, NEW request \in Requests, ProbeEnds(request)
  PROVE  Inv'
<1> USE ThreadFacts DEF Inv, TypeOK, ProbeEnds, Goto
<1>1. TypeOK'
  BY DEF Places, documentVars, boundVars
<1>2. RunsHoldTheirLock'
  BY DEF RunsHoldTheirLock, Requests
<1>3. RequestsAreNoRuns'
  BY DEF RequestsAreNoRuns, Requests, Idle
<1>4. LiveInv'
  BY DEF LiveInv, Requests
<1> QED
  BY <1>1, <1>2, <1>3, <1>4

LEMMA InvCrash ==
  ASSUME Inv, NEW p \in Processes, Crash(p)
  PROVE  Inv'
<1> USE ThreadFacts DEF Inv, TypeOK, Crash
<1>1. TypeOK'
  BY TasksAssumption DEF Places, StopWriting
<1>2. RunsHoldTheirLock'
  BY DEF RunsHoldTheirLock, Begun, Idle
<1>3. RequestsAreNoRuns'
  BY DEF RequestsAreNoRuns, Requests, Idle
<1>4. LiveInv'
  BY DEF LiveInv
<1> QED
  BY <1>1, <1>2, <1>3, <1>4

LEMMA InvRestart ==
  ASSUME Inv, NEW p \in Processes, Restart(p)
  PROVE  Inv'
BY DEF Inv, TypeOK, Restart, documentVars, boundVars,
       RunsHoldTheirLock, RequestsAreNoRuns, LiveInv

LEMMA InvSaveStep ==
  ASSUME Inv, NEW thread \in Threads, SaveStep(thread)
  PROVE  Inv'
BY InvOpen, InvFill, InvReplace, InvReplaceRaises DEF SaveStep

LEMMA InvStep == Inv /\ [Next]_vars => Inv'
<1> SUFFICES ASSUME Inv, [Next]_vars PROVE Inv'
  OBVIOUS
<1>1. ASSUME NEW run \in Runs, RunNext(run)
      PROVE  Inv'
  <2>1. CASE SaveStep(run)
    BY <2>1, InvSaveStep, ThreadFacts
  <2>2. CASE Flush(run)
    BY <2>2, InvWithin DEF Flush
  <2>3. CASE Finish(run)
    BY <2>3, InvWithin DEF Finish
  <2> QED
    BY <1>1, <2>1, <2>2, <2>3, InvAcquire, InvSkipTurn, InvLoad, InvRaise, InvHandle
       DEF RunNext, RunStep
<1>2. ASSUME NEW request \in Requests, RequestNext(request)
      PROVE  Inv'
  <2>1. CASE SaveStep(request)
    BY <2>1, InvSaveStep, ThreadFacts
  <2> QED
    BY <1>2, <2>1, InvTrigger, InvProbe, InvProbeEnds DEF RequestNext
<1>3. CASE UNCHANGED vars
  BY <1>3 DEF Inv, TypeOK, vars, documentVars, runVars, boundVars,
              RunsHoldTheirLock, RequestsAreNoRuns, LiveInv
<1> QED
  BY <1>1, <1>2, <1>3, InvCrash, InvRestart DEF Next

(* The types of all variables.                                             *)
THEOREM TypesAreKept == Spec => []TypeOK
<1>1. Inv => TypeOK
  BY DEF Inv
<1> QED
  BY <1>1, InitInv, InvStep, PTL DEF Spec

(* sync.lock and verify.lock keep the runs of a task apart, for any number *)
(* of processes, of requests that probe the locks, of failures and crashes.*)
THEOREM OneRunAtATime == Spec => []OneRunPerTask
<1>1. Inv => OneRunPerTask
  BY DEF Inv, RunsHoldTheirLock, OneRunPerTask
<1> QED
  BY <1>1, InitInv, InvStep, PTL DEF Spec

(* What _live_state shows is a run in progress.                            *)
THEOREM LiveStateIsLive == Spec => []LiveStateIsOfARun
<1>1. Inv => LiveStateIsOfARun
  BY DEF Inv, LiveInv, LiveStateIsOfARun
<1> QED
  BY <1>1, InitInv, InvStep, PTL DEF Spec

-----------------------------------------------------------------------------
(* The document.  Without a clash there is one writer at most, it writes   *)
(* the temporary file, and what it has not filled yet is empty: index.json *)
(* is only ever replaced by a whole document, and every load finds one.    *)

Writing == {p \in Processes : writing[p] # Null}

OneWriter ==
  /\ \A p, q \in Writing : p = q
  /\ \A p \in Writing : /\ writing[p].at = "tmp"
                        /\ writing[p].by[1] = p
                        /\ text.tmp = IF writing[p].filled THEN "whole" ELSE "empty"

DocumentInv ==
  ~clash => /\ Readable
            /\ ended = {}
            /\ OneWriter

LEMMA DocumentInvInit == Init => DocumentInv
BY DEF Init, DocumentInit, DocumentInv, Readable, OneWriter, Writing

LEMMA DocumentUntouched ==
  ASSUME DocumentInv, UNCHANGED <<documentVars, clash>>, ended' \subseteq ended
  PROVE  DocumentInv'
BY DEF DocumentInv, documentVars, Readable, OneWriter, Writing

LEMMA DocumentSave ==
  ASSUME TypeOK, DocumentInv, NEW thread \in Threads, Save(thread), UNCHANGED ended
  PROVE  DocumentInv'
<1> USE ThreadFacts DEF TypeOK
<1> SUFFICES ASSUME ~clash' PROVE (Readable /\ ended = {} /\ OneWriter)'
  BY DEF DocumentInv
<1>1. /\ ~clash
      /\ \A p \in Processes : writing[p] = Null
  BY DEF Save, MayWrite
<1>2. /\ writing' = [writing EXCEPT ![thread[1]] = Write(thread)]
      /\ text'.state = text.state
      /\ text'.tmp = "empty"
  BY DEF Save, OpenTmp
<1>3. /\ \A p \in Processes \ {thread[1]} : writing'[p] = Null
      /\ writing'[thread[1]] = Write(thread)
  BY <1>1, <1>2
<1>4. /\ Write(thread).at = "tmp" /\ ~Write(thread).filled
      /\ Write(thread).by = thread
  BY DEF Write
<1>5. OneWriter'
  BY <1>2, <1>3, <1>4 DEF OneWriter, Writing
<1> QED
  BY <1>1, <1>2, <1>5 DEF DocumentInv, Readable

LEMMA DocumentFill ==
  ASSUME TypeOK, DocumentInv, NEW thread \in Threads, FillTmp(thread), UNCHANGED <<ended, clash>>
  PROVE  DocumentInv'
<1> USE ThreadFacts DEF TypeOK
<1> DEFINE p == thread[1]
<1> SUFFICES ASSUME ~clash PROVE (Readable /\ ended = {} /\ OneWriter)'
  BY DEF DocumentInv
<1>1. /\ Readable /\ ended = {} /\ OneWriter
      /\ p \in Writing /\ writing[p] \in Writes
  BY DEF DocumentInv, FillTmp, WritesFor, Writing
<1>2. /\ writing[p].at = "tmp" /\ text.tmp = "empty"
      /\ \A q \in Processes \ {p} : writing[q] = Null
      /\ writing[p].by[1] = p
  BY <1>1 DEF OneWriter, FillTmp, Writing
<1>3. text' = [text EXCEPT !.tmp = "whole"]
  BY <1>2 DEF FillTmp
<1>4. /\ writing'[p] = [writing[p] EXCEPT !.filled = TRUE]
      /\ \A q \in Processes \ {p} : writing'[q] = Null
  BY <1>2 DEF FillTmp
<1>5. writing'[p].at = "tmp" /\ writing'[p].filled /\ writing'[p].by = writing[p].by
  BY <1>1, <1>2, <1>4 DEF Writes
<1>6. OneWriter'
  BY <1>2, <1>3, <1>4, <1>5 DEF OneWriter, Writing
<1> QED
  BY <1>1, <1>3, <1>6 DEF Readable

LEMMA DocumentReplace ==
  ASSUME TypeOK, DocumentInv, NEW thread \in Threads, ReplaceOk(thread), UNCHANGED <<ended, clash>>
  PROVE  DocumentInv'
<1> USE ThreadFacts DEF TypeOK
<1> DEFINE p == thread[1]
<1> SUFFICES ASSUME ~clash PROVE (Readable /\ ended = {} /\ OneWriter)'
  BY DEF DocumentInv
<1>1. p \in Writing /\ writing[p].filled /\ OneWriter /\ ended = {}
  BY DEF ReplaceOk, WritesFor, Writing, DocumentInv
<1>2. /\ text.tmp = "whole"
      /\ \A q \in Processes \ {p} : writing[q] = Null
  BY <1>1 DEF OneWriter, Writing
<1>3. /\ text'.state = "whole"
      /\ \A q \in Processes : writing'[q] = Null
  BY <1>2 DEF ReplaceOk, Renamed
<1> QED
  BY <1>1, <1>3 DEF Readable, OneWriter, Writing

LEMMA NoReplaceRaises ==
  ASSUME TypeOK, DocumentInv, NEW thread \in Threads, ReplaceFails(thread)
  PROVE  clash
<1> USE ThreadFacts DEF TypeOK
<1>1. thread[1] \in Writing /\ writing[thread[1]].filled /\ text.tmp = "absent"
  BY DEF ReplaceFails, WritesFor, Writing
<1> QED
  BY <1>1 DEF DocumentInv, OneWriter

LEMMA DocumentStop ==
  ASSUME TypeOK, DocumentInv, NEW p \in Processes, StopWriting(p), UNCHANGED clash,
         ended' \subseteq ended
  PROVE  DocumentInv'
<1>1. /\ Writing' \subseteq Writing
      /\ \A q \in Writing' : writing'[q] = writing[q]
      /\ text' = text
  BY DEF TypeOK, StopWriting, Writing
<1>2. OneWriter => OneWriter'
  BY <1>1 DEF OneWriter
<1> QED
  BY <1>1, <1>2 DEF DocumentInv, Readable

LEMMA DocumentStep == TypeOK /\ DocumentInv /\ [Next]_vars => DocumentInv'
<1> SUFFICES ASSUME TypeOK, DocumentInv, [Next]_vars PROVE DocumentInv'
  OBVIOUS
<1> USE ThreadFacts
<1>1. ASSUME NEW thread \in Threads, SaveStep(thread)
      PROVE  DocumentInv'
  <2>1. CASE Open(thread)
    BY <2>1, DocumentSave DEF Open, runVars
  <2>2. CASE Fill(thread)
    BY <2>2, DocumentFill DEF Fill, runVars
  <2>3. CASE Replace(thread)
    BY <2>3, DocumentReplace DEF Replace
  <2>4. CASE ReplaceRaises(thread)
    BY <2>4, NoReplaceRaises DEF ReplaceRaises, DocumentInv
  <2> QED
    BY <1>1, <2>1, <2>2, <2>3, <2>4 DEF SaveStep
<1>2. ASSUME NEW run \in Runs, RunNext(run)
      PROVE  DocumentInv'
  <2>1. CASE SaveStep(run)
    BY <1>1, <2>1
  <2>2. CASE Flush(run) \/ Finish(run)
    BY <2>2, DocumentSave DEF Flush, Finish
  <2>3. CASE HandlerRaises(run)
    BY <2>3 DEF HandlerRaises, DocumentInv
  <2>4. CASE Acquire(run) \/ SkipTurn(run) \/ Load(run) \/ Handle(run)
    BY <2>4, DocumentUntouched DEF Acquire, SkipTurn, Load, Handle
  <2>5. CASE Raise(run)
    BY <2>5, DocumentUntouched DEF Raise
  <2> QED
    BY <1>2, <2>1, <2>2, <2>3, <2>4, <2>5 DEF RunNext, RunStep
<1>3. ASSUME NEW request \in Requests, RequestNext(request)
      PROVE  DocumentInv'
  <2>1. CASE SaveStep(request)
    BY <1>1, <2>1
  <2>2. CASE \/ Trigger(request) \/ ProbeEnds(request)
             \/ \E t \in TaskNames : Probe(request, t)
    BY <2>2, DocumentUntouched DEF Trigger, ProbeEnds, Probe
  <2> QED
    BY <1>3, <2>1, <2>2 DEF RequestNext
<1>4. ASSUME NEW p \in Processes, Crash(p)
      PROVE  DocumentInv'
  BY <1>4, DocumentStop DEF Crash
<1>5. ASSUME NEW p \in Processes, Restart(p)
      PROVE  DocumentInv'
  BY <1>5, DocumentUntouched DEF Restart
<1>6. CASE UNCHANGED vars
  BY <1>6, DocumentUntouched DEF vars, runVars
<1> QED
  BY <1>2, <1>3, <1>4, <1>5, <1>6 DEF Next

(* index.json and the schedulers survive whatever happens, as long as no   *)
(* two processes write at once.                                            *)
THEOREM DocumentIsSafe == Spec => []DocumentSurvives
<1>1. Init => Inv /\ DocumentInv
  BY InitInv, DocumentInvInit
<1>2. (Inv /\ DocumentInv) /\ [Next]_vars => (Inv /\ DocumentInv)'
  BY InvStep, DocumentStep DEF Inv
<1>3. DocumentInv => DocumentSurvives
  BY DEF DocumentInv, DocumentSurvives
<1> QED
  BY <1>1, <1>2, <1>3, PTL DEF Spec
==============================================================================
