---------------------------- MODULE StateDocument ----------------------------
(***************************************************************************)
(* index.json, the one document all tasks and web requests of all          *)
(* processes load, change and write back whole (state.py), at the level of *)
(* the files: a writer fills index.json.tmp and renames it.                *)
(*                                                                         *)
(* Writers of one process take turns (StateManager._lock).  Writers of two *)
(* processes do not, and they use the same temporary name.                 *)
(***************************************************************************)
EXTENDS Naturals, FiniteSets

CONSTANTS
  Processes,  \* the processes of the service: the gunicorn master, its workers
  Null

VARIABLES
  text,     \* what index.json and its temporary file hold
  writing   \* per process: the write in progress, or Null

documentVars == <<text, writing>>

(* Of a file's text only whether it is a document counts here.             *)
Texts == {"whole", "torn", "empty", "absent"}

DocumentInit ==
  /\ text = [state |-> "whole", tmp |-> "absent"]
  /\ writing = [p \in Processes |-> Null]

(* load() returns what it finds; anything but a whole document raises.     *)
Readable == text.state = "whole"

Write(thread) == [by |-> thread, at |-> "tmp", filled |-> FALSE]

MayWrite(p) == writing[p] = Null
WritesFor(thread) == writing[thread[1]] # Null /\ writing[thread[1]].by = thread

-----------------------------------------------------------------------------
\* MUTANT: index.json is written in place.
Mutant_OpenTmp(thread) ==
  /\ writing' = [writing EXCEPT ![thread[1]] = [Write(thread) EXCEPT !.at = "state"]]
  /\ text' = [text EXCEPT !.state = "empty"]

(* write_text opens the temporary file, which truncates one that is there. *)
OpenTmp(thread) ==
  /\ writing' = [writing EXCEPT ![thread[1]] = Write(thread)]
  /\ text' = [text EXCEPT !.tmp = "empty"]

(* The bytes go to the file that was opened, under the name it has by now. *)
(* Over the bytes of another writer they leave its longer tail behind.     *)
FillTmp(thread) ==
  LET w == writing[thread[1]] IN
  /\ WritesFor(thread) /\ ~w.filled
  /\ writing' = [writing EXCEPT ![thread[1]].filled = TRUE]
  /\ IF w.at = "unlinked"
     THEN UNCHANGED text
     ELSE \E t \in IF text[w.at] = "empty" THEN {"whole"} ELSE {"whole", "torn"} :
            text' = [text EXCEPT ![w.at] = t]

(* replace(): whoever is still writing the temporary file writes index.json*)
(* from now on, and whoever was writing the old one writes to no name.     *)
Renamed(w) ==
  IF w = Null THEN Null
  ELSE [w EXCEPT !.at = IF @ = "tmp" THEN "state" ELSE "unlinked"]

ReplaceOk(thread) ==
  /\ WritesFor(thread) /\ writing[thread[1]].filled
  /\ text.tmp # "absent"
  /\ text' = [state |-> text.tmp, tmp |-> "absent"]
  /\ writing' = [p \in Processes |-> IF p = thread[1] THEN Null ELSE Renamed(writing[p])]

(* The other process has renamed the file: FileNotFoundError.              *)
ReplaceFails(thread) ==
  /\ WritesFor(thread) /\ writing[thread[1]].filled
  /\ text.tmp = "absent"
  /\ writing' = [writing EXCEPT ![thread[1]] = Null]
  /\ UNCHANGED text

(* The process dies in the middle of a write.                              *)
StopWriting(p) ==
  /\ writing' = [writing EXCEPT ![p] = Null]
  /\ UNCHANGED text
==============================================================================
