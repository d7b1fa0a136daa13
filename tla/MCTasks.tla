------------------------------- MODULE MCTasks -------------------------------
(* The gunicorn master with both schedulers, a worker that serves requests *)
(* and runs a sync on demand; and one process with the schedulers alone.   *)
EXTENDS Tasks

CONSTANTS master, worker

MasterThreads == {<<master, "sync">>, <<master, "verify">>}
AllThreads    == MasterThreads \cup {<<worker, "sync">>, <<worker, "web">>}
==============================================================================
