--------------------------- MODULE DocumentClaims ---------------------------
(***************************************************************************)
(* What the documents of the repository say of tasks and the handlers do   *)
(* not do.  Each definition quotes its source; a run of TLC shows how the  *)
(* code departs from it.  NoRestart of TaskProperties is one of them when  *)
(* streaming is on.                                                        *)
(***************************************************************************)
EXTENDS TaskProperties

\* tasks.go:17 "state transition history per task"; capabilities.go:10 "a
\* history of state transitions for a task": once all is quiet, the last
\* entry of the history is the state of the task.
HistoryAtRest == Quiescent => HistoryCurrent

\* spec.txt:1061 message/stream "subscribes the client to real-time updates
\* for that task": when the goroutine of a stream has ended, the session has
\* received an update.
StreamIsUpdated == \A r \in Req : gpc[r] = "end" => sent[r] # <<>>
=============================================================================
