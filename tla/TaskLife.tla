------------------------------ MODULE TaskLife ------------------------------
(***************************************************************************)
(* What a client may rely on, with the handlers' statements left out: a    *)
(* task is opened, ends once and for all, and has output only after it     *)
(* ended; a request is served with a task that exists, and a message/send  *)
(* with one that has ended and has output.                                 *)
(***************************************************************************)
CONSTANTS
  Task,    \* the tasks
  Req,     \* the requests
  Nil      \* no task

VARIABLES
  sends,   \* which requests are message/send
  phase,   \* "absent", "live" or "ended", per task
  output,  \* does the task have artifacts?
  served   \* the task each request was answered with, or Nil

vars == <<sends, phase, output, served>>

Init ==
  /\ sends \in SUBSET Req
  /\ phase = [t \in Task |-> "absent"]
  /\ output = [t \in Task |-> FALSE]
  /\ served = [r \in Req |-> Nil]

Open(t) ==
  /\ phase[t] = "absent"
  /\ phase' = [phase EXCEPT ![t] = "live"]
  /\ UNCHANGED <<sends, output, served>>

Finish(t) ==
  /\ phase[t] = "live"
  /\ phase' = [phase EXCEPT ![t] = "ended"]
  /\ UNCHANGED <<sends, output, served>>

Produce(t) ==
  /\ phase[t] = "ended"
  /\ output' = [output EXCEPT ![t] = TRUE]
  /\ UNCHANGED <<sends, phase, served>>

Answer(r, t) ==
  /\ served[r] = Nil
  /\ phase[t] # "absent"
  /\ r \in sends => phase[t] = "ended" /\ output[t]
  /\ served' = [served EXCEPT ![r] = t]
  /\ UNCHANGED <<sends, phase, output>>

Next ==
  \/ \E t \in Task : Open(t) \/ Finish(t) \/ Produce(t)
  \/ \E r \in Req, t \in Task : Answer(r, t)

Spec == Init /\ [][Next]_vars
=============================================================================
