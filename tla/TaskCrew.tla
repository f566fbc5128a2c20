------------------------------ MODULE TaskCrew ------------------------------
(***************************************************************************)
(* The life of a task that several messages may work on, with the          *)
(* handlers' statements left out.  A message opens a task or joins one     *)
(* that is alive, once; from then on it belongs to the task's crew until   *)
(* it writes an outcome.  Whoever completes a task owes it an output.  A   *)
(* cancel comes from outside the crew, which works on all the same.        *)
(***************************************************************************)
CONSTANTS
  Task,    \* the tasks
  Req      \* the messages

VARIABLES
  fresh,   \* messages that have no task yet
  phase,   \* "absent", "working", "waiting", "completed" or "canceled"
  crew,    \* who will still write an outcome to the task
  owing,   \* who has completed the task and still owes the output
  output   \* does the task have artifacts?

vars == <<fresh, phase, crew, owing, output>>

Init ==
  /\ fresh \in SUBSET Req
  /\ phase = [t \in Task |-> "absent"]
  /\ crew = [t \in Task |-> {}]
  /\ owing = [t \in Task |-> {}]
  /\ output = [t \in Task |-> FALSE]

Become(t, p) == phase' = [phase EXCEPT ![t] = p]
Enlist(r, t) == /\ r \in fresh
                /\ fresh' = fresh \ {r}
                /\ crew' = [crew EXCEPT ![t] = @ \cup {r}]
Leave(r, t) == /\ r \in crew[t]
               /\ crew' = [crew EXCEPT ![t] = @ \ {r}]

Open(r, t) ==
  /\ phase[t] = "absent"
  /\ Enlist(r, t)
  /\ Become(t, "working")
  /\ UNCHANGED <<owing, output>>

Join(r, t) ==
  /\ phase[t] \in {"working", "waiting"}
  /\ Enlist(r, t)
  /\ UNCHANGED <<phase, owing, output>>

\* A member may set the task working again, whatever became of it.
Resume(r, t) ==
  /\ r \in crew[t]
  /\ Become(t, "working")
  /\ UNCHANGED <<fresh, crew, owing, output>>

Demand(r, t) ==
  /\ Leave(r, t)
  /\ Become(t, "waiting")
  /\ UNCHANGED <<fresh, owing, output>>

Complete(r, t) ==
  /\ Leave(r, t)
  /\ Become(t, "completed")
  /\ owing' = [owing EXCEPT ![t] = @ \cup {r}]
  /\ UNCHANGED <<fresh, output>>

Deliver(r, t) ==
  /\ r \in owing[t]
  /\ owing' = [owing EXCEPT ![t] = @ \ {r}]
  /\ output' = [output EXCEPT ![t] = TRUE]
  /\ UNCHANGED <<fresh, phase, crew>>

Cancel(t) ==
  /\ phase[t] # "absent"
  /\ Become(t, "canceled")
  /\ UNCHANGED <<fresh, crew, owing, output>>

Next ==
  \/ \E r \in Req, t \in Task :
       \/ Open(r, t) \/ Join(r, t) \/ Resume(r, t)
       \/ Demand(r, t) \/ Complete(r, t) \/ Deliver(r, t)
  \/ \E t \in Task : Cancel(t)

Spec == Init /\ [][Next]_vars
=============================================================================
