----------------------------- MODULE CallServer -----------------------------
(***************************************************************************)
(* What the server tells each of its callers: one answer, and for a stream *)
(* that was accepted its three events, in order and none before the        *)
(* answer is made.  Tasks, sessions and frames are left out: this is where *)
(* the handlers end and the session begins.                                *)
(***************************************************************************)
EXTENDS Naturals, Sequences

CONSTANT Call   \* the calls

VARIABLES
  streaming,  \* does the card offer streaming?
  method,     \* "rpc", "send", "stream" or "resub"
  answer,     \* "none" yet, "task" or "error"
  open,       \* has a stream been opened for the call?
  told        \* the events told to the caller so far

serverVars == <<streaming, method, answer, open, told>>

Order == <<"status", "artifact", "final">>

\* A gate may refuse streams and resubscriptions, and refuses all of them;
\* resubscribe refuses nothing else.
Admitted(c, a) ==
  /\ method[c] \in {"stream", "resub"} /\ ~streaming => a = "error"
  /\ method[c] = "resub" /\ streaming => a = "task"

Init ==
  /\ streaming \in BOOLEAN
  /\ method \in [Call -> {"rpc", "send", "stream", "resub"}]
  /\ answer = [c \in Call |-> "none"]
  /\ open = [c \in Call |-> FALSE]
  /\ told = [c \in Call |-> <<>>]

\* Not every stream that is accepted has events: one that asks for
\* authentication has none.
Answer(c, a) ==
  /\ answer[c] = "none" /\ Admitted(c, a)
  /\ answer' = [answer EXCEPT ![c] = a]
  /\ open' \in {open} \cup
       IF method[c] = "stream" /\ a = "task" THEN {[open EXCEPT ![c] = TRUE]} ELSE {}
  /\ UNCHANGED <<streaming, method, told>>

Tell(c) ==
  /\ open[c] /\ Len(told[c]) < Len(Order)
  /\ told' = [told EXCEPT ![c] = Append(@, Order[Len(@) + 1])]
  /\ UNCHANGED <<streaming, method, answer, open>>

Next == \E c \in Call : Tell(c) \/ \E a \in {"task", "error"} : Answer(c, a)

Spec == Init /\ [][Next]_serverVars
=============================================================================
