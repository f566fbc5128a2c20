----------------------------- MODULE CallService -----------------------------
(***************************************************************************)
(* What a client may rely on when it makes overlapping calls, whatever     *)
(* carries them: the service answers a call once and reports the events of *)
(* an accepted stream after that, in order; a call returns at most once,   *)
(* and what it returns has been said before, on its own behalf when ids    *)
(* are known.  When they are not, a call on the session may be handed the  *)
(* event of a stream instead, and nothing worse.                           *)
(***************************************************************************)
CONSTANT Call   \* the calls, each made once

VARIABLES
  known,    \* do handlers know the id of their request?
  method,   \* "rpc", "send", "stream" or "resub"
  pc,       \* "idle", "waiting" or "returned"
  said,     \* what has been said on behalf of each call
  result    \* what each call was answered with

serviceVars == <<known, method, pc, said, result>>

Nothing == [from |-> "nobody"]
StreamEvents == {"status", "artifact", "final"}

\* What has been said on behalf of a call before x is.
Before(x) == CASE x \in {"task", "error"} -> {}
               [] x = "status" -> {"task"}
               [] x = "artifact" -> {"task", "status"}
               [] x = "final" -> {"task", "status", "artifact"}

Init ==
  /\ known \in BOOLEAN
  /\ method \in [Call -> {"rpc", "send", "stream", "resub"}]
  /\ pc = [c \in Call |-> "idle"]
  /\ said = [c \in Call |-> {}]
  /\ result = [c \in Call |-> Nothing]

Ask(c) ==
  /\ pc[c] = "idle"
  /\ pc' = [pc EXCEPT ![c] = "waiting"]
  /\ UNCHANGED <<known, method, said, result>>

\* Only a stream has events; the service goes on when the caller gives up.
Say(c, x) ==
  /\ pc[c] # "idle"
  /\ said[c] = Before(x)
  /\ x \in StreamEvents => method[c] = "stream"
  /\ said' = [said EXCEPT ![c] = @ \cup {x}]
  /\ UNCHANGED <<known, method, pc, result>>

\* May call c be handed x, said on behalf of d?
MayHand(c, d, x) ==
  d # c => ~known /\ method[c] # "rpc" /\ x \in StreamEvents

Hand(c, d, x) ==
  /\ pc[c] = "waiting"
  /\ x \in said[d] /\ MayHand(c, d, x)
  /\ pc' = [pc EXCEPT ![c] = "returned"]
  /\ result' = [result EXCEPT ![c] = [from |-> d, body |-> x]]
  /\ UNCHANGED <<known, method, said>>

Abandon(c) ==
  /\ pc[c] = "waiting"
  /\ pc' = [pc EXCEPT ![c] = "returned"]
  /\ UNCHANGED <<known, method, said, result>>

Next == \E c \in Call :
  \/ Ask(c) \/ Abandon(c)
  \/ \E x \in StreamEvents \cup {"task", "error"} :
       Say(c, x) \/ \E d \in Call : Hand(c, d, x)

Spec == Init /\ [][Next]_serviceVars
=============================================================================
