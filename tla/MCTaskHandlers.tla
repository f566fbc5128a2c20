--------------------------- MODULE MCTaskHandlers ---------------------------
(***************************************************************************)
(* TaskHandlers for TLC: what the clients of each instance ask.  A request *)
(* names no task, or the first or second one: tasks that exist, do not     *)
(* exist yet, or never will by the time the request is read.               *)
(***************************************************************************)
EXTENDS DocumentClaims, TLC

MCSymmetry == Permutations(Req)

Ask(fam, op, taskId, msg) ==
  [fam |-> fam, op |-> op, taskId |-> taskId, msg |-> msg]

t1 == formatID(1)
t2 == formatID(2)

\* Messages with and without a task id, with and without authentication.
Messages(fam, ids) ==
  { Ask(fam, op, id, msg) : op \in {"send", "stream"}, id \in ids,
                            msg \in {"plain", "auth"} }
Reads(fam, ops, ids) == { Ask(fam, op, id, "none") : op \in ops, id \in ids }

\* opsImpl: every operation, on a new task or on the first one.
ImplRequests ==
  Messages("impl", {NoId, t1})
    \cup Reads("impl", {"get", "cancel", "resub"}, {t1})
    \cup Reads("impl", {"send", "resub"}, {NoId})

\* DefaultOperations beside the plain JSON-RPC handlers.
DefaultRequests ==
  { j \in Messages("default", {NoId, t1}) : j.msg = "plain" }
    \cup { Ask("rpc", "send", NoId, "plain"), Ask("rpc", "cancel", t1, "none") }
    \cup Reads("default", {"get", "cancel", "resub"}, {t1})
    \cup Reads("rpc", {"resub"}, {t1, NoId})

\* The callback of the README's example beside the plain JSON-RPC handlers,
\* streaming off.
HookedRequests ==
  { Ask(fam, "send", id, "plain") : fam \in {"hooked", "rpc"}, id \in {NoId, t1} }
    \cup Reads("hooked", {"get", "cancel"}, {t1, NoId})
    \cup Reads("rpc", {"get", "cancel"}, {t2, NoId})
    \cup { Ask("hooked", "stream", t1, "plain") }

\* A stream and whatever may get in its way.
StreamRequests ==
  { Ask("default", "stream", NoId, "plain"), Ask("default", "send", t1, "plain"),
    Ask("default", "cancel", t1, "none") }
=============================================================================
