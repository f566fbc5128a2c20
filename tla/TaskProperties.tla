--------------------------- MODULE TaskProperties ---------------------------
(***************************************************************************)
(* What the handlers of TaskHandlers promise, and what the specification   *)
(* in src/schema/spec.txt says of them.  The first part holds for every    *)
(* family of handlers, the second for those that never share a task        *)
(* between two messages ("default", "hooked", "rpc"), the third is what    *)
(* the documents say and the code does not do.                             *)
(***************************************************************************)
EXTENDS TaskHandlers

State(o) == heap[o].state
Reached(r, o) == IsMessage(req[r]) /\ task[r] = o

\* message/stream is past its lookup and has not touched the task yet.
StreamToStart(r) ==
  \/ /\ pc[r] \in {"marshal", "marshalArts"}
     /\ req[r].op = "stream" /\ ~AsksAuth(req[r])
  \/ gpc[r] = "running"

\* r will still write something other than "running" to the task's state.
WillFinish(r) ==
  \/ pc[r] \in {"touch", "status", "state"}
  \/ StreamToStart(r)
  \/ gpc[r] \in {"sendStatus", "sendArtifact", "completed"}

\* A task that says it is running has somebody working on it: whatever the
\* interleaving of sends, streams and cancels, the last writer of "running"
\* is still to write an outcome (ops_impl.go:63,73,270,275).
RunningHasWorker ==
  \A o \in Object : State(o) = "running" =>
    \E r \in Req : Reached(r, o) /\ WillFinish(r)

\* r has a statement to go that gives the task its artifact.
Assigning(r) == pc[r] \in {"clear", "artifacts"} \/ gpc[r] \in {"load", "store"}

\* A completed task without artifacts is one whose writer is between its two
\* assignments: no interleaving loses the last artifact of a completed task
\* (ops_impl.go:73-74, 275-276).
CompletedHasArtifact ==
  \A o \in Object : State(o) = "completed" /\ arts[o] = <<>> =>
    \E r \in Req : Reached(r, o) /\ Assigning(r)

\* Terminal, and no message that found the task alive can still reopen it.
Settled(o) ==
  /\ isTerminal(State(o))
  /\ \A r \in Req : Reached(r, o) => pc[r] # "touch" /\ ~StreamToStart(r)

\* A task that has settled stays settled: the terminal check of the lookup
\* keeps every later message out (ops_impl.go:50, 98).
SettledForever == [][\A o \in Object : Settled(o) => Settled(o)']_vars

\* r, a message/send of opsImpl that demands nothing, is past the Message
\* half of its assignment of Status.
Cleared(r) ==
  /\ req[r].op = "send" /\ ~AsksAuth(req[r])
  /\ pc[r] \in {"state", "artifacts", "put", "marshal", "marshalArts", "done"}

\* A task that requires authentication says which: its message is there, or
\* one of those that asked for it is about to set it, or a message/send that
\* completes the same task has taken it away.  Only that torn assignment of
\* Status can: no cancel, no stream and no second demand loses the message
\* (ops_impl.go:63-64, 73, 110-111, 275).
AuthRequiredHasMessage ==
  \A o \in Object : State(o) = "auth-required" /\ ~note[o] =>
    \E r \in Req : Reached(r, o) /\ (pc[r] = "message" \/ Cleared(r))

\* Every task comes to rest: whatever is sent, its state is eventually never
\* "running" again, under the fairness of the Go scheduler.
TasksComeToRest ==
  \A o \in Object : seq >= o ~> [](State(o) # "running")

\* A request that was received is answered.
Answered == \A r \in Req : pc[r] # "idle" ~> resp[r].code # Pending

FinalSent(r) == \E i \in 1..Len(sent[r]) : sent[r][i].final

\* An accepted message/stream that needs no authentication ends with a final
\* event (ops_impl.go:278), also when its task is canceled meanwhile.
StreamsFinish ==
  \A r \in Req :
    gpc[r] = "running" ~> FinalSent(r)

\* At most how many statements a handler and its goroutine have to go.
HandlerLeft == [idle |-> 8, create |-> 7, touch |-> 5, message |-> 4, status |-> 6,
                clear |-> 5, state |-> 5, artifacts |-> 4, cancel |-> 4, put |-> 3,
                marshal |-> 2, marshalArts |-> 1, done |-> 0]
GoLeft == [none |-> 9, running |-> 8, sendStatus |-> 7, sendArtifact |-> 6,
           completed |-> 5, load |-> 4, store |-> 3, put |-> 2, sendFinal |-> 1,
           notify |-> 1, end |-> 0]
Left(r) == HandlerLeft[pc[r]] + GoLeft[gpc[r]]

\* Every step uses up statements of one request and gives none to another:
\* nothing a handler meets, a cancel or a second stream on its task among it,
\* sends it back or makes it wait its turn (ops_impl.go:37-123, 265-279).
WorkShrinks ==
  [][\E r \in Req : /\ Left(r)' < Left(r)
                    /\ \A q \in Req \ {r} : Left(q)' = Left(q)]_vars

(***************************************************************************)
(* The service every family implements, streams and shared tasks included. *)
(***************************************************************************)

CrewPhase(o) == IF heap[o] = Blank THEN "absent"
                ELSE IF State(o) = "running" THEN "working"
                ELSE IF State(o) \in {"completed", "canceled"} THEN State(o)
                ELSE "waiting"

Fresh(r) == IsMessage(req[r]) /\ task[r] = Nil
CrewOf(o) == { r \in Req : Reached(r, o) /\ WillFinish(r) }
OwingOf(o) == { r \in Req : Reached(r, o) /\ Assigning(r) }

Crew == INSTANCE TaskCrew WITH
  Task <- Object,
  fresh <- { r \in Req : Fresh(r) },
  phase <- [o \in Object |-> CrewPhase(o)],
  crew <- [o \in Object |-> CrewOf(o)],
  owing <- [o \in Object |-> OwingOf(o)],
  output <- [o \in Object |-> arts[o] # <<>>]

\* The statements of handlers and goroutines, however they interleave on one
\* task, are the seven actions of TaskCrew: nobody joins a task that has
\* ended or enters it twice, only its crew sets it working, completes it or
\* makes it wait, whoever completes it gives it its output, and output is
\* never taken away (ops_impl.go:37-123, 265-279; default_ops.go:123-266).
CrewSpec == Crew!Spec

(***************************************************************************)
(* What the callers are told.  Only the callers of an Operations with a    *)
(* session can have streams.                                               *)
(***************************************************************************)
MethodOf(r) == IF req[r].fam = "rpc" \/ req[r].op \in {"get", "cancel"}
               THEN "rpc" ELSE req[r].op
AnswerOf(r) == IF resp[r].code = Pending THEN "none"
               ELSE IF resp[r].code = Result THEN "task" ELSE "error"
StreamOpen(r) ==
  req[r].op = "stream" /\ ~AsksAuth(req[r]) /\ gpc[r] # "none"
Kind(e) == IF e.final THEN "final"
           ELSE IF e.kind = "status-update" THEN "status" ELSE "artifact"
ToldTo(r) == [i \in 1..Len(sent[r]) |-> Kind(sent[r][i])]

Server == INSTANCE CallServer WITH
  Call <- Req,
  streaming <- Streaming,
  method <- [r \in Req |-> MethodOf(r)],
  answer <- [r \in Req |-> AnswerOf(r)],
  open <- [r \in Req |-> StreamOpen(r)],
  told <- [r \in Req |-> ToldTo(r)]

\* Whatever happens to the tasks, every caller is told what CallServer says:
\* one answer the gates admit, then the events of its stream, in order
\* (ops_impl.go:37-123, 265-279; default_ops.go:123-266; jsonrpc.go:162-257).
CallersAreTold == Server!Spec

-----------------------------------------------------------------------------
(***************************************************************************)
(* Families in which every message works on a task of its own.             *)
(***************************************************************************)

\* The answer to message/send is a task that has ended and carries output,
\* also when it is canceled while it is worked on (default_ops.go:154-157).
SendAnswersEnded ==
  \A r \in Req : req[r].op = "send" /\ resp[r].code = Result =>
    isTerminal(resp[r].state) /\ resp[r].arts # <<>>

\* The final event of a stream reports a terminal state, and by then the
\* task holds the artifact the stream announced (default_ops.go:252-255).
FinalEventTerminal ==
  \A r \in Req : \A i \in 1..Len(sent[r]) : sent[r][i].final =>
    /\ isTerminal(sent[r][i].state)
    /\ \E k \in 1..Len(arts[task[r]]) : arts[task[r]][k].from = r

\* The artifacts of a task have ids of their own (spec.txt:891, "A unique
\* identifier (e.g. UUID) for the artifact within the scope of the task"),
\* though every artifact of a task is given one and the same id: it never
\* gets a second one (default_ops.go:152-155, 249-253).
ArtifactIdsUnique ==
  \A o \in Object : \A i, k \in 1..Len(arts[o]) :
    arts[o][i].id = arts[o][k].id => i = k

\* Without streaming a task that has ended never leaves the terminal states:
\* spec.txt:650, "A task which has reached a terminal state (completed,
\* canceled, rejected, or failed) can't be restarted."
NoRestart ==
  [][\A o \in Object : isTerminal(State(o)) => isTerminal(State(o))']_vars

(***************************************************************************)
(* The service those families implement when streaming is off.             *)
(***************************************************************************)
Phase(o) == IF heap[o] = Blank THEN "absent"
            ELSE IF isTerminal(State(o)) THEN "ended" ELSE "live"

Life == INSTANCE TaskLife WITH
  Task <- Object,
  sends <- { r \in Req : req[r].op = "send" },
  phase <- [o \in Object |-> Phase(o)],
  output <- [o \in Object |-> arts[o] # <<>>],
  served <- [r \in Req |-> IF resp[r].code = Result THEN task[r] ELSE Nil]

LifeSpec == Life!Spec
=============================================================================
