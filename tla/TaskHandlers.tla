---------------------------- MODULE TaskHandlers ----------------------------
(***************************************************************************)
(* The request handlers of the server and the goroutines they start, all   *)
(* working on the tasks of one TaskStore:                                  *)
(*                                                                         *)
(*   "impl"     opsImpl, the default Operations (server/ops_impl.go);      *)
(*   "default"  DefaultOperations (server/default_ops.go);                 *)
(*   "hooked"   DefaultOperations with the OnMessageSend callback of the   *)
(*              README's example: NewTask, then CompleteText               *)
(*              (server/default.go);                                       *)
(*   "rpc"      the handlers of Server behind RegisterJSONRPC and          *)
(*              RegisterREST (server/jsonrpc.go, server/rest.go).          *)
(*                                                                         *)
(* net/http runs every request in a goroutine of its own, and the store's  *)
(* mutex does not cover the task a handler got from the store.  One step   *)
(* is one access to one field of a shared task, or one call of the store:  *)
(* an assignment of the whole Status is two (State and Message, in the     *)
(* order the build chooses), json.Marshal, which walks the task's fields   *)
(* in order, is two (Status, then Artifacts), and so is an append to       *)
(* Artifacts (the slice is loaded, then stored).                           *)
(***************************************************************************)
EXTENDS TaskStore, Integers

CONSTANTS
  Req,        \* the requests of a run, each sent once
  Requests,   \* what a request may ask
  Streaming   \* card.StreamingSupported()

Family == {"impl", "default", "hooked", "rpc"}
Op == {"send", "stream", "get", "cancel", "resub"}

\* msg: "none" when messages is empty, "auth" when a part requires secondary
\* authentication and none carries a token (detectSecondaryAuth).
Request == [fam : Family, op : Op, taskId : Id \cup {NoId},
            msg : {"none", "plain", "auth"}]

\* One Operations serves a server, next to the plain JSON-RPC handlers, which
\* have no message/stream.
ASSUME RequestsServed ==
  /\ Requests \subseteq Request
  /\ \A j \in Requests : ~(j.fam = "rpc" /\ j.op = "stream")
  /\ \A j, k \in Requests : "rpc" \in {j.fam, k.fam} \/ j.fam = k.fam
ASSUME StreamingBool == Streaming \in BOOLEAN
\* Handlers write through the pointers the store holds.
ASSUME WritesInPlace ==
  /\ InPlace /\ AppObjects = {}
  /\ {"running", "completed", "canceled", "auth-required"} \subseteq States

Pending == 1                      \* no response yet
Result == 0                       \* response.Result
StreamingNotSupported == -32002
NotFound == -32004
InTerminalState == -32006
InvalidParams == -32602
HttpNotFound == 404
Code == {Pending, Result, StreamingNotSupported, NotFound, InTerminalState,
         InvalidParams, HttpNotFound}

VARIABLES
  req,     \* what each request asks
  pc,      \* where its handler is
  task,    \* the handler's variable task
  gpc,     \* where the goroutine it started is
  loaded,  \* the slice that goroutine has loaded to append to
  note,    \* is Status.Message of a task set?
  arts,    \* Artifacts of a task
  resp,    \* response, as far as it is filled in
  sent     \* events sent to the session of the request

callVars == <<req, pc, task, resp>>
goVars == <<gpc, loaded, sent>>
vars == <<storeVars, callVars, goVars, note, arts>>

\* "a-" + task.ID, and the request that made the artifact.
artifact(r) == [id |-> <<"a", heap[task[r]].id>>, from |-> r]
Artifact == [id : {"a"} \X Id, from : Req]
StatusEvent(o, final) ==
  [kind |-> "status-update", state |-> heap[o].state, final |-> final]
ArtifactEvent == [kind |-> "artifact-update", state |-> "", final |-> FALSE]
Event == [kind : {"status-update", "artifact-update"},
          state : TaskState \cup {""}, final : BOOLEAN]

\* The response of a handler, as far as its Task has been marshalled.
Response == [code : Code, state : TaskState \cup {""}, arts : Seq(Artifact)]

HandlerPC == {"idle", "create", "touch", "message", "status", "clear", "state",
              "artifacts", "cancel", "put", "marshal", "marshalArts", "done"}
GoPC == {"none", "notify", "running", "sendStatus", "sendArtifact",
         "completed", "load", "store", "put", "sendFinal", "end"}

HandlersTypeOK ==
  /\ StoreTypeOK
  /\ req \in [Req -> Requests]
  /\ pc \in [Req -> HandlerPC]
  /\ task \in [Req -> Object \cup {Nil}]
  /\ gpc \in [Req -> GoPC]
  /\ loaded \in [Req -> Seq(Artifact)]
  /\ note \in [Object -> BOOLEAN]
  /\ arts \in [Object -> Seq(Artifact)]
  /\ resp \in [Req -> Response]
  /\ sent \in [Req -> Seq(Event)]

Reply(code) == [code |-> code, state |-> "", arts |-> <<>>]

Init ==
  /\ StoreInit
  /\ req \in [Req -> Requests]
  /\ pc = [r \in Req |-> "idle"]
  /\ task = [r \in Req |-> Nil]
  /\ gpc = [r \in Req |-> "none"]
  /\ loaded = [r \in Req |-> <<>>]
  /\ note = [o \in Object |-> FALSE]
  /\ arts = [o \in Object |-> <<>>]
  /\ resp = [r \in Req |-> Reply(Pending)]
  /\ sent = [r \in Req |-> <<>>]

-----------------------------------------------------------------------------
(***************************************************************************)
(* The beginning of a request: capability gate, parameters, lookup.        *)
(***************************************************************************)

IsMessage(j) == j.op \in {"send", "stream"}

\* The auth-required branch of opsImpl; the other families have none.
AsksAuth(j) == j.fam = "impl" /\ IsMessage(j) /\ j.msg = "auth"

\* The parameters a handler rejects.  The resubscribe of Operations accepts
\* a missing id.
Malformed(j) ==
  \/ IsMessage(j) /\ j.msg = "none"
  \/ j.taskId = NoId /\ j.op \in {"get", "cancel"}

\* The resubscribe of Server is reached through REST only, whose path must
\* have an id.
NoPath(j) == j.fam = "rpc" /\ j.op = "resub" /\ j.taskId = NoId

Refusal(j) ==
  IF NoPath(j) THEN HttpNotFound
  ELSE IF j.op \in {"stream", "resub"} /\ ~Streaming THEN StreamingNotSupported
  ELSE IF Malformed(j) THEN InvalidParams ELSE Result

\* message/send of the rpc family and of the callback never read taskId.
ReadsTaskId(j) == j.fam \in {"impl", "default"} \/ j.op = "stream"

\* Faulty: the status is never assigned.
WorkWithoutStatus(j) == IF AsksAuth(j) THEN "touch"
                        ELSE IF j.op = "send" THEN "artifacts" ELSE "marshal"

\* The first statement after the task is known.
Work(j) == IF AsksAuth(j) THEN "touch"
           ELSE IF j.op = "send" THEN "status" ELSE "marshal"

Goto(r, to) == pc' = [pc EXCEPT ![r] = to]
Answer(r, code) == /\ Goto(r, "done")
                   /\ resp' = [resp EXCEPT ![r] = Reply(code)]

\* A request begins: its handler runs up to its lookup.
Begins(r) ==
  /\ pc[r] = "idle"
  /\ UNCHANGED <<storeVars, req, goVars, note, arts>>

Accepted(r) == Refusal(req[r]) = Result

Refuse(r) ==
  /\ Begins(r)
  /\ ~Accepted(r)
  /\ Answer(r, Refusal(req[r]))
  /\ UNCHANGED task

\* The task a message names, if its handler looks at the name and finds one.
Names(r) == ReadsTaskId(req[r]) /\ Known(req[r].taskId)
NamedState(r) == heap[items[req[r].taskId]].state

\* get and the read of Status.State after it are one step: the entry of an
\* id never changes while handlers write in place.
RejectTerminal(r) ==
  /\ Begins(r)
  /\ IsMessage(req[r]) /\ Accepted(r)
  /\ Names(r) /\ isTerminal(NamedState(r))
  /\ Answer(r, InTerminalState)
  /\ UNCHANGED task

\* Faulty: the terminal check is missing.
ContinueAnyTask(r) ==
  /\ Begins(r)
  /\ IsMessage(req[r]) /\ Accepted(r) /\ req[r].fam = "impl"
  /\ Names(r)
  /\ task' = [task EXCEPT ![r] = items[req[r].taskId]]
  /\ Goto(r, Work(req[r]))
  /\ UNCHANGED resp

\* Faulty: every family goes on with the task it found.
ContinueInAnyFamily(r) ==
  /\ Begins(r)
  /\ IsMessage(req[r]) /\ Accepted(r)
  /\ Names(r) /\ ~isTerminal(NamedState(r))
  /\ task' = [task EXCEPT ![r] = items[req[r].taskId]]
  /\ Goto(r, Work(req[r]))
  /\ UNCHANGED resp

\* opsImpl goes on with the task it found.
ContinueTask(r) ==
  /\ Begins(r)
  /\ IsMessage(req[r]) /\ Accepted(r) /\ req[r].fam = "impl"
  /\ Names(r) /\ ~isTerminal(NamedState(r))
  /\ task' = [task EXCEPT ![r] = items[req[r].taskId]]
  /\ Goto(r, Work(req[r]))
  /\ UNCHANGED resp

\* Nothing found, or a family that only checks what it found.
DecideToCreate(r) ==
  /\ Begins(r)
  /\ IsMessage(req[r]) /\ Accepted(r)
  /\ Names(r) => req[r].fam # "impl" /\ ~isTerminal(NamedState(r))
  /\ Goto(r, "create")
  /\ UNCHANGED <<task, resp>>

\* tasks/get, tasks/cancel and tasks/resubscribe that find their task.
FindTask(r) ==
  /\ Begins(r)
  /\ ~IsMessage(req[r]) /\ Accepted(r)
  /\ Known(req[r].taskId)
  /\ task' = [task EXCEPT ![r] = items[req[r].taskId]]
  /\ Goto(r, IF req[r].op = "cancel" THEN "cancel" ELSE "marshal")
  /\ UNCHANGED resp

\* Faulty: a resubscription that finds no task is refused.
MissAndRefuse(r) ==
  /\ Begins(r)
  /\ ~IsMessage(req[r]) /\ Accepted(r)
  /\ ~Known(req[r].taskId)
  /\ Answer(r, NotFound)
  /\ UNCHANGED task

\* ... and that do not: resubscribe of Operations answers all the same.
MissTask(r) ==
  /\ Begins(r)
  /\ ~IsMessage(req[r]) /\ Accepted(r)
  /\ ~Known(req[r].taskId)
  /\ Answer(r, IF req[r].op = "resub" /\ req[r].fam # "rpc" THEN Result
               ELSE NotFound)
  /\ UNCHANGED task

Serve(r) == \/ Refuse(r)
            \/ RejectTerminal(r)
            \/ ContinueTask(r)
            \/ DecideToCreate(r)
            \/ FindTask(r)
            \/ MissTask(r)

-----------------------------------------------------------------------------
(***************************************************************************)
(* The statements of a handler after its lookup.                           *)
(***************************************************************************)

At(r, from, to) == pc[r] = from /\ Goto(r, to)

CreateTask(r) ==
  /\ At(r, "create", Work(req[r]))
  /\ \E o \in Object : newTask(o) /\ task' = [task EXCEPT ![r] = o]
  /\ UNCHANGED <<req, resp, goVars, note, arts>>

\* Faulty: the message is forgotten.
TouchWithoutMessage(r) ==
  /\ At(r, "touch", "put")
  /\ SetState(task[r], "auth-required")
  /\ UNCHANGED <<req, task, resp, goVars, note, arts>>

\* task.Touch(TaskAuthRequired)
TouchAuthRequired(r) ==
  /\ At(r, "touch", "message")
  /\ SetState(task[r], "auth-required")
  /\ UNCHANGED <<req, task, resp, goVars, note, arts>>

\* Faulty: the handler returns without a response.
SetMessageAndReturn(r) ==
  /\ At(r, "message", "done")
  /\ note' = [note EXCEPT ![task[r]] = TRUE]
  /\ UNCHANGED <<storeVars, req, task, resp, goVars, arts>>

\* task.Status.Message = buildAuthMessage(authReq)
SetAuthMessage(r) ==
  /\ At(r, "message", "put")
  /\ note' = [note EXCEPT ![task[r]] = TRUE]
  /\ UNCHANGED <<storeVars, req, task, resp, goVars, arts>>

\* Faulty: the wrong state.
AssignRunning(r) ==
  /\ At(r, "status", "clear") \/ At(r, "state", "artifacts")
  /\ SetState(task[r], "running")
  /\ UNCHANGED <<req, task, resp, goVars, note, arts>>

\* task.Status = TaskStatus{State: TaskCompleted, ...} copies a struct, field
\* by field and under no lock: its State ...
AssignCompleted(r) ==
  /\ At(r, "status", "clear") \/ At(r, "state", "artifacts")
  /\ SetState(task[r], "completed")
  /\ UNCHANGED <<req, task, resp, goVars, note, arts>>

\* ... and its Message, which is nil; Go orders the two in no way.
ClearMessage(r) ==
  /\ At(r, "status", "state") \/ At(r, "clear", "artifacts")
  /\ note' = [note EXCEPT ![task[r]] = FALSE]
  /\ UNCHANGED <<storeVars, req, task, resp, goVars, arts>>

\* Faulty: no artifact.
AssignNoArtifacts(r) ==
  /\ At(r, "artifacts", "put")
  /\ UNCHANGED <<storeVars, req, task, resp, goVars, note, arts>>

\* task.Artifacts = []Artifact{artifact}
AssignArtifacts(r) ==
  /\ At(r, "artifacts", "put")
  /\ arts' = [arts EXCEPT ![task[r]] = <<artifact(r)>>]
  /\ UNCHANGED <<storeVars, req, task, resp, goVars, note>>

\* Faulty: a state that is none of the TaskState constants.
AssignCancelled(r) ==
  /\ At(r, "cancel", "put")
  /\ SetState(task[r], "cancelled")
  /\ UNCHANGED <<req, task, resp, goVars, note, arts>>

\* task.Status.State = TaskCanceled, whatever the state was.
AssignCanceled(r) ==
  /\ At(r, "cancel", "put")
  /\ SetState(task[r], "canceled")
  /\ UNCHANGED <<req, task, resp, goVars, note, arts>>

\* tasks.put, and for an auth-required stream the go statement after it.
PutTask(r) ==
  /\ At(r, "put", "marshal")
  /\ put(task[r])
  /\ gpc' = IF req[r].op = "stream" THEN [gpc EXCEPT ![r] = "notify"] ELSE gpc
  /\ UNCHANGED <<req, task, resp, loaded, sent, note, arts>>

MarshalStatus(r) ==
  /\ At(r, "marshal", "marshalArts")
  /\ resp' = [resp EXCEPT ![r].state = heap[task[r]].state]
  /\ UNCHANGED <<storeVars, req, task, goVars, note, arts>>

\* The response is complete; message/stream starts streamDemo.
MarshalArtifacts(r) ==
  /\ At(r, "marshalArts", "done")
  /\ resp' = [resp EXCEPT ![r].code = Result, ![r].arts = arts[task[r]]]
  /\ gpc' = IF req[r].op = "stream" /\ ~AsksAuth(req[r])
            THEN [gpc EXCEPT ![r] = "running"] ELSE gpc
  /\ UNCHANGED <<storeVars, req, task, loaded, sent, note, arts>>

Handle(r) == \/ CreateTask(r)
             \/ TouchAuthRequired(r)
             \/ SetAuthMessage(r)
             \/ AssignCompleted(r)
             \/ ClearMessage(r)
             \/ AssignArtifacts(r)
             \/ AssignCanceled(r)
             \/ PutTask(r)
             \/ MarshalStatus(r)
             \/ MarshalArtifacts(r)

-----------------------------------------------------------------------------
(***************************************************************************)
(* The goroutines: streamDemo, and the auth-required notification.         *)
(***************************************************************************)

GoAt(r, from, to) ==
  /\ gpc[r] = from
  /\ gpc' = [gpc EXCEPT ![r] = to]
  /\ UNCHANGED callVars

Send(r, event) == sent' = [sent EXCEPT ![r] = Append(@, event)]

StreamTouchRunning(r) ==
  /\ GoAt(r, "running", "sendStatus")
  /\ SetState(task[r], "running")
  /\ UNCHANGED <<loaded, sent, note, arts>>

StreamSendStatus(r) ==
  /\ GoAt(r, "sendStatus", "sendArtifact")
  /\ Send(r, StatusEvent(task[r], FALSE))
  /\ UNCHANGED <<storeVars, loaded, note, arts>>

\* Faulty: the goroutine gives up after its artifact event.
StreamGivesUp(r) ==
  /\ GoAt(r, "sendArtifact", "end")
  /\ Send(r, ArtifactEvent)
  /\ UNCHANGED <<storeVars, loaded, note, arts>>

\* Faulty: the task is never marked completed.
StreamSkipsCompleted(r) ==
  /\ GoAt(r, "sendArtifact", "load")
  /\ Send(r, ArtifactEvent)
  /\ UNCHANGED <<storeVars, loaded, note, arts>>

StreamSendArtifact(r) ==
  /\ GoAt(r, "sendArtifact", "completed")
  /\ Send(r, ArtifactEvent)
  /\ UNCHANGED <<storeVars, loaded, note, arts>>

\* Faulty: completed without output.
StreamCompletesEmpty(r) ==
  /\ GoAt(r, "completed", "put")
  /\ SetState(task[r], "completed")
  /\ UNCHANGED <<loaded, sent, note, arts>>

\* task.Touch(TaskCompleted): Status.Message stays.
StreamTouchCompleted(r) ==
  /\ GoAt(r, "completed", "load")
  /\ SetState(task[r], "completed")
  /\ UNCHANGED <<loaded, sent, note, arts>>

\* task.Artifacts = append(task.Artifacts, art)
StreamLoadArtifacts(r) ==
  /\ GoAt(r, "load", "store")
  /\ loaded' = [loaded EXCEPT ![r] = arts[task[r]]]
  /\ UNCHANGED <<storeVars, sent, note, arts>>

StreamStoreArtifacts(r) ==
  /\ GoAt(r, "store", "put")
  /\ arts' = [arts EXCEPT ![task[r]] = Append(loaded[r], artifact(r))]
  /\ UNCHANGED <<storeVars, loaded, sent, note>>

\* Faulty: no final event.
StreamPutAndEnd(r) ==
  /\ GoAt(r, "put", "end")
  /\ put(task[r])
  /\ UNCHANGED <<loaded, sent, note, arts>>

\* Faulty: the goroutine starts over.
StreamStartsOver(r) ==
  /\ GoAt(r, "put", "running")
  /\ put(task[r])
  /\ UNCHANGED <<loaded, sent, note, arts>>

StreamPut(r) ==
  /\ GoAt(r, "put", "sendFinal")
  /\ put(task[r])
  /\ UNCHANGED <<loaded, sent, note, arts>>

StreamSendFinal(r) ==
  /\ GoAt(r, "sendFinal", "end")
  /\ Send(r, StatusEvent(task[r], TRUE))
  /\ UNCHANGED <<storeVars, loaded, note, arts>>

\* sendStatus(context.Background(), ...): no session in that context, so
\* sendSSEResponse fails and its error is dropped.
NotifyAuthRequired(r) ==
  /\ GoAt(r, "notify", "end")
  /\ UNCHANGED <<storeVars, loaded, sent, note, arts>>

Stream(r) == \/ StreamTouchRunning(r)
             \/ StreamSendStatus(r)
             \/ StreamSendArtifact(r)
             \/ StreamTouchCompleted(r)
             \/ StreamLoadArtifacts(r)
             \/ StreamStoreArtifacts(r)
             \/ StreamPut(r)
             \/ StreamSendFinal(r)
             \/ NotifyAuthRequired(r)

Idle(r) == pc[r] \in {"idle", "done"} /\ gpc[r] \in {"none", "end"}

\* Every request that was sent has been served: the server waits for more.
Quiescent == \A r \in Req : Idle(r)
Wait == Quiescent /\ UNCHANGED vars

Next == \/ \E r \in Req : Serve(r) \/ Handle(r) \/ Stream(r)
        \/ Wait

Spec == Init /\ [][Next]_vars

(***************************************************************************)
(* The Go scheduler runs every goroutine that can run, and none of these   *)
(* waits for another: a handler that has begun and a goroutine that was    *)
(* started go on.  Nothing obliges a client to send its request.           *)
(***************************************************************************)
Fairness == \A r \in Req : WF_vars(Handle(r)) /\ WF_vars(Stream(r))

FairSpec == Spec /\ Fairness
=============================================================================
