# Verification of a2a-protocol

This directory holds a TLA+ model of the A2A server of this repository, its clients and its agent
card, the TLC configurations that check it on small instances, and theorems about it with proofs
checked by TLAPS. Source references below are relative to `src/`.

* [The system](#the-system) – inventory: parts, state, operations, interactions, what is hard
* [The modules](#the-modules) – which module models which part, and how
* [What is checked](#what-is-checked) – runs, bounds, fairness, mutants
* [What the code does otherwise](#what-the-code-does-otherwise) – the runs that end in a violation, and more
* [What is proved](#what-is-proved) – theorems, assumptions, inductive invariants
* [What is not modelled](#what-is-not-modelled) and [Plan](#plan)

## The system

The program is a library: an in-memory A2A server (`server/`), its clients (`client/`), the
message types (`schema/`), and an example command (`cmd/a2a-server`).

| part | state | operations |
|---|---|---|
| task store, `server/tasks.go` | `items` (id → `*Task`), `seq`, `hist`, one RWMutex | `newTask`, `get`, `put`, `listTasks` |
| push configs, `server/tasks.go` | `push` (task → id → config), `pseq`, the same mutex | `addPush`, `getPush`, `listPush`, `deletePush` |
| `opsImpl`, `server/ops_impl.go` | none; works on `*Task` from the store | message/send, message/stream, tasks/get, tasks/cancel, tasks/resubscribe, push configs; goroutine `streamDemo` |
| `DefaultOperations`, `DefaultHandler`, `server/default_ops.go`, `default.go` | callbacks `OnMessageSend`, `OnMessageStream` | the same methods, with a new task for every message; helpers `NewTask`, `CompleteText` |
| JSON-RPC and REST handlers, `server/jsonrpc.go`, `rest.go` | none | message/send, tasks/get, tasks/cancel, subscribe, push configs, list; the REST paths |
| dispatch, `server/rpc_handler.go` | none | method name → operation, request id → response id |
| SSE, `server/sse_stream.go`, `sse.go`, `streaming.go` | the session in the context (library) | `sendSSEResponse`; the patterns mounted |
| agent card, `schema/types.go`, `card_capabilities.go` | `Capabilities` (a list), `capObj` (an object of pointers) | `SetCapabilities`, `MarshalJSON`, `UnmarshalJSON`, the capability questions |
| auth middleware, `server/auth/` | `Policy`, two token sources | `Middleware` |
| HTTP client, `client/client.go`; `ops`, `client/ops_impl.go` | none | one request per call |
| stream client, `client/stream.go` | a session (library) | `AutoStreamClient`, `SendMessage`, `StreamMessage`, `Resubscribe` |

How they interact. net/http runs every request in a goroutine of its own. Every handler gets
its task from the store, through `newTask` or `get`, as a **pointer to the stored object**, and from
then on reads and writes the object without a lock; `put` only says that it has changed.
message/stream answers first and leaves a goroutine behind that moves the task to completion and
sends its events to the session of the request: one stream of frames that also carries the responses
of the other calls of that client. REST handlers call the same store as the JSON-RPC ones, behind a
parser of paths and, where the application puts it there, the auth middleware. One server usually has both an
`Operations` (through the SSE or Streamable transport) and the plain JSON-RPC/REST handlers on the
same store. Clients learn from the agent card what the server will do for them; the gates of the operations
ask the server's own copy of that card.

What is hard to test follows from what is shared: a check of the state that is stale when the task
is used, two writers of one task, a reader between two assignments that belong together, a goroutine
that starts after the task was canceled, a history that is compared with the very object that
changed; an event that overtakes the response, or comes when its call has given up and another waits; an
id that reads like a longer path; a card whose list and object disagree. Nothing is persisted, so
there are no crashes to recover from, and no call is retried; the failures there are, are
callers that give up, answers that come late, probes and token sources that fail. `hazards` in
`PROJECT.json` lists each of these with its line and the properties aimed at it.

What makes each part correct:

* store: an id leads to its own task, for ever; a history is complete, current and only grows;
* handlers: a task that says it is running is worked on, one that says it is completed has output, one that
  says it needs authentication says which; a task that has ended does not start again; an answer and
  a final event are of a task that has ended; every request is answered;
* push configs: an acknowledged config is kept until it is deleted or replaced by name, and
  nothing else is stored; no generated id is generated twice;
* front: a path reaches the operation and the ids it was built from; nobody without a token gets
  an answer from a handler; seen from outside, paths and middleware add nothing to the config store;
* session: a call returns, with its own answer;
* cards: what a client reads off the server's card is what the gates test.

## The modules

| module | models |
|---|---|
| `TaskStore` | `items`, `seq`, `hist` and what the holders of the pointers do to the tasks |
| `TaskHandlers` (EXTENDS `TaskStore`) | every handler and goroutine that touches a task, field by field |
| `TaskProperties` | what the handlers promise; the refinement mappings to `TaskCrew`, `CallServer` and `TaskLife` |
| `TaskCrew` | abstract: a task that several messages share, its crew, and who owes it an output |
| `CallServer` | abstract: what a server tells its callers; where the handlers end and the session begins |
| `TaskLife` | abstract: tasks are opened, end, produce output, and requests are answered with them |
| `DocumentClaims` | what a document of the repository says and the handlers do not do |
| `PushConfigs` | `push`, `pseq` and their operations; also the abstract service of `RestConfigs` |
| `Routes` | the parsing of REST paths, and the paths clients build (operators only) |
| `AuthMiddleware` | which requests pass, and with which token (operators only) |
| `RestConfigs` (EXTENDS `PushConfigs`, `Routes`, `AuthMiddleware`) | the composition: a request from the middleware to its answer |
| `StreamSession` | calls of a client, the server's goroutines for them, and the session they share; the refinement mappings to `CallService` and `CallServer` |
| `CallService` | abstract: what a client may rely on when it makes overlapping calls, whatever carries them |
| `AgentCard` | capabilities: list, object, JSON in both shapes (operators only) |
| `Discovery` (EXTENDS `AgentCard`) | application, server and clients with their cards; endpoints on a mux |
| `TaskStoreProofs`, `TaskHandlersProofs`, `TaskCrewProofs`, `TaskLifeProofs`, `PushConfigsProofs`, `RestConfigsProofs`, `StreamSessionProofs`, `DiscoveryProofs` | theorems |
| `MCTaskStore`, `MCTaskHandlers`, `MCRestConfigs`, `MCStreamSession`, `MCDiscovery` | instances for TLC |

Definitions marked `Faulty:` in a comment are variants of the definition that follows them, as a
plausible bug would have it. They are part of no specification: each shows that some property can tell
the difference.

### TaskStore

`heap` holds the tasks, an *object* being a pointer; `items` maps ids to objects. `newTask(o)` and `put(o)`
are the methods, one step each, because each holds the mutex for its whole body. The mutex does not
cover the objects, so the model has the actions of the callers too: `SetState` writes a state through a
pointer, `Build` makes or copies a task outside the store. The constant `InPlace` says which
discipline callers follow. With `InPlace = FALSE` a stored object is never written (copy, change,
`put`): that is what the comparison in `put` is written for, and what an application callback may do.
With `InPlace = TRUE` objects are written where they are: that is what every handler of the repository does.
Formatting ids is `formatID(n) = <<"t", n>>`: `itoa` is injective on the positive numbers it gets, which is all
that is used; the ids an application invents are assumed not to have that form (`AppIdsDisjoint`). `get` is
`Known` and a read of `items`.

### TaskHandlers

A request is a record: the *family* of handlers that serves it, the operation, the task it names
and what its message asks. Families are `impl` (opsImpl), `default` (DefaultOperations without callbacks),
`hooked` (DefaultOperations with the `OnMessageSend` of the README's example) and `rpc` (Server's JSON-RPC and
REST handlers). `pc[r]` is where the handler of `r` is, `gpc[r]` where the goroutine it started is.

Granularity: **one step is one access to one field of a shared task, or one call of the store.**
What a goroutine does on its own is merged into the next such step. An assignment of the whole `Status` copies several words
without a lock: it is two steps, `AssignCompleted` (State) and `ClearMessage` (Message), in the order the build chooses, and
another goroutine may come between them. `json.Marshal` walks the fields in order and
is two steps (Status, then Artifacts); `append` to Artifacts is two (load, store). A handler's parameter checks, its
lookup and the read of `Status.State` after it are one step: the lookup's result cannot change, since ids are never
rebound while handlers write in place, so nothing can happen between them that matters. A state is written and read whole;
see the plan for the two words of its string. `json.Marshal` reads Status in one step: whether an answer carries a message is
no part of any property.

| action | code |
|---|---|
| `Refuse`, `RejectTerminal`, `ContinueTask`, `DecideToCreate`, `FindTask`, `MissTask` | the head of every handler: capability gate, parameters, lookup |
| `CreateTask` | `newTask` |
| `TouchAuthRequired`, `SetAuthMessage` | the auth-required branch of opsImpl |
| `AssignCompleted`, `ClearMessage`, `AssignArtifacts` | completing a task, in all four families |
| `AssignCanceled` | tasks/cancel, which looks at no state |
| `PutTask`, `MarshalStatus`, `MarshalArtifacts` | `put`, and the response |
| `Stream…` | `streamDemo`, access by access |
| `NotifyAuthRequired` | the notification goroutine, whose context has no session |

The families differ in whether they read `taskId`, whether they go on with the task they found, and in what they
answer when there is none; the statements after that are the same, and the model has them once. The transports
put the session into the context of every request they serve, so `Send` succeeds for `streamDemo`; an id that REST
misses in a path of a subscription is HTTP 404 (`NoPath`). What a session delivers, and under which id, is `StreamSession`.

`Wait` is the server waiting for the next request, so that a deadlock TLC reports would be a real one.

What the statements amount to is said three times, in modules that know no statements. `TaskCrew` is for all families, opsImpl
with its shared tasks and its streams included: a message opens a task or joins a live one, once, and is in the task's crew
until it writes an outcome; who completes a task owes it an output; a cancel comes from outside and the crew works on.
The mapping (`Crew` in `TaskProperties`) reads a task's phase off its state, its crew off the requests that reached it
and still will finish (`WillFinish`), and what is owed off those between the two assignments (`Assigning`). It shows what
opsImpl does *not* promise (`Resume` may set a canceled task working again) and what it does. `TaskLife` is the
stronger service of the families where every message makes its own task, without streaming. `CallServer` leaves the tasks
out and keeps what the callers are told: one answer that the gates admit, and for a stream that was opened its three events in
order. It is the seam between the two large modules: `TaskHandlers` implements it with all its tasks (`CallersAreTold`, for any
family), and `StreamSession`, whose `Serve` and `SendEvent` stand for any handlers, implements it with all its frames (`SessionIsServed`).

### PushConfigs, Routes, AuthMiddleware and RestConfigs

Each operation on the configs takes the mutex once and is one step. A config is its id and its *owner*, the client that
set it. `owed` records what clients were promised, `minted` which ids the store generated. `Set` with an id replaces that
config, `Set` without one takes an id from `pseq`.

An id, like a path, is a sequence of words and separators, so that an id may contain `/pushNotificationConfigs`
and strings.Contains, Index and HasSuffix mean what they mean in the code. Before anything else `ServeMux` redirects a path
that path.Clean would change (`Clean`): an empty segment, `.` or `..`. Such a request is answered without middleware or handler (`Redirect`),
and whether to follow is the client's business; a GET of the config `..` leads to `/v1/tasks/{id}`, the task, so such a config can be
read and deleted through JSON-RPC only. `Dispatch` is the chain of
tests in `RegisterREST` and the handlers' own extraction of ids; `Path` is the other direction, what a client builds from
the mapping table. `Middleware` is the decision of the auth middleware: `OPTIONS`, the two well-known paths and an
excluded prefix bypass it; a bearer header passes; else the source that `UseIDToken` selects is asked, and may fail
or return a blank token.

`RestConfigs` puts them in a row: `RestRequest(ask)` builds the path of what a client asks, `ServeMux` redirects it or `Middleware` decides,
`Dispatch` names the operation and ids the server *reads*, and `Perform` does that operation. The promise in `owed` is kept by the ids
the client *named*. So a path that is taken apart wrongly shows, as a config that is owed and not stored, as a step that is none of
`PushConfigs` (`ConfigsSpec`), or directly (`ReachesWhatWasAsked`, which takes a request that is lost for a request misled: only one that was redirected, turned away or for
the options asked for nothing). `exempt` records whether the path of the last request starts with the policy's prefix, stated apart from `Excluded`, so that
a policy that excludes too much shows. JSON-RPC requests come in by the same door without a path to parse.

### StreamSession

A call is of one of four methods: a call of `Client`, which has a connection of its own, or one of the three of
`A2AStreamClient`, which share a session. The client connects (`Connect`, with the probe of `AutoStreamClient`, which may
fail, and an endpoint of either kind), starts calls, receives frames and gives up; the server receives, serves, writes the response, and
`streamDemo`'s three events each read an id and are then sent. Reading the id and sending are two steps: `LastRequestID` may be
another one in between. The library is external. What is modelled of it is how this code uses it: `rpc.Send` returns the first frame with its
request's id, the session's last id is set when a request is received, the response is written after `Serve` returned. Whether the library puts
`RequestIdKey` into the context of a handler is not visible in this repository, so both are possible (`ctxHasId`).

`CallService` has no frames and no session: a service says things on behalf of a call, the answer first and then, for a
stream, its three events in order; a waiting call may be handed something said for it and returns. Where ids are not
known it may be handed the event of another call's stream, unless it has a connection of its own. The mapping takes the
response composed and the events sent (`Said`) for what was said, and the first frame that `rpc.Send` returned
(`Result`) for what the call was handed.

### AgentCard and Discovery

A boolean of the capabilities object is a pointer: absent, a variable nobody else holds, or the application's own
variable (`"app"`, with the value `cell[f]`), which may change later. `MarshalJSON` and `UnmarshalJSON` are as written, on a
card that may have been used before. In `Discovery` an application sets, lists and loads capabilities, changes its variables, makes
servers (`New` copies the card, pointers included) and registers endpoints; clients fetch the application's card from the
well-known address or the server's by JSON-RPC. `view[c].current` is whether the card a client has is what the server still stands by.

## What is checked

Every run below finishes without error, with deadlock checking on.

| run | instance | shows |
|---|---|---|
| `store_copies` | 2 tasks, 2 application objects, 3 states, histories up to 3 | callers that copy: ids, histories |
| `handlers_impl` | 3 requests of every kind on opsImpl, 3 tasks | `RunningHasWorker`, `CompletedHasArtifact`, `AuthRequiredHasMessage`, `SettledForever` |
| `handlers_default` | 3 requests on DefaultOperations and the rpc handlers, streaming on | `SendAnswersEnded`, `FinalEventTerminal`, `ArtifactIdsUnique` |
| `handlers_hooked` | 3 requests on the callback and the rpc handlers, streaming off | `NoRestart`, refinement of `TaskLife` |
| `handlers_live` | 2 requests of every kind on opsImpl | `TasksComeToRest`, `Answered`, `StreamsFinish`, `WorkShrinks`, refinement of `TaskCrew` and `CallServer` |
| `push` | 1 task, 2 clients, 3 client ids, 2 policies, 3 sets | what is stored is what is owed, paths reach home, no answer without a token or an excluded path; refinement of `PushConfigs` |
| `session` | a stream and a call of any method; streaming and ids in contexts on and off | `OwnAnswer`, `AnswerComes`, `CallsReturn`, refinement of `CallService` |
| `cards` | one capability, 2 clients, SSE at `/sse` | `NotMisled`, `NothingHidden` |

Bounds. `MaxTasks` bounds calls of `newTask`; in the handler runs it is the number of requests (each opens at most
one task), so it never disables `CreateTask` (theorem `BoundNeverBinds`). Three requests are enough for the interleavings at issue: two
writers of one task and a third that reads or cancels it, or that comes later. A request names no task or
the first or second one, which at that moment may exist, have ended, or not exist yet. `MaxHistory` stops histories at
three entries: a first write, a transition, and a transition back. `MaxSet` bounds `addPush`: three is enough to set
with an id and without, delete, and set again. One task is enough in `push`, since entries of different tasks are different entries of a
map and paths name one task; the proofs have any number. The three client ids are one that starts like an id the store
generates and ends in `/pushNotificationConfigs`, so that its path could be taken for a longer one or its id cut short to another, `..`, which `ServeMux` cleans away, and
one of the form the store generates; the policies are one with sources
and one that excludes REST and not JSON-RPC. Two calls show what overtaking, giving up and straying can do: an event that strays needs one stream
and one other request. One capability is enough in `cards`, because the flags meet only in whether there is an object at all, which one flag
can be with and without. Symmetry is over requests, tasks or clients, which no
constant distinguishes; runs with liveness properties use none.

Fairness. `TaskHandlers!Fairness`: weak fairness of each handler that has begun and of each goroutine that was
started. Nothing in them blocks: the mutex is held for a bounded body, no handler waits for another, so the Go
scheduler gets each of them to its end. `StreamSession!Fairness`: while a call waits its request gets to the server, the server's
goroutines go on, the session delivers. Nothing is assumed of clients: they may never connect, call or send, and they need
not give up.

Mutants. `PROJECT.json` names for every property a `Faulty` variant of a definition under which TLC finds the property
violated in the same run.

Findings on the way that are properties of the code and not violations of a document:
in `handlers_impl` a task that was canceled can run again until it settles (`SettledForever` is what still holds), and an
artifact of two concurrent streams can be lost, though never the last one (`CompletedHasArtifact`). In `session`, a call may return
with an event of *another* stream when contexts have no request id; what still holds is `OnlyEventsStray`, a consequence of `CallsAreServed`. In `cards`, a card whose list
names a capability that its object leaves open is answered by the gates and not advertised: that exception is part of `NothingHidden`.

## What the code does otherwise

Each of these runs checks one sentence of a document of the repository, quoted in the module, and TLC shows a
behaviour of the code that departs from it.

| run | sentence | code |
|---|---|---|
| `claim_restart` | a terminal task can't be restarted (`schema/spec.txt:650`) | `streamDemo` sets running unconditionally (`server/ops_impl.go:270`, `default_ops.go:247`) |
| `claim_history` | "state transition history per task (internal stub)" (`server/tasks.go:17`) | `put` compares a pointer with itself (`tasks.go:59`) |
| `claim_stream_update` | message/stream subscribes to updates (`spec.txt:1061`) | `context.Background()` has no session (`ops_impl.go:114`) |
| `claim_mux` | "Example server: `go run ./cmd/a2a-server`" (`README.md:197`) | SSE at `/v1` and REST both mount `/v1/message:send`, and `ServeMux` panics (`sse.go:21`, `jsonrpc.go:58`, called from `cmd/a2a-server/main.go:60,63`) |

More departures are plain from single lines and have no run:

* tasks/cancel assigns canceled to a task that has ended and answers with success (`default_ops.go:219`), where
  `spec.txt:1359` asks for TaskNotCancelableError;
* a message to a task that has ended is accepted where taskId is not read (`jsonrpc.go:173`), where `spec.txt:1010`
  asks for an error, and DefaultOperations answers a message that names a live task with a new one (`default_ops.go:151`), where
  `spec.txt:1010` speaks of continuing an existing one (also `:1028`, `:1061`; `client/stream.go:127`): outside opsImpl no message
  ever continues a task (theorem `MessagesOwnTheirTask`);
* an unknown task is answered with -32004 (`ops_impl.go:138`), where `spec.txt:1358` gives -32001;
* an auth-required task may have lost its message: a plain send that found the same task writes its Status in words, State
  and then Message, and the other one's `Touch` and message may come between (`ops_impl.go:63-64, 73`); `AuthRequiredHasMessage`
  says that this is the only way;
* tasks/get may see a task between the assignments that complete it (`ops_impl.go:73`), where `spec.txt:650` wants
  output with completion;
* a task's artifacts all have the id `"a-" + task.ID` (`ops_impl.go:272`), where `spec.txt:891` wants ids unique within the task: a second stream on a task of
  opsImpl doubles the id, and `ArtifactIdsUnique` holds where a message owns its task;
* a generated config id may be one a client chose, whose config it then displaces (`tasks.go:118`, `spec.txt:919`);
* `StreamMessage` "returns the created/continued task" (`client/stream.go:127`), but its first frame may be an event of its
  stream, which is written under the same id and may overtake the response; and where contexts have no `RequestIdKey` an
  event bears another request's id (`sse_stream.go:28`, against `spec.txt:974`);
* events are sent as Responses, so `OnNotification` of the stream client (`stream.go:163`) is not called for them;
* `Resubscribe` drops the error a response carries (`stream.go:149`), and `MessageSend` of `client/ops_impl.go` drops the task id;
* `cmd/a2a-server/main.go:52` calls `h.StreamDemo`, which `DefaultHandler` does not export (`default.go:67`), so the command
  has to be mended before it can panic as `claim_mux` says.

## What is proved

For every value of the constants, under the assumptions the modules state by name.

**`TaskStoreProofs`.** The inductive invariant `StoreInv` joins to the types: an object with an id has a state; an object
`newTask` has not reached is blank; every key leads to its own task; every minted id is bound. The third is needed because
`newTask` must not rename an object somebody stored. From it follow `StoreTypeCorrect`, `StoreKeysMatch`,
`StoreKeepsIssued` and, as an action property, `StorePastIsKept`. `StoreHistories` is about both disciplines. For callers that
write in place and put nothing of their own, as every handler of the repository does, no history ever gets beyond its first entry (`HistoryStuck`; the
invariant `StuckInv` adds that a key leads to the object `newTask` made for it, which is what `put` then compares with itself);
`HandlersRecordNothing` says so of the handlers, for any requests, where `claim_history` shows one behaviour. For callers that put copies histories are
current and record transitions only; there the invariant adds that no task bears an id not yet minted and that an id outside the map has no
history (`HistoryInv`).

**`TaskHandlersProofs`.** `HandlersInv` joins to the types and `StoreInv` where a handler and its goroutine can be for
what the request asks (`CallInv`): past its lookup a handler holds a task with an id; the statements of a branch are
reached only by requests of that branch; `streamDemo` runs after its handler has returned. It is what makes every write
through a pointer a write to a task that was issued. On it rest

* `HandlersTypeCorrect`, and `HandlersUseStore`: every behaviour of the handlers is a behaviour of `StoreSpec`, so the
  theorems about the store (with `InPlace`) hold of the server;
* `RunningIsWorkedOn`: the worker of a running task stays its worker until it writes an outcome (`WorkerGoesOn`), and
  whoever sets a task running becomes one (`WriterIsWorker`);
* `SettledIsFinal`: the writers of a state that is not terminal are a message that found the task alive, excluded by `Settled`,
  and `CreateTask`, whose object is blank;
* `CompletedHasOutput` and `AuthRequiredIsExplained`: who may write artifacts and messages, and what the writer of the state
  has still to do, or, when a plain send cleared a message that another one had set, that it did (`ClearedStays`);
* `MessagesOwnTheirTask` (no request of family `impl`; what the code does, not what the specification asks) and `EndedStaysEnded` (that, and no streaming).

* `NothingLeftUnsaid`: a handler that is done has answered, and the goroutine of a stream that was accepted ends after
  its final event (`ServedInFull`, which says for each statement what has been said before it);
* `EveryStepIsProgress`: the statements that are left (`Left`, counted over both program counters) go down with each
  step, for the request that makes it and for no other: no statement waits for another request or sends one back;
* `ServedMeansAtPeace`: once every request that was sent has been served (`Quiescent`), no task is running, completed
  ones have output and auth-required ones say which, unless a plain send worked on the task too.

The last three are the safety half of the liveness properties: what they leave to TLC is the scheduler's fairness.
All of them use the same three facts about a step of a request `r`: it moves `r` alone (`OthersWait`), it
writes a state only in the seven ways `StateWrites` lists, and artifacts and messages only in two each (`ArtifactWrites`, `NoteWrites`).

**`TaskCrewProofs`.** `HandlersImplementCrew` is the refinement of `TaskCrew`, without any assumption. Object by object, the
mapped variables change in the few ways that these state writes and the two artifact writes allow (`ServeIsCrew`,
`HandleIsCrew`, `StreamIsCrew`); all other statements are stutters (`CrewStutters`). Besides `HandlersInv` it needs that a
request which has not got to its task holds none (`Unserved`), so that nobody enlists twice. `BoundNeverBinds` counts:
each id minted is held by a message of its own (`Created`), and one that is about to create holds none, so
`Cardinality(Req) <= MaxTasks` leaves room for it, and what TLC finds under the bound is what the handlers do without it.

The module also has `HandlersTellCallers`, the refinement of `CallServer`: a handler has no answer before it has returned, it was
accepted if it got past its head, and a stream has sent as many events as its goroutine is past (`AllInOrder`). The other side,
`SessionTellsCallers`, is in `StreamSessionProofs`. Together they justify that `StreamSession` has no tasks: what its server may
answer, and which events it sends after what, is what the handlers do whatever happens to their tasks. Had
resubscribe a refusal, say, `CallersAreTold` would fail (its mutant).

**`TaskLifeProofs`** is about the families whose messages own their task (`OwnFamilies`: none of family `impl`). Its invariant `OutcomesInv` says of
each message that, once past the assignment of its outcome, it finds the task ended, and past the assignment of its artifact, with that artifact;
before its handler returns it has neither answered nor sent an event; what it has answered or sent as final is an ended task with output. It is
inductive with `OwnTask`, because a step of another request can only cancel the task (`OthersOutcome`). From it follow
`SendsAnswerEnded`, `FinalEventsTerminal`, `ArtifactsHaveTheirId` (no task has more than one artifact, and one whose
stream has yet to store its artifact has none: `OneArtifact`), and, without streaming, the refinement `HandlersImplementLife`: every statement of a handler is an
action of `TaskLife` or a stutter.

**`PushConfigsProofs`.** `PushInv` joins to the properties that an owed id is a client's or was generated already
(`OwedOrAhead`), so that the next generated id displaces nobody. `AcknowledgedIsKept`, `DeletedStaysAway`, `GeneratedOnce`, `ConfigsHaveTasks`.

**`RestConfigsProofs`.** The heart is `PathsLeadHome`: for every id, separators and names of
subroutes in it included, `Dispatch` of the path built for an operation is that operation with those ids (one lemma for each form of path,
`ConfigRoute` for a single config: the first `/pushNotificationConfigs/` is the one behind the task's id, since a task's id is one
word). A request that ServeMux redirects or that is for the options asks for nothing; every other one that the middleware serves reaches what it was built for.
From it `FrontImplementsStore`: every behaviour of the front is a behaviour of `PushConfigs`, so the theorems above hold of the server as
its clients see it. `NoAnswerWithoutToken` is by cases on what bypasses the middleware: what does reaches no operation, unless its own path starts with
the excluded prefix (`BypassIsExempt`), whatever the policy. The assumptions are `IdsAreWords` (two words never meet in an id, and a task's id is one of them) and
`PrefixesHaveLengths` (the prefixes of the policies are sequences).

**`StreamSessionProofs`.** `SessionInv`: a frame, whether ready, under way or delivered, is one the server may send under its
id (`Fit`): responses under their own, events under their own where ids are known. `CallsGetTheirOwn`, `ResponsesArriveHome`, for any number of
calls. `SaidInv` adds the order: a stream is accepted before it has events (`StreamsAccepted`), nobody is served who has
not asked (`AskedFirst`), a frame's body has been said for the call it is from (`FramesSaid`), and a response that was
written is on the wire as long as its call waits. The last is `AnswersAreOnTheWay`: no other call takes it, and no
give-up of another call loses it. With it `SessionImplementsService`: every step is one of `CallService` or a stutter, so
callers see nothing of the session that the service does not allow.

**`DiscoveryProofs`.** `Faithful`: a card the server still stands by is what its own card looks like through JSON (`Shown`); what JSON preserves is the
lemma `ShownSupports`. `CardsTellTheTruth`, `CardsTellAll`, and `MountedApart`, which assumes that SSE is mounted neither at `/v1` nor at
`/v1/tasks` (where its `/v1/tasks/` meets REST's): the only bases where they meet. `claim_mux` is the first of them.

Only model-checked: the liveness properties `TasksComeToRest`, `Answered`, `StreamsFinish` and `CallsReturn`, since the
prover can use neither fairness nor ENABLED. What they rest on besides fairness is proved: `EveryStepIsProgress`,
`NothingLeftUnsaid` and `ServedMeansAtPeace` for the handlers, `AnswersAreOnTheWay` for the session. Every other property
of a passing run is stated by a theorem; the claims that end in a violation have none, of course.

## What is not modelled

* The transports and sessions of the jsonrpc library, beyond the use made of them in `StreamSession`, and what an application's
  callbacks may do beyond the example's. They are not code of this repository.
* Encoding of parts, messages and timestamps, extensions and the descriptive fields of the card: data no decision looks at.
  (`Message` has no UnmarshalJSON, `schema/types.go:80`, so the parts of a decoded message are empty: a hazard without a property.)
* `OnNotification` and the `ops` of `client/ops_impl.go`: the server sends no notifications, and nothing constructs an `ops`; its
  `AgentGetCard` is `Decode` of `Discovery`.
* Wording of errors, of `WWW-Authenticate` and of the protected-resource metadata.

## Plan

1. `TaskStatusWords`: the State in a `TaskStatus` is a string of two words written without a lock; a reader may see the words of
   two writes. Which states can a client be told, and which of them never existed?
2. `Status.Message` after `Touch` (`schema/events.go:57`): a task completed by a stream keeps the message of an
   authentication it no longer needs.
3. `CallServer` with the states its events report: what a client sees of its task on the stream, against what `tasks/get` tells it.
