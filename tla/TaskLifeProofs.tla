---------------------------- MODULE TaskLifeProofs ----------------------------
(***************************************************************************)
(* Theorems about the families whose messages each make a task of their    *)
(* own: what their answers and final events say, and that without          *)
(* streaming they implement TaskLife.                                      *)
(***************************************************************************)
EXTENDS TaskHandlersProofs

(***************************************************************************)
(* The inductive invariant: a message that has written its task's outcome  *)
(* finds the task ended, and with its artifact once it has stored that.    *)
(* Until its handler returns it has neither answered nor sent an event.    *)
(***************************************************************************)
From(h, r) == \E k \in 1..Len(h) : h[k].from = r

HasEnded(r) ==
  \/ /\ req[r].op = "send"
     /\ pc[r] \in {"clear", "artifacts", "put", "marshal", "marshalArts", "done"}
  \/ gpc[r] \in {"load", "store", "put", "sendFinal", "end"}

HasOutput(r) ==
  \/ req[r].op = "send" /\ pc[r] \in {"put", "marshal", "marshalArts", "done"}
  \/ gpc[r] \in {"put", "sendFinal", "end"}

SilentInv(r) ==
  /\ pc[r] # "done" => resp[r].code = Pending /\ sent[r] = <<>>
  /\ pc[r] \in {"idle", "create"} => task[r] = Nil
  /\ gpc[r] # "none" => pc[r] = "done" /\ StreamsNow(r) /\ task[r] # Nil
  /\ sent[r] # <<>> => gpc[r] # "none"

TaskInv(r) ==
  task[r] # Nil =>
    /\ HasEnded(r) => isTerminal(State(task[r]))
    /\ HasOutput(r) => From(arts[task[r]], r)

AnswerInv(r) ==
  /\ req[r].op = "send" /\ pc[r] = "marshalArts" => isTerminal(resp[r].state)
  /\ req[r].op = "send" /\ resp[r].code = Result =>
       isTerminal(resp[r].state) /\ resp[r].arts # <<>>

EventInv(r) ==
  \A i \in 1..Len(sent[r]) : sent[r][i].final =>
    isTerminal(sent[r][i].state) /\ From(arts[task[r]], r)

OutcomeInv(r) == SilentInv(r) /\ TaskInv(r) /\ AnswerInv(r) /\ EventInv(r)
OutcomesInv == \A r \in Req : OutcomeInv(r)

LEMMA OutcomesInit == Init => OutcomesInv
<1> SUFFICES ASSUME Init, NEW r \in Req PROVE OutcomeInv(r)
  BY DEF OutcomesInv
<1>1. /\ pc[r] = "idle" /\ gpc[r] = "none" /\ task[r] = Nil
      /\ sent[r] = <<>> /\ Len(sent[r]) = 0
      /\ resp[r].code = Pending
  BY EmptySeq DEF Init, Reply
<1> QED
  BY <1>1
  DEF OutcomeInv, SilentInv, TaskInv, AnswerInv, EventInv, Pending, Result

LEMMA NobodyAsks ==
  ASSUME OwnFamilies, HandlersInv, NEW r \in Req
  PROVE  ~AsksAuth(req[r])
BY TypeParts DEF HandlersInv, CallTypeOK, OwnFamilies, AsksAuth

LEMMA FromFacts ==
  ASSUME NEW a \in Artifact
  PROVE  /\ From(<<a>>, a.from)
         /\ \A h \in Seq(Artifact) : From(Append(h, a), a.from)
         /\ \A h \in Seq(Artifact), r \in Req : From(h, r) => h # <<>>
<1>1. From(<<a>>, a.from)
  BY DEF From
<1>2. ASSUME NEW h \in Seq(Artifact) PROVE From(Append(h, a), a.from)
  <2>1. /\ Len(Append(h, a)) = Len(h) + 1 /\ Len(h) \in Nat
        /\ Append(h, a)[Len(h) + 1] = a
    BY <1>2, AppendProperties, LenProperties
  <2> QED
    BY <2>1 DEF From
<1>3. \A h \in Seq(Artifact), r \in Req : From(h, r) => h # <<>>
  BY DEF From
<1> QED
  BY <1>1, <1>2, <1>3

-----------------------------------------------------------------------------
(***************************************************************************)
(* A step of q leaves the outcome of another request alone: it moves q     *)
(* only, and where it writes to the task of r that is a cancel.            *)
(***************************************************************************)
\* The artifacts of a task are written by the message that works on it.
LEMMA ArtifactsWrittenByOwn ==
  ASSUME HandlersInv, NEW q \in Req, Step(q), NEW o \in Object, arts'[o] # arts[o]
  PROVE  task[q] = o /\ IsMessage(req[q])
<1>1. CallInv(q) /\ arts \in [Object -> Seq(Artifact)]
  BY TypeParts DEF HandlersInv, DataTypeOK
<1>2. AssignArtifacts(q) \/ StreamStoreArtifacts(q)
  BY DEF Step, Serve, Refuse, RejectTerminal, ContinueTask, DecideToCreate,
         FindTask, MissTask, Begins, Handle, CreateTask, TouchAuthRequired,
         SetAuthMessage, ClearMessage, AssignCompleted, AssignCanceled,
         PutTask, MarshalStatus, MarshalArtifacts, Stream, StreamTouchRunning,
         StreamSendStatus, StreamSendArtifact, StreamTouchCompleted,
         StreamLoadArtifacts, StreamPut, StreamSendFinal, NotifyAuthRequired
<1>3. task[q] = o
  BY <1>1, <1>2 DEF AssignArtifacts, StreamStoreArtifacts
<1> QED
  BY <1>1, <1>2, <1>3
  DEF AssignArtifacts, StreamStoreArtifacts, At, GoAt, CallInv, InStreamDemo,
      StreamsNow, IsMessage, IsPlainSend

\* Only the message that works on a task writes a state to it that is not
\* terminal.
LEMMA ReopenedByOwn ==
  ASSUME OwnFamilies, HandlersInv, NEW q \in Req, Step(q), NEW o \in Object,
         heap[o].id \in Id, isTerminal(heap[o].state), ~isTerminal(heap'[o].state)
  PROVE  task[q] = o /\ IsMessage(req[q]) /\ gpc[q] = "running"
<1>1. CallInv(q) /\ ~AsksAuth(req[q])
  BY NobodyAsks DEF HandlersInv
<1>2. heap[o] # Blank
  BY BlankFacts, IdFacts
<1>3. task[q] = o /\ Writes(q, heap'[o].state)
  BY <1>2, StateWrites
<1> QED
  BY <1>1, <1>3
  DEF Writes, isTerminal, CallInv, InStreamDemo, StreamsNow, IsMessage

LEMMA OthersOutcome ==
  ASSUME OwnFamilies, HandlersInv, OwnTask, OutcomesInv,
         NEW q \in Req, Step(q), NEW r \in Req, r # q
  PROVE  OutcomeInv(r)'
<1>1. /\ pc'[r] = pc[r] /\ gpc'[r] = gpc[r] /\ task'[r] = task[r]
      /\ resp'[r] = resp[r] /\ sent'[r] = sent[r] /\ req' = req
  BY OthersWait, OthersSilent, RequestsStay
<1>2. OutcomeInv(r) /\ CallInv(r)
  BY DEF OutcomesInv, HandlersInv
<1>3. SilentInv(r)' /\ AnswerInv(r)'
  BY <1>1, <1>2
  DEF OutcomeInv, SilentInv, AnswerInv, StreamsNow, AsksAuth, IsMessage
<1>4. ASSUME task[r] # Nil, IsMessage(req[r])
      PROVE  /\ arts'[task[r]] = arts[task[r]]
             /\ isTerminal(heap[task[r]].state) => isTerminal(heap'[task[r]].state)
  <2>1. task[r] \in Object /\ heap[task[r]].id \in Id
    BY <1>2, <1>4 DEF CallInv, HoldsTask
  <2>2. ~(task[q] = task[r] /\ IsMessage(req[q]))
    BY <1>4 DEF OwnTask
  <2> QED
    BY <2>1, <2>2, ArtifactsWrittenByOwn, ReopenedByOwn
<1>5. TaskInv(r)'
  BY <1>1, <1>2, <1>4
  DEF OutcomeInv, SilentInv, TaskInv, HasEnded, HasOutput, StreamsNow, IsMessage,
      State
<1>6. EventInv(r)'
  <2>1. CASE sent[r] = <<>>
    BY <1>1, <2>1, EmptySeq DEF EventInv
  <2>2. CASE sent[r] # <<>>
    BY <1>1, <1>2, <1>4, <2>2
    DEF OutcomeInv, SilentInv, EventInv, StreamsNow, IsMessage
  <2> QED
    BY <2>1, <2>2
<1> QED
  BY <1>3, <1>5, <1>6 DEF OutcomeInv

-----------------------------------------------------------------------------
(***************************************************************************)
(* A step of r itself, one action after the other.                         *)
(***************************************************************************)
LEMMA ServedOutcome ==
  ASSUME OwnFamilies, HandlersInv, OutcomesInv, NEW r \in Req, Serve(r)
  PROVE  OutcomeInv(r)'
<1>1. CallTypeOK /\ DataTypeOK /\ CallInv(r) /\ OutcomeInv(r) /\ req' = req
  BY TypeParts, RequestsStay DEF HandlersInv, OutcomesInv, Step
<1>2. /\ pc[r] = "idle" /\ task[r] = Nil /\ gpc[r] = "none"
      /\ sent'[r] = <<>> /\ gpc'[r] = "none"
  BY <1>1
  DEF Serve, Refuse, RejectTerminal, ContinueTask, DecideToCreate, FindTask,
      MissTask, Begins, goVars, OutcomeInv, SilentInv, CallInv
<1>3. EventInv(r)'
  BY <1>2, EmptySeq DEF EventInv
<1>4. CASE Refuse(r) \/ RejectTerminal(r) \/ MissTask(r)
  <2>1. \E code \in Code :
          /\ resp' = [resp EXCEPT ![r] = Reply(code)]
          /\ req[r].op = "send" => code # Result
    <3>1. Refusal(req[r]) \in Code
      BY DEF Refusal, Code
    <3> QED
      BY <1>4, <3>1
      DEF Refuse, RejectTerminal, MissTask, Answer, Accepted, Code, Result,
          NotFound, InTerminalState, IsMessage
  <2>2. pc'[r] = "done" /\ task'[r] = Nil
    BY <1>1, <1>2, <1>4
    DEF Refuse, RejectTerminal, MissTask, Answer, Goto, CallTypeOK
  <2>3. req[r].op = "send" => resp'[r].code # Result
    <3>1. PICK code \in Code : /\ resp' = [resp EXCEPT ![r] = Reply(code)]
                               /\ req[r].op = "send" => code # Result
      BY <2>1
    <3>2. resp'[r] = Reply(code)
      BY <1>1, <3>1 DEF DataTypeOK
    <3>3. Reply(code).code = code
      BY DEF Reply
    <3> QED
      BY <3>1, <3>2, <3>3
  <2> QED
    BY <1>1, <1>2, <1>3, <2>2, <2>3
    DEF OutcomeInv, SilentInv, TaskInv, AnswerInv
<1>5. CASE DecideToCreate(r)
  <2>1. pc'[r] = "create" /\ task'[r] = Nil /\ resp'[r].code = Pending
    BY <1>1, <1>2, <1>5
    DEF DecideToCreate, Goto, CallTypeOK, OutcomeInv, SilentInv
  <2> QED
    BY <1>1, <1>2, <1>3, <2>1
    DEF OutcomeInv, SilentInv, TaskInv, AnswerInv, Pending, Result
<1>6. CASE FindTask(r)
  <2>1. /\ pc'[r] \in {"cancel", "marshal"} /\ resp'[r].code = Pending
        /\ ~IsMessage(req[r])
    BY <1>1, <1>2, <1>6
    DEF FindTask, Goto, CallTypeOK, OutcomeInv, SilentInv
  <2> QED
    BY <1>1, <1>2, <1>3, <2>1
    DEF OutcomeInv, SilentInv, TaskInv, AnswerInv, HasEnded, HasOutput,
        IsMessage, Pending, Result
<1>7. ~ContinueTask(r)
  BY <1>1 DEF ContinueTask, OwnFamilies, CallTypeOK
<1> QED
  BY <1>4, <1>5, <1>6, <1>7 DEF Serve

LEMMA HandledOutcome ==
  ASSUME OwnFamilies, HandlersInv, OutcomesInv, NEW r \in Req, Handle(r)
  PROVE  OutcomeInv(r)'
<1>1. CallTypeOK /\ DataTypeOK /\ CallInv(r) /\ OutcomeInv(r) /\ req' = req
  BY TypeParts, RequestsStay DEF HandlersInv, OutcomesInv, Step
<1>2. /\ pc[r] \notin {"idle", "done", "touch", "message"}
      /\ resp[r].code = Pending /\ sent[r] = <<>> /\ gpc[r] = "none"
      /\ sent'[r] = <<>>
  BY <1>1, NobodyAsks
  DEF Handle, CreateTask, TouchAuthRequired, SetAuthMessage, ClearMessage,
      AssignCompleted, AssignArtifacts, AssignCanceled, PutTask, MarshalStatus,
      MarshalArtifacts, At, goVars, OutcomeInv, SilentInv, CallInv
<1>3. EventInv(r)'
  BY <1>2, EmptySeq DEF EventInv
<1>4. pc[r] # "create" => task[r] \in Object
  BY <1>1, <1>2 DEF CallInv, Working, HoldsTask, CallTypeOK
<1>5. CASE CreateTask(r)
  <2>1. /\ pc'[r] \in {"status", "marshal"} /\ gpc'[r] = "none"
        /\ resp'[r].code = Pending
        /\ pc'[r] # "status" => req[r].op # "send"
    BY <1>1, <1>2, <1>5, NobodyAsks
    DEF CreateTask, At, Goto, Work, goVars, CallTypeOK
  <2> QED
    BY <1>1, <1>2, <1>3, <2>1
    DEF OutcomeInv, SilentInv, TaskInv, AnswerInv, HasEnded, HasOutput,
        Pending, Result
<1>6. CASE AssignCompleted(r)
  <2>1. /\ pc'[r] \in {"clear", "artifacts"} /\ gpc'[r] = "none" /\ task' = task
        /\ resp'[r].code = Pending /\ SetState(task[r], "completed")
        /\ task[r] \in Object
    BY <1>1, <1>2, <1>4, <1>6 DEF AssignCompleted, At, Goto, goVars, CallTypeOK
  <2>2. heap'[task[r]].state = "completed"
    BY <2>1, SetStateWrites
  <2> QED
    BY <1>1, <1>2, <1>3, <2>1, <2>2
    DEF OutcomeInv, SilentInv, TaskInv, AnswerInv, HasEnded, HasOutput,
        Pending, Result, State, isTerminal
<1>12. CASE ClearMessage(r)
  <2>1. /\ \/ pc[r] = "status" /\ pc'[r] = "state"
           \/ pc[r] = "clear" /\ pc'[r] = "artifacts"
        /\ gpc'[r] = "none" /\ task' = task /\ heap' = heap /\ arts' = arts
        /\ resp'[r].code = Pending
    BY <1>1, <1>2, <1>12 DEF ClearMessage, At, Goto, goVars, storeVars, CallTypeOK
  <2> QED
    BY <1>1, <1>2, <1>3, <2>1
    DEF OutcomeInv, SilentInv, TaskInv, AnswerInv, HasEnded, HasOutput,
        Pending, Result, State, isTerminal
<1>7. CASE AssignArtifacts(r)
  <2>1. /\ pc[r] = "artifacts" /\ pc'[r] = "put" /\ gpc'[r] = "none"
        /\ task' = task /\ heap' = heap
        /\ resp'[r].code = Pending /\ task[r] \in Object
    BY <1>1, <1>2, <1>4, <1>7
    DEF AssignArtifacts, At, Goto, goVars, CallTypeOK, storeVars
  <2>2. From(arts'[task[r]], r)
    <3>1. artifact(r) \in Artifact /\ artifact(r).from = r
      BY <1>1, <2>1, ArtifactType DEF CallInv, artifact, Working, HandlerPC
    <3>2. arts'[task[r]] = <<artifact(r)>>
      BY <1>1, <1>7, <2>1 DEF AssignArtifacts, DataTypeOK
    <3> QED
      BY <3>1, <3>2, FromFacts
  <2> QED
    BY <1>1, <1>2, <1>3, <2>1, <2>2
    DEF OutcomeInv, SilentInv, TaskInv, AnswerInv, HasEnded, HasOutput,
        Pending, Result, State, isTerminal
<1>8. CASE AssignCanceled(r)
  <2>1. /\ pc'[r] = "put" /\ gpc'[r] = "none" /\ task' = task
        /\ resp'[r].code = Pending /\ req[r].op = "cancel"
    BY <1>1, <1>2, <1>8
    DEF AssignCanceled, At, Goto, goVars, CallTypeOK, CallInv
  <2> QED
    BY <1>1, <1>2, <1>3, <1>4, <1>8, <2>1
    DEF AssignCanceled, At, OutcomeInv, SilentInv, TaskInv, AnswerInv, HasEnded,
        HasOutput, Pending, Result
<1>9. CASE PutTask(r)
  <2>1. /\ pc[r] = "put" /\ pc'[r] = "marshal" /\ gpc'[r] = "none"
        /\ task' = task /\ heap' = heap /\ arts' = arts
        /\ resp'[r].code = Pending
    <3>1. req[r].op # "stream"
      BY <1>1, <1>9, NobodyAsks DEF PutTask, At, CallInv, StreamsNow
    <3> QED
      BY <1>1, <1>2, <1>9, <3>1 DEF PutTask, At, Goto, put, CallTypeOK
  <2> QED
    BY <1>1, <1>2, <1>3, <2>1
    DEF OutcomeInv, SilentInv, TaskInv, AnswerInv, HasEnded, HasOutput,
        Pending, Result, State, isTerminal
<1>10. CASE MarshalStatus(r)
  <2>1. /\ pc[r] = "marshal" /\ pc'[r] = "marshalArts" /\ gpc'[r] = "none"
        /\ task' = task /\ heap' = heap /\ arts' = arts
        /\ resp'[r].code = Pending /\ resp'[r].state = heap[task[r]].state
        /\ task[r] # Nil
    BY <1>1, <1>2, <1>10
    DEF MarshalStatus, At, Goto, goVars, storeVars, CallTypeOK, DataTypeOK,
        Response, CallInv, Working, HandlerPC
  <2> QED
    BY <1>1, <1>2, <1>3, <2>1
    DEF OutcomeInv, SilentInv, TaskInv, AnswerInv, HasEnded, HasOutput,
        Pending, Result, State, isTerminal
<1>11. CASE MarshalArtifacts(r)
  <2>1. /\ pc[r] = "marshalArts" /\ pc'[r] = "done"
        /\ task' = task /\ heap' = heap /\ arts' = arts
        /\ gpc'[r] \in {"none", "running"}
        /\ gpc'[r] # "none" => StreamsNow(r)
        /\ resp'[r].state = resp[r].state /\ resp'[r].arts = arts[task[r]]
        /\ task[r] # Nil
    BY <1>1, <1>2, <1>11
    DEF MarshalArtifacts, At, Goto, storeVars, CallTypeOK, DataTypeOK,
        Response, StreamsNow, CallInv, Working, HandlerPC
  <2>2. req[r].op = "send" => arts[task[r]] # <<>>
    <3>1. artifact(r) \in Artifact /\ arts[task[r]] \in Seq(Artifact)
      BY <1>1, <1>4, <2>1, ArtifactType
      DEF CallInv, Working, HandlerPC, DataTypeOK
    <3> QED
      BY <1>1, <2>1, <3>1, FromFacts DEF OutcomeInv, TaskInv, HasOutput
  <2> QED
    BY <1>1, <1>2, <1>3, <2>1, <2>2
    DEF OutcomeInv, SilentInv, TaskInv, AnswerInv, HasEnded, HasOutput,
        StreamsNow, AsksAuth, IsMessage, State, isTerminal
<1> QED
  BY <1>2, <1>5, <1>6, <1>7, <1>8, <1>9, <1>10, <1>11, <1>12
  DEF Handle, TouchAuthRequired, SetAuthMessage, At

LEMMA StreamedOutcome ==
  ASSUME OwnFamilies, HandlersInv, OutcomesInv, NEW r \in Req, Stream(r)
  PROVE  OutcomeInv(r)'
<1>1. CallTypeOK /\ DataTypeOK /\ CallInv(r) /\ OutcomeInv(r) /\ req' = req
  BY TypeParts, RequestsStay DEF HandlersInv, OutcomesInv, Step
<1>2. /\ gpc[r] \notin {"none", "notify", "end"} /\ gpc'[r] # "none"
      /\ pc' = pc /\ task' = task /\ resp' = resp
      /\ pc[r] = "done" /\ StreamsNow(r) /\ req[r].op # "send"
      /\ task[r] # Nil /\ HoldsTask(r) /\ task[r] \in Object
  BY <1>1
  DEF Stream, StreamTouchRunning, StreamSendStatus, StreamSendArtifact,
      StreamTouchCompleted, StreamLoadArtifacts, StreamStoreArtifacts,
      StreamPut, StreamSendFinal, NotifyAuthRequired, GoAt, callVars,
      CallTypeOK, OutcomeInv, SilentInv, CallInv, StreamsNow, HoldsTask
<1>3. SilentInv(r)' /\ AnswerInv(r)'
  BY <1>1, <1>2 DEF OutcomeInv, SilentInv, AnswerInv, StreamsNow, AsksAuth, IsMessage
<1>4. ASSUME From(arts[task[r]], r) => From(arts'[task[r]], r), sent'[r] = sent[r]
      PROVE  EventInv(r)'
  BY <1>1, <1>2, <1>4 DEF OutcomeInv, EventInv
<1>5. ASSUME arts' = arts, NEW e \in Event, Send(r, e),
             e.final => isTerminal(e.state) /\ From(arts[task[r]], r)
      PROVE  EventInv(r)'
  <2>1. sent'[r] = Append(sent[r], e) /\ sent[r] \in Seq(Event)
    BY <1>1, <1>5 DEF Send, DataTypeOK
  <2>2. /\ Len(sent'[r]) = Len(sent[r]) + 1 /\ Len(sent[r]) \in Nat
        /\ \A i \in 1..Len(sent[r]) : sent'[r][i] = sent[r][i]
        /\ sent'[r][Len(sent[r]) + 1] = e
    BY <2>1, AppendProperties, LenProperties
  <2>3. From(arts'[task'[r]], r) = From(arts[task[r]], r)
    BY <1>2, <1>5
  <2>4. ASSUME NEW i \in 1..Len(sent'[r]), sent'[r][i].final
        PROVE  isTerminal(sent'[r][i].state) /\ From(arts[task[r]], r)
    <3>1. CASE i \in 1..Len(sent[r])
      BY <1>1, <2>2, <2>4, <3>1 DEF OutcomeInv, EventInv
    <3>2. CASE i = Len(sent[r]) + 1
      BY <1>5, <2>2, <2>4, <3>2
    <3> QED
      BY <2>2, <3>1, <3>2
  <2> QED
    BY <2>3, <2>4 DEF EventInv
<1>6. CASE StreamTouchRunning(r)
  <2>1. /\ gpc'[r] = "sendStatus" /\ arts' = arts /\ sent'[r] = sent[r]
    BY <1>1, <1>6 DEF StreamTouchRunning, GoAt, CallTypeOK
  <2> QED
    BY <1>1, <1>2, <1>3, <1>4, <2>1 DEF OutcomeInv, TaskInv, HasEnded, HasOutput
<1>7. CASE StreamSendStatus(r)
  <2>1. /\ gpc'[r] = "sendArtifact" /\ arts' = arts
        /\ Send(r, StatusEvent(task[r], FALSE))
        /\ StatusEvent(task[r], FALSE) \in Event
        /\ ~StatusEvent(task[r], FALSE).final
    BY <1>1, <1>2, <1>7, EventTypes DEF StreamSendStatus, GoAt, CallTypeOK, StatusEvent
  <2> QED
    BY <1>1, <1>2, <1>3, <1>5, <2>1 DEF OutcomeInv, TaskInv, HasEnded, HasOutput
<1>8. CASE StreamSendArtifact(r)
  <2>1. /\ gpc'[r] = "completed" /\ arts' = arts
        /\ Send(r, ArtifactEvent) /\ ArtifactEvent \in Event /\ ~ArtifactEvent.final
    BY <1>1, <1>2, <1>8, EventTypes DEF StreamSendArtifact, GoAt, CallTypeOK, ArtifactEvent
  <2> QED
    BY <1>1, <1>2, <1>3, <1>5, <2>1 DEF OutcomeInv, TaskInv, HasEnded, HasOutput
<1>9. CASE StreamTouchCompleted(r)
  <2>1. /\ gpc'[r] = "load" /\ arts' = arts /\ sent'[r] = sent[r]
        /\ SetState(task[r], "completed")
    BY <1>1, <1>9 DEF StreamTouchCompleted, GoAt, CallTypeOK
  <2>2. heap'[task[r]].state = "completed"
    BY <1>2, <2>1, SetStateWrites
  <2> QED
    BY <1>1, <1>2, <1>3, <1>4, <2>1, <2>2
    DEF OutcomeInv, TaskInv, HasEnded, HasOutput, State, isTerminal
<1>10. CASE StreamLoadArtifacts(r)
  <2>1. /\ gpc[r] = "load" /\ gpc'[r] = "store" /\ arts' = arts
        /\ sent'[r] = sent[r] /\ heap' = heap
    BY <1>1, <1>10 DEF StreamLoadArtifacts, GoAt, CallTypeOK, storeVars
  <2> QED
    BY <1>1, <1>2, <1>3, <1>4, <2>1
    DEF OutcomeInv, TaskInv, HasEnded, HasOutput, State, isTerminal
<1>11. CASE StreamStoreArtifacts(r)
  <2>1. /\ gpc[r] = "store" /\ gpc'[r] = "put"
        /\ sent'[r] = sent[r] /\ heap' = heap
        /\ arts'[task[r]] = Append(loaded[r], artifact(r))
    BY <1>1, <1>2, <1>11
    DEF StreamStoreArtifacts, GoAt, CallTypeOK, DataTypeOK, storeVars
  <2>2. From(arts'[task[r]], r)
    <3>1. artifact(r) \in Artifact /\ artifact(r).from = r
      BY <1>2, ArtifactType DEF artifact
    <3> QED
      BY <1>1, <2>1, <3>1, FromFacts DEF DataTypeOK
  <2> QED
    BY <1>1, <1>2, <1>3, <1>4, <2>1, <2>2
    DEF OutcomeInv, TaskInv, HasEnded, HasOutput, State, isTerminal
<1>12. CASE StreamPut(r)
  <2>1. /\ gpc[r] = "put" /\ gpc'[r] = "sendFinal" /\ arts' = arts
        /\ sent'[r] = sent[r] /\ heap' = heap
    BY <1>1, <1>12 DEF StreamPut, GoAt, CallTypeOK, put
  <2> QED
    BY <1>1, <1>2, <1>3, <1>4, <2>1
    DEF OutcomeInv, TaskInv, HasEnded, HasOutput, State, isTerminal
<1>13. CASE StreamSendFinal(r)
  <2>1. /\ gpc[r] = "sendFinal" /\ gpc'[r] = "end" /\ arts' = arts /\ heap' = heap
        /\ Send(r, StatusEvent(task[r], TRUE))
        /\ StatusEvent(task[r], TRUE) \in Event
        /\ StatusEvent(task[r], TRUE).state = State(task[r])
    BY <1>1, <1>2, <1>13, EventTypes
    DEF StreamSendFinal, GoAt, CallTypeOK, StatusEvent, State, storeVars
  <2>2. isTerminal(State(task[r])) /\ From(arts[task[r]], r)
    BY <1>1, <1>2, <2>1 DEF OutcomeInv, TaskInv, HasEnded, HasOutput
  <2> QED
    BY <1>1, <1>2, <1>3, <1>5, <2>1, <2>2
    DEF OutcomeInv, TaskInv, State, isTerminal
<1> QED
  BY <1>2, <1>6, <1>7, <1>8, <1>9, <1>10, <1>11, <1>12, <1>13
  DEF Stream, NotifyAuthRequired, GoAt

LEMMA OutcomesNext ==
  ASSUME OwnFamilies, HandlersInv, OwnTask, OutcomesInv, [Next]_vars
  PROVE  OutcomesInv'
<1>1. CASE UNCHANGED vars
  BY <1>1
  DEF vars, storeVars, callVars, goVars, OutcomesInv, OutcomeInv, SilentInv,
      TaskInv, AnswerInv, EventInv, HasEnded, HasOutput, From, State,
      isTerminal, StreamsNow, AsksAuth, IsMessage
<1>2. ASSUME NEW q \in Req, Step(q) PROVE OutcomesInv'
  BY <1>2, ServedOutcome, HandledOutcome, StreamedOutcome, OthersOutcome
  DEF Step, OutcomesInv
<1> QED
  BY <1>1, <1>2, NextIsStep

LEMMA OutcomesInvariant ==
  ASSUME OwnFamilies
  PROVE  Spec => []OutcomesInv
<1>1. HandlersInv /\ OwnTask /\ OutcomesInv /\ [Next]_vars => OutcomesInv'
  BY OutcomesNext
<1>2. Spec => []OwnTask
  BY MessagesOwnTheirTask
<1> QED
  BY <1>1, <1>2, OutcomesInit, HandlersInvariant, PTL DEF Spec

\* The answer to a message/send of those families is a task that has ended
\* and carries output, whatever is canceled and read meanwhile.
THEOREM SendsAnswerEnded ==
  ASSUME OwnFamilies
  PROVE  Spec => []SendAnswersEnded
<1>1. OutcomesInv => SendAnswersEnded
  BY DEF OutcomesInv, OutcomeInv, AnswerInv, SendAnswersEnded
<1> QED
  BY <1>1, OutcomesInvariant, PTL

\* The final event of a stream of those families reports a terminal state,
\* and the task then holds the artifact the stream announced.
THEOREM FinalEventsTerminal ==
  ASSUME OwnFamilies
  PROVE  Spec => []FinalEventTerminal
<1>1. OutcomesInv => FinalEventTerminal
  BY DEF OutcomesInv, OutcomeInv, EventInv, From, FinalEventTerminal
<1> QED
  BY <1>1, OutcomesInvariant, PTL

-----------------------------------------------------------------------------
(***************************************************************************)
(* Every artifact a task ever gets is named after the task, so their ids   *)
(* differ only if there is one: the message that owns the task, and nobody *)
(* else, gives it one.                                                     *)
(***************************************************************************)

\* r streams, and has not stored the artifact of its task yet.
StoresLater(r) ==
  req[r].op = "stream" /\ task[r] # Nil /\ gpc[r] \notin {"put", "sendFinal", "end"}

OneArtifact ==
  /\ \A o \in Object : Len(arts[o]) <= 1
  /\ \A o \in Object : heap[o].id \in Id \/ arts[o] = <<>>
  /\ \A r \in Req : StoresLater(r) => arts[task[r]] = <<>>
  /\ \A r \in Req : gpc[r] = "store" => loaded[r] = <<>>

LEMMA OneArtifactWrites ==
  ASSUME OwnFamilies, HandlersInv, OneArtifact, NEW q \in Req, Step(q),
         NEW o \in Object, arts'[o] # arts[o]
  PROVE  /\ Len(arts'[o]) <= 1 /\ heap'[o].id \in Id
         /\ task[q] = o /\ IsMessage(req[q])
         /\ req[q].op = "stream" => gpc'[q] = "put"
<1>1. CallTypeOK /\ DataTypeOK /\ CallInv(q)
  BY TypeParts DEF HandlersInv
<1>2. task[q] = o /\ IsMessage(req[q])
  BY ArtifactsWrittenByOwn
<1>3. heap[o].id \in Id /\ task[q] # Nil
  BY <1>1, <1>2, IdFacts DEF CallInv, HoldsTask
<1>4. AssignArtifacts(q) \/ StreamStoreArtifacts(q)
  BY DEF Step, Serve, Refuse, RejectTerminal, ContinueTask, DecideToCreate,
         FindTask, MissTask, Begins, Handle, CreateTask, TouchAuthRequired,
         SetAuthMessage, ClearMessage, AssignCompleted, AssignCanceled,
         PutTask, MarshalStatus, MarshalArtifacts, Stream, StreamTouchRunning,
         StreamSendStatus, StreamSendArtifact, StreamTouchCompleted,
         StreamLoadArtifacts, StreamPut, StreamSendFinal, NotifyAuthRequired
<1>5. artifact(q) \in Artifact
  BY <1>2, <1>3, ArtifactType DEF HoldsTask
<1>6. arts'[o] = <<artifact(q)>> \/ arts'[o] = Append(<<>>, artifact(q))
  BY <1>1, <1>2, <1>4 DEF AssignArtifacts, StreamStoreArtifacts, GoAt, OneArtifact,
                          DataTypeOK
<1>7. Len(arts'[o]) = 1
  <2>1. Len(<<artifact(q)>>) = 1
    OBVIOUS
  <2>2. <<>> \in Seq(Artifact) /\ Len(<<>>) = 0
    BY EmptySeq
  <2>3. Len(Append(<<>>, artifact(q))) = 1
    BY <1>5, <2>2, AppendProperties
  <2> QED
    BY <1>6, <2>1, <2>3
<1>8. heap'[o].id \in Id
  BY <1>3, <1>4 DEF AssignArtifacts, StreamStoreArtifacts, storeVars
<1>9. req[q].op = "stream" => gpc'[q] = "put"
  BY <1>1, <1>4
  DEF AssignArtifacts, At, StreamStoreArtifacts, GoAt, CallInv, CallTypeOK,
      IsPlainSend
<1> QED
  BY <1>2, <1>7, <1>8, <1>9

LEMMA StoresLaterStep ==
  ASSUME OwnFamilies, HandlersInv, OwnTask, OutcomesInv, OneArtifact,
         NEW q \in Req, Step(q), NEW r \in Req, StoresLater(r)'
  PROVE  arts'[task'[r]] = <<>>
<1>1. CallTypeOK /\ req' = req /\ task' \in [Req -> Object \cup {Nil}]
  <2>1. HandlersInv'
    BY NextIsStep, HandlersNextInv
  <2> QED
    BY <2>1, TypeParts, RequestsStay DEF HandlersInv, HandlersTypeOK
<1>2. PICK o \in Object : o = task'[r]
  BY <1>1 DEF StoresLater, CallTypeOK
<1>3. CASE StoresLater(r) /\ task'[r] = task[r]
  <2>1. arts[o] = <<>>
    BY <1>2, <1>3 DEF OneArtifact
  <2>2. ASSUME arts'[o] # arts[o] PROVE FALSE
    <3>1. task[q] = o /\ IsMessage(req[q]) /\ (req[q].op = "stream" => gpc'[q] = "put")
      BY <2>2, OneArtifactWrites
    <3>2. q = r
      BY <1>2, <1>3, <3>1 DEF OwnTask, StoresLater, IsMessage
    <3> QED
      BY <1>1, <3>1, <3>2 DEF StoresLater
  <2> QED
    BY <1>2, <2>1, <2>2
<1>4. CASE ~(StoresLater(r) /\ task'[r] = task[r])
  <2>1. q = r
    BY <1>1, <1>4, OthersWait DEF StoresLater
  <2>2. CASE CreateTask(r)
    <3>1. PICK n \in Object : newTask(n) /\ task' = [task EXCEPT ![r] = n]
      BY <2>2 DEF CreateTask
    <3>2. heap[o].id \notin Id /\ arts' = arts
      BY <1>1, <1>2, <2>2, <3>1, NextObjectIsFree, BlankFacts, IdFacts
      DEF CreateTask, newTask, HandlersInv, CallTypeOK
    <3> QED
      BY <1>2, <3>2 DEF OneArtifact
  <2>3. CASE ~CreateTask(r)
    <3>1. ~ContinueTask(r) /\ ~FindTask(r)
      BY <1>1 DEF OwnFamilies, ContinueTask, FindTask, CallTypeOK, StoresLater,
                  IsMessage
    <3>2. task' = task
      BY <2>1, <2>3, <3>1
      DEF Step, Serve, Refuse, RejectTerminal, DecideToCreate, MissTask,
          Handle, TouchAuthRequired, SetAuthMessage, ClearMessage,
          AssignCompleted, AssignArtifacts, AssignCanceled, PutTask,
          MarshalStatus, MarshalArtifacts, Stream, StreamTouchRunning,
          StreamSendStatus, StreamSendArtifact, StreamTouchCompleted,
          StreamLoadArtifacts, StreamStoreArtifacts, StreamPut,
          StreamSendFinal, NotifyAuthRequired, GoAt, callVars
    <3>3. gpc[r] \in {"put", "sendFinal", "end"}
      BY <1>1, <1>4, <3>2 DEF StoresLater
    <3>4. gpc'[r] \in {"put", "sendFinal", "end"}
      <4>1. pc[r] = "done"
        BY <3>3 DEF OutcomesInv, OutcomeInv, SilentInv
      <4>2. Stream(r)
        BY <2>1, <4>1
        DEF Step, Serve, Refuse, RejectTerminal, ContinueTask, DecideToCreate,
            FindTask, MissTask, Begins, Handle, CreateTask, TouchAuthRequired,
            SetAuthMessage, ClearMessage, AssignCompleted, AssignArtifacts,
            AssignCanceled, PutTask, MarshalStatus, MarshalArtifacts, At
      <4> QED
        BY <1>1, <3>3, <4>2
        DEF Stream, StreamTouchRunning, StreamSendStatus, StreamSendArtifact,
            StreamTouchCompleted, StreamLoadArtifacts, StreamStoreArtifacts,
            StreamPut, StreamSendFinal, NotifyAuthRequired, GoAt, CallTypeOK
    <3> QED
      BY <3>4 DEF StoresLater
  <2> QED
    BY <2>2, <2>3
<1> QED
  BY <1>3, <1>4

LEMMA LoadedStep ==
  ASSUME OwnFamilies, HandlersInv, OneArtifact, NEW q \in Req, Step(q),
         NEW r \in Req, gpc'[r] = "store"
  PROVE  loaded'[r] = <<>>
<1>1. CallTypeOK /\ DataTypeOK /\ CallInv(r)
  BY TypeParts DEF HandlersInv
<1>2. CASE q # r
  BY <1>2, OthersWait, OthersSilent DEF OneArtifact
<1>3. CASE q = r
  <2>1. gpc[r] # "store" => StreamLoadArtifacts(r)
    BY <1>1, <1>3
    DEF Step, Serve, Refuse, RejectTerminal, ContinueTask, DecideToCreate,
        FindTask, MissTask, Begins, goVars, Handle, CreateTask,
        TouchAuthRequired, SetAuthMessage, ClearMessage, AssignCompleted,
        AssignArtifacts, AssignCanceled, PutTask, MarshalStatus,
        MarshalArtifacts, Stream, StreamTouchRunning, StreamSendStatus,
        StreamSendArtifact, StreamTouchCompleted, StreamStoreArtifacts,
        StreamPut, StreamSendFinal, NotifyAuthRequired, GoAt, CallTypeOK
  <2>2. CASE StreamLoadArtifacts(r)
    <3>1. StoresLater(r) /\ loaded'[r] = arts[task[r]]
      BY <1>1, <2>2
      DEF StreamLoadArtifacts, GoAt, DataTypeOK, CallInv, InStreamDemo, StreamsNow,
          StoresLater, GoPC
    <3> QED
      BY <3>1 DEF OneArtifact
  <2>3. CASE gpc[r] = "store"
    <3>1. loaded' = loaded
      BY <1>3, <2>3
      DEF Step, Serve, Refuse, RejectTerminal, ContinueTask, DecideToCreate,
          FindTask, MissTask, Begins, goVars, Handle, CreateTask,
          TouchAuthRequired, SetAuthMessage, ClearMessage, AssignCompleted,
          AssignArtifacts, AssignCanceled, PutTask, MarshalStatus,
          MarshalArtifacts, Stream, StreamTouchRunning, StreamSendStatus,
          StreamSendArtifact, StreamTouchCompleted, StreamLoadArtifacts,
          StreamStoreArtifacts, StreamPut, StreamSendFinal, NotifyAuthRequired,
          GoAt
    <3> QED
      BY <2>3, <3>1 DEF OneArtifact
  <2> QED
    BY <2>1, <2>2, <2>3
<1> QED
  BY <1>2, <1>3

LEMMA OneArtifactStep ==
  ASSUME OwnFamilies, HandlersInv, OwnTask, OutcomesInv, OneArtifact, [Next]_vars
  PROVE  OneArtifact'
<1>1. CASE UNCHANGED vars
  BY <1>1 DEF vars, storeVars, callVars, goVars, OneArtifact, StoresLater
<1>2. ASSUME NEW q \in Req, Step(q) PROVE OneArtifact'
  <2>1. \A o \in Object : Len(arts'[o]) <= 1
    BY <1>2, OneArtifactWrites DEF OneArtifact
  <2>2. \A o \in Object : heap'[o].id \in Id \/ arts'[o] = <<>>
    BY <1>2, OneArtifactWrites, IdsStay DEF OneArtifact
  <2>3. \A r \in Req : StoresLater(r)' => arts'[task'[r]] = <<>>
    BY <1>2, StoresLaterStep
  <2>4. \A r \in Req : gpc'[r] = "store" => loaded'[r] = <<>>
    BY <1>2, LoadedStep
  <2> QED
    BY <2>1, <2>2, <2>3, <2>4 DEF OneArtifact
<1> QED
  BY <1>1, <1>2, NextIsStep

\* The ids of a task's artifacts are unique in those families (spec.txt:891).
THEOREM ArtifactsHaveTheirId ==
  ASSUME OwnFamilies
  PROVE  Spec => []ArtifactIdsUnique
<1>1. Init => OneArtifact
  <2> SUFFICES ASSUME Init PROVE OneArtifact
    OBVIOUS
  <2>1. \A o \in Object : arts[o] = <<>> /\ Len(arts[o]) = 0
    BY EmptySeq DEF Init
  <2> QED
    BY <2>1 DEF Init, OneArtifact, StoresLater
<1>2. HandlersInv /\ OwnTask /\ OutcomesInv /\ OneArtifact /\ [Next]_vars => OneArtifact'
  BY OneArtifactStep
<1>3. HandlersInv /\ OneArtifact => ArtifactIdsUnique
  <2> SUFFICES ASSUME HandlersInv, OneArtifact, NEW o \in Object,
                      NEW i \in 1..Len(arts[o]), NEW k \in 1..Len(arts[o])
               PROVE  i = k
    BY DEF ArtifactIdsUnique
  <2>1. Len(arts[o]) \in Nat /\ Len(arts[o]) <= 1
    BY TypeParts, LenProperties DEF HandlersInv, DataTypeOK, OneArtifact
  <2> QED
    BY <2>1
<1>4. Spec => []OwnTask
  BY MessagesOwnTheirTask
<1> QED
  BY <1>1, <1>2, <1>3, <1>4, OutcomesInvariant, HandlersInvariant, PTL DEF Spec

-----------------------------------------------------------------------------
(***************************************************************************)
(* Without streaming those families implement TaskLife: each of its        *)
(* actions, told from the handlers' variables.                             *)
(***************************************************************************)
Served(r) == IF resp[r].code = Result THEN task[r] ELSE Nil

PhaseStays(o) == Phase(o)' = Phase(o)
OutputStays(o) == (arts[o] # <<>>)' = (arts[o] # <<>>)
ServedStays(r) == Served(r)' = Served(r)

LEMMA LifeStutters ==
  ASSUME req' = req, \A o \in Object : PhaseStays(o) /\ OutputStays(o),
         \A r \in Req : ServedStays(r)
  PROVE  UNCHANGED Life!vars
BY DEF Life!vars, PhaseStays, OutputStays, ServedStays, Served

LEMMA LifeOpens ==
  ASSUME req' = req, NEW t \in Object, Phase(t) = "absent", Phase(t)' = "live",
         \A o \in Object \ {t} : PhaseStays(o),
         \A o \in Object : OutputStays(o), \A r \in Req : ServedStays(r)
  PROVE  Life!Open(t)
BY DEF Life!Open, PhaseStays, OutputStays, ServedStays, Served

LEMMA LifeFinishes ==
  ASSUME req' = req, NEW t \in Object, Phase(t) = "live", Phase(t)' = "ended",
         \A o \in Object \ {t} : PhaseStays(o),
         \A o \in Object : OutputStays(o), \A r \in Req : ServedStays(r)
  PROVE  Life!Finish(t)
BY DEF Life!Finish, PhaseStays, OutputStays, ServedStays, Served

LEMMA LifeProduces ==
  ASSUME req' = req, NEW t \in Object, Phase(t) = "ended", arts'[t] # <<>>,
         \A o \in Object \ {t} : OutputStays(o),
         \A o \in Object : PhaseStays(o), \A r \in Req : ServedStays(r)
  PROVE  Life!Produce(t)
BY DEF Life!Produce, PhaseStays, OutputStays, ServedStays, Served

LEMMA LifeAnswers ==
  ASSUME req' = req, NEW r \in Req, NEW t \in Object,
         Served(r) = Nil, Served(r)' = t, Phase(t) # "absent",
         req[r].op = "send" => Phase(t) = "ended" /\ arts[t] # <<>>,
         \A q \in Req \ {r} : ServedStays(q),
         \A o \in Object : PhaseStays(o) /\ OutputStays(o)
  PROVE  Life!Answer(r, t)
BY DEF Life!Answer, PhaseStays, OutputStays, ServedStays, Served

LEMMA PhaseFacts ==
  /\ \A o \in Object : heap' = heap => PhaseStays(o)
  /\ \A o \in Object : heap'[o] = heap[o] => PhaseStays(o)
  /\ \A o \in Object : heap[o].id \in Id =>
       Phase(o) = IF isTerminal(State(o)) THEN "ended" ELSE "live"
  /\ \A o \in Object : heap'[o].id \in Id =>
       Phase(o)' = IF isTerminal(heap'[o].state) THEN "ended" ELSE "live"
BY IdFacts, BlankFacts DEF PhaseStays, Phase, State, isTerminal

\* A task that is ended, or was already.
LEMMA LifeEnds ==
  ASSUME HandlersInv, req' = req, NEW t \in Object, NEW s \in {"completed", "canceled"},
         SetState(t, s), arts' = arts, \A r \in Req : ServedStays(r)
  PROVE  Life!Finish(t) \/ UNCHANGED Life!vars
<1>1. /\ heap' = [heap EXCEPT ![t].state = s] /\ heap \in [Object -> TaskRecord]
      /\ heap[t].id \in Id
  BY DEF SetState, HandlersInv, StoreInv, StoreTypeOK
<1>2. \A o \in Object \ {t} : PhaseStays(o)
  BY <1>1, PhaseFacts
<1>3. Phase(t)' = "ended"
  BY <1>1, PhaseFacts DEF TaskRecord, isTerminal
<1>4. \A o \in Object : OutputStays(o)
  BY DEF OutputStays
<1>5. Phase(t) = "live" \/ Phase(t) = "ended"
  BY <1>1, PhaseFacts
<1> QED
  BY <1>2, <1>3, <1>4, <1>5, LifeFinishes, LifeStutters DEF PhaseStays

LEMMA LifeHandled ==
  ASSUME OwnFamilies, HandlersInv, OutcomesInv, NEW r \in Req, Handle(r)
  PROVE  Life!Next \/ UNCHANGED Life!vars
<1>1. CallTypeOK /\ DataTypeOK /\ CallInv(r) /\ OutcomeInv(r) /\ req' = req
  BY TypeParts, RequestsStay DEF HandlersInv, OutcomesInv, Step
<1>2. /\ pc[r] \notin {"idle", "done", "touch", "message"}
      /\ resp[r].code = Pending /\ Served(r) = Nil
  BY <1>1, NobodyAsks
  DEF Handle, CreateTask, TouchAuthRequired, SetAuthMessage, ClearMessage,
      AssignCompleted, AssignArtifacts, AssignCanceled, PutTask, MarshalStatus,
      MarshalArtifacts, At, OutcomeInv, SilentInv, CallInv, Served, Pending,
      Result
<1>3. \A q \in Req \ {r} : ServedStays(q)
  BY OthersSilent, OthersWait DEF Step, ServedStays, Served
<1>4. pc[r] # "create" => task[r] \in Object /\ heap[task[r]].id \in Id
  BY <1>1, <1>2 DEF CallInv, Working, HoldsTask, CallTypeOK
<1>5. ASSUME resp'[r].code = Pending PROVE \A q \in Req : ServedStays(q)
  BY <1>2, <1>3, <1>5 DEF ServedStays, Served, Pending, Result
<1>6. /\ heap' = heap => \A o \in Object : PhaseStays(o)
      /\ arts' = arts => \A o \in Object : OutputStays(o)
  BY PhaseFacts DEF OutputStays
<1>7. CASE CreateTask(r)
  <2>1. PICK o \in Object : newTask(o)
    BY <1>7 DEF CreateTask
  <2>2. /\ heap[o] = Blank
        /\ heap' = [heap EXCEPT ![o] = [id |-> formatID(seq + 1), state |-> "running"]]
        /\ formatID(seq + 1) \in Id /\ heap \in [Object -> TaskRecord]
    BY <2>1, NextObjectIsFree DEF newTask, HandlersInv, StoreInv, StoreTypeOK
  <2>3. Phase(o) = "absent"
    BY <2>2 DEF Phase
  <2>4. Phase(o)' = "live"
    BY <2>2, PhaseFacts DEF isTerminal
  <2>5. \A p \in Object \ {o} : PhaseStays(p)
    BY <2>2, PhaseFacts
  <2>6. resp' = resp /\ arts' = arts
    BY <1>7 DEF CreateTask
  <2>7. Life!Open(o)
    BY <1>1, <1>2, <1>5, <1>6, <2>3, <2>4, <2>5, <2>6, LifeOpens
  <2> QED
    BY <2>7 DEF Life!Next
<1>8. CASE AssignCompleted(r) \/ AssignCanceled(r)
  <2>1. /\ resp' = resp /\ arts' = arts /\ task[r] \in Object
        /\ SetState(task[r], "completed") \/ SetState(task[r], "canceled")
    BY <1>4, <1>8 DEF AssignCompleted, AssignCanceled, At
  <2>2. PICK t \in Object : t = task[r]
    BY <2>1
  <2>3. Life!Finish(t) \/ UNCHANGED Life!vars
    BY <1>1, <1>2, <1>5, <2>1, <2>2, LifeEnds
  <2> QED
    BY <2>3 DEF Life!Next
<1>9. CASE AssignArtifacts(r)
  <2>1. /\ resp' = resp /\ heap' = heap /\ task[r] \in Object
        /\ arts' = [arts EXCEPT ![task[r]] = <<artifact(r)>>]
        /\ pc[r] = "artifacts"
    BY <1>4, <1>9 DEF AssignArtifacts, At, storeVars
  <2>2. arts'[task[r]] # <<>> /\ \A o \in Object \ {task[r]} : OutputStays(o)
    BY <1>1, <2>1 DEF DataTypeOK, OutputStays
  <2>3. Phase(task[r]) = "ended"
    <3>1. isTerminal(State(task[r]))
      BY <1>1, <2>1, IdFacts
      DEF CallInv, IsPlainSend, OutcomeInv, TaskInv, HasEnded
    <3> QED
      BY <1>4, <2>1, <3>1, PhaseFacts
  <2>4. PICK t \in Object : t = task[r]
    BY <2>1
  <2>5. Life!Produce(t)
    BY <1>1, <1>2, <1>5, <1>6, <2>1, <2>2, <2>3, <2>4, LifeProduces
  <2> QED
    BY <2>5 DEF Life!Next
<1>10. CASE ClearMessage(r) \/ PutTask(r) \/ MarshalStatus(r)
  <2>1. heap' = heap /\ arts' = arts
    BY <1>10 DEF ClearMessage, PutTask, put, MarshalStatus, storeVars
  <2>2. resp'[r].code = Pending
    <3>1. CASE ClearMessage(r) \/ PutTask(r)
      BY <1>2, <3>1 DEF ClearMessage, PutTask
    <3>2. CASE MarshalStatus(r)
      BY <1>1, <1>2, <3>2 DEF MarshalStatus, DataTypeOK, Response
    <3> QED
      BY <1>10, <3>1, <3>2
  <2> QED
    BY <1>1, <1>5, <1>6, <2>1, <2>2, LifeStutters
<1>11. CASE MarshalArtifacts(r)
  <2>1. /\ pc[r] = "marshalArts" /\ task' = task /\ heap' = heap /\ arts' = arts
        /\ resp'[r].code = Result /\ task[r] \in Object /\ heap[task[r]].id \in Id
    BY <1>1, <1>4, <1>11
    DEF MarshalArtifacts, At, storeVars, DataTypeOK, Response
  <2>2. Served(r)' = task[r]
    BY <2>1 DEF Served
  <2>3. Phase(task[r]) # "absent"
    BY <2>1, PhaseFacts
  <2>4. ASSUME req[r].op = "send"
        PROVE  Phase(task[r]) = "ended" /\ arts[task[r]] # <<>>
    <3>1. isTerminal(State(task[r])) /\ From(arts[task[r]], r)
      BY <1>1, <2>1, <2>4, IdFacts DEF OutcomeInv, TaskInv, HasEnded, HasOutput
    <3>2. artifact(r) \in Artifact /\ arts[task[r]] \in Seq(Artifact)
      BY <1>1, <2>1, ArtifactType DEF HoldsTask, DataTypeOK
    <3> QED
      BY <2>1, <3>1, <3>2, PhaseFacts, FromFacts
  <2>5. PICK t \in Object : t = task[r]
    BY <2>1
  <2>6. Life!Answer(r, t)
    BY <1>1, <1>2, <1>3, <1>6, <2>1, <2>2, <2>3, <2>4, <2>5, LifeAnswers
  <2> QED
    BY <2>6 DEF Life!Next
<1> QED
  BY <1>2, <1>7, <1>8, <1>9, <1>10, <1>11
  DEF Handle, TouchAuthRequired, SetAuthMessage, At

LEMMA LifeStep ==
  ASSUME OwnFamilies, HandlersInv, NoStreams, OutcomesInv, [Next]_vars
  PROVE  Life!Next \/ UNCHANGED Life!vars
<1>1. CASE UNCHANGED vars
  BY <1>1, PhaseFacts, LifeStutters
  DEF vars, storeVars, callVars, OutputStays, ServedStays, Served
<1>2. ASSUME NEW r \in Req, Serve(r) PROVE UNCHANGED Life!vars
  <2>1. CallTypeOK /\ DataTypeOK /\ OutcomeInv(r) /\ req' = req
    BY <1>2, TypeParts, RequestsStay DEF HandlersInv, OutcomesInv, Step
  <2>2. heap' = heap /\ arts' = arts /\ pc[r] = "idle"
    BY <1>2
    DEF Serve, Refuse, RejectTerminal, ContinueTask, DecideToCreate, FindTask,
        MissTask, Begins, storeVars
  <2>3. task[r] = Nil /\ resp[r].code = Pending
    BY <2>1, <2>2 DEF OutcomeInv, SilentInv
  <2>4. resp' = resp \/ task' = task
    BY <1>2
    DEF Serve, Refuse, RejectTerminal, ContinueTask, DecideToCreate, FindTask, MissTask
  <2>5. ServedStays(r)
    BY <2>3, <2>4 DEF ServedStays, Served, Pending, Result
  <2>6. \A q \in Req \ {r} : ServedStays(q)
    BY <1>2, OthersSilent, OthersWait DEF Step, ServedStays, Served
  <2> QED
    BY <2>1, <2>2, <2>5, <2>6, PhaseFacts, LifeStutters DEF OutputStays
<1>3. ASSUME NEW r \in Req PROVE ~Stream(r)
  <2>1. gpc[r] = "none"
    BY DEF OutcomesInv, OutcomeInv, SilentInv, NoStreams, StreamsNow
  <2> QED
    BY <2>1
    DEF Stream, StreamTouchRunning, StreamSendStatus, StreamSendArtifact,
        StreamTouchCompleted, StreamLoadArtifacts, StreamStoreArtifacts,
        StreamPut, StreamSendFinal, NotifyAuthRequired, GoAt
<1> QED
  BY <1>1, <1>2, <1>3, LifeHandled, NextIsStep DEF Step

\* Without streaming a client of those families sees tasks that are opened,
\* end once and for all and are answered with: their handlers implement
\* TaskLife (default_ops.go:123-243, jsonrpc.go:163-253).
THEOREM HandlersImplementLife ==
  ASSUME OwnFamilies, ~Streaming
  PROVE  Spec => LifeSpec
<1>1. Init => Life!Init
  <2> SUFFICES ASSUME Init PROVE Life!Init
    OBVIOUS
  <2>1. \A o \in Object : Phase(o) = "absent" /\ arts[o] = <<>>
    BY DEF Init, StoreInit, Phase
  <2>2. \A r \in Req : resp[r].code # Result
    BY OutcomesInit DEF OutcomesInv, OutcomeInv, SilentInv, Init, Pending, Result
  <2> QED
    BY <2>1, <2>2 DEF Life!Init
<1>2. HandlersInv /\ NoStreams /\ OutcomesInv /\ [Next]_vars => [Life!Next]_(Life!vars)
  BY LifeStep
<1>3. Init => NoStreams
  BY DEF Init, NoStreams
<1>4. HandlersInv /\ NoStreams /\ [Next]_vars => NoStreams'
  BY NoStreamsStep
<1> QED
  BY <1>1, <1>2, <1>3, <1>4, OutcomesInvariant, HandlersInvariant, PTL
  DEF Spec, LifeSpec, Life!Spec
=============================================================================
