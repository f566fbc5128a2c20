------------------------- MODULE TaskHandlersProofs -------------------------
(***************************************************************************)
(* Theorems about TaskHandlers, for every set of requests and every mix of *)
(* families that RequestsServed allows.                                    *)
(***************************************************************************)
EXTENDS TaskProperties, TaskStoreProofs

(***************************************************************************)
(* The inductive invariant behind the others: the types, the store's own   *)
(* invariant, and where a handler and its goroutine can be given what the  *)
(* request asks.  A handler past its lookup holds a task that has an id;   *)
(* only an accepted message/stream has a goroutine, and streamDemo runs    *)
(* after the handler has returned.                                         *)
(***************************************************************************)
Working == HandlerPC \ {"idle", "create", "done"}
InStreamDemo(r) == gpc[r] \notin {"none", "notify", "end"}
StreamsNow(r) == req[r].op = "stream" /\ ~AsksAuth(req[r])

IsPlainSend(r) == req[r].op = "send" /\ ~AsksAuth(req[r])

HoldsTask(r) == task[r] \in Object /\ heap[task[r]].id \in Id

CallInv(r) ==
  /\ task[r] # Nil => HoldsTask(r)
  /\ pc[r] \in Working => task[r] # Nil
  /\ gpc[r] \in GoPC \ {"none", "end"} => task[r] # Nil
  /\ pc[r] = "create" => IsMessage(req[r])
  /\ pc[r] \in {"touch", "message"} => AsksAuth(req[r])
  /\ pc[r] \in {"status", "clear", "state", "artifacts"} => IsPlainSend(r)
  /\ pc[r] = "cancel" => req[r].op = "cancel"
  /\ pc[r] = "put" => ~StreamsNow(r)
  /\ pc[r] \notin {"marshal", "marshalArts", "done"} => gpc[r] = "none"
  /\ gpc[r] = "notify" => ~StreamsNow(r)
  /\ InStreamDemo(r) => pc[r] = "done" /\ StreamsNow(r)

HandlersInv ==
  /\ HandlersTypeOK
  /\ StoreInv
  /\ \A r \in Req : CallInv(r)

LEMMA HandlersInitInv == Init => HandlersInv
<1> SUFFICES ASSUME Init PROVE HandlersInv
  OBVIOUS
<1>1. StoreInv
  BY StoreInitInv DEF Init
<1>2. \A S : <<>> \in Seq(S)
  BY EmptySeq
<1>3. Reply(Pending) \in Response
  BY <1>2 DEF Reply, Response, Code
<1>4. HandlersTypeOK
  BY <1>1, <1>2, <1>3 DEF Init, HandlersTypeOK, StoreInv, HandlerPC, GoPC
<1>5. \A r \in Req : CallInv(r)
  BY DEF Init, CallInv, Working, InStreamDemo
<1> QED
  BY <1>1, <1>4, <1>5 DEF HandlersInv

-----------------------------------------------------------------------------
(***************************************************************************)
(* Handlers and goroutines use the store only through its operations, so   *)
(* every step of theirs is a step of the store or leaves it alone.         *)
(***************************************************************************)
LEMMA CalledWithTask ==
  ASSUME HandlersInv, NEW r \in Req, pc[r] \in Working
  PROVE  HoldsTask(r)
BY DEF HandlersInv, CallInv

LEMMA GoesWithTask ==
  ASSUME HandlersInv, NEW r \in Req, gpc[r] \in GoPC \ {"none", "end"}
  PROVE  HoldsTask(r)
BY DEF HandlersInv, CallInv

LEMMA HandlersStoreStep == HandlersInv /\ [Next]_vars => [StoreNext]_storeVars
<1> SUFFICES ASSUME HandlersInv, [Next]_vars PROVE [StoreNext]_storeVars
  OBVIOUS
<1> DEFINE Same == UNCHANGED storeVars
<1>1. ASSUME NEW r \in Req, Serve(r) PROVE Same
  BY <1>1 DEF Serve, Refuse, RejectTerminal, ContinueTask, DecideToCreate,
              FindTask, MissTask, Begins
<1>2. ASSUME NEW r \in Req, Handle(r) PROVE StoreNext \/ Same
  <2>1. CASE CreateTask(r)
    BY <2>1 DEF CreateTask, StoreNext
  <2>2. CASE TouchAuthRequired(r) \/ AssignCompleted(r) \/ AssignCanceled(r)
    <3>1. pc[r] \in Working
      BY <2>2 DEF TouchAuthRequired, AssignCompleted, AssignCanceled, At,
                  Working, HandlerPC
    <3> QED
      BY <2>2, <3>1, CalledWithTask, WritesInPlace
      DEF TouchAuthRequired, AssignCompleted, AssignCanceled, StoreNext, HoldsTask
  <2>3. CASE PutTask(r)
    <3>1. pc[r] \in Working
      BY <2>3 DEF PutTask, At, Working, HandlerPC
    <3> QED
      BY <2>3, <3>1, CalledWithTask DEF PutTask, StoreNext, HoldsTask
  <2>4. CASE \/ SetAuthMessage(r) \/ ClearMessage(r) \/ AssignArtifacts(r)
             \/ MarshalStatus(r) \/ MarshalArtifacts(r)
    BY <2>4 DEF SetAuthMessage, ClearMessage, AssignArtifacts, MarshalStatus,
                MarshalArtifacts
  <2> QED
    BY <1>2, <2>1, <2>2, <2>3, <2>4 DEF Handle
<1>3. ASSUME NEW r \in Req, Stream(r) PROVE StoreNext \/ Same
  <2>1. CASE StreamTouchRunning(r) \/ StreamTouchCompleted(r)
    <3>1. gpc[r] \in GoPC \ {"none", "end"}
      BY <2>1 DEF StreamTouchRunning, StreamTouchCompleted, GoAt, GoPC
    <3> QED
      BY <2>1, <3>1, GoesWithTask, WritesInPlace
      DEF StreamTouchRunning, StreamTouchCompleted, StoreNext, HoldsTask
  <2>2. CASE StreamPut(r)
    <3>1. gpc[r] \in GoPC \ {"none", "end"}
      BY <2>2 DEF StreamPut, GoAt, GoPC
    <3> QED
      BY <2>2, <3>1, GoesWithTask DEF StreamPut, StoreNext, HoldsTask
  <2>3. CASE \/ StreamSendStatus(r) \/ StreamSendArtifact(r)
             \/ StreamLoadArtifacts(r) \/ StreamStoreArtifacts(r)
             \/ StreamSendFinal(r) \/ NotifyAuthRequired(r)
    BY <2>3 DEF StreamSendStatus, StreamSendArtifact, StreamLoadArtifacts,
                StreamStoreArtifacts, StreamSendFinal, NotifyAuthRequired
  <2> QED
    BY <1>3, <2>1, <2>2, <2>3 DEF Stream
<1>4. ASSUME Wait \/ UNCHANGED vars PROVE Same
  BY <1>4 DEF Wait, vars
<1> QED
  BY <1>1, <1>2, <1>3, <1>4 DEF Next

LEMMA StoreStays == HandlersInv /\ [Next]_vars => StoreInv'
BY HandlersStoreStep, StoreNextInv DEF HandlersInv

\* An object that has an id keeps one.
LEMMA IdsStay ==
  ASSUME HandlersInv, [Next]_vars, NEW o \in Object, heap[o].id \in Id
  PROVE  heap'[o].id \in Id
<1>1. [StoreNext]_storeVars
  BY HandlersStoreStep
<1>2. ASSUME NEW p \in Object, newTask(p) PROVE heap'[o].id \in Id
  BY <1>2, NextObjectIsFree DEF newTask, HandlersInv, StoreInv, StoreTypeOK
<1>3. ASSUME NEW p \in Object, NEW s \in States, SetState(p, s)
      PROVE  heap'[o].id \in Id
  BY <1>3 DEF SetState, HandlersInv, StoreInv, StoreTypeOK, TaskRecord
<1>4. CASE UNCHANGED heap
  BY <1>4
<1> QED
  BY <1>1, <1>2, <1>3, <1>4, WritesInPlace DEF StoreNext, put, storeVars

-----------------------------------------------------------------------------
(***************************************************************************)
(* The types.                                                              *)
(***************************************************************************)
CallTypeOK ==
  /\ req \in [Req -> Requests]
  /\ pc \in [Req -> HandlerPC]
  /\ task \in [Req -> Object \cup {Nil}]
  /\ gpc \in [Req -> GoPC]

DataTypeOK ==
  /\ loaded \in [Req -> Seq(Artifact)]
  /\ note \in [Object -> BOOLEAN]
  /\ arts \in [Object -> Seq(Artifact)]
  /\ resp \in [Req -> Response]
  /\ sent \in [Req -> Seq(Event)]

LEMMA TypeParts == HandlersTypeOK <=> StoreTypeOK /\ CallTypeOK /\ DataTypeOK
BY DEF HandlersTypeOK, CallTypeOK, DataTypeOK

LEMMA NamedTask ==
  ASSUME HandlersInv, NEW r \in Req, Known(req[r].taskId)
  PROVE  /\ items[req[r].taskId] \in Object
         /\ items[req[r].taskId] # Nil
         /\ heap[items[req[r].taskId]].id \in Id
BY DEF Known, HandlersInv, StoreInv, StoreTypeOK, KeyMatches

LEMMA WorkPC == \A j : Work(j) \in {"touch", "status", "marshal"}
BY DEF Work

LEMMA ServeTypes ==
  ASSUME HandlersInv, NEW r \in Req, Serve(r)
  PROVE  CallTypeOK' /\ DataTypeOK'
<1>1. CallTypeOK /\ DataTypeOK
  BY TypeParts DEF HandlersInv
<1>2. /\ Begins(r)
      /\ \E pc1 \in HandlerPC : pc' = [pc EXCEPT ![r] = pc1]
      /\ task' = task \/ \E o \in Object : task' = [task EXCEPT ![r] = o]
      /\ resp' = resp \/ \E code \in Code : resp' = [resp EXCEPT ![r] = Reply(code)]
  <2>1. Refusal(req[r]) \in Code
    BY DEF Refusal, Code
  <2> QED
    BY <2>1, NamedTask, WorkPC
    DEF Serve, Refuse, RejectTerminal, ContinueTask, DecideToCreate, FindTask,
        MissTask, Answer, Goto, HandlerPC, Code, Names
<1>3. \A code \in Code : Reply(code) \in Response
  BY EmptySeq DEF Reply, Response
<1> QED
  BY <1>1, <1>2, <1>3 DEF Begins, CallTypeOK, DataTypeOK, goVars

LEMMA ArtifactType ==
  ASSUME HandlersInv, NEW r \in Req, HoldsTask(r)
  PROVE  /\ artifact(r) \in Artifact
         /\ \A h \in Seq(Artifact) : Append(h, artifact(r)) \in Seq(Artifact)
         /\ <<artifact(r)>> \in Seq(Artifact)
<1>1. artifact(r) \in Artifact
  BY DEF artifact, Artifact, HoldsTask
<1> QED
  BY <1>1, AppendProperties, EmptySeq

LEMMA EventTypes ==
  ASSUME HandlersInv, NEW o \in Object
  PROVE  /\ \A final \in BOOLEAN : StatusEvent(o, final) \in Event
         /\ ArtifactEvent \in Event
         /\ \A h \in Seq(Event), e \in Event : Append(h, e) \in Seq(Event)
<1>1. heap[o].state \in TaskState \cup {""}
  BY DEF HandlersInv, StoreInv, StoreTypeOK, TaskRecord
<1> QED
  BY <1>1, AppendProperties DEF StatusEvent, ArtifactEvent, Event

LEMMA HandleTypes ==
  ASSUME HandlersInv, NEW r \in Req, Handle(r)
  PROVE  CallTypeOK' /\ DataTypeOK'
<1>1. CallTypeOK /\ DataTypeOK
  BY TypeParts DEF HandlersInv
<1>2. CASE CreateTask(r)
  BY <1>1, <1>2, WorkPC
  DEF CreateTask, At, Goto, CallTypeOK, DataTypeOK, goVars, HandlerPC
<1>3. CASE \/ TouchAuthRequired(r) \/ SetAuthMessage(r) \/ ClearMessage(r)
           \/ AssignCompleted(r) \/ AssignCanceled(r)
  BY <1>1, <1>3
  DEF TouchAuthRequired, SetAuthMessage, ClearMessage, AssignCompleted,
      AssignCanceled, At, Goto, CallTypeOK, DataTypeOK, goVars, HandlerPC
<1>4. CASE AssignArtifacts(r)
  <2>1. HoldsTask(r)
    BY <1>4, CalledWithTask DEF AssignArtifacts, At, Working, HandlerPC
  <2> QED
    BY <1>1, <1>4, <2>1, ArtifactType
    DEF AssignArtifacts, At, Goto, CallTypeOK, DataTypeOK, goVars, HandlerPC
<1>5. CASE PutTask(r)
  BY <1>1, <1>5
  DEF PutTask, At, Goto, CallTypeOK, DataTypeOK, HandlerPC, GoPC
<1>6. CASE MarshalStatus(r) \/ MarshalArtifacts(r)
  <2>1. task[r] \in Object
    BY <1>6, CalledWithTask
    DEF MarshalStatus, MarshalArtifacts, At, Working, HandlerPC, HoldsTask
  <2>2. /\ heap[task[r]].state \in TaskState \cup {""}
        /\ arts[task[r]] \in Seq(Artifact)
    BY <1>1, <2>1 DEF DataTypeOK, HandlersInv, StoreInv, StoreTypeOK, TaskRecord
  <2>3. resp' \in [Req -> Response]
    <3>1. \A p \in Response, s \in TaskState \cup {""}, h \in Seq(Artifact) :
            /\ [p EXCEPT !.state = s] \in Response
            /\ [p EXCEPT !.code = Result, !.arts = h] \in Response
      BY DEF Response, Code
    <3>2. CASE MarshalStatus(r)
      BY <1>1, <2>2, <3>1, <3>2 DEF MarshalStatus, DataTypeOK
    <3>3. CASE MarshalArtifacts(r)
      BY <1>1, <2>2, <3>1, <3>3 DEF MarshalArtifacts, DataTypeOK
    <3> QED
      BY <1>6, <3>2, <3>3
  <2> QED
    BY <1>1, <1>6, <2>3
    DEF MarshalStatus, MarshalArtifacts, At, Goto, CallTypeOK, DataTypeOK,
        goVars, HandlerPC, GoPC
<1> QED
  BY <1>2, <1>3, <1>4, <1>5, <1>6 DEF Handle

LEMMA StreamTypes ==
  ASSUME HandlersInv, NEW r \in Req, Stream(r)
  PROVE  CallTypeOK' /\ DataTypeOK'
<1>1. CallTypeOK /\ DataTypeOK
  BY TypeParts DEF HandlersInv
<1>2. HoldsTask(r)
  BY GoesWithTask
  DEF Stream, StreamTouchRunning, StreamSendStatus, StreamSendArtifact,
      StreamTouchCompleted, StreamLoadArtifacts, StreamStoreArtifacts,
      StreamPut, StreamSendFinal, NotifyAuthRequired, GoAt, GoPC
<1>3. CallTypeOK'
  BY <1>1
  DEF Stream, StreamTouchRunning, StreamSendStatus, StreamSendArtifact,
      StreamTouchCompleted, StreamLoadArtifacts, StreamStoreArtifacts,
      StreamPut, StreamSendFinal, NotifyAuthRequired, GoAt, GoPC, callVars,
      CallTypeOK
<1>4. CASE \/ StreamTouchRunning(r) \/ StreamTouchCompleted(r)
           \/ StreamPut(r) \/ NotifyAuthRequired(r)
  BY <1>1, <1>3, <1>4
  DEF StreamTouchRunning, StreamTouchCompleted, StreamPut, NotifyAuthRequired,
      GoAt, callVars, DataTypeOK
<1>5. CASE StreamSendStatus(r) \/ StreamSendArtifact(r) \/ StreamSendFinal(r)
  <2>1. \E e \in Event : Send(r, e)
    BY <1>2, <1>5, EventTypes
    DEF StreamSendStatus, StreamSendArtifact, StreamSendFinal, HoldsTask
  <2>2. sent' \in [Req -> Seq(Event)]
    BY <1>1, <1>2, <2>1, EventTypes DEF Send, DataTypeOK, HoldsTask
  <2>3. UNCHANGED <<loaded, note, arts, resp>>
    BY <1>5 DEF StreamSendStatus, StreamSendArtifact, StreamSendFinal, GoAt, callVars
  <2> QED
    BY <1>1, <1>3, <2>2, <2>3 DEF DataTypeOK
<1>6. CASE StreamLoadArtifacts(r)
  <2>1. loaded' \in [Req -> Seq(Artifact)]
    BY <1>1, <1>2, <1>6 DEF StreamLoadArtifacts, DataTypeOK, HoldsTask
  <2> QED
    BY <1>1, <1>3, <1>6, <2>1 DEF StreamLoadArtifacts, GoAt, callVars, DataTypeOK
<1>7. CASE StreamStoreArtifacts(r)
  <2>1. Append(loaded[r], artifact(r)) \in Seq(Artifact)
    BY <1>1, <1>2, ArtifactType DEF DataTypeOK
  <2>2. arts' \in [Object -> Seq(Artifact)]
    BY <1>1, <1>7, <2>1 DEF StreamStoreArtifacts, DataTypeOK
  <2> QED
    BY <1>1, <1>3, <1>7, <2>2 DEF StreamStoreArtifacts, GoAt, callVars, DataTypeOK
<1> QED
  BY <1>4, <1>5, <1>6, <1>7 DEF Stream

-----------------------------------------------------------------------------
(***************************************************************************)
(* Where handlers and goroutines are.  A step of r moves r alone.          *)
(***************************************************************************)
Step(r) == Serve(r) \/ Handle(r) \/ Stream(r)

LEMMA NextIsStep ==
  [Next]_vars <=> (UNCHANGED vars \/ \E r \in Req : Step(r))
BY DEF Next, Wait, Step, Quiescent

LEMMA OthersWait ==
  ASSUME HandlersInv, NEW r \in Req, Step(r), NEW q \in Req, q # r
  PROVE  pc'[q] = pc[q] /\ gpc'[q] = gpc[q] /\ task'[q] = task[q]
<1>1. CallTypeOK
  BY TypeParts DEF HandlersInv
<1>2. CASE Serve(r)
  BY <1>1, <1>2
  DEF Serve, Refuse, RejectTerminal, ContinueTask, DecideToCreate, FindTask,
      MissTask, Begins, goVars, Answer, Goto, CallTypeOK
<1>3. CASE Handle(r)
  BY <1>1, <1>3
  DEF Handle, CreateTask, TouchAuthRequired, SetAuthMessage, ClearMessage,
      AssignCompleted, AssignArtifacts, AssignCanceled, PutTask, MarshalStatus,
      MarshalArtifacts, At, Goto, CallTypeOK, goVars
<1>4. CASE Stream(r)
  BY <1>1, <1>4
  DEF Stream, StreamTouchRunning, StreamSendStatus, StreamSendArtifact,
      StreamTouchCompleted, StreamLoadArtifacts, StreamStoreArtifacts,
      StreamPut, StreamSendFinal, NotifyAuthRequired, GoAt, callVars, CallTypeOK
<1> QED
  BY <1>2, <1>3, <1>4 DEF Step

LEMMA RequestsStay ==
  ASSUME NEW r \in Req, Step(r)
  PROVE  req' = req
BY DEF Step, Serve, Refuse, RejectTerminal, ContinueTask, DecideToCreate,
       FindTask, MissTask, Begins, Handle, CreateTask, TouchAuthRequired,
       SetAuthMessage, ClearMessage, AssignCompleted, AssignArtifacts,
       AssignCanceled, PutTask, MarshalStatus, MarshalArtifacts, Stream,
       StreamTouchRunning, StreamSendStatus, StreamSendArtifact,
       StreamTouchCompleted, StreamLoadArtifacts, StreamStoreArtifacts,
       StreamPut, StreamSendFinal, NotifyAuthRequired, GoAt, callVars

LEMMA OthersStay ==
  ASSUME HandlersInv, [Next]_vars, NEW q \in Req,
         req' = req, pc'[q] = pc[q], gpc'[q] = gpc[q], task'[q] = task[q]
  PROVE  CallInv(q)'
<1>1. HoldsTask(q) => HoldsTask(q)'
  BY IdsStay DEF HoldsTask
<1> QED
  BY <1>1
  DEF HandlersInv, CallInv, InStreamDemo, StreamsNow, AsksAuth, IsMessage,
      IsPlainSend

LEMMA ServedCall ==
  ASSUME HandlersInv, NEW r \in Req, Serve(r)
  PROVE  CallInv(r)'
<1>0. [Next]_vars
  BY DEF Next
<1>1. /\ Begins(r)
      /\ CallTypeOK /\ CallInv(r)
  BY TypeParts
  DEF HandlersInv, Serve, Refuse, RejectTerminal, ContinueTask, DecideToCreate,
      FindTask, MissTask
<1>3. /\ gpc'[r] = "none" /\ req' = req /\ heap' = heap
      /\ task[r] # Nil => HoldsTask(r)
  BY <1>1 DEF Begins, goVars, storeVars, CallInv
<1>4. CASE Refuse(r) \/ RejectTerminal(r) \/ MissTask(r)
  <2>1. pc'[r] = "done" /\ task' = task
    BY <1>1, <1>4 DEF Refuse, RejectTerminal, MissTask, Answer, Goto, CallTypeOK
  <2> QED
    BY <1>3, <2>1 DEF CallInv, HoldsTask, Working, InStreamDemo
<1>5. CASE DecideToCreate(r)
  <2>1. pc'[r] = "create" /\ task' = task /\ IsMessage(req[r])
    BY <1>1, <1>5 DEF DecideToCreate, Goto, CallTypeOK
  <2> QED
    BY <1>3, <2>1 DEF CallInv, HoldsTask, Working, InStreamDemo, IsMessage
<1>6. CASE ContinueTask(r) \/ FindTask(r)
  <2>1. /\ task'[r] \in Object /\ heap[task'[r]].id \in Id
        /\ \/ pc'[r] = Work(req[r]) /\ IsMessage(req[r])
           \/ pc'[r] = "cancel" /\ req[r].op = "cancel"
           \/ pc'[r] = "marshal"
    BY <1>1, <1>6, NamedTask DEF ContinueTask, FindTask, Goto, Names, CallTypeOK
  <2>2. /\ pc'[r] \in {"touch", "status", "marshal", "cancel"}
        /\ pc'[r] = "touch" => AsksAuth(req[r])
        /\ pc'[r] = "status" => IsPlainSend(r)
        /\ pc'[r] = "cancel" => req[r].op = "cancel"
    BY <2>1 DEF Work, IsMessage, AsksAuth, IsPlainSend
  <2> QED
    BY <1>3, <2>1, <2>2, IdFacts
    DEF CallInv, HoldsTask, Working, InStreamDemo, AsksAuth, IsMessage, GoPC,
        IsPlainSend
<1> QED
  BY <1>4, <1>5, <1>6 DEF Serve

LEMMA HandledCall ==
  ASSUME HandlersInv, NEW r \in Req, Handle(r)
  PROVE  CallInv(r)'
<1>0. [Next]_vars
  BY DEF Next
<1>1. CallTypeOK /\ CallInv(r)
  BY TypeParts DEF HandlersInv
<1>2. req' = req /\ pc[r] \in Working \cup {"create"}
  BY DEF Handle, CreateTask, TouchAuthRequired, SetAuthMessage, ClearMessage,
         AssignCompleted, AssignArtifacts, AssignCanceled, PutTask,
         MarshalStatus, MarshalArtifacts, At, Working, HandlerPC
<1>4. CASE CreateTask(r)
  <2>1. PICK o \in Object : newTask(o) /\ task' = [task EXCEPT ![r] = o]
    BY <1>4 DEF CreateTask
  <2>2. task'[r] = o /\ o # Nil /\ heap'[o].id \in Id
    BY <1>1, <2>1, NextObjectIsFree, IdFacts
    DEF CallTypeOK, newTask, HandlersInv, StoreInv, StoreTypeOK
  <2>3. /\ pc'[r] = Work(req[r]) /\ gpc'[r] = "none" /\ IsMessage(req[r])
    BY <1>1, <1>4 DEF CreateTask, At, Goto, CallTypeOK, CallInv, goVars
  <2>4. /\ pc'[r] \in {"touch", "status", "marshal"}
        /\ pc'[r] = "touch" => AsksAuth(req[r])
        /\ pc'[r] = "status" => IsPlainSend(r)
    BY <2>3 DEF Work, IsPlainSend
  <2> QED
    BY <1>2, <2>2, <2>3, <2>4
    DEF CallInv, HoldsTask, Working, InStreamDemo, AsksAuth, IsMessage, GoPC,
        IsPlainSend
<1>5. CASE ~CreateTask(r)
  <2>1. task' = task /\ HoldsTask(r)'
    <3>1. pc[r] \in Working /\ task' = task
      BY <1>5
      DEF Handle, TouchAuthRequired, SetAuthMessage, ClearMessage,
          AssignCompleted, AssignArtifacts, AssignCanceled, PutTask,
          MarshalStatus, MarshalArtifacts, At, Working, HandlerPC
    <3> QED
      BY <1>0, <3>1, CalledWithTask, IdsStay DEF HoldsTask
  <2>2. task[r] # Nil
    BY <2>1, IdFacts DEF HoldsTask
  <2>3. CASE \/ TouchAuthRequired(r) \/ SetAuthMessage(r) \/ AssignCompleted(r)
             \/ ClearMessage(r) \/ AssignArtifacts(r) \/ AssignCanceled(r)
    <3>1. /\ pc'[r] \in {"message", "clear", "state", "artifacts", "put"}
          /\ gpc' = gpc
          /\ pc'[r] = "message" => pc[r] = "touch"
          /\ pc'[r] \in {"clear", "state", "artifacts"}
               => pc[r] \in {"status", "clear", "state"}
          /\ pc'[r] = "put" => pc[r] \in {"message", "artifacts", "cancel"}
          /\ pc[r] \in HandlerPC \ {"marshal", "marshalArts", "done"}
      BY <1>1, <2>3
      DEF TouchAuthRequired, SetAuthMessage, ClearMessage, AssignCompleted,
          AssignArtifacts, AssignCanceled, At, Goto, CallTypeOK, goVars,
          HandlerPC
    <3>2. pc'[r] = "put" => ~StreamsNow(r)
      BY <1>1, <3>1 DEF CallInv, StreamsNow, AsksAuth, IsPlainSend
    <3> QED
      BY <1>1, <1>2, <2>1, <2>2, <3>1, <3>2
      DEF CallInv, InStreamDemo, StreamsNow, AsksAuth, IsMessage, IsPlainSend
  <2>4. CASE PutTask(r)
    BY <1>1, <1>2, <2>1, <2>4
    DEF PutTask, At, Goto, CallTypeOK, CallInv, Working, InStreamDemo,
        StreamsNow, AsksAuth, IsMessage, IsPlainSend
  <2>5. CASE MarshalStatus(r) \/ MarshalArtifacts(r)
    BY <1>1, <1>2, <2>1, <2>5
    DEF MarshalStatus, MarshalArtifacts, At, Goto, CallTypeOK, CallInv, goVars,
        Working, InStreamDemo, StreamsNow, AsksAuth, IsMessage, IsPlainSend
  <2> QED
    BY <1>5, <2>3, <2>4, <2>5 DEF Handle
<1> QED
  BY <1>4, <1>5

LEMMA StreamedCall ==
  ASSUME HandlersInv, NEW r \in Req, Stream(r)
  PROVE  CallInv(r)'
<1>0. [Next]_vars
  BY DEF Next
<1>1. CallTypeOK /\ CallInv(r)
  BY TypeParts DEF HandlersInv
<1>2. /\ UNCHANGED callVars
      /\ gpc[r] \in GoPC \ {"none", "end"}
      /\ gpc'[r] \in GoPC \ {"none", "notify"}
      /\ gpc[r] = "notify" => gpc'[r] = "end"
  BY <1>1
  DEF Stream, StreamTouchRunning, StreamSendStatus, StreamSendArtifact,
      StreamTouchCompleted, StreamLoadArtifacts, StreamStoreArtifacts,
      StreamPut, StreamSendFinal, NotifyAuthRequired, GoAt, GoPC, CallTypeOK
<1>3. HoldsTask(r)'
  BY <1>0, <1>2, GoesWithTask, IdsStay DEF HoldsTask, callVars
<1> QED
  BY <1>1, <1>2, <1>3
  DEF callVars, CallInv, InStreamDemo, StreamsNow, AsksAuth, IsMessage,
      IsPlainSend

LEMMA CallsStay ==
  ASSUME HandlersInv, NEW r \in Req, Step(r)
  PROVE  \A q \in Req : CallInv(q)'
<1>1. CallInv(r)'
  BY ServedCall, HandledCall, StreamedCall DEF Step
<1>2. ASSUME NEW q \in Req, q # r PROVE CallInv(q)'
  <2>1. [Next]_vars
    BY NextIsStep
  <2> QED
    BY <1>2, <2>1, OthersWait, OthersStay, RequestsStay
<1> QED
  BY <1>1, <1>2

LEMMA HandlersNextInv == HandlersInv /\ [Next]_vars => HandlersInv'
<1> SUFFICES ASSUME HandlersInv, [Next]_vars PROVE HandlersInv'
  OBVIOUS
<1>1. StoreInv' /\ StoreTypeOK'
  BY StoreStays DEF StoreInv
<1>2. ASSUME NEW r \in Req, Step(r)
      PROVE  /\ CallTypeOK' /\ DataTypeOK'
             /\ \A q \in Req : CallInv(q)'
  BY <1>2, ServeTypes, HandleTypes, StreamTypes, CallsStay DEF Step
<1>3. CASE UNCHANGED vars
  <2>1. CallTypeOK' /\ DataTypeOK'
    BY <1>3, TypeParts DEF HandlersInv, vars, callVars, goVars, CallTypeOK, DataTypeOK
  <2>2. \A q \in Req : CallInv(q)'
    BY <1>3, OthersStay DEF vars, callVars, goVars
  <2> QED
    BY <1>1, <2>1, <2>2, TypeParts DEF HandlersInv, HandlersTypeOK, CallTypeOK, DataTypeOK
<1>4. CASE \E r \in Req : Step(r)
  BY <1>1, <1>2, <1>4 DEF HandlersInv, HandlersTypeOK, CallTypeOK, DataTypeOK
<1> QED
  BY <1>3, <1>4, NextIsStep
LEMMA HandlersInvariant == Spec => []HandlersInv
BY HandlersInitInv, HandlersNextInv, PTL DEF Spec

\* Every variable keeps its type, whatever is asked and in whatever order.
THEOREM HandlersTypeCorrect == Spec => []HandlersTypeOK
<1>1. HandlersInv => HandlersTypeOK
  BY DEF HandlersInv
<1> QED
  BY <1>1, HandlersInvariant, PTL

\* The handlers and their goroutines use the store only through its own
\* operations, so whatever holds of the store holds of it in the server.
THEOREM HandlersUseStore == Spec => StoreSpec
<1>1. Init => StoreInit
  BY DEF Init
<1> QED
  BY <1>1, HandlersStoreStep, HandlersInvariant, PTL DEF Spec, StoreSpec

\* Handlers write the tasks they hold in place, so put never sees a change:
\* whatever is asked, every history stays at the entry newTask gave it
\* (tasks.go:59; ops_impl.go:63-65, 73-75, 275-277).
THEOREM HandlersRecordNothing == Spec => []HistoryStuck
<1>1. StoreSpec => []StuckInv
  BY StuckInvariant, WritesInPlace
<1>2. StuckInv => HistoryStuck
  BY DEF StuckInv
<1> QED
  BY <1>1, <1>2, HandlersUseStore, PTL

-----------------------------------------------------------------------------
(***************************************************************************)
(* What a step of one request does to a task: who writes its state, its    *)
(* artifacts and its message.                                              *)
(***************************************************************************)
LEMMA SetStateWrites ==
  ASSUME HandlersInv, NEW o \in Object, NEW p \in Object, NEW s, SetState(p, s)
  PROVE  heap'[o].state = IF o = p THEN s ELSE heap[o].state
BY DEF SetState, HandlersInv, StoreInv, StoreTypeOK, TaskRecord

\* The states a handler or goroutine assigns to a task it holds.
Writes(r, s) ==
  \/ s = "auth-required" /\ pc[r] = "touch" /\ pc'[r] = "message"
  \/ s = "completed" /\ pc[r] = "status" /\ pc'[r] = "clear"
  \/ s = "completed" /\ pc[r] = "state" /\ pc'[r] = "artifacts"
  \/ s = "canceled" /\ pc[r] = "cancel"
  \/ s = "running" /\ gpc[r] = "running" /\ gpc'[r] = "sendStatus"
  \/ s = "completed" /\ gpc[r] = "completed" /\ gpc'[r] = "load"

LEMMA StateWrites ==
  ASSUME HandlersInv, NEW r \in Req, Step(r), NEW o \in Object
  PROVE  \/ heap'[o].state = heap[o].state
         \/ /\ CreateTask(r) /\ heap[o] = Blank
            /\ task'[r] = o /\ heap'[o].state = "running"
         \/ /\ task[r] = o /\ task'[r] = o
            /\ Writes(r, heap'[o].state)
<1>1. CallTypeOK
  BY TypeParts DEF HandlersInv
<1>2. CASE UNCHANGED heap
  BY <1>2
<1>3. CASE CreateTask(r)
  <2>1. PICK n \in Object : newTask(n) /\ task' = [task EXCEPT ![r] = n]
    BY <1>3 DEF CreateTask
  <2>2. /\ heap[n] = Blank /\ task'[r] = n
        /\ heap' = [heap EXCEPT ![n] = [id |-> formatID(n), state |-> "running"]]
    BY <1>1, <2>1, NextObjectIsFree DEF newTask, HandlersInv, CallTypeOK
  <2>3. heap'[o].state = IF o = n THEN "running" ELSE heap[o].state
    BY <2>2 DEF HandlersInv, StoreInv, StoreTypeOK
  <2> QED
    BY <1>3, <2>2, <2>3
<1>4. CASE TouchAuthRequired(r) \/ AssignCompleted(r) \/ AssignCanceled(r)
  <2>1. /\ task[r] \in Object /\ task' = task
        /\ \E s : SetState(task[r], s) /\ Writes(r, s)
    BY <1>1, <1>4, CalledWithTask
    DEF TouchAuthRequired, AssignCompleted, AssignCanceled, At, Goto, Working,
        HandlerPC, HoldsTask, Writes, CallTypeOK
  <2> QED
    BY <2>1, SetStateWrites
<1>5. CASE StreamTouchRunning(r) \/ StreamTouchCompleted(r)
  <2>1. /\ task[r] \in Object /\ task' = task
        /\ \E s : SetState(task[r], s) /\ Writes(r, s)
    BY <1>1, <1>5, GoesWithTask
    DEF StreamTouchRunning, StreamTouchCompleted, GoAt, GoPC, HoldsTask,
        Writes, CallTypeOK, callVars
  <2> QED
    BY <2>1, SetStateWrites
<1>6. \/ UNCHANGED heap
      \/ CreateTask(r)
      \/ TouchAuthRequired(r) \/ AssignCompleted(r) \/ AssignCanceled(r)
      \/ StreamTouchRunning(r) \/ StreamTouchCompleted(r)
  BY DEF Step, Serve, Refuse, RejectTerminal, ContinueTask, DecideToCreate,
         FindTask, MissTask, Begins, Handle, SetAuthMessage, ClearMessage,
         AssignArtifacts, PutTask, MarshalStatus, MarshalArtifacts, Stream,
         StreamSendStatus, StreamSendArtifact, StreamLoadArtifacts,
         StreamStoreArtifacts, StreamPut, StreamSendFinal, NotifyAuthRequired,
         storeVars, put
<1> QED
  BY <1>2, <1>3, <1>4, <1>5, <1>6
-----------------------------------------------------------------------------
(***************************************************************************)
(* A running task has a worker.  The worker of a step stays the witness:   *)
(* it goes on towards its outcome until it writes it, and nobody else can  *)
(* move it.  Only a task that is created or streamed becomes running, and  *)
(* whoever does that is a worker.                                          *)
(***************************************************************************)
LEMMA WorkerGoesOn ==
  ASSUME HandlersInv, NEW r \in Req, Step(r), NEW o \in Object,
         Reached(r, o), WillFinish(r), heap'[o].state = "running"
  PROVE  Reached(r, o)' /\ WillFinish(r)'
<1>1. CallTypeOK /\ CallInv(r) /\ req' = req
  BY TypeParts, RequestsStay DEF HandlersInv
<1>2. task[r] = o /\ IsMessage(req[r])
  BY DEF Reached
<1>3. CASE Serve(r)
  <2>1. pc[r] = "idle"
    BY <1>3 DEF Serve, Refuse, RejectTerminal, ContinueTask, DecideToCreate,
                FindTask, MissTask, Begins
  <2> QED
    BY <1>1, <2>1 DEF CallInv, WillFinish, StreamToStart
<1>4. CASE Handle(r)
  <2>1. gpc[r] \notin {"running", "sendStatus", "sendArtifact", "completed"}
    BY <1>1, <1>4
    DEF Handle, CreateTask, TouchAuthRequired, SetAuthMessage, ClearMessage,
        AssignCompleted, AssignArtifacts, AssignCanceled, PutTask,
        MarshalStatus, MarshalArtifacts, At, CallInv, InStreamDemo
  <2>2. pc[r] \in {"touch", "status", "state", "marshal", "marshalArts"}
    BY <2>1 DEF WillFinish, StreamToStart
  <2>3. ~TouchAuthRequired(r) /\ ~AssignCompleted(r)
    BY <1>2, SetStateWrites DEF TouchAuthRequired, AssignCompleted
  <2>6. CASE ClearMessage(r)
    <3>1. pc'[r] = "state" /\ task' = task
      BY <1>1, <2>2, <2>6 DEF ClearMessage, At, Goto, CallTypeOK
    <3> QED
      BY <1>1, <1>2, <3>1 DEF Reached, WillFinish
  <2> SUFFICES ASSUME ~ClearMessage(r) PROVE Reached(r, o)' /\ WillFinish(r)'
    BY <2>6
  <2>4. MarshalStatus(r) \/ MarshalArtifacts(r)
    BY <1>4, <2>2, <2>3
    DEF Handle, CreateTask, TouchAuthRequired, SetAuthMessage, ClearMessage,
        AssignCompleted, AssignArtifacts, AssignCanceled, PutTask,
        MarshalStatus, MarshalArtifacts, At
  <2>5. req[r].op = "stream" /\ ~AsksAuth(req[r])
    BY <2>1, <2>4
    DEF WillFinish, StreamToStart, MarshalStatus, MarshalArtifacts, At
  <2> QED
    BY <1>1, <1>2, <2>4, <2>5
    DEF MarshalStatus, MarshalArtifacts, At, Goto, CallTypeOK, Reached,
        WillFinish, StreamToStart
<1>5. CASE Stream(r)
  <2>1. ~StreamTouchCompleted(r)
    BY <1>2, SetStateWrites DEF StreamTouchCompleted
  <2>2. /\ gpc[r] \in {"running", "sendStatus", "sendArtifact", "completed"}
        /\ pc[r] = "done"
    BY <1>1, <1>5
    DEF CallInv, InStreamDemo, WillFinish, StreamToStart, StreamsNow, Stream,
        StreamTouchRunning, StreamSendStatus, StreamSendArtifact,
        StreamTouchCompleted, StreamLoadArtifacts, StreamStoreArtifacts,
        StreamPut, StreamSendFinal, NotifyAuthRequired, GoAt
  <2>3. StreamTouchRunning(r) \/ StreamSendStatus(r) \/ StreamSendArtifact(r)
    BY <1>5, <2>1, <2>2
    DEF Stream, StreamTouchRunning, StreamSendStatus, StreamSendArtifact,
        StreamTouchCompleted, StreamLoadArtifacts, StreamStoreArtifacts,
        StreamPut, StreamSendFinal, NotifyAuthRequired, GoAt
  <2> QED
    BY <1>1, <1>2, <2>3
    DEF StreamTouchRunning, StreamSendStatus, StreamSendArtifact, GoAt,
        callVars, CallTypeOK, Reached, WillFinish
<1> QED
  BY <1>3, <1>4, <1>5 DEF Step

\* Whoever makes a task running is its worker.
LEMMA WriterIsWorker ==
  ASSUME HandlersInv, NEW r \in Req, Step(r), NEW o \in Object,
         heap'[o].state = "running", heap[o].state # "running"
  PROVE  Reached(r, o)' /\ WillFinish(r)'
<1>1. CallTypeOK /\ CallInv(r) /\ req' = req
  BY TypeParts, RequestsStay DEF HandlersInv
<1>2. CASE CreateTask(r) /\ task'[r] = o
  <2>1. pc'[r] = Work(req[r]) /\ IsMessage(req[r])
    BY <1>1, <1>2 DEF CreateTask, At, Goto, CallTypeOK, CallInv
  <2> QED
    BY <1>1, <1>2, <2>1
    DEF Work, Reached, WillFinish, StreamToStart, IsMessage
<1>3. CASE task'[r] = o /\ gpc[r] = "running" /\ gpc'[r] = "sendStatus"
  BY <1>1, <1>3
  DEF CallInv, InStreamDemo, StreamsNow, Reached, WillFinish, IsMessage
<1> QED
  BY <1>2, <1>3, StateWrites DEF Writes

LEMMA RunningHasWorkerStep ==
  HandlersInv /\ RunningHasWorker /\ [Next]_vars => RunningHasWorker'
<1> SUFFICES ASSUME HandlersInv, RunningHasWorker, [Next]_vars,
                    NEW o \in Object, heap'[o].state = "running"
             PROVE  \E r \in Req : Reached(r, o)' /\ WillFinish(r)'
  BY DEF RunningHasWorker, State
<1>1. ASSUME NEW r \in Req, Step(r)
      PROVE  \E q \in Req : Reached(q, o)' /\ WillFinish(q)'
  <2>1. CASE heap[o].state = "running"
    <3>1. PICK q \in Req : Reached(q, o) /\ WillFinish(q)
      BY <2>1 DEF RunningHasWorker, State
    <3>2. CASE q = r
      BY <1>1, <3>1, <3>2, WorkerGoesOn
    <3>3. CASE q # r
      BY <1>1, <3>1, <3>3, OthersWait, RequestsStay
      DEF Reached, WillFinish, StreamToStart
    <3> QED
      BY <3>2, <3>3
  <2>2. CASE heap[o].state # "running"
    BY <1>1, <2>2, WriterIsWorker
  <2> QED
    BY <2>1, <2>2
<1>2. CASE UNCHANGED vars
  BY <1>2
  DEF vars, storeVars, callVars, goVars, RunningHasWorker, State, Reached,
      WillFinish, StreamToStart
<1> QED
  BY <1>1, <1>2, NextIsStep

\* No interleaving leaves a task running that nobody works on.
THEOREM RunningIsWorkedOn == Spec => []RunningHasWorker
<1>1. Init => RunningHasWorker
  <2> SUFFICES ASSUME Init, NEW o \in Object PROVE heap[o].state # "running"
    BY DEF RunningHasWorker, State
  <2>1. heap[o] = Blank
    BY DEF Init, StoreInit
  <2> QED
    BY <2>1, BlankFacts
<1> QED
  BY <1>1, RunningHasWorkerStep, HandlersInvariant, PTL DEF Spec

-----------------------------------------------------------------------------
(***************************************************************************)
(* What has settled stays settled.  The only writers of a state that is    *)
(* not terminal are a message that found the task alive, which settled     *)
(* excludes, and the creation of a task, which has no state before.        *)
(***************************************************************************)
LEMMA SettledStep ==
  ASSUME HandlersInv, [Next]_vars, NEW o \in Object, Settled(o)
  PROVE  Settled(o)'
<1>1. CASE UNCHANGED vars
  BY <1>1
  DEF vars, storeVars, callVars, goVars, Settled, State, Reached, StreamToStart
<1>2. ASSUME NEW r \in Req, Step(r) PROVE Settled(o)'
  <2>1. CallTypeOK /\ CallInv(r) /\ req' = req
    BY <1>2, TypeParts, RequestsStay DEF HandlersInv
  <2>2. isTerminal(heap[o].state) /\ heap[o] # Blank
    BY BlankFacts DEF Settled, State, isTerminal
  <2>3. isTerminal(heap'[o].state)
    <3>1. CASE task[r] = o /\ Writes(r, heap'[o].state)
      <4>1. heap'[o].state # "auth-required"
        BY <2>1, <3>1 DEF Writes, CallInv, AsksAuth, Settled, Reached
      <4>2. heap'[o].state # "running"
        BY <2>1, <3>1
        DEF Writes, CallInv, InStreamDemo, StreamsNow, IsMessage, Settled,
            Reached, StreamToStart
      <4> QED
        BY <3>1, <4>1, <4>2 DEF Writes, isTerminal
    <3> QED
      BY <1>2, <2>2, <3>1, StateWrites
  <2>4. ASSUME NEW q \in Req, q # r, Reached(q, o)'
        PROVE  (pc[q] # "touch" /\ ~StreamToStart(q))'
    BY <1>2, <2>1, <2>4, OthersWait DEF Settled, Reached, StreamToStart
  <2>5. ASSUME Reached(r, o)' PROVE (pc[r] # "touch" /\ ~StreamToStart(r))'
    <3>1. CASE Serve(r)
      <4>1. ~ContinueTask(r)
        BY <2>1, <2>2, <2>5 DEF ContinueTask, Names, NamedState, CallTypeOK, Reached
      <4>2. /\ pc'[r] \in {"done", "create"} /\ gpc'[r] = "none"
        BY <2>1, <2>5, <3>1, <4>1
        DEF Serve, Refuse, RejectTerminal, DecideToCreate, FindTask, MissTask,
            Begins, goVars, Answer, Goto, CallTypeOK, CallInv, Reached
      <4> QED
        BY <4>2 DEF StreamToStart
    <3>2. CASE Handle(r)
      <4>1. ~CreateTask(r)
        BY <2>1, <2>2, <2>5, NextObjectIsFree
        DEF CreateTask, newTask, CallTypeOK, HandlersInv, Reached
      <4>2. Reached(r, o)
        BY <2>1, <2>5, <3>2, <4>1
        DEF Handle, TouchAuthRequired, SetAuthMessage, ClearMessage,
            AssignCompleted, AssignArtifacts, AssignCanceled, PutTask,
            MarshalStatus, MarshalArtifacts, Reached
      <4>3. pc[r] # "touch" /\ ~StreamToStart(r)
        BY <4>2 DEF Settled
      <4> QED
        BY <2>1, <3>2, <4>1, <4>3
        DEF Handle, TouchAuthRequired, SetAuthMessage, ClearMessage,
            AssignCompleted, AssignArtifacts, AssignCanceled, PutTask,
            MarshalStatus, MarshalArtifacts, At, Goto, goVars, CallTypeOK,
            CallInv, StreamToStart, StreamsNow
    <3>3. CASE Stream(r)
      BY <2>1, <2>5, <3>3
      DEF Stream, StreamTouchRunning, StreamSendStatus, StreamSendArtifact,
          StreamTouchCompleted, StreamLoadArtifacts, StreamStoreArtifacts,
          StreamPut, StreamSendFinal, NotifyAuthRequired, GoAt, callVars,
          CallTypeOK, Settled, Reached, StreamToStart
    <3> QED
      BY <1>2, <3>1, <3>2, <3>3 DEF Step
  <2> QED
    BY <2>3, <2>4, <2>5 DEF Settled, State
<1> QED
  BY <1>1, <1>2, NextIsStep

\* A terminal task that no earlier message can still reopen is final.
THEOREM SettledIsFinal == Spec => SettledForever
<1>1. HandlersInv /\ [Next]_vars => [\A o \in Object : Settled(o) => Settled(o)']_vars
  BY SettledStep
<1> QED
  BY <1>1, HandlersInvariant, PTL DEF Spec, SettledForever
-----------------------------------------------------------------------------
(***************************************************************************)
(* Outputs and messages.  Artifacts are only ever replaced by artifacts,   *)
(* so a completed task lacks them only while the writer of its state has a *)
(* statement to go.  The message of a task is only cleared by a completion *)
(* that assigns the whole Status, and whoever has cleared it has for good: *)
(* its handler never goes back.                                            *)
(***************************************************************************)
LEMMA ArtifactWrites ==
  ASSUME HandlersInv, NEW r \in Req, Step(r), NEW o \in Object
  PROVE  \/ /\ arts'[o] = arts[o]
            /\ task[r] = o => ~AssignArtifacts(r) /\ ~StreamStoreArtifacts(r)
         \/ arts'[o] # <<>>
<1>1. arts \in [Object -> Seq(Artifact)]
  BY TypeParts DEF HandlersInv, DataTypeOK
<1>2. CASE AssignArtifacts(r) \/ StreamStoreArtifacts(r)
  <2>1. HoldsTask(r)
    BY <1>2, CalledWithTask, GoesWithTask
    DEF AssignArtifacts, At, StreamStoreArtifacts, GoAt, Working, HandlerPC, GoPC
  <2>2. /\ <<artifact(r)>> # <<>>
        /\ Append(loaded[r], artifact(r)) # <<>>
    <3>1. loaded[r] \in Seq(Artifact) /\ artifact(r) \in Artifact
      BY <2>1, TypeParts, ArtifactType DEF HandlersInv, DataTypeOK
    <3> QED
      BY <3>1, AppendProperties
  <2> QED
    BY <1>1, <1>2, <2>1, <2>2
    DEF AssignArtifacts, StreamStoreArtifacts, HoldsTask
<1>3. CASE ~AssignArtifacts(r) /\ ~StreamStoreArtifacts(r)
  <2>1. arts' = arts
    BY <1>3
    DEF Step, Serve, Refuse, RejectTerminal, ContinueTask, DecideToCreate,
        FindTask, MissTask, Begins, Handle, CreateTask, TouchAuthRequired,
        SetAuthMessage, ClearMessage, AssignCompleted, AssignCanceled, PutTask,
        MarshalStatus, MarshalArtifacts, Stream, StreamTouchRunning,
        StreamSendStatus, StreamSendArtifact, StreamTouchCompleted,
        StreamLoadArtifacts, StreamPut, StreamSendFinal, NotifyAuthRequired
  <2> QED
    BY <1>3, <2>1
<1> QED
  BY <1>2, <1>3

LEMMA CompletedHasArtifactStep ==
  HandlersInv /\ CompletedHasArtifact /\ [Next]_vars => CompletedHasArtifact'
<1> SUFFICES ASSUME HandlersInv, CompletedHasArtifact, [Next]_vars,
                    NEW o \in Object, heap'[o].state = "completed", arts'[o] = <<>>
             PROVE  \E q \in Req : Reached(q, o)' /\ Assigning(q)'
  BY DEF CompletedHasArtifact, State, Assigning
<1>1. CASE UNCHANGED vars
  BY <1>1
  DEF vars, storeVars, callVars, goVars, CompletedHasArtifact, State, Reached,
      Assigning
<1>2. ASSUME NEW r \in Req, Step(r)
      PROVE  \E q \in Req : Reached(q, o)' /\ Assigning(q)'
  <2>1. CallTypeOK /\ CallInv(r) /\ req' = req
    BY <1>2, TypeParts, RequestsStay DEF HandlersInv
  <2>2. /\ arts[o] = <<>>
        /\ task[r] = o => ~AssignArtifacts(r) /\ ~StreamStoreArtifacts(r)
    BY <1>2, ArtifactWrites
  <2>3. CASE heap[o].state = "completed"
    <3>1. PICK q \in Req : Reached(q, o) /\ Assigning(q)
      BY <2>2, <2>3 DEF CompletedHasArtifact, State, Assigning
    <3>2. CASE q # r
      BY <1>2, <2>1, <3>1, <3>2, OthersWait DEF Reached, Assigning
    <3>3. CASE q = r
      <4> SUFFICES ASSUME ~ClearMessage(r)
                   PROVE  Reached(r, o)' /\ Assigning(r)'
        <5>1. CASE ClearMessage(r)
          <6>1. pc'[r] = "artifacts" \/ (gpc[r] \in {"load", "store"} /\ gpc' = gpc)
            BY <2>1, <3>1, <3>3, <5>1
            DEF ClearMessage, At, Goto, goVars, CallTypeOK, Assigning
          <6> QED
            BY <2>1, <3>1, <3>3, <5>1, <6>1 DEF ClearMessage, Reached, Assigning
        <5> QED
          BY <3>3, <5>1
      <4>1. StreamLoadArtifacts(r)
        <5>1. /\ pc[r] # "idle"
              /\ pc[r] \in {"clear", "artifacts"} => gpc[r] = "none"
              /\ gpc[r] \in {"load", "store"} => pc[r] = "done"
          BY <2>1, <3>1, <3>3 DEF CallInv, InStreamDemo, Assigning
        <5>2. ~Serve(r)
          BY <5>1
          DEF Serve, Refuse, RejectTerminal, ContinueTask, DecideToCreate,
              FindTask, MissTask, Begins
        <5>3. ~Handle(r)
          BY <2>2, <3>1, <3>3, <5>1
          DEF Handle, CreateTask, TouchAuthRequired, SetAuthMessage,
              ClearMessage, AssignCompleted, AssignArtifacts, AssignCanceled,
              PutTask, MarshalStatus, MarshalArtifacts, At, Assigning, Reached
        <5> QED
          BY <1>2, <2>2, <3>1, <3>3, <5>1, <5>2, <5>3
          DEF Step, Stream, StreamTouchRunning, StreamSendStatus,
              StreamSendArtifact, StreamTouchCompleted, StreamStoreArtifacts,
              StreamPut, StreamSendFinal, NotifyAuthRequired, GoAt,
              Assigning, Reached
      <4> QED
        BY <2>1, <3>1, <3>3, <4>1
        DEF StreamLoadArtifacts, GoAt, callVars, CallTypeOK, Reached, Assigning
    <3> QED
      BY <3>2, <3>3
  <2>4. CASE heap[o].state # "completed"
    <3>1. /\ task'[r] = o
          /\ \/ pc[r] = "status" /\ pc'[r] = "clear"
             \/ pc[r] = "state" /\ pc'[r] = "artifacts"
             \/ gpc[r] = "completed" /\ gpc'[r] = "load"
      BY <1>2, <2>4, StateWrites DEF Writes
    <3> QED
      BY <2>1, <3>1
      DEF CallInv, InStreamDemo, StreamsNow, IsMessage, IsPlainSend, Reached,
          Assigning
  <2> QED
    BY <2>3, <2>4
<1> QED
  BY <1>1, <1>2, NextIsStep

\* A completed task has output as soon as its writer's next statements are
\* done, however many sends, streams and cancels work on it.
THEOREM CompletedHasOutput == Spec => []CompletedHasArtifact
<1>1. Init => CompletedHasArtifact
  <2> SUFFICES ASSUME Init, NEW o \in Object PROVE heap[o].state # "completed"
    BY DEF CompletedHasArtifact, State
  <2>1. heap[o] = Blank
    BY DEF Init, StoreInit
  <2> QED
    BY <2>1, BlankFacts
<1> QED
  BY <1>1, CompletedHasArtifactStep, HandlersInvariant, PTL DEF Spec

\* The message of a task changes in two statements only.
LEMMA NoteWrites ==
  ASSUME HandlersInv, NEW r \in Req, Step(r), NEW o \in Object, ~note'[o]
  PROVE  \/ ~note[o] /\ (task[r] = o => ~SetAuthMessage(r))
         \/ ClearMessage(r) /\ task[r] = o
<1>1. note \in [Object -> BOOLEAN]
  BY TypeParts DEF HandlersInv, DataTypeOK
<1>2. CASE SetAuthMessage(r)
  BY <1>1, <1>2 DEF SetAuthMessage
<1>3. CASE ClearMessage(r)
  <2>1. pc[r] \in {"status", "clear"}
    BY <1>3 DEF ClearMessage, At
  <2>2. ~SetAuthMessage(r)
    BY <2>1 DEF SetAuthMessage, At
  <2>3. CASE task[r] = o
    BY <1>3, <2>3
  <2>4. CASE task[r] # o
    <3>1. note'[o] = note[o]
      BY <1>1, <1>3, <2>4 DEF ClearMessage
    <3> QED
      BY <2>2, <3>1
  <2> QED
    BY <2>3, <2>4
<1>4. CASE ~SetAuthMessage(r) /\ ~ClearMessage(r)
  <2>1. note' = note
    BY <1>4
    DEF Step, Serve, Refuse, RejectTerminal, ContinueTask, DecideToCreate,
        FindTask, MissTask, Begins, Handle, CreateTask, TouchAuthRequired,
        AssignCompleted, AssignArtifacts, AssignCanceled, PutTask,
        MarshalStatus, MarshalArtifacts, Stream, StreamTouchRunning,
        StreamSendStatus, StreamSendArtifact, StreamTouchCompleted,
        StreamLoadArtifacts, StreamStoreArtifacts, StreamPut, StreamSendFinal,
        NotifyAuthRequired
  <2> QED
    BY <1>4, <2>1
<1> QED
  BY <1>2, <1>3, <1>4

\* A handler past the Message half of its assignment stays past it.
LEMMA ClearedStays ==
  ASSUME HandlersInv, NEW r \in Req, Step(r), NEW o \in Object,
         Reached(r, o), Cleared(r)
  PROVE  Reached(r, o)' /\ Cleared(r)'
<1>1. CallTypeOK /\ CallInv(r) /\ req' = req
  BY TypeParts, RequestsStay DEF HandlersInv
<1>2. /\ pc[r] \in {"state", "artifacts", "put", "marshal", "marshalArts", "done"}
      /\ req[r].op = "send" /\ ~AsksAuth(req[r])
  BY DEF Cleared
<1>3. /\ task'[r] = task[r]
      /\ pc'[r] \in {"state", "artifacts", "put", "marshal", "marshalArts", "done"}
  <2>1. ~Serve(r)
    BY <1>2 DEF Serve, Refuse, RejectTerminal, ContinueTask, DecideToCreate,
                FindTask, MissTask, Begins
  <2>2. CASE Handle(r)
    BY <1>1, <1>2, <2>2
    DEF Handle, CreateTask, TouchAuthRequired, SetAuthMessage, ClearMessage,
        AssignCompleted, AssignArtifacts, AssignCanceled, PutTask,
        MarshalStatus, MarshalArtifacts, At, Goto, CallTypeOK
  <2>3. CASE Stream(r)
    BY <1>1, <1>2, <2>3
    DEF Stream, StreamTouchRunning, StreamSendStatus, StreamSendArtifact,
        StreamTouchCompleted, StreamLoadArtifacts, StreamStoreArtifacts,
        StreamPut, StreamSendFinal, NotifyAuthRequired, GoAt, callVars
  <2> QED
    BY <2>1, <2>2, <2>3 DEF Step
<1> QED
  BY <1>1, <1>2, <1>3 DEF Reached, Cleared, AsksAuth, IsMessage

LEMMA AuthRequiredHasMessageStep ==
  HandlersInv /\ AuthRequiredHasMessage /\ [Next]_vars => AuthRequiredHasMessage'
<1> DEFINE Explains(q, o) == Reached(q, o) /\ (pc[q] = "message" \/ Cleared(q))
<1> SUFFICES ASSUME HandlersInv, AuthRequiredHasMessage, [Next]_vars,
                    NEW o \in Object, heap'[o].state = "auth-required", ~note'[o]
             PROVE  \E q \in Req : Explains(q, o)'
  BY DEF AuthRequiredHasMessage, State
<1>1. CASE UNCHANGED vars
  BY <1>1
  DEF vars, storeVars, callVars, goVars, AuthRequiredHasMessage, State, Reached,
      Cleared, AsksAuth, IsMessage
<1>2. ASSUME NEW r \in Req, Step(r) PROVE \E q \in Req : Explains(q, o)'
  <2>1. CallTypeOK /\ CallInv(r) /\ req' = req
    BY <1>2, TypeParts, RequestsStay DEF HandlersInv
  <2>2. CASE ClearMessage(r) /\ task[r] = o
    <3>1. pc'[r] \in {"state", "artifacts"} /\ task' = task
      BY <2>1, <2>2 DEF ClearMessage, At, Goto, CallTypeOK
    <3>2. req[r].op = "send" /\ ~AsksAuth(req[r])
      BY <2>1, <2>2 DEF ClearMessage, At, CallInv, IsPlainSend
    <3> QED
      BY <2>1, <2>2, <3>1, <3>2 DEF Reached, Cleared, IsMessage, AsksAuth
  <2>3. CASE ~note[o] /\ (task[r] = o => ~SetAuthMessage(r))
    <3>1. CASE heap[o].state = "auth-required"
      <4>1. PICK q \in Req : Explains(q, o)
        BY <2>3, <3>1 DEF AuthRequiredHasMessage, State
      <4>2. CASE q # r
        BY <1>2, <2>1, <4>1, <4>2, OthersWait
        DEF Reached, Cleared, AsksAuth, IsMessage
      <4>3. CASE q = r /\ Cleared(r)
        BY <1>2, <4>1, <4>3, ClearedStays
      <4>4. ~(q = r /\ pc[r] = "message")
        <5>1. SUFFICES ASSUME q = r, pc[r] = "message" PROVE FALSE
          OBVIOUS
        <5>2. gpc[r] = "none" /\ task[r] = o
          BY <2>1, <4>1, <5>1 DEF CallInv, Reached
        <5> QED
          BY <1>2, <2>3, <5>1, <5>2
          DEF Step, Serve, Refuse, RejectTerminal, ContinueTask, DecideToCreate,
              FindTask, MissTask, Begins, Handle, CreateTask, TouchAuthRequired,
              AssignCompleted, ClearMessage, AssignArtifacts, AssignCanceled,
              PutTask, MarshalStatus, MarshalArtifacts, At, Stream,
              StreamTouchRunning, StreamSendStatus, StreamSendArtifact,
              StreamTouchCompleted, StreamLoadArtifacts, StreamStoreArtifacts,
              StreamPut, StreamSendFinal, NotifyAuthRequired, GoAt
      <4> QED
        BY <4>1, <4>2, <4>3, <4>4
    <3>2. CASE heap[o].state # "auth-required"
      <4>1. task'[r] = o /\ pc[r] = "touch" /\ pc'[r] = "message"
        BY <1>2, <3>2, StateWrites DEF Writes
      <4> QED
        BY <2>1, <4>1 DEF CallInv, AsksAuth, Reached
    <3> QED
      BY <3>1, <3>2
  <2> QED
    BY <1>2, <2>2, <2>3, NoteWrites
<1> QED
  BY <1>1, <1>2, NextIsStep

\* A task that requires authentication has its message, or is getting it, or
\* lost it to the assignment of Status of a completion of the same task.
THEOREM AuthRequiredIsExplained == Spec => []AuthRequiredHasMessage
<1>1. Init => AuthRequiredHasMessage
  <2> SUFFICES ASSUME Init, NEW o \in Object PROVE heap[o].state # "auth-required"
    BY DEF AuthRequiredHasMessage, State
  <2>1. heap[o] = Blank
    BY DEF Init, StoreInit
  <2> QED
    BY <2>1, BlankFacts
<1> QED
  BY <1>1, AuthRequiredHasMessageStep, HandlersInvariant, PTL DEF Spec
-----------------------------------------------------------------------------
(***************************************************************************)
(* What is left of the liveness of handlers without fairness: every step   *)
(* uses up statements of its request, and a handler or goroutine that has  *)
(* none left has said all it owes.                                         *)
(***************************************************************************)
\* A handler that has returned has answered, and a goroutine of an accepted
\* stream that has ended has sent the final event.
SaidAll(r) ==
  /\ pc[r] = "done" => resp[r].code # Pending
  /\ gpc[r] = "end" /\ StreamsNow(r) => pc[r] = "done" /\ FinalSent(r)
ServedInFull == \A r \in Req : SaidAll(r)

LEMMA FinalStays ==
  ASSUME NEW r \in Req, NEW e \in Event, sent[r] \in Seq(Event),
         sent'[r] = Append(sent[r], e)
  PROVE  e.final \/ FinalSent(r) => FinalSent(r)'
<1>1. /\ Len(sent'[r]) = Len(sent[r]) + 1 /\ Len(sent[r]) \in Nat
      /\ \A i \in 1..Len(sent[r]) : sent'[r][i] = sent[r][i]
      /\ sent'[r][Len(sent[r]) + 1] = e
  BY AppendProperties, LenProperties
<1> QED
  BY <1>1 DEF FinalSent

\* What has been answered and sent stays so, and only these two statements
\* end a handler and a streamDemo.
LEMMA SaidAllStep ==
  ASSUME HandlersInv, NEW r \in Req, SaidAll(r), Step(r)
  PROVE  SaidAll(r)'
<1>1. CallTypeOK /\ DataTypeOK /\ CallInv(r) /\ req' = req
  BY TypeParts, RequestsStay DEF HandlersInv
<1>2. CASE Serve(r)
  <2>1. \/ pc'[r] # "done"
        \/ resp'[r].code \in {NotFound, InTerminalState, Result, Refusal(req[r])}
    <3>1. ASSUME NEW code, Answer(r, code) PROVE resp'[r].code = code
      BY <1>1, <3>1 DEF Answer, Reply, DataTypeOK
    <3>2. CASE Refuse(r) \/ RejectTerminal(r) \/ MissTask(r)
      BY <3>1, <3>2 DEF Refuse, RejectTerminal, MissTask
    <3>3. CASE ContinueTask(r) \/ DecideToCreate(r) \/ FindTask(r)
      BY <1>1, <3>3, WorkPC
      DEF ContinueTask, DecideToCreate, FindTask, Goto, CallTypeOK
    <3> QED
      BY <1>2, <3>2, <3>3 DEF Serve
  <2>2. Refusal(req[r]) # Pending
    BY DEF Refusal, HttpNotFound, StreamingNotSupported, InvalidParams, Result, Pending
  <2>3. gpc' = gpc /\ gpc[r] = "none"
    BY <1>1, <1>2
    DEF Serve, Refuse, RejectTerminal, ContinueTask, DecideToCreate, FindTask,
        MissTask, Begins, goVars, CallInv
  <2> QED
    BY <1>1, <2>1, <2>2, <2>3
    DEF SaidAll, NotFound, InTerminalState, Result, Pending
<1>3. CASE Handle(r)
  <2>1. pc[r] # "done" /\ sent' = sent
    BY <1>3
    DEF Handle, CreateTask, TouchAuthRequired, SetAuthMessage, ClearMessage,
        AssignCompleted, AssignArtifacts, AssignCanceled, PutTask,
        MarshalStatus, MarshalArtifacts, At, goVars
  <2>2. pc'[r] = "done" => resp'[r].code = Result
    <3>1. CASE MarshalArtifacts(r)
      BY <1>1, <3>1 DEF MarshalArtifacts, DataTypeOK
    <3>2. CASE CreateTask(r)
      BY <1>1, <3>2, WorkPC DEF CreateTask, At, Goto, CallTypeOK
    <3>3. CASE \/ TouchAuthRequired(r) \/ SetAuthMessage(r) \/ AssignCompleted(r)
               \/ ClearMessage(r) \/ AssignArtifacts(r) \/ AssignCanceled(r) \/ PutTask(r)
               \/ MarshalStatus(r)
      BY <1>1, <3>3
      DEF TouchAuthRequired, SetAuthMessage, ClearMessage, AssignCompleted,
          AssignArtifacts, AssignCanceled, PutTask, MarshalStatus, At, Goto,
          CallTypeOK
    <3> QED
      BY <1>3, <3>1, <3>2, <3>3 DEF Handle
  <2>3. gpc'[r] = "end" => gpc[r] = "end"
    BY <1>1, <1>3
    DEF Handle, CreateTask, TouchAuthRequired, SetAuthMessage, ClearMessage,
        AssignCompleted, AssignArtifacts, AssignCanceled, PutTask,
        MarshalStatus, MarshalArtifacts, goVars, CallTypeOK
  <2> QED
    BY <1>1, <2>1, <2>2, <2>3
    DEF SaidAll, StreamsNow, AsksAuth, IsMessage, Result, Pending
<1>4. CASE Stream(r)
  <2>1. pc' = pc /\ resp' = resp
    BY <1>4
    DEF Stream, StreamTouchRunning, StreamSendStatus, StreamSendArtifact,
        StreamTouchCompleted, StreamLoadArtifacts, StreamStoreArtifacts,
        StreamPut, StreamSendFinal, NotifyAuthRequired, GoAt, callVars
  <2>2. ASSUME gpc'[r] = "end", StreamsNow(r)
        PROVE  pc[r] = "done" /\ FinalSent(r)'
    <3>1. StreamSendFinal(r)
      BY <1>1, <1>4, <2>2
      DEF Stream, StreamTouchRunning, StreamSendStatus, StreamSendArtifact,
          StreamTouchCompleted, StreamLoadArtifacts, StreamStoreArtifacts,
          StreamPut, NotifyAuthRequired, GoAt, CallTypeOK, CallInv
    <3>2. HoldsTask(r) /\ pc[r] = "done"
      BY <1>1, <3>1 DEF StreamSendFinal, GoAt, CallInv, InStreamDemo, GoPC
    <3>3. /\ StatusEvent(task[r], TRUE) \in Event
          /\ StatusEvent(task[r], TRUE).final
      BY <1>1, <3>2, EventTypes DEF StatusEvent, HoldsTask
    <3>4. sent'[r] = Append(sent[r], StatusEvent(task[r], TRUE))
      BY <1>1, <3>1 DEF StreamSendFinal, Send, DataTypeOK
    <3> QED
      BY <1>1, <3>2, <3>3, <3>4, FinalStays DEF DataTypeOK
  <2> QED
    BY <1>1, <2>1, <2>2 DEF SaidAll, StreamsNow, AsksAuth, IsMessage
<1> QED
  BY <1>2, <1>3, <1>4 DEF Step

LEMMA OthersSilent ==
  ASSUME HandlersInv, NEW q \in Req, Step(q), NEW r \in Req, r # q
  PROVE  /\ resp'[r] = resp[r] /\ sent'[r] = sent[r]
         /\ loaded'[r] = loaded[r]
<1>1. DataTypeOK
  BY TypeParts DEF HandlersInv
<1>2. CASE Serve(q)
  BY <1>1, <1>2
  DEF Serve, Refuse, RejectTerminal, ContinueTask, DecideToCreate, FindTask,
      MissTask, Begins, goVars, Answer, DataTypeOK
<1>3. CASE Handle(q)
  BY <1>1, <1>3
  DEF Handle, CreateTask, TouchAuthRequired, SetAuthMessage, ClearMessage,
      AssignCompleted, AssignArtifacts, AssignCanceled, PutTask, MarshalStatus,
      MarshalArtifacts, goVars, DataTypeOK
<1>4. CASE Stream(q)
  BY <1>1, <1>4
  DEF Stream, StreamTouchRunning, StreamSendStatus, StreamSendArtifact,
      StreamTouchCompleted, StreamLoadArtifacts, StreamStoreArtifacts,
      StreamPut, StreamSendFinal, NotifyAuthRequired, GoAt, callVars, Send, DataTypeOK
<1> QED
  BY <1>2, <1>3, <1>4 DEF Step

LEMMA ServedInFullStep ==
  HandlersInv /\ ServedInFull /\ [Next]_vars => ServedInFull'
<1> SUFFICES ASSUME HandlersInv, ServedInFull, [Next]_vars, NEW q \in Req
             PROVE  SaidAll(q)'
  BY DEF ServedInFull
<1>1. CASE UNCHANGED vars
  BY <1>1
  DEF vars, callVars, goVars, ServedInFull, SaidAll, FinalSent, StreamsNow,
      AsksAuth, IsMessage
<1>2. ASSUME NEW r \in Req, Step(r) PROVE SaidAll(q)'
  <2>1. CASE q = r
    BY <1>2, <2>1, SaidAllStep DEF ServedInFull
  <2>2. CASE q # r
    BY <1>2, <2>2, OthersWait, OthersSilent, RequestsStay
    DEF ServedInFull, SaidAll, FinalSent, StreamsNow, AsksAuth, IsMessage
  <2> QED
    BY <2>1, <2>2
<1> QED
  BY <1>1, <1>2, NextIsStep

\* No handler returns without an answer and no accepted stream ends without
\* its final event (ops_impl.go:278), whatever else is going on.
THEOREM NothingLeftUnsaid == Spec => []ServedInFull
<1>1. Init => ServedInFull
  BY DEF Init, ServedInFull, SaidAll
<1> QED
  BY <1>1, ServedInFullStep, HandlersInvariant, PTL DEF Spec

LEMMA LeftCounts ==
  /\ HandlerLeft["idle"] = 8 /\ HandlerLeft["create"] = 7
  /\ HandlerLeft["touch"] = 5 /\ HandlerLeft["message"] = 4
  /\ HandlerLeft["status"] = 6 /\ HandlerLeft["clear"] = 5
  /\ HandlerLeft["state"] = 5 /\ HandlerLeft["artifacts"] = 4
  /\ HandlerLeft["cancel"] = 4 /\ HandlerLeft["put"] = 3
  /\ HandlerLeft["marshal"] = 2 /\ HandlerLeft["marshalArts"] = 1
  /\ HandlerLeft["done"] = 0
  /\ GoLeft["none"] = 9 /\ GoLeft["running"] = 8 /\ GoLeft["sendStatus"] = 7
  /\ GoLeft["sendArtifact"] = 6 /\ GoLeft["completed"] = 5 /\ GoLeft["load"] = 4
  /\ GoLeft["store"] = 3 /\ GoLeft["put"] = 2 /\ GoLeft["sendFinal"] = 1
  /\ GoLeft["notify"] = 1 /\ GoLeft["end"] = 0
BY DEF HandlerLeft, GoLeft

LEMMA LeftIsNat ==
  /\ \A p \in HandlerPC : HandlerLeft[p] \in Nat
  /\ \A g \in GoPC : GoLeft[g] \in Nat
BY LeftCounts DEF HandlerPC, GoPC

LEMMA StepUsesUp ==
  ASSUME HandlersInv, NEW r \in Req, SaidAll(r), Step(r)
  PROVE  Left(r)' < Left(r)
<1> DEFINE h == HandlerLeft[pc[r]]
           g == GoLeft[gpc[r]]
           hh == HandlerLeft[pc'[r]]
           gg == GoLeft[gpc'[r]]
<1>1. CallTypeOK /\ CallInv(r)
  BY TypeParts DEF HandlersInv
<1>2. h \in Nat /\ g \in Nat
  BY <1>1, LeftIsNat DEF CallTypeOK
<1>3. CASE Serve(r)
  <2>1. /\ pc[r] = "idle" /\ gpc' = gpc
        /\ pc'[r] \in {"create", "touch", "status", "marshal", "cancel", "done"}
    BY <1>1, <1>3, WorkPC
    DEF Serve, Refuse, RejectTerminal, ContinueTask, DecideToCreate, FindTask,
        MissTask, Begins, goVars, Answer, Goto, CallTypeOK
  <2> QED
    BY <1>2, <2>1, LeftCounts DEF Left
<1>4. CASE Handle(r)
  <2>1. ASSUME gpc' = gpc PROVE hh \in Nat /\ hh < h
    BY <1>1, <1>4, WorkPC, LeftCounts
    DEF Handle, CreateTask, TouchAuthRequired, SetAuthMessage, ClearMessage,
        AssignCompleted, AssignArtifacts, AssignCanceled, PutTask,
        MarshalStatus, MarshalArtifacts, At, Goto, CallTypeOK
  <2>2. ASSUME gpc' # gpc
        PROVE  /\ \/ pc[r] = "put" /\ pc'[r] = "marshal"
                  \/ pc[r] = "marshalArts" /\ pc'[r] = "done"
               /\ gpc'[r] \in {"notify", "running"}
    BY <1>1, <1>4, <2>2
    DEF Handle, CreateTask, TouchAuthRequired, SetAuthMessage, ClearMessage,
        AssignCompleted, AssignArtifacts, AssignCanceled, PutTask,
        MarshalStatus, MarshalArtifacts, At, Goto, CallTypeOK, goVars
  <2>3. CASE gpc' = gpc
    BY <1>2, <2>1, <2>3 DEF Left
  <2>4. CASE gpc' # gpc
    <3>1. gpc[r] = "none"
      <4>1. pc[r] = "marshalArts" => StreamsNow(r)
        BY <1>4, <2>4
        DEF Handle, CreateTask, TouchAuthRequired, SetAuthMessage,
            ClearMessage, AssignCompleted, AssignArtifacts, AssignCanceled,
            PutTask, MarshalStatus, MarshalArtifacts, At, goVars, StreamsNow
      <4> QED
        BY <1>1, <2>2, <2>4, <4>1 DEF CallInv, CallTypeOK, GoPC, InStreamDemo, SaidAll
    <3>2. hh \in Nat /\ hh < h
      BY <2>2, <2>4, LeftCounts
    <3>3. gg \in Nat /\ gg < g
      BY <2>2, <2>4, <3>1, LeftCounts
    <3> QED
      BY <1>2, <3>2, <3>3 DEF Left
  <2> QED
    BY <2>3, <2>4
<1>5. CASE Stream(r)
  <2>1. ASSUME NEW from \in GoPC, NEW to \in GoPC, GoAt(r, from, to),
               GoLeft[to] < GoLeft[from]
        PROVE  pc' = pc /\ gg \in Nat /\ gg < g
    BY <1>1, <2>1, LeftIsNat DEF GoAt, callVars, CallTypeOK
  <2>2. \/ GoAt(r, "running", "sendStatus") \/ GoAt(r, "sendStatus", "sendArtifact")
        \/ GoAt(r, "sendArtifact", "completed") \/ GoAt(r, "completed", "load")
        \/ GoAt(r, "load", "store") \/ GoAt(r, "store", "put")
        \/ GoAt(r, "put", "sendFinal") \/ GoAt(r, "sendFinal", "end")
        \/ GoAt(r, "notify", "end")
    BY <1>5
    DEF Stream, StreamTouchRunning, StreamSendStatus, StreamSendArtifact,
        StreamTouchCompleted, StreamLoadArtifacts, StreamStoreArtifacts,
        StreamPut, StreamSendFinal, NotifyAuthRequired
  <2>3. pc' = pc /\ gg \in Nat /\ gg < g
    <3> HIDE DEF g, gg
    <3> QED
      BY <2>1, <2>2, LeftCounts DEF GoPC
  <2> QED
    BY <1>2, <2>3 DEF Left
<1> QED
  BY <1>3, <1>4, <1>5 DEF Step

\* The statements left are those of one request at a time, and only go down.
THEOREM EveryStepIsProgress == Spec => WorkShrinks
<1>1. ASSUME HandlersInv, ServedInFull, [Next]_vars
      PROVE  \/ \E r \in Req : /\ Left(r)' < Left(r)
                               /\ \A q \in Req \ {r} : Left(q)' = Left(q)
             \/ UNCHANGED vars
  <2>1. ASSUME NEW r \in Req, Step(r)
        PROVE  Left(r)' < Left(r) /\ \A q \in Req \ {r} : Left(q)' = Left(q)
    BY <1>1, <2>1, StepUsesUp, OthersWait DEF ServedInFull, Left
  <2> QED
    BY <1>1, <2>1, NextIsStep
<1> QED
  BY <1>1, NothingLeftUnsaid, HandlersInvariant, PTL DEF Spec, WorkShrinks

-----------------------------------------------------------------------------
\* When every request that was sent has been served no task is running, the
\* completed ones have their artifacts, and those that require authentication
\* say which, unless a message/send that demands nothing was served on the
\* same task.
AtPeace ==
  Quiescent => \A o \in Object :
    /\ State(o) # "running"
    /\ State(o) = "completed" => arts[o] # <<>>
    /\ State(o) = "auth-required" =>
         note[o] \/ \E r \in Req : Reached(r, o) /\ IsPlainSend(r)

THEOREM ServedMeansAtPeace == Spec => []AtPeace
<1>1. RunningHasWorker /\ CompletedHasArtifact /\ AuthRequiredHasMessage => AtPeace
  BY DEF RunningHasWorker, CompletedHasArtifact, AuthRequiredHasMessage, AtPeace,
         Quiescent, Idle, WillFinish, StreamToStart, Assigning, Cleared,
         IsPlainSend
<1> QED
  BY <1>1, RunningIsWorkedOn, CompletedHasOutput, AuthRequiredIsExplained, PTL

-----------------------------------------------------------------------------
(***************************************************************************)
(* The families whose messages each make a task of their own.              *)
(***************************************************************************)
OwnFamilies == \A j \in Requests : j.fam # "impl"

\* Two messages never work on one task, also when the second one names the
\* task of the first: what makes the properties of those families true.  It
\* is what the code does (default_ops.go:151, 190; default.go:53;
\* jsonrpc.go:171), and not what spec.txt:1010 says of messages, "to initiate
\* a new interaction or to continue an existing one".
OwnTask ==
  \A r, q \in Req : /\ r # q /\ task[r] # Nil
                    /\ IsMessage(req[r]) /\ IsMessage(req[q])
                    => task[r] # task[q]

LEMMA OwnTaskStep ==
  ASSUME OwnFamilies, HandlersInv, OwnTask, [Next]_vars
  PROVE  OwnTask'
<1>1. CASE UNCHANGED vars
  BY <1>1 DEF vars, callVars, OwnTask, IsMessage
<1>2. ASSUME NEW r \in Req, Step(r),
             NEW q \in Req, q # r, IsMessage(req[r]), IsMessage(req[q]),
             task'[r] # Nil
      PROVE  task'[r] # task'[q]
  <2>1. CallTypeOK /\ CallInv(q) /\ task'[q] = task[q]
    BY <1>2, OthersWait, TypeParts DEF HandlersInv
  <2>2. CASE CreateTask(r)
    <3>1. PICK o \in Object : newTask(o) /\ task' = [task EXCEPT ![r] = o]
      BY <2>2 DEF CreateTask
    <3>2. heap[o] = Blank /\ task'[r] = o /\ o # Nil
      BY <2>1, <3>1, NextObjectIsFree, IdFacts DEF newTask, HandlersInv, CallTypeOK
    <3> QED
      BY <2>1, <3>2, BlankFacts, IdFacts DEF CallInv, HoldsTask
  <2>3. CASE ~CreateTask(r)
    <3>1. ~ContinueTask(r) /\ ~FindTask(r)
      BY <1>2, <2>1 DEF OwnFamilies, ContinueTask, FindTask, CallTypeOK
    <3>2. task' = task
      BY <1>2, <2>3, <3>1
      DEF Step, Serve, Refuse, RejectTerminal, DecideToCreate, MissTask,
          Handle, TouchAuthRequired, SetAuthMessage, ClearMessage,
          AssignCompleted, AssignArtifacts, AssignCanceled, PutTask,
          MarshalStatus, MarshalArtifacts, Stream, StreamTouchRunning,
          StreamSendStatus, StreamSendArtifact, StreamTouchCompleted,
          StreamLoadArtifacts, StreamStoreArtifacts, StreamPut,
          StreamSendFinal, NotifyAuthRequired, GoAt, callVars
    <3> QED
      BY <1>2, <3>2 DEF OwnTask
  <2> QED
    BY <2>2, <2>3
<1>3. ASSUME NEW s \in Req, Step(s) PROVE OwnTask'
  <2> SUFFICES ASSUME NEW r \in Req, NEW q \in Req, r # q, task'[r] # Nil,
                      IsMessage(req'[r]), IsMessage(req'[q])
               PROVE  task'[r] # task'[q]
    BY DEF OwnTask, IsMessage
  <2>1. IsMessage(req[r]) /\ IsMessage(req[q])
    BY <1>3, RequestsStay
  <2>2. CASE s = r
    BY <1>2, <1>3, <2>1, <2>2
  <2>3. CASE s = q
    BY <1>2, <1>3, <2>1, <2>3
  <2>4. CASE s # r /\ s # q
    BY <1>3, <2>1, <2>4, OthersWait DEF OwnTask
  <2> QED
    BY <2>2, <2>3, <2>4
<1> QED
  BY <1>1, <1>3, NextIsStep

\* No two messages of DefaultOperations, of its callback or of the plain
\* JSON-RPC handlers ever work on one task.
THEOREM MessagesOwnTheirTask ==
  ASSUME OwnFamilies
  PROVE  Spec => []OwnTask
<1>1. Init => OwnTask
  BY DEF Init, OwnTask
<1>2. HandlersInv /\ OwnTask /\ [Next]_vars => OwnTask'
  BY OwnTaskStep
<1> QED
  BY <1>1, <1>2, HandlersInvariant, PTL DEF Spec

\* Without streaming no message/stream gets past its refusal.
NoStreams ==
  \A r \in Req : req[r].op = "stream" => pc[r] \in {"idle", "done"} /\ gpc[r] = "none"

LEMMA NoStreamsStep ==
  ASSUME ~Streaming, HandlersInv, NoStreams, [Next]_vars
  PROVE  NoStreams'
<1>1. CASE UNCHANGED vars
  BY <1>1 DEF vars, callVars, goVars, NoStreams
<1>2. ASSUME NEW r \in Req, Step(r) PROVE NoStreams'
  <2>1. CallTypeOK /\ req' = req
    BY <1>2, TypeParts, RequestsStay DEF HandlersInv
  <2>2. ASSUME req[r].op = "stream" PROVE pc'[r] = "done" /\ gpc'[r] = "none"
    <3>1. pc[r] \in {"idle", "done"} /\ gpc[r] = "none"
      BY <2>2 DEF NoStreams
    <3>2. ~Accepted(r)
      BY <2>2
      DEF Accepted, Refusal, NoPath, StreamingNotSupported, Result
    <3> QED
      BY <1>2, <2>1, <3>1, <3>2
      DEF Step, Serve, Refuse, RejectTerminal, ContinueTask, DecideToCreate,
          FindTask, MissTask, Begins, goVars, Answer, Goto, CallTypeOK, Handle,
          CreateTask, TouchAuthRequired, SetAuthMessage, ClearMessage,
          AssignCompleted, AssignArtifacts, AssignCanceled, PutTask,
          MarshalStatus, MarshalArtifacts, At, Stream, StreamTouchRunning,
          StreamSendStatus, StreamSendArtifact, StreamTouchCompleted,
          StreamLoadArtifacts, StreamStoreArtifacts, StreamPut,
          StreamSendFinal, NotifyAuthRequired, GoAt
  <2> QED
    BY <1>2, <2>1, <2>2, OthersWait DEF NoStreams
<1> QED
  BY <1>1, <1>2, NextIsStep

LEMMA NoRestartStep ==
  ASSUME OwnFamilies, HandlersInv, NoStreams, [Next]_vars, NEW o \in Object,
         isTerminal(State(o))
  PROVE  isTerminal(State(o))'
<1>1. CASE UNCHANGED vars
  BY <1>1 DEF vars, storeVars, State, isTerminal
<1>2. ASSUME NEW r \in Req, Step(r) PROVE isTerminal(heap'[o].state)
  <2>1. CallTypeOK /\ CallInv(r)
    BY TypeParts DEF HandlersInv
  <2>2. heap[o] # Blank
    BY BlankFacts DEF isTerminal, State
  <2>3. ~AsksAuth(req[r])
    BY <2>1 DEF OwnFamilies, AsksAuth, CallTypeOK
  <2>4. gpc[r] # "running"
    BY <2>1 DEF NoStreams, CallInv, InStreamDemo, StreamsNow
  <2> QED
    BY <1>2, <2>1, <2>2, <2>3, <2>4, StateWrites
    DEF Writes, CallInv, isTerminal, State
<1> QED
  BY <1>1, <1>2, NextIsStep DEF State, isTerminal

\* Without streaming a task of those families never leaves the terminal
\* states, whatever is sent, read and canceled at once.
THEOREM EndedStaysEnded ==
  ASSUME OwnFamilies, ~Streaming
  PROVE  Spec => NoRestart
<1>1. Init => NoStreams
  BY DEF Init, NoStreams
<1>2. HandlersInv /\ NoStreams /\ [Next]_vars => NoStreams'
  BY NoStreamsStep
<1>3. HandlersInv /\ NoStreams /\ [Next]_vars
        => [\A o \in Object : isTerminal(State(o)) => isTerminal(State(o))']_vars
  BY NoRestartStep
<1> QED
  BY <1>1, <1>2, <1>3, HandlersInvariant, PTL DEF Spec, NoRestart
=============================================================================
