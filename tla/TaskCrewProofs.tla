---------------------------- MODULE TaskCrewProofs ----------------------------
(***************************************************************************)
(* Every family of handlers, streams and shared tasks included, implements *)
(* TaskCrew, towards the tasks, and CallServer, towards the callers: a     *)
(* step of a request is one of their actions, or changes nothing that they *)
(* see.                                                                    *)
(***************************************************************************)
EXTENDS TaskHandlersProofs, FiniteSetTheorems

Output(o) == arts[o] # <<>>

\* What a step leaves alone.
FreshStay == \A r \in Req : Fresh(r)' = Fresh(r)
CrewPhaseStays(o) == CrewPhase(o)' = CrewPhase(o)
CrewStays(o) == CrewOf(o)' = CrewOf(o)
OwingStays(o) == OwingOf(o)' = OwingOf(o)
OutputKept(o) == Output(o)' = Output(o)

-----------------------------------------------------------------------------
(***************************************************************************)
(* The actions of TaskCrew, told object by object.                         *)
(***************************************************************************)
LEMMA CrewStutters ==
  ASSUME FreshStay,
         \A o \in Object : /\ CrewPhaseStays(o) /\ CrewStays(o)
                           /\ OwingStays(o) /\ OutputKept(o)
  PROVE  UNCHANGED Crew!vars
BY DEF Crew!vars, FreshStay, CrewPhaseStays, CrewStays, OwingStays, OutputKept,
       Output

\* Only r is no longer fresh, and it is in the crew of t.
Enlists(r, t) ==
  /\ Fresh(r) /\ ~Fresh(r)'
  /\ \A q \in Req \ {r} : Fresh(q)' = Fresh(q)
  /\ CrewOf(t)' = CrewOf(t) \cup {r}
  /\ \A o \in Object \ {t} : CrewStays(o)

LEMMA CrewOpens ==
  ASSUME NEW r \in Req, NEW t \in Object, Enlists(r, t),
         CrewPhase(t) = "absent", CrewPhase(t)' = "working",
         \A o \in Object \ {t} : CrewPhaseStays(o),
         \A o \in Object : OwingStays(o) /\ OutputKept(o)
  PROVE  Crew!Open(r, t)
BY DEF Crew!Open, Crew!Enlist, Crew!Become, Enlists, CrewPhaseStays, CrewStays,
       OwingStays, OutputKept, Output

LEMMA CrewJoins ==
  ASSUME NEW r \in Req, NEW t \in Object, Enlists(r, t),
         CrewPhase(t) \in {"working", "waiting"},
         \A o \in Object : CrewPhaseStays(o) /\ OwingStays(o) /\ OutputKept(o)
  PROVE  Crew!Join(r, t)
BY DEF Crew!Join, Crew!Enlist, Enlists, CrewPhaseStays, CrewStays,
       OwingStays, OutputKept, Output

LEMMA CrewResumes ==
  ASSUME NEW r \in Req, NEW t \in Object, FreshStay, r \in CrewOf(t),
         CrewPhase(t)' = "working",
         \A o \in Object \ {t} : CrewPhaseStays(o),
         \A o \in Object : CrewStays(o) /\ OwingStays(o) /\ OutputKept(o)
  PROVE  Crew!Resume(r, t)
BY DEF Crew!Resume, Crew!Become, FreshStay, CrewPhaseStays, CrewStays,
       OwingStays, OutputKept, Output

LEMMA CrewDemands ==
  ASSUME NEW r \in Req, NEW t \in Object, FreshStay,
         r \in CrewOf(t), CrewOf(t)' = CrewOf(t) \ {r},
         CrewPhase(t)' = "waiting",
         \A o \in Object \ {t} : CrewPhaseStays(o) /\ CrewStays(o),
         \A o \in Object : OwingStays(o) /\ OutputKept(o)
  PROVE  Crew!Demand(r, t)
BY DEF Crew!Demand, Crew!Leave, Crew!Become, FreshStay, CrewPhaseStays,
       CrewStays, OwingStays, OutputKept, Output

LEMMA CrewCompletes ==
  ASSUME NEW r \in Req, NEW t \in Object, FreshStay,
         r \in CrewOf(t), CrewOf(t)' = CrewOf(t) \ {r},
         CrewPhase(t)' = "completed",
         OwingOf(t)' = OwingOf(t) \cup {r},
         \A o \in Object \ {t} :
           CrewPhaseStays(o) /\ CrewStays(o) /\ OwingStays(o),
         \A o \in Object : OutputKept(o)
  PROVE  Crew!Complete(r, t)
BY DEF Crew!Complete, Crew!Leave, Crew!Become, FreshStay, CrewPhaseStays,
       CrewStays, OwingStays, OutputKept, Output

LEMMA CrewDelivers ==
  ASSUME NEW r \in Req, NEW t \in Object, FreshStay,
         r \in OwingOf(t), OwingOf(t)' = OwingOf(t) \ {r}, Output(t)',
         \A o \in Object \ {t} : OwingStays(o) /\ OutputKept(o),
         \A o \in Object : CrewPhaseStays(o) /\ CrewStays(o)
  PROVE  Crew!Deliver(r, t)
BY DEF Crew!Deliver, FreshStay, CrewPhaseStays, CrewStays, OwingStays,
       OutputKept, Output

LEMMA CrewCancels ==
  ASSUME NEW t \in Object, FreshStay,
         CrewPhase(t) # "absent", CrewPhase(t)' = "canceled",
         \A o \in Object \ {t} : CrewPhaseStays(o),
         \A o \in Object : CrewStays(o) /\ OwingStays(o) /\ OutputKept(o)
  PROVE  Crew!Cancel(t)
BY DEF Crew!Cancel, Crew!Become, FreshStay, CrewPhaseStays, CrewStays,
       OwingStays, OutputKept, Output

-----------------------------------------------------------------------------
(***************************************************************************)
(* A request that has not got to a task holds none, and what a step of r   *)
(* does to crews and debts is what it does to r's place in them.           *)
(***************************************************************************)
Unserved == \A r \in Req : pc[r] \in {"idle", "create"} => task[r] = Nil

LEMMA UnservedStep == HandlersInv /\ Unserved /\ [Next]_vars => Unserved'
<1> SUFFICES ASSUME HandlersInv, Unserved, [Next]_vars PROVE Unserved'
  OBVIOUS
<1>1. CASE UNCHANGED vars
  BY <1>1 DEF vars, callVars, Unserved
<1>2. ASSUME NEW r \in Req, Step(r),
             NEW q \in Req, pc'[q] \in {"idle", "create"}
      PROVE  task'[q] = Nil
  <2>1. CallTypeOK
    BY TypeParts DEF HandlersInv
  <2>2. CASE q # r
    BY <1>2, <2>2, OthersWait DEF Unserved
  <2>3. CASE q = r
    <3>1. CASE Serve(r)
      BY <1>2, <2>1, <2>3, <3>1, WorkPC
      DEF Serve, Refuse, RejectTerminal, ContinueTask, DecideToCreate,
          FindTask, MissTask, Begins, Answer, Goto, CallTypeOK, Unserved
    <3>2. ~Handle(r)
      BY <1>2, <2>1, <2>3, WorkPC
      DEF Handle, CreateTask, TouchAuthRequired, SetAuthMessage, ClearMessage,
          AssignCompleted, AssignArtifacts, AssignCanceled, PutTask,
          MarshalStatus, MarshalArtifacts, At, Goto, CallTypeOK
    <3>3. CASE Stream(r)
      BY <1>2, <2>3, <3>3
      DEF Stream, StreamTouchRunning, StreamSendStatus, StreamSendArtifact,
          StreamTouchCompleted, StreamLoadArtifacts, StreamStoreArtifacts,
          StreamPut, StreamSendFinal, NotifyAuthRequired, GoAt, callVars, Unserved
    <3> QED
      BY <1>2, <3>1, <3>2, <3>3 DEF Step
  <2> QED
    BY <2>2, <2>3
<1> QED
  BY <1>1, <1>2, NextIsStep DEF Unserved

LEMMA UnservedInvariant == Spec => []Unserved
<1>1. Init => Unserved
  BY DEF Init, Unserved
<1> QED
  BY <1>1, UnservedStep, HandlersInvariant, PTL DEF Spec

\* Where r is in the crew of o, and where it owes o an output.
Works(r, o) == Reached(r, o) /\ WillFinish(r)
Owes(r, o) == Reached(r, o) /\ Assigning(r)

LEMMA CrewsOfOthers ==
  ASSUME HandlersInv, NEW r \in Req, Step(r)
  PROVE  /\ \A q \in Req \ {r} : Fresh(q)' = Fresh(q)
         /\ \A o \in Object :
              /\ CrewOf(o)' \ {r} = CrewOf(o) \ {r}
              /\ OwingOf(o)' \ {r} = OwingOf(o) \ {r}
<1>1. \A q \in Req \ {r} : /\ pc'[q] = pc[q] /\ gpc'[q] = gpc[q]
                           /\ task'[q] = task[q] /\ req'[q] = req[q]
  BY OthersWait, RequestsStay
<1>2. \A q \in Req \ {r} :
        /\ Fresh(q)' = Fresh(q)
        /\ \A o \in Object : /\ Works(q, o)' = Works(q, o)
                             /\ Owes(q, o)' = Owes(q, o)
  BY <1>1 DEF Fresh, Works, Owes, Reached, WillFinish, StreamToStart, Assigning,
              AsksAuth, IsMessage
<1> QED
  BY <1>2 DEF CrewOf, OwingOf, Works, Owes

LEMMA CrewsMove ==
  ASSUME HandlersInv, NEW r \in Req, Step(r), NEW o \in Object
  PROVE  /\ r \in CrewOf(o) <=> Works(r, o)
         /\ r \in OwingOf(o) <=> Owes(r, o)
         /\ Works(r, o)' => CrewOf(o)' = CrewOf(o) \cup {r}
         /\ ~Works(r, o)' => CrewOf(o)' = CrewOf(o) \ {r}
         /\ (Works(r, o)' <=> Works(r, o)) => CrewStays(o)
         /\ Owes(r, o)' => OwingOf(o)' = OwingOf(o) \cup {r}
         /\ ~Owes(r, o)' => OwingOf(o)' = OwingOf(o) \ {r}
         /\ (Owes(r, o)' <=> Owes(r, o)) => OwingStays(o)
<1>1. /\ CrewOf(o)' \ {r} = CrewOf(o) \ {r}
      /\ OwingOf(o)' \ {r} = OwingOf(o) \ {r}
  BY CrewsOfOthers
<1>2. /\ r \in CrewOf(o) <=> Works(r, o)
      /\ r \in OwingOf(o) <=> Owes(r, o)
      /\ r \in CrewOf(o)' <=> Works(r, o)'
      /\ r \in OwingOf(o)' <=> Owes(r, o)'
  BY DEF CrewOf, OwingOf, Works, Owes
<1> QED
  BY <1>1, <1>2 DEF CrewStays, OwingStays

\* What the state of a task says of its phase.
LEMMA CrewPhaseFacts ==
  /\ heap' = heap => \A o \in Object : CrewPhaseStays(o)
  /\ \A o \in Object : heap'[o] = heap[o] => CrewPhaseStays(o)
  /\ \A o \in Object : heap[o] = Blank <=> CrewPhase(o) = "absent"
  /\ \A o \in Object : heap[o].id \in Id /\ ~isTerminal(heap[o].state) =>
       CrewPhase(o) \in {"working", "waiting"}
BY IdFacts, BlankFacts DEF CrewPhaseStays, CrewPhase, State, isTerminal

LEMMA CrewPhaseWrites ==
  ASSUME HandlersInv, NEW t \in Object,
         NEW s \in {"running", "auth-required", "completed", "canceled"},
         SetState(t, s)
  PROVE  /\ CrewPhase(t) # "absent"
         /\ s = "running" => CrewPhase(t)' = "working"
         /\ s = "auth-required" => CrewPhase(t)' = "waiting"
         /\ s \in {"completed", "canceled"} => CrewPhase(t)' = s
         /\ \A o \in Object \ {t} : CrewPhaseStays(o)
<1>1. /\ heap' = [heap EXCEPT ![t].state = s] /\ heap \in [Object -> TaskRecord]
      /\ heap[t].id \in Id
  BY DEF SetState, HandlersInv, StoreInv, StoreTypeOK
<1>2. /\ heap'[t].id \in Id /\ heap'[t].state = s
      /\ \A o \in Object \ {t} : heap'[o] = heap[o]
  BY <1>1 DEF TaskRecord
<1>3. heap[t] # Blank /\ heap'[t] # Blank
  BY <1>1, <1>2, IdFacts, BlankFacts
<1> QED
  BY <1>2, <1>3, CrewPhaseFacts DEF CrewPhase, State

-----------------------------------------------------------------------------
(***************************************************************************)
(* A step of r, one action after the other.                                *)
(***************************************************************************)

\* r keeps its task: only its own place in the crew of that task may change.
LEMMA TaskKept ==
  ASSUME HandlersInv, NEW r \in Req, Step(r), task' = task
  PROVE  /\ FreshStay
         /\ \A o \in Object : task[r] # o => CrewStays(o) /\ OwingStays(o)
         /\ ~IsMessage(req[r]) => \A o \in Object : CrewStays(o) /\ OwingStays(o)
         /\ \A o \in Object : (WillFinish(r)' <=> WillFinish(r)) => CrewStays(o)
         /\ \A o \in Object : (Assigning(r)' <=> Assigning(r)) => OwingStays(o)
<1>1. req' = req
  BY RequestsStay
<1>2. FreshStay
  BY <1>1, CrewsOfOthers DEF FreshStay, Fresh, IsMessage
<1>3. \A o \in Object :
        /\ Reached(r, o)' <=> Reached(r, o)
        /\ Reached(r, o) => task[r] = o /\ IsMessage(req[r])
  BY <1>1 DEF Reached, IsMessage
<1>4. \A o \in Object :
        /\ ~Reached(r, o) \/ (WillFinish(r)' <=> WillFinish(r)) => CrewStays(o)
        /\ ~Reached(r, o) \/ (Assigning(r)' <=> Assigning(r)) => OwingStays(o)
  BY <1>3, CrewsMove DEF Works, Owes
<1> QED
  BY <1>2, <1>3, <1>4

LEMMA ServeIsCrew ==
  ASSUME HandlersInv, Unserved, NEW r \in Req, Serve(r)
  PROVE  Crew!Next \/ UNCHANGED Crew!vars
<1>1. CallTypeOK /\ CallInv(r) /\ req' = req /\ Step(r)
  BY TypeParts, RequestsStay DEF HandlersInv, Step
<1>2. /\ pc[r] = "idle" /\ task[r] = Nil /\ gpc'[r] = "none"
      /\ UNCHANGED <<heap, arts>>
  BY <1>1 DEF Serve, Refuse, RejectTerminal, ContinueTask, DecideToCreate,
              FindTask, MissTask, Begins, goVars, storeVars, Unserved, CallInv
<1>3. \A o \in Object : CrewPhaseStays(o) /\ OutputKept(o) /\ ~Works(r, o) /\ ~Owes(r, o)
  BY <1>2, CrewPhaseFacts, IdFacts DEF OutputKept, Output, Works, Owes, Reached
<1>4. CASE ~ContinueTask(r)
  <2>1. ~IsMessage(req[r]) \/ task' = task
    BY <1>4 DEF Serve, Refuse, RejectTerminal, DecideToCreate, FindTask, MissTask
  <2>2. \A o \in Object : ~Works(r, o)' /\ ~Owes(r, o)'
    BY <1>1, <1>2, <2>1, IdFacts DEF Works, Owes, Reached, IsMessage
  <2>3. \A o \in Object : CrewStays(o) /\ OwingStays(o)
    BY <1>1, <1>3, <2>2, CrewsMove
  <2>4. FreshStay
    <3>1. Fresh(r)' = Fresh(r)
      BY <1>1, <2>1 DEF Fresh, IsMessage
    <3> QED
      BY <1>1, <3>1, CrewsOfOthers DEF FreshStay
  <2> QED
    BY <1>3, <2>3, <2>4, CrewStutters
<1>5. CASE ContinueTask(r)
  <2>1. PICK t \in Object : t = items[req[r].taskId]
    BY <1>5, NamedTask DEF ContinueTask, Names
  <2>2. /\ task'[r] = t /\ IsMessage(req[r]) /\ pc'[r] = Work(req[r])
        /\ heap[t].id \in Id /\ ~isTerminal(heap[t].state)
    BY <1>1, <1>5, <2>1, NamedTask
    DEF ContinueTask, Names, NamedState, Goto, CallTypeOK
  <2>3. \A o \in Object : (Works(r, o)' <=> o = t) /\ ~Owes(r, o)'
    <3>1. WillFinish(r)' /\ ~Assigning(r)'
      BY <1>1, <1>2, <2>2, WorkPC
      DEF Work, WillFinish, StreamToStart, Assigning, IsMessage
    <3> QED
      BY <1>1, <2>2, <3>1 DEF Works, Owes, Reached, IsMessage
  <2>4. Enlists(r, t)
    <3>1. Fresh(r) /\ ~Fresh(r)'
      BY <1>1, <1>2, <2>2, IdFacts DEF Fresh, IsMessage
    <3> QED
      BY <1>1, <1>3, <2>3, <3>1, CrewsOfOthers, CrewsMove DEF Enlists
  <2>5. \A o \in Object : OwingStays(o)
    BY <1>1, <1>3, <2>3, CrewsMove
  <2>6. CrewPhase(t) \in {"working", "waiting"}
    BY <2>2, CrewPhaseFacts
  <2>7. Crew!Join(r, t)
    BY <1>3, <2>4, <2>5, <2>6, CrewJoins
  <2> QED
    BY <2>7 DEF Crew!Next
<1> QED
  BY <1>4, <1>5

LEMMA CreateIsOpen ==
  ASSUME HandlersInv, Unserved, NEW r \in Req, CreateTask(r)
  PROVE  \E t \in Object : Crew!Open(r, t)
<1>1. CallTypeOK /\ CallInv(r) /\ req' = req /\ Step(r)
  BY TypeParts, RequestsStay DEF HandlersInv, Step, Handle
<1>2. PICK t \in Object : newTask(t) /\ task' = [task EXCEPT ![r] = t]
  BY DEF CreateTask
<1>3. /\ heap[t] = Blank /\ heap \in [Object -> TaskRecord]
      /\ heap' = [heap EXCEPT ![t] = [id |-> formatID(t), state |-> "running"]]
      /\ heap'[t].id \in Id
  BY <1>2, NextObjectIsFree DEF newTask, HandlersInv, StoreInv, StoreTypeOK
<1>4. CrewPhase(t) = "absent" /\ CrewPhase(t)' = "working"
  BY <1>3, IdFacts, BlankFacts DEF CrewPhase, State
<1>5. \A o \in Object \ {t} : CrewPhaseStays(o)
  BY <1>3, CrewPhaseFacts
<1>6. /\ IsMessage(req[r]) /\ task[r] = Nil /\ task'[r] = t
      /\ pc'[r] = Work(req[r]) /\ gpc'[r] = "none" /\ arts' = arts
  BY <1>1, <1>2 DEF CreateTask, At, Goto, CallTypeOK, CallInv, goVars, Unserved
<1>7. \A o \in Object : /\ ~Works(r, o) /\ ~Owes(r, o)
                        /\ (Works(r, o)' <=> o = t) /\ ~Owes(r, o)'
  <2>1. WillFinish(r)' /\ ~Assigning(r)'
    BY <1>1, <1>6, WorkPC DEF Work, WillFinish, StreamToStart, Assigning, IsMessage
  <2> QED
    BY <1>1, <1>6, <2>1, IdFacts DEF Works, Owes, Reached, IsMessage
<1>8. Enlists(r, t)
  <2>1. Fresh(r) /\ ~Fresh(r)'
    BY <1>1, <1>6, IdFacts DEF Fresh, IsMessage
  <2> QED
    BY <1>1, <1>7, <2>1, CrewsOfOthers, CrewsMove DEF Enlists
<1>9. \A o \in Object : OwingStays(o) /\ OutputKept(o)
  BY <1>1, <1>6, <1>7, CrewsMove DEF OutputKept, Output
<1> QED
  BY <1>4, <1>5, <1>8, <1>9, CrewOpens

\* r is done with the task it works on, or sets it working.
LEMMA OutcomeIsCrew ==
  ASSUME HandlersInv, NEW r \in Req, Step(r), NEW t \in Object, task' = task,
         Works(r, t), arts' = arts, SetState(t, heap'[t].state),
         \/ /\ heap'[t].state = "running" /\ WillFinish(r)'
            /\ Assigning(r)' <=> Assigning(r)
         \/ /\ heap'[t].state = "auth-required" /\ ~WillFinish(r)'
            /\ Assigning(r)' <=> Assigning(r)
         \/ /\ heap'[t].state = "completed" /\ ~WillFinish(r)' /\ Assigning(r)'
  PROVE  Crew!Resume(r, t) \/ Crew!Demand(r, t) \/ Crew!Complete(r, t)
<1>1. /\ task[r] = t /\ IsMessage(req[r]) /\ WillFinish(r)
      /\ Reached(r, t) /\ Reached(r, t)'
  BY RequestsStay DEF Works, Reached, IsMessage
<1>2. /\ FreshStay /\ r \in CrewOf(t)
      /\ \A o \in Object \ {t} : CrewStays(o) /\ OwingStays(o)
      /\ (WillFinish(r)' <=> WillFinish(r)) => \A o \in Object : CrewStays(o)
      /\ (Assigning(r)' <=> Assigning(r)) => \A o \in Object : OwingStays(o)
  BY <1>1, TaskKept, CrewsMove
<1>3. /\ WillFinish(r)' <=> Works(r, t)'
      /\ Assigning(r)' <=> Owes(r, t)'
  BY <1>1 DEF Works, Owes
<1>4. \A o \in Object : OutputKept(o)
  BY DEF OutputKept, Output
<1>5. CASE heap'[t].state = "running"
  <2>1. CrewPhase(t)' = "working" /\ \A o \in Object \ {t} : CrewPhaseStays(o)
    BY <1>5, CrewPhaseWrites
  <2>2. Crew!Resume(r, t)
    BY <1>1, <1>2, <1>4, <1>5, <2>1, CrewResumes
  <2> QED
    BY <2>2
<1>6. CASE heap'[t].state = "auth-required"
  <2>1. CrewPhase(t)' = "waiting" /\ \A o \in Object \ {t} : CrewPhaseStays(o)
    BY <1>6, CrewPhaseWrites
  <2>2. CrewOf(t)' = CrewOf(t) \ {r}
    BY <1>3, <1>6, CrewsMove
  <2>3. Crew!Demand(r, t)
    BY <1>2, <1>4, <1>6, <2>1, <2>2, CrewDemands
  <2> QED
    BY <2>3
<1>7. CASE heap'[t].state = "completed"
  <2>1. CrewPhase(t)' = "completed" /\ \A o \in Object \ {t} : CrewPhaseStays(o)
    BY <1>7, CrewPhaseWrites
  <2>2. CrewOf(t)' = CrewOf(t) \ {r} /\ OwingOf(t)' = OwingOf(t) \cup {r}
    BY <1>3, <1>7, CrewsMove
  <2>3. Crew!Complete(r, t)
    BY <1>2, <1>4, <2>1, <2>2, CrewCompletes
  <2> QED
    BY <2>3
<1> QED
  BY <1>5, <1>6, <1>7

\* r stores its artifact.
LEMMA OutputIsCrew ==
  ASSUME HandlersInv, NEW r \in Req, Step(r), NEW t \in Object, task' = task,
         Owes(r, t), ~Assigning(r)', WillFinish(r)' <=> WillFinish(r),
         heap' = heap, arts'[t] # <<>>, \A o \in Object \ {t} : arts'[o] = arts[o]
  PROVE  Crew!Deliver(r, t)
<1>1. task[r] = t
  BY DEF Owes, Reached
<1>2. /\ FreshStay /\ r \in OwingOf(t)
      /\ \A o \in Object \ {t} : OwingStays(o)
      /\ \A o \in Object : CrewStays(o) /\ CrewPhaseStays(o)
  BY <1>1, TaskKept, CrewsMove, CrewPhaseFacts
<1>3. OwingOf(t)' = OwingOf(t) \ {r}
  BY CrewsMove DEF Owes
<1>4. Output(t)' /\ \A o \in Object \ {t} : OutputKept(o)
  BY DEF Output, OutputKept
<1> QED
  BY <1>2, <1>3, <1>4, CrewDelivers

\* r goes on without touching a task.
LEMMA WorkIsStutter ==
  ASSUME HandlersInv, NEW r \in Req, Step(r), task' = task,
         heap' = heap, arts' = arts,
         \/ ~IsMessage(req[r])
         \/ /\ WillFinish(r)' <=> WillFinish(r)
            /\ Assigning(r)' <=> Assigning(r)
  PROVE  UNCHANGED Crew!vars
<1>1. FreshStay /\ \A o \in Object : CrewStays(o) /\ OwingStays(o)
  BY TaskKept
<1>2. \A o \in Object : CrewPhaseStays(o) /\ OutputKept(o)
  BY CrewPhaseFacts DEF OutputKept, Output
<1> QED
  BY <1>1, <1>2, CrewStutters

LEMMA CancelIsCrew ==
  ASSUME HandlersInv, NEW r \in Req, AssignCanceled(r)
  PROVE  \E t \in Object : Crew!Cancel(t)
<1>1. CallTypeOK /\ CallInv(r) /\ Step(r)
  BY TypeParts DEF HandlersInv, Step, Handle
<1>2. /\ ~IsMessage(req[r]) /\ task[r] \in Object /\ task' = task /\ arts' = arts
      /\ SetState(task[r], "canceled")
  BY <1>1 DEF AssignCanceled, At, CallInv, IsMessage, Working, HandlerPC, HoldsTask
<1>3. PICK t \in Object : t = task[r]
  BY <1>2
<1>4. /\ CrewPhase(t) # "absent" /\ CrewPhase(t)' = "canceled"
      /\ \A o \in Object \ {t} : CrewPhaseStays(o)
  BY <1>2, <1>3, CrewPhaseWrites
<1>5. /\ FreshStay
      /\ \A o \in Object : CrewStays(o) /\ OwingStays(o) /\ OutputKept(o)
  BY <1>1, <1>2, TaskKept DEF OutputKept, Output
<1>6. Crew!Cancel(t)
  BY <1>4, <1>5, CrewCancels
<1> QED
  BY <1>6

LEMMA HandleIsCrew ==
  ASSUME HandlersInv, Unserved, NEW r \in Req, Handle(r)
  PROVE  Crew!Next \/ UNCHANGED Crew!vars
<1>1. CallTypeOK /\ DataTypeOK /\ CallInv(r) /\ req' = req /\ Step(r)
  BY TypeParts, RequestsStay DEF HandlersInv, Step
<1>2. CASE CreateTask(r)
  BY <1>2, CreateIsOpen DEF Crew!Next
<1>3. CASE AssignCanceled(r)
  BY <1>3, CancelIsCrew DEF Crew!Next
<1>4. CASE ~CreateTask(r) /\ ~AssignCanceled(r)
  <2>1. task' = task /\ HoldsTask(r) /\ pc[r] \in Working
    <3>1. task' = task /\ pc[r] \in Working
      BY <1>4 DEF Handle, TouchAuthRequired, SetAuthMessage, ClearMessage,
                  AssignCompleted, AssignArtifacts, PutTask, MarshalStatus,
                  MarshalArtifacts, At, Working, HandlerPC
    <3> QED
      BY <3>1, CalledWithTask
  <2>2. PICK t \in Object : t = task[r]
    BY <2>1 DEF HoldsTask
  <2>3. gpc[r] \in {"none", "notify", "end"}
    BY <1>1, <2>1 DEF CallInv, InStreamDemo, Working
  <2>4. CASE TouchAuthRequired(r) \/ AssignCompleted(r)
    <3>1. PICK s \in {"auth-required", "completed"} :
            /\ SetState(task[r], s)
            /\ s = "auth-required" => pc[r] = "touch" /\ pc'[r] = "message"
            /\ s = "completed" => \/ pc[r] = "status" /\ pc'[r] = "clear"
                                  \/ pc[r] = "state" /\ pc'[r] = "artifacts"
            /\ gpc'[r] = gpc[r] /\ arts' = arts
      BY <1>1, <2>4
      DEF TouchAuthRequired, AssignCompleted, At, Goto, goVars, CallTypeOK
    <3>2. heap'[t].state = s /\ SetState(t, s)
      BY <2>2, <3>1, SetStateWrites
    <3>3. Works(r, t)
      BY <1>1, <2>2, <3>1
      DEF Works, Reached, WillFinish, CallInv, AsksAuth, IsMessage, IsPlainSend
    <3>4. /\ ~WillFinish(r)'
          /\ s = "auth-required" => (Assigning(r)' <=> Assigning(r))
          /\ s = "completed" => Assigning(r)'
      BY <2>3, <3>1 DEF WillFinish, StreamToStart, Assigning
    <3>5. \/ Crew!Resume(r, t) \/ Crew!Demand(r, t) \/ Crew!Complete(r, t)
      BY <1>1, <2>1, <3>1, <3>2, <3>3, <3>4, OutcomeIsCrew
    <3> QED
      BY <3>5 DEF Crew!Next
  <2>5. CASE AssignArtifacts(r)
    <3>1. /\ pc[r] = "artifacts" /\ pc'[r] = "put" /\ gpc'[r] = gpc[r]
          /\ heap' = heap /\ arts' = [arts EXCEPT ![t] = <<artifact(r)>>]
      BY <1>1, <2>2, <2>5
      DEF AssignArtifacts, At, Goto, goVars, storeVars, CallTypeOK
    <3>2. arts'[t] # <<>> /\ \A o \in Object \ {t} : arts'[o] = arts[o]
      BY <1>1, <3>1 DEF DataTypeOK
    <3>3. Owes(r, t)
      BY <1>1, <2>2, <3>1
      DEF Owes, Reached, Assigning, CallInv, IsMessage, IsPlainSend
    <3>4. ~Assigning(r)' /\ (WillFinish(r)' <=> WillFinish(r))
      BY <2>3, <3>1 DEF WillFinish, StreamToStart, Assigning
    <3>5. Crew!Deliver(r, t)
      BY <1>1, <2>1, <3>1, <3>2, <3>3, <3>4, OutputIsCrew
    <3> QED
      BY <3>5 DEF Crew!Next
  <2>6. CASE \/ SetAuthMessage(r) \/ ClearMessage(r) \/ PutTask(r)
             \/ MarshalStatus(r) \/ MarshalArtifacts(r)
    <3>1. heap' = heap /\ arts' = arts
      BY <2>6 DEF SetAuthMessage, ClearMessage, PutTask, put, MarshalStatus,
                  MarshalArtifacts, storeVars
    <3>2. /\ WillFinish(r)' <=> WillFinish(r)
          /\ Assigning(r)' <=> Assigning(r)
      BY <1>1, <2>3, <2>6
      DEF SetAuthMessage, ClearMessage, PutTask, MarshalStatus,
          MarshalArtifacts, At, Goto, goVars, CallTypeOK, CallInv, WillFinish,
          StreamToStart, StreamsNow, Assigning
    <3> QED
      BY <1>1, <2>1, <3>1, <3>2, WorkIsStutter
  <2> QED
    BY <1>4, <2>4, <2>5, <2>6 DEF Handle
<1> QED
  BY <1>2, <1>3, <1>4

LEMMA StreamIsCrew ==
  ASSUME HandlersInv, NEW r \in Req, Stream(r)
  PROVE  Crew!Next \/ UNCHANGED Crew!vars
<1>1. CallTypeOK /\ DataTypeOK /\ CallInv(r) /\ req' = req /\ Step(r)
  BY TypeParts, RequestsStay DEF HandlersInv, Step
<1>2. /\ task' = task /\ pc' = pc /\ HoldsTask(r)
      /\ gpc[r] # "notify" => pc[r] = "done" /\ IsMessage(req[r])
  BY <1>1, GoesWithTask
  DEF Stream, StreamTouchRunning, StreamSendStatus, StreamSendArtifact,
      StreamTouchCompleted, StreamLoadArtifacts, StreamStoreArtifacts,
      StreamPut, StreamSendFinal, NotifyAuthRequired, GoAt, GoPC, callVars,
      CallInv, InStreamDemo, StreamsNow, IsMessage
<1>3. PICK t \in Object : t = task[r]
  BY <1>2 DEF HoldsTask
<1>4. CASE StreamTouchRunning(r) \/ StreamTouchCompleted(r)
  <2>1. PICK s \in {"running", "completed"} :
          /\ SetState(task[r], s)
          /\ s = "running" => gpc[r] = "running" /\ gpc'[r] = "sendStatus"
          /\ s = "completed" => gpc[r] = "completed" /\ gpc'[r] = "load"
          /\ arts' = arts
    BY <1>1, <1>4 DEF StreamTouchRunning, StreamTouchCompleted, GoAt, CallTypeOK
  <2>2. heap'[t].state = s /\ SetState(t, s)
    BY <1>3, <2>1, SetStateWrites
  <2>3. Works(r, t)
    BY <1>2, <1>3, <2>1 DEF Works, Reached, WillFinish, StreamToStart
  <2>4. /\ s = "running" => WillFinish(r)' /\ (Assigning(r)' <=> Assigning(r))
        /\ s = "completed" => ~WillFinish(r)' /\ Assigning(r)'
    BY <1>2, <2>1 DEF WillFinish, StreamToStart, Assigning
  <2>5. Crew!Resume(r, t) \/ Crew!Demand(r, t) \/ Crew!Complete(r, t)
    BY <1>1, <1>2, <2>1, <2>2, <2>3, <2>4, OutcomeIsCrew
  <2> QED
    BY <2>5 DEF Crew!Next
<1>5. CASE StreamStoreArtifacts(r)
  <2>1. /\ gpc[r] = "store" /\ gpc'[r] = "put" /\ heap' = heap
        /\ arts' = [arts EXCEPT ![t] = Append(loaded[r], artifact(r))]
    BY <1>1, <1>3, <1>5 DEF StreamStoreArtifacts, GoAt, storeVars, CallTypeOK
  <2>2. arts'[t] # <<>> /\ \A o \in Object \ {t} : arts'[o] = arts[o]
    <3>1. Append(loaded[r], artifact(r)) # <<>>
      BY <1>1, <1>2, ArtifactType, AppendProperties DEF DataTypeOK
    <3> QED
      BY <1>1, <2>1, <3>1 DEF DataTypeOK
  <2>3. Owes(r, t)
    BY <1>2, <1>3, <2>1 DEF Owes, Reached, Assigning
  <2>4. ~Assigning(r)' /\ (WillFinish(r)' <=> WillFinish(r))
    BY <1>2, <2>1 DEF WillFinish, StreamToStart, Assigning
  <2>5. Crew!Deliver(r, t)
    BY <1>1, <1>2, <2>1, <2>2, <2>3, <2>4, OutputIsCrew
  <2> QED
    BY <2>5 DEF Crew!Next
<1>6. CASE \/ StreamSendStatus(r) \/ StreamSendArtifact(r) \/ StreamLoadArtifacts(r)
           \/ StreamPut(r) \/ StreamSendFinal(r) \/ NotifyAuthRequired(r)
  <2>1. heap' = heap /\ arts' = arts
    BY <1>6 DEF StreamSendStatus, StreamSendArtifact, StreamLoadArtifacts,
                StreamPut, put, StreamSendFinal, NotifyAuthRequired, storeVars
  <2>2. /\ WillFinish(r)' <=> WillFinish(r)
        /\ Assigning(r)' <=> Assigning(r)
    BY <1>1, <1>2, <1>6
    DEF StreamSendStatus, StreamSendArtifact, StreamLoadArtifacts, StreamPut,
        StreamSendFinal, NotifyAuthRequired, GoAt, CallTypeOK, WillFinish,
        StreamToStart, Assigning
  <2> QED
    BY <1>1, <1>2, <2>1, <2>2, WorkIsStutter
<1> QED
  BY <1>4, <1>5, <1>6 DEF Stream

LEMMA CrewStep ==
  ASSUME HandlersInv, Unserved, [Next]_vars
  PROVE  Crew!Next \/ UNCHANGED Crew!vars
<1>1. CASE UNCHANGED vars
  <2>1. /\ FreshStay
        /\ \A o \in Object : CrewStays(o) /\ OwingStays(o)
    BY <1>1 DEF vars, callVars, goVars, FreshStay, Fresh, CrewStays, CrewOf,
                OwingStays, OwingOf, Reached, WillFinish, StreamToStart,
                Assigning, AsksAuth, IsMessage
  <2>2. \A o \in Object : CrewPhaseStays(o) /\ OutputKept(o)
    BY <1>1, CrewPhaseFacts DEF vars, storeVars, OutputKept, Output
  <2> QED
    BY <2>1, <2>2, CrewStutters
<1> QED
  BY <1>1, ServeIsCrew, HandleIsCrew, StreamIsCrew, NextIsStep DEF Step

\* Every family of handlers, with streams and with tasks that several
\* messages share, implements the life of tasks and crews TaskCrew.
THEOREM HandlersImplementCrew == Spec => CrewSpec
<1>1. Init => Crew!Init
  <2> SUFFICES ASSUME Init PROVE Crew!Init
    OBVIOUS
  <2>1. \A o \in Object : CrewPhase(o) = "absent" /\ arts[o] = <<>>
    BY DEF Init, StoreInit, CrewPhase
  <2>2. \A o \in Object : CrewOf(o) = {} /\ OwingOf(o) = {}
    BY IdFacts DEF Init, CrewOf, OwingOf, Reached
  <2> QED
    BY <2>1, <2>2 DEF Crew!Init
<1>2. HandlersInv /\ Unserved /\ [Next]_vars => [Crew!Next]_(Crew!vars)
  BY CrewStep
<1> QED
  BY <1>1, <1>2, UnservedInvariant, HandlersInvariant, PTL
  DEF Spec, CrewSpec, Crew!Spec
-----------------------------------------------------------------------------
(***************************************************************************)
(* The bound on tasks.  Every task has been created by a request that      *)
(* holds it for good, so there are never more tasks than requests that     *)
(* have got to one, and MaxTasks keeps nobody from creating a task as long *)
(* as there are no more requests than that.                                *)
(***************************************************************************)
Created == \A n \in 1..seq : \E r \in Req : task[r] = n
RoomToCreate == \A r \in Req : pc[r] = "create" => seq < MaxTasks

LEMMA TasksAreHeld ==
  ASSUME HandlersInv, Unserved, NEW r \in Req, Step(r), NEW q \in Req, task[q] # Nil
  PROVE  task'[q] = task[q]
<1>1. CallTypeOK
  BY TypeParts DEF HandlersInv
<1>2. CASE q # r
  BY <1>2, OthersWait
<1>3. CASE q = r
  <2>1. pc[r] \notin {"idle", "create"}
    BY <1>3 DEF Unserved
  <2> QED
    BY <1>1, <1>3, <2>1
    DEF Step, Serve, Refuse, RejectTerminal, ContinueTask, DecideToCreate,
        FindTask, MissTask, Begins, Handle, CreateTask, TouchAuthRequired,
        SetAuthMessage, ClearMessage, AssignCompleted, AssignArtifacts,
        AssignCanceled, PutTask, MarshalStatus, MarshalArtifacts, At, Stream,
        StreamTouchRunning, StreamSendStatus, StreamSendArtifact,
        StreamTouchCompleted, StreamLoadArtifacts, StreamStoreArtifacts,
        StreamPut, StreamSendFinal, NotifyAuthRequired, GoAt, callVars
<1> QED
  BY <1>2, <1>3

LEMMA CreatedStep == HandlersInv /\ Unserved /\ Created /\ [Next]_vars => Created'
<1> SUFFICES ASSUME HandlersInv, Unserved, Created, [Next]_vars, NEW n \in 1..seq'
             PROVE  \E q \in Req : task'[q] = n
  BY DEF Created
<1>0. seq \in Nat /\ CallTypeOK
  BY TypeParts DEF HandlersInv, StoreInv, StoreTypeOK
<1>1. CASE UNCHANGED vars
  BY <1>1 DEF vars, storeVars, callVars, Created
<1>2. ASSUME NEW r \in Req, Step(r) PROVE \E q \in Req : task'[q] = n
  <2>1. CASE n \in 1..seq
    <3>1. PICK q \in Req : task[q] = n
      BY <2>1 DEF Created
    <3> QED
      BY <1>0, <1>2, <2>1, <3>1, TasksAreHeld DEF Nil
  <2>2. CASE n \notin 1..seq
    <3>1. seq' # seq
      BY <2>2
    <3>2. CreateTask(r)
      BY <1>2, <3>1
      DEF Step, Serve, Refuse, RejectTerminal, ContinueTask, DecideToCreate,
          FindTask, MissTask, Begins, Handle, TouchAuthRequired,
          SetAuthMessage, ClearMessage, AssignCompleted, AssignArtifacts,
          AssignCanceled, PutTask, MarshalStatus, MarshalArtifacts, Stream,
          StreamTouchRunning, StreamSendStatus, StreamSendArtifact,
          StreamTouchCompleted, StreamLoadArtifacts, StreamStoreArtifacts,
          StreamPut, StreamSendFinal, NotifyAuthRequired, SetState, put,
          storeVars
    <3>3. seq' = seq + 1 /\ task'[r] = seq + 1
      BY <1>0, <3>2 DEF CreateTask, newTask, CallTypeOK
    <3> QED
      BY <1>0, <2>2, <3>3
  <2> QED
    BY <2>1, <2>2
<1> QED
  BY <1>1, <1>2, NextIsStep

\* With no more requests than MaxTasks the bound never binds: whatever TLC
\* finds under it is what the handlers do without it.
THEOREM BoundNeverBinds ==
  ASSUME IsFiniteSet(Req), Cardinality(Req) <= MaxTasks
  PROVE  Spec => []RoomToCreate
<1>1. ASSUME HandlersInv, Unserved, Created, NEW r \in Req, pc[r] = "create"
      PROVE  seq < MaxTasks
  <2>1. seq \in Nat
    BY <1>1 DEF HandlersInv, StoreInv, StoreTypeOK
  <2>2. task[r] = Nil
    BY <1>1 DEF Unserved
  <2>3. \A n \in 1..seq : \E q \in Req \ {r} : task[q] = n
    BY <1>1, <2>1, <2>2 DEF Created, Nil
  <2> DEFINE creator == [n \in 1..seq |-> CHOOSE q \in Req \ {r} : task[q] = n]
  <2>4. \A n \in 1..seq : creator[n] \in Req \ {r} /\ task[creator[n]] = n
    BY <2>3
  <2>5. creator \in Injection(1..seq, Req \ {r})
    <3>1. creator \in [1..seq -> Req \ {r}]
      BY <2>4
    <3>2. \A m, n \in 1..seq : creator[m] = creator[n] => m = n
      BY <2>4
    <3> QED
      BY <3>1, <3>2 DEF Injection, IsInjective
  <2>6. /\ IsFiniteSet(Req \ {r}) /\ Cardinality(Req) \in Nat
        /\ Cardinality(Req \ {r}) = Cardinality(Req) - 1
    BY FS_RemoveElement, FS_CardinalityType
  <2> HIDE DEF creator
  <2>7. Cardinality(1..seq) <= Cardinality(Req \ {r})
    BY <2>5, <2>6, FS_Injection
  <2>8. Cardinality(1..seq) = seq
    BY <2>1, FS_Interval
  <2> QED
    BY <2>1, <2>6, <2>7, <2>8, MaxTasksNat
<1>2. HandlersInv /\ Unserved /\ Created => RoomToCreate
  BY <1>1 DEF RoomToCreate
<1>3. Init => Created
  BY DEF Init, StoreInit, Created
<1> QED
  BY <1>2, <1>3, CreatedStep, UnservedInvariant, HandlersInvariant, PTL DEF Spec

-----------------------------------------------------------------------------
(***************************************************************************)
(* Every family implements CallServer, too.  First its actions, told       *)
(* request by request.                                                     *)
(***************************************************************************)
AnswerStays(r) == AnswerOf(r)' = AnswerOf(r)
OpenStays(r) == StreamOpen(r)' <=> StreamOpen(r)
ToldStays(r) == ToldTo(r)' = ToldTo(r)
MethodsStay == \A r \in Req : MethodOf(r)' = MethodOf(r)

LEMMA ServerStutters ==
  ASSUME MethodsStay, \A r \in Req : AnswerStays(r) /\ OpenStays(r) /\ ToldStays(r)
  PROVE  UNCHANGED Server!serverVars
BY DEF Server!serverVars, MethodsStay, AnswerStays, OpenStays, ToldStays, StreamOpen

LEMMA ServerAnswers ==
  ASSUME MethodsStay, NEW r \in Req, NEW a \in {"task", "error"},
         AnswerOf(r) = "none", AnswerOf(r)' = a, ~StreamOpen(r),
         MethodOf(r) \in {"stream", "resub"} /\ ~Streaming => a = "error",
         MethodOf(r) = "resub" /\ Streaming => a = "task",
         StreamOpen(r)' => MethodOf(r) = "stream" /\ a = "task",
         \A q \in Req : ToldStays(q),
         \A q \in Req \ {r} : AnswerStays(q) /\ OpenStays(q)
  PROVE  Server!Answer(r, a)
<1> DEFINE open == [q \in Req |-> StreamOpen(q)]
           openNow == [q \in Req |-> StreamOpen(q)']
<1>1. openNow = open \/ openNow = [open EXCEPT ![r] = TRUE]
  BY DEF OpenStays, StreamOpen
<1>2. openNow # open => MethodOf(r) = "stream" /\ a = "task"
  BY DEF OpenStays, StreamOpen
<1>3. openNow \in {open} \cup IF MethodOf(r) = "stream" /\ a = "task"
                              THEN {[open EXCEPT ![r] = TRUE]} ELSE {}
  BY <1>1, <1>2
<1>4. [q \in Req |-> AnswerOf(q)'] = [[q \in Req |-> AnswerOf(q)] EXCEPT ![r] = a]
  BY DEF AnswerStays
<1>5. /\ [q \in Req |-> ToldTo(q)'] = [q \in Req |-> ToldTo(q)]
      /\ [q \in Req |-> MethodOf(q)'] = [q \in Req |-> MethodOf(q)]
  BY DEF ToldStays, MethodsStay
<1> QED
  BY <1>3, <1>4, <1>5 DEF Server!Answer, Server!Admitted

LEMMA ServerTells ==
  ASSUME MethodsStay, NEW r \in Req, StreamOpen(r), Len(ToldTo(r)) \in 0..2,
         ToldTo(r)' = Append(ToldTo(r), Server!Order[Len(ToldTo(r)) + 1]),
         \A q \in Req : AnswerStays(q) /\ OpenStays(q),
         \A q \in Req \ {r} : ToldStays(q)
  PROVE  Server!Tell(r)
<1>1. Len(Server!Order) = 3
  BY DEF Server!Order
<1>2. /\ [q \in Req |-> AnswerOf(q)'] = [q \in Req |-> AnswerOf(q)]
      /\ [q \in Req |-> StreamOpen(q)'] = [q \in Req |-> StreamOpen(q)]
      /\ [q \in Req |-> MethodOf(q)'] = [q \in Req |-> MethodOf(q)]
  BY DEF AnswerStays, OpenStays, MethodsStay, StreamOpen
<1>3. [q \in Req |-> ToldTo(q)']
        = [[q \in Req |-> ToldTo(q)] EXCEPT
             ![r] = Append(@, Server!Order[Len(@) + 1])]
  BY DEF ToldStays
<1>4. [q \in Req |-> StreamOpen(q)][r]
  BY Zenon
<1>5. Len([q \in Req |-> ToldTo(q)][r]) < 3
  <2>1. [q \in Req |-> ToldTo(q)][r] = ToldTo(r)
    BY Zenon
  <2>2. \A n \in 0..2 : n < 3
    OBVIOUS
  <2> QED
    BY <2>1, <2>2
<1> QED
  BY <1>1, <1>2, <1>3, <1>4, <1>5 DEF Server!Tell

\* One more event is one more thing told.
LEMMA MoreTold ==
  ASSUME NEW r \in Req, NEW e \in Event, sent[r] \in Seq(Event),
         sent'[r] = Append(sent[r], e)
  PROVE  /\ ToldTo(r)' = Append(ToldTo(r), Kind(e))
         /\ Len(ToldTo(r)) = Len(sent[r])
<1> DEFINE n == Len(sent[r])
           told == [i \in 1..n |-> Kind(sent[r][i])]
           more == [i \in 1..Len(sent'[r]) |-> Kind(sent'[r][i])]
<1>1. /\ n \in Nat /\ Len(sent'[r]) = n + 1
      /\ \A i \in 1..n : sent'[r][i] = sent[r][i]
      /\ sent'[r][n + 1] = e
  BY AppendProperties, LenProperties
<1>2. told \in Seq({Kind(x) : x \in Event}) /\ Len(told) = n
  BY <1>1
<1>3. more \in Seq({Kind(x) : x \in Event}) /\ Len(more) = n + 1
  BY <1>1
<1>4. more = Append(told, Kind(e))
  <2>1. /\ Append(told, Kind(e)) \in Seq({Kind(x) : x \in Event})
        /\ Len(Append(told, Kind(e))) = n + 1
        /\ \A i \in 1..n : Append(told, Kind(e))[i] = told[i]
        /\ Append(told, Kind(e))[n + 1] = Kind(e)
    BY <1>2, AppendProperties
  <2>2. \A i \in 1..(n + 1) : more[i] = Append(told, Kind(e))[i]
    BY <1>1, <2>1
  <2> HIDE DEF told, more
  <2> QED
    BY <1>3, <2>1, <2>2, SeqEqual
<1> QED
  BY <1>2, <1>4 DEF ToldTo

-----------------------------------------------------------------------------
(***************************************************************************)
(* A request has no answer before its handler has returned, and a stream   *)
(* has sent as many events as its goroutine is past.                       *)
(***************************************************************************)
EventsPast == [none |-> 0, notify |-> 0, running |-> 0, sendStatus |-> 0,
               sendArtifact |-> 1, completed |-> 2, load |-> 2, store |-> 2,
               put |-> 2, sendFinal |-> 2, end |-> 3]
InOrder(r) ==
  /\ pc[r] # "done" => resp[r].code = Pending
  /\ StreamsNow(r) => Len(sent[r]) = EventsPast[gpc[r]]
  /\ StreamsNow(r) /\ gpc[r] # "none" => pc[r] = "done"
  /\ pc[r] \notin {"idle", "done"} => Accepted(r)
AllInOrder == \A r \in Req : InOrder(r)

\* Only the caller of r is told anything.
LEMMA OthersToldNothing ==
  ASSUME HandlersInv, NEW r \in Req, Step(r), NEW q \in Req, q # r
  PROVE  AnswerStays(q) /\ OpenStays(q) /\ ToldStays(q)
BY OthersWait, OthersSilent, RequestsStay
DEF AnswerStays, OpenStays, ToldStays, AnswerOf, StreamOpen, ToldTo, AsksAuth, IsMessage

LEMMA MethodsFixed ==
  ASSUME NEW r \in Req, Step(r)
  PROVE  MethodsStay
BY RequestsStay DEF MethodsStay, MethodOf

LEMMA AnswerGiven ==
  ASSUME NEW r \in Req
  PROVE  /\ AnswerOf(r) = "none" <=> resp[r].code = Pending
         /\ AnswerOf(r) = "task" <=> resp[r].code = Result
         /\ AnswerOf(r) \in {"none", "task", "error"}
         /\ AnswerOf(r)' = "none" <=> resp'[r].code = Pending
         /\ AnswerOf(r)' = "task" <=> resp'[r].code = Result
         /\ AnswerOf(r)' \in {"none", "task", "error"}
BY DEF AnswerOf, Pending, Result

\* The head of a handler answers as the gates admit, or not yet.
LEMMA HeadTells ==
  ASSUME HandlersInv, AllInOrder, NEW r \in Req, Serve(r)
  PROVE  [Server!Next]_(Server!serverVars) /\ InOrder(r)'
<1>1. CallTypeOK /\ DataTypeOK /\ CallInv(r) /\ Step(r) /\ req' = req
  BY TypeParts, RequestsStay DEF HandlersInv, Step
<1>2. /\ pc[r] = "idle" /\ gpc[r] = "none" /\ UNCHANGED <<gpc, sent>>
      /\ resp[r].code = Pending
  BY <1>1
  DEF Serve, Refuse, RejectTerminal, ContinueTask, DecideToCreate, FindTask,
      MissTask, Begins, goVars, CallInv, AllInOrder, InOrder
<1>3. ~StreamOpen(r) /\ OpenStays(r) /\ ToldStays(r)
  BY <1>1, <1>2 DEF StreamOpen, OpenStays, ToldStays, ToldTo
<1>4. \A q \in Req \ {r} : AnswerStays(q) /\ OpenStays(q) /\ ToldStays(q)
  BY <1>1, OthersToldNothing
<1>5. MethodsStay
  BY <1>1, MethodsFixed
<1>6. CASE resp' = resp
  <2>1. AnswerStays(r)
    BY <1>6 DEF AnswerStays, AnswerOf
  <2>2. UNCHANGED Server!serverVars
    BY <1>3, <1>4, <1>5, <2>1, ServerStutters
  <2>3. pc'[r] # "done" => Accepted(r)
    BY <1>1, <1>6, WorkPC
    DEF Serve, Refuse, RejectTerminal, ContinueTask, DecideToCreate, FindTask,
        MissTask, Answer, Goto, CallTypeOK
  <2>4. InOrder(r)'
    BY <1>1, <1>2, <1>6, <2>3
    DEF InOrder, AllInOrder, StreamsNow, AsksAuth, IsMessage, Accepted
  <2> QED
    BY <2>2, <2>4
<1>7. ASSUME NEW code, Answer(r, code), code \in Code \ {Pending},
             MethodOf(r) \in {"stream", "resub"} /\ ~Streaming => code # Result,
             MethodOf(r) = "resub" /\ Streaming => code = Result
      PROVE  [Server!Next]_(Server!serverVars) /\ InOrder(r)'
  <2>1. resp'[r].code = code /\ pc'[r] = "done"
    BY <1>1, <1>7 DEF Answer, Goto, Reply, CallTypeOK, DataTypeOK
  <2>2. AnswerOf(r)' = IF code = Result THEN "task" ELSE "error"
    BY <1>7, <2>1, AnswerGiven
  <2>3. AnswerOf(r) = "none"
    BY <1>2, AnswerGiven
  <2>4. ~StreamOpen(r)'
    BY <1>3 DEF OpenStays
  <2>5. Server!Answer(r, IF code = Result THEN "task" ELSE "error")
    BY <1>3, <1>4, <1>5, <1>7, <2>2, <2>3, <2>4, ServerAnswers
  <2>6. InOrder(r)'
    BY <1>1, <1>2, <2>1 DEF InOrder, AllInOrder, StreamsNow, AsksAuth, IsMessage
  <2> QED
    BY <2>5, <2>6 DEF Server!Next
<1>8. CASE Refuse(r)
  <2>1. /\ Answer(r, Refusal(req[r])) /\ Refusal(req[r]) \in Code \ {Pending, Result}
    BY <1>8
    DEF Refuse, Accepted, Refusal, Code, Pending, Result, HttpNotFound,
        StreamingNotSupported, InvalidParams
  <2>2. ~(MethodOf(r) = "resub" /\ Streaming)
    BY <1>8 DEF Refuse, Accepted, Refusal, MethodOf, NoPath, Malformed, IsMessage
  <2> QED
    BY <1>7, <2>1, <2>2
<1>9. CASE RejectTerminal(r)
  <2>1. /\ Answer(r, InTerminalState) /\ InTerminalState \in Code \ {Pending, Result}
        /\ IsMessage(req[r])
    BY <1>9 DEF RejectTerminal, Code, Pending, Result, InTerminalState
  <2>2. MethodOf(r) # "resub"
    BY <2>1 DEF MethodOf, IsMessage
  <2> QED
    BY <1>7, <2>1, <2>2
<1>10. CASE MissTask(r)
  <2>1. PICK code \in {Result, NotFound} :
          /\ Answer(r, code)
          /\ code = Result <=> req[r].op = "resub" /\ req[r].fam # "rpc"
    BY <1>10 DEF MissTask, Result, NotFound
  <2>2. code \in Code \ {Pending}
    BY DEF Code, Pending, Result, NotFound
  <2>3. ~IsMessage(req[r]) /\ Refusal(req[r]) = Result
    BY <1>10 DEF MissTask, Accepted
  <2>4. MethodOf(r) \in {"stream", "resub"} => Streaming /\ code = Result
    BY <2>1, <2>3
    DEF MethodOf, IsMessage, Refusal, Result, StreamingNotSupported, InvalidParams,
        HttpNotFound
  <2> QED
    BY <1>7, <2>1, <2>2, <2>4
<1> QED
  BY <1>6, <1>8, <1>9, <1>10
  DEF Serve, ContinueTask, DecideToCreate, FindTask

\* After that only its last statement answers.
LEMMA RestTells ==
  ASSUME HandlersInv, AllInOrder, NEW r \in Req, Handle(r)
  PROVE  [Server!Next]_(Server!serverVars) /\ InOrder(r)'
<1>1. CallTypeOK /\ DataTypeOK /\ CallInv(r) /\ Step(r) /\ req' = req
  BY TypeParts, RequestsStay DEF HandlersInv, Step
<1>2. /\ pc[r] \notin {"idle", "done"} /\ sent' = sent
      /\ resp[r].code = Pending /\ Accepted(r) /\ InOrder(r)
  BY <1>1
  DEF Handle, CreateTask, TouchAuthRequired, SetAuthMessage, ClearMessage,
      AssignCompleted, AssignArtifacts, AssignCanceled, PutTask, MarshalStatus,
      MarshalArtifacts, At, goVars, AllInOrder, InOrder
<1>3. ToldStays(r) /\ MethodsStay
  BY <1>1, <1>2, MethodsFixed DEF ToldStays, ToldTo
<1>4. \A q \in Req \ {r} : AnswerStays(q) /\ OpenStays(q) /\ ToldStays(q)
  BY <1>1, OthersToldNothing
<1>5. CASE MarshalArtifacts(r)
  <2>1. /\ resp'[r].code = Result /\ pc'[r] = "done"
        /\ gpc'[r] = IF StreamsNow(r) THEN "running" ELSE gpc[r]
    BY <1>1, <1>5
    DEF MarshalArtifacts, At, Goto, StreamsNow, CallTypeOK, DataTypeOK
  <2>2. AnswerOf(r) = "none" /\ AnswerOf(r)' = "task"
    BY <1>2, <2>1, AnswerGiven
  <2>3. ~StreamOpen(r)
    BY <1>2 DEF InOrder, StreamOpen, StreamsNow
  <2>4. StreamOpen(r)' => MethodOf(r) = "stream"
    <3>1. req[r] \in Requests
      BY <1>1 DEF CallTypeOK
    <3> QED
      BY <1>1, <3>1, RequestsServed DEF StreamOpen, MethodOf
  <2>5. MethodOf(r) \in {"stream", "resub"} => Streaming
    BY <1>2
    DEF MethodOf, Accepted, Refusal, Result, StreamingNotSupported, HttpNotFound
  <2>6. Server!Answer(r, "task")
    BY <1>3, <1>4, <2>2, <2>3, <2>4, <2>5, ServerAnswers
  <2>7. InOrder(r)'
    BY <1>1, <1>2, <2>1
    DEF InOrder, StreamsNow, AsksAuth, IsMessage, EventsPast, Accepted
  <2> QED
    BY <2>6, <2>7 DEF Server!Next
<1>6. CASE \/ CreateTask(r) \/ TouchAuthRequired(r) \/ SetAuthMessage(r)
           \/ ClearMessage(r)
           \/ AssignCompleted(r) \/ AssignArtifacts(r) \/ AssignCanceled(r)
           \/ PutTask(r) \/ MarshalStatus(r)
  <2>1. resp'[r].code = resp[r].code
    <3>1. CASE MarshalStatus(r)
      BY <1>1, <3>1 DEF MarshalStatus, DataTypeOK, Response
    <3>2. CASE ~MarshalStatus(r)
      BY <1>6, <3>2
      DEF CreateTask, TouchAuthRequired, SetAuthMessage, ClearMessage,
          AssignCompleted, AssignArtifacts, AssignCanceled, PutTask
    <3> QED
      BY <3>1, <3>2
  <2>2. pc'[r] # "done"
    BY <1>1, <1>6, WorkPC
    DEF CreateTask, TouchAuthRequired, SetAuthMessage, ClearMessage,
        AssignCompleted, AssignArtifacts, AssignCanceled, PutTask,
        MarshalStatus, At, Goto, CallTypeOK
  <2>3. gpc' = gpc \/ PutTask(r)
    BY <1>6
    DEF CreateTask, TouchAuthRequired, SetAuthMessage, ClearMessage,
        AssignCompleted, AssignArtifacts, AssignCanceled, MarshalStatus, goVars
  <2>4. PutTask(r) => ~StreamsNow(r)
    BY <1>1 DEF PutTask, At, CallInv
  <2>5. StreamsNow(r) => gpc' = gpc
    BY <2>3, <2>4
  <2>6. StreamsNow(r)' <=> StreamsNow(r)
    BY <1>1 DEF StreamsNow, AsksAuth, IsMessage
  <2>7. AnswerStays(r) /\ OpenStays(r)
    BY <2>1, <2>5, <2>6 DEF AnswerStays, AnswerOf, OpenStays, StreamOpen, StreamsNow
  <2>8. UNCHANGED Server!serverVars
    BY <1>3, <1>4, <2>7, ServerStutters
  <2>9. InOrder(r)'
    BY <1>1, <1>2, <2>1, <2>2, <2>5, <2>6 DEF InOrder, Accepted
  <2> QED
    BY <2>8, <2>9
<1> QED
  BY <1>5, <1>6 DEF Handle

\* streamDemo tells its three events, each when it has come to it.
LEMMA StreamTells ==
  ASSUME HandlersInv, AllInOrder, NEW r \in Req, Stream(r)
  PROVE  [Server!Next]_(Server!serverVars) /\ InOrder(r)'
<1>1. CallTypeOK /\ DataTypeOK /\ CallInv(r) /\ Step(r) /\ req' = req /\ InOrder(r)
  BY TypeParts, RequestsStay DEF HandlersInv, Step, AllInOrder
<1>2. /\ pc' = pc /\ resp' = resp
      /\ gpc[r] # "none" /\ gpc'[r] # "none"
  BY <1>1
  DEF Stream, StreamTouchRunning, StreamSendStatus, StreamSendArtifact,
      StreamTouchCompleted, StreamLoadArtifacts, StreamStoreArtifacts,
      StreamPut, StreamSendFinal, NotifyAuthRequired, GoAt, callVars, CallTypeOK
<1>3. StreamsNow(r)' <=> StreamsNow(r)
  BY <1>1 DEF StreamsNow, AsksAuth, IsMessage
<1>4. AnswerStays(r) /\ OpenStays(r) /\ MethodsStay
  BY <1>1, <1>2, <1>3, MethodsFixed
  DEF AnswerStays, AnswerOf, OpenStays, StreamOpen, StreamsNow
<1>5. \A q \in Req \ {r} : AnswerStays(q) /\ OpenStays(q) /\ ToldStays(q)
  BY <1>1, OthersToldNothing
<1>6. CASE \/ StreamTouchRunning(r) \/ StreamTouchCompleted(r)
           \/ StreamLoadArtifacts(r) \/ StreamStoreArtifacts(r)
           \/ StreamPut(r) \/ NotifyAuthRequired(r)
  <2>1. sent' = sent
    BY <1>6
    DEF StreamTouchRunning, StreamTouchCompleted, StreamLoadArtifacts,
        StreamStoreArtifacts, StreamPut, NotifyAuthRequired
  <2>2. StreamsNow(r) => EventsPast[gpc'[r]] = EventsPast[gpc[r]]
    BY <1>1, <1>6
    DEF StreamTouchRunning, StreamTouchCompleted, StreamLoadArtifacts,
        StreamStoreArtifacts, StreamPut, NotifyAuthRequired, GoAt, CallTypeOK,
        CallInv, EventsPast
  <2>3. ToldStays(r)
    BY <2>1 DEF ToldStays, ToldTo
  <2>4. UNCHANGED Server!serverVars
    BY <1>4, <1>5, <2>3, ServerStutters
  <2>5. InOrder(r)'
    BY <1>1, <1>2, <1>3, <2>1, <2>2 DEF InOrder, Accepted
  <2> QED
    BY <2>4, <2>5
<1>7. ASSUME NEW e \in Event, sent'[r] = Append(sent[r], e), InStreamDemo(r),
             EventsPast[gpc[r]] \in 0..2,
             Kind(e) = Server!Order[EventsPast[gpc[r]] + 1],
             EventsPast[gpc'[r]] = EventsPast[gpc[r]] + 1
      PROVE  [Server!Next]_(Server!serverVars) /\ InOrder(r)'
  <2>1. sent[r] \in Seq(Event) /\ sent'[r] = Append(sent[r], e)
    BY <1>1, <1>7 DEF DataTypeOK
  <2>2. StreamsNow(r) /\ Len(sent[r]) = EventsPast[gpc[r]]
    BY <1>1, <1>2, <1>7 DEF CallInv, InOrder
  <2>3. ToldTo(r)' = Append(ToldTo(r), Kind(e)) /\ Len(ToldTo(r)) = Len(sent[r])
    BY <2>1, MoreTold
  <2>4. StreamOpen(r)
    BY <1>2, <2>2 DEF StreamOpen, StreamsNow
  <2>5. Server!Tell(r)
    BY <1>4, <1>5, <1>7, <2>2, <2>3, <2>4, ServerTells
  <2>6. Len(sent'[r]) = Len(sent[r]) + 1
    BY <2>1, AppendProperties
  <2>7. InOrder(r)'
    BY <1>1, <1>2, <1>3, <1>7, <2>2, <2>6 DEF InOrder, Accepted
  <2> QED
    BY <2>5, <2>7 DEF Server!Next
<1>8. CASE StreamSendStatus(r)
  <2>1. gpc[r] = "sendStatus" /\ gpc'[r] = "sendArtifact" /\ InStreamDemo(r)
    BY <1>1, <1>8 DEF StreamSendStatus, GoAt, CallTypeOK, InStreamDemo
  <2>2. PICK e \in Event : e = StatusEvent(task[r], FALSE)
    BY <1>1, <2>1, EventTypes DEF CallInv, HoldsTask, GoPC
  <2>3. Kind(e) = "status"
    BY <2>2 DEF Kind, StatusEvent
  <2>4. EventsPast[gpc[r]] = 0 /\ EventsPast[gpc'[r]] = 1 /\ Server!Order[1] = "status"
    BY <2>1 DEF EventsPast, Server!Order
  <2>5. sent'[r] = Append(sent[r], e)
    BY <1>1, <1>8, <2>2 DEF StreamSendStatus, Send, DataTypeOK
  <2> QED
    BY <1>7, <2>1, <2>3, <2>4, <2>5
<1>9. CASE StreamSendArtifact(r)
  <2>1. gpc[r] = "sendArtifact" /\ gpc'[r] = "completed" /\ InStreamDemo(r)
    BY <1>1, <1>9 DEF StreamSendArtifact, GoAt, CallTypeOK, InStreamDemo
  <2>2. ArtifactEvent \in Event /\ Kind(ArtifactEvent) = "artifact"
    BY DEF Kind, ArtifactEvent, Event
  <2>3. EventsPast[gpc[r]] = 1 /\ EventsPast[gpc'[r]] = 2 /\ Server!Order[2] = "artifact"
    BY <2>1 DEF EventsPast, Server!Order
  <2>4. sent'[r] = Append(sent[r], ArtifactEvent)
    BY <1>1, <1>9 DEF StreamSendArtifact, Send, DataTypeOK
  <2> QED
    BY <1>7, <2>1, <2>2, <2>3, <2>4
<1>10. CASE StreamSendFinal(r)
  <2>1. gpc[r] = "sendFinal" /\ gpc'[r] = "end" /\ InStreamDemo(r)
    BY <1>1, <1>10 DEF StreamSendFinal, GoAt, CallTypeOK, InStreamDemo
  <2>2. PICK e \in Event : e = StatusEvent(task[r], TRUE)
    BY <1>1, <2>1, EventTypes DEF CallInv, HoldsTask, GoPC
  <2>3. Kind(e) = "final"
    BY <2>2 DEF Kind, StatusEvent
  <2>4. EventsPast[gpc[r]] = 2 /\ EventsPast[gpc'[r]] = 3 /\ Server!Order[3] = "final"
    BY <2>1 DEF EventsPast, Server!Order
  <2>5. sent'[r] = Append(sent[r], e)
    BY <1>1, <1>10, <2>2 DEF StreamSendFinal, Send, DataTypeOK
  <2> QED
    BY <1>7, <2>1, <2>3, <2>4, <2>5
<1> QED
  BY <1>6, <1>8, <1>9, <1>10 DEF Stream

LEMMA OthersInOrder ==
  ASSUME HandlersInv, NEW r \in Req, Step(r), NEW q \in Req, q # r, InOrder(q)
  PROVE  InOrder(q)'
BY OthersWait, OthersSilent, RequestsStay
DEF InOrder, StreamsNow, AsksAuth, IsMessage, Accepted, Refusal, NoPath, Malformed

LEMMA ServerStep ==
  HandlersInv /\ AllInOrder /\ [Next]_vars
    => AllInOrder' /\ [Server!Next]_(Server!serverVars)
<1> SUFFICES ASSUME HandlersInv, AllInOrder, [Next]_vars
             PROVE  AllInOrder' /\ [Server!Next]_(Server!serverVars)
  OBVIOUS
<1>1. CASE UNCHANGED vars
  <2>1. AllInOrder'
    BY <1>1
    DEF vars, callVars, goVars, AllInOrder, InOrder, StreamsNow, AsksAuth, IsMessage,
        Accepted, Refusal, NoPath, Malformed
  <2>2. /\ \A r \in Req : AnswerStays(r) /\ OpenStays(r) /\ ToldStays(r)
        /\ MethodsStay
    BY <1>1
    DEF vars, callVars, goVars, AnswerStays, AnswerOf, OpenStays, StreamOpen,
        AsksAuth, IsMessage, ToldStays, ToldTo, MethodsStay, MethodOf
  <2> QED
    BY <2>1, <2>2, ServerStutters
<1>2. ASSUME NEW r \in Req, Step(r)
      PROVE  AllInOrder' /\ [Server!Next]_(Server!serverVars)
  <2>1. InOrder(r)' /\ [Server!Next]_(Server!serverVars)
    BY <1>2, HeadTells, RestTells, StreamTells DEF Step
  <2>2. \A q \in Req \ {r} : InOrder(q)'
    BY <1>2, OthersInOrder DEF AllInOrder
  <2> QED
    BY <2>1, <2>2 DEF AllInOrder
<1> QED
  BY <1>1, <1>2, NextIsStep

\* Every family of handlers is the CallServer that a session serves its
\* callers with: one answer each, then the events of a stream, in order.
THEOREM HandlersTellCallers == Spec => CallersAreTold
<1>1. Init => AllInOrder
  <2> SUFFICES ASSUME Init PROVE AllInOrder
    OBVIOUS
  <2>1. \A r \in Req : /\ pc[r] = "idle" /\ gpc[r] = "none"
                      /\ resp[r].code = Pending /\ sent[r] = <<>>
    BY DEF Init, Reply
  <2>2. Len(<<>>) = 0 /\ EventsPast["none"] = 0
    BY DEF EventsPast
  <2> QED
    BY <2>1, <2>2 DEF AllInOrder, InOrder
<1>2. Init => Server!Init
  <2> SUFFICES ASSUME Init PROVE Server!Init
    OBVIOUS
  <2>1. \A r \in Req : /\ AnswerOf(r) = "none" /\ ~StreamOpen(r) /\ ToldTo(r) = <<>>
                       /\ MethodOf(r) \in {"rpc", "send", "stream", "resub"}
    <3>1. \A r \in Req : req[r] \in Request
      BY RequestsServed DEF Init
    <3>2. \A r \in Req : gpc[r] = "none" /\ resp[r].code = Pending /\ sent[r] = <<>>
      BY DEF Init, Reply
    <3>3. [i \in 1..Len(<<>>) |-> Kind(<<>>[i])] = <<>>
      OBVIOUS
    <3>4. \A r \in Req : ToldTo(r) = <<>>
      BY <3>2, <3>3 DEF ToldTo
    <3>5. \A r \in Req : MethodOf(r) \in {"rpc", "send", "stream", "resub"}
      BY <3>1 DEF MethodOf, Request, Op
    <3> QED
      BY <3>2, <3>4, <3>5 DEF AnswerOf, StreamOpen
  <2>2. /\ [r \in Req |-> AnswerOf(r)] = [r \in Req |-> "none"]
        /\ [r \in Req |-> ToldTo(r)] = [r \in Req |-> <<>>]
        /\ [r \in Req |-> MethodOf(r)] \in [Req -> {"rpc", "send", "stream", "resub"}]
    BY <2>1
  <2>3. [r \in Req |-> StreamOpen(r)] = [r \in Req |-> FALSE]
    BY <2>1 DEF StreamOpen
  <2> QED
    BY <2>2, <2>3, StreamingBool DEF Server!Init
<1>3. HandlersInv /\ AllInOrder /\ [Next]_vars
        => AllInOrder' /\ [Server!Next]_(Server!serverVars)
  BY ServerStep
<1> QED
  BY <1>1, <1>2, <1>3, HandlersInvariant, PTL DEF Spec, CallersAreTold, Server!Spec
=============================================================================
