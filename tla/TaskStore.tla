----------------------------- MODULE TaskStore -----------------------------
(***************************************************************************)
(* The in-memory task store of the server, src/server/tasks.go: the map    *)
(* from task ids to tasks, the counter that mints ids, and the state       *)
(* history that newTask and put maintain under the store's mutex.          *)
(*                                                                         *)
(* The map holds pointers.  An Object is a *schema.Task; the mutex guards  *)
(* the map, not the objects it points to, so whoever holds a pointer may   *)
(* write to the object at any time.  What the store promises depends on    *)
(* what its callers do with their pointers, which is the constant InPlace: *)
(* TRUE when a stored task may be written through its pointer (every       *)
(* caller in the repository), FALSE when a caller copies the task, changes *)
(* the copy and puts it back (the discipline put is written for).          *)
(***************************************************************************)
EXTENDS Naturals, Sequences

CONSTANTS
  MaxTasks,     \* bound: how often newTask is called
  AppObjects,   \* tasks the application allocates itself
  AppIds,       \* ids the application gives to its own tasks
  States,       \* states that callers of the store write
  InPlace       \* may a stored task be written through its pointer?

Nil == 0
\* Faulty: the last digit is dropped.
formatIDDropsDigit(n) == <<"t", n \div 10>>
formatID(n) == <<"t", n>>
NoId == <<>>

\* The n-th call of newTask allocates object n.
Issued == 1..MaxTasks
Object == Issued \cup AppObjects
Id == { formatID(n) : n \in Issued } \cup AppIds

TaskState == {"pending", "running", "completed", "failed", "canceled",
              "blocked", "auth-required"}

isTerminal(state) == state \in {"completed", "failed", "canceled"}

(***************************************************************************)
(* Task ids of the store and of the application are different in this      *)
(* module: the store never checks that an id it mints is free, it relies   *)
(* on nobody else using the "t-" prefix.  A copy of a stored task keeps    *)
(* its id, so a copy's id may be any id.                                   *)
(***************************************************************************)
ASSUME MaxTasksNat == MaxTasks \in Nat
ASSUME StatesAreTaskStates == States \subseteq TaskState
ASSUME InPlaceBool == InPlace \in BOOLEAN
ASSUME AppObjectsFresh == AppObjects \cap 0..MaxTasks = {}
ASSUME AppIdsDisjoint == /\ NoId \notin AppIds
                         /\ \A n \in Issued : formatID(n) \notin AppIds

VARIABLES
  seq,    \* taskStore.seq
  items,  \* taskStore.items: Id -> Object, Nil when the key is absent
  heap,   \* the tasks themselves: their ID and Status.State fields
  hist    \* taskStore.hist: Id -> states, empty when the key is absent

storeVars == <<seq, items, heap, hist>>

\* The fields of schema.Task that the store reads.
TaskRecord == [id : Id \cup {NoId}, state : TaskState \cup {""}]

\* Task{}: what an object holds before it is built.
Blank == [id |-> NoId, state |-> ""]

StoreTypeOK ==
  /\ seq \in 0..MaxTasks
  /\ items \in [Id -> Object \cup {Nil}]
  /\ heap \in [Object -> TaskRecord]
  /\ hist \in [Id -> Seq(TaskState)]

\* newTaskStore
StoreInit ==
  /\ seq = 0
  /\ items = [id \in Id |-> Nil]
  /\ heap = [o \in Object |-> Blank]
  /\ hist = [id \in Id |-> <<>>]

Known(id) == id \in Id /\ items[id] # Nil

\* Is the map's entry for the object's id this very object?
Stored(o) == heap[o].id \in Id /\ items[heap[o].id] = o

\* Faulty: the task is built before the counter moves on.
newTaskStaleID(o) ==
  /\ seq < MaxTasks
  /\ o = seq + 1
  /\ seq' = seq + 1
  /\ heap' = [heap EXCEPT ![o] = [id |-> formatID(seq), state |-> "running"]]
  /\ items' = [items EXCEPT ![formatID(seq + 1)] = o]
  /\ hist' = [hist EXCEPT ![formatID(seq + 1)] = Append(@, "running")]

\* Faulty: the history is opened before the state is set.
newTaskBlankHistory(o) ==
  LET id == formatID(seq + 1)
  IN  /\ seq < MaxTasks
      /\ o = seq + 1
      /\ seq' = seq + 1
      /\ heap' = [heap EXCEPT ![o] = [id |-> id, state |-> "running"]]
      /\ items' = [items EXCEPT ![id] = o]
      /\ hist' = [hist EXCEPT ![id] = Append(@, "")]

(***************************************************************************)
(* newTask: mint an id, store a running task under it, open its history.   *)
(***************************************************************************)
newTask(o) ==
  LET id == formatID(seq + 1)
  IN  /\ seq < MaxTasks
      /\ o = seq + 1
      /\ seq' = seq + 1
      /\ heap' = [heap EXCEPT ![o] = [id |-> id, state |-> "running"]]
      /\ items' = [items EXCEPT ![id] = o]
      /\ hist' = [hist EXCEPT ![id] = Append(@, "running")]

\* Faulty: only the first write is recorded.
RecordedFirstOnly(o) ==
  LET id == heap[o].id
  IN  IF items[id] # Nil THEN hist[id] ELSE Append(hist[id], heap[o].state)

\* Faulty: recorded at every write.
RecordedAlways(o) == Append(hist[heap[o].id], heap[o].state)

\* Faulty: a new history in place of an append.
RecordedAnew(o) ==
  LET id == heap[o].id
  IN  IF items[id] # Nil /\ heap[items[id]].state = heap[o].state
      THEN hist[id]
      ELSE <<heap[o].state>>

\* The history put leaves behind: a transition is recorded when the stored
\* entry and the task that replaces it differ in state, or at first write.
Recorded(o) ==
  LET id == heap[o].id
  IN  IF items[id] # Nil /\ heap[items[id]].state = heap[o].state
      THEN hist[id]
      ELSE Append(hist[id], heap[o].state)

(***************************************************************************)
(* put: record the transition, then make the task the entry for its id.    *)
(***************************************************************************)
put(o) ==
  /\ heap[o].id \in Id
  /\ hist' = [hist EXCEPT ![heap[o].id] = Recorded(o)]
  /\ items' = [items EXCEPT ![heap[o].id] = o]
  /\ UNCHANGED <<seq, heap>>

\* A holder of the pointer assigns Status.State.
SetState(o, s) ==
  /\ heap[o].id \in Id
  /\ InPlace \/ ~Stored(o)
  /\ heap' = [heap EXCEPT ![o].state = s]
  /\ UNCHANGED <<seq, items, hist>>

\* The application builds a task of its own, or copies a stored one: an
\* object the store does not point to.  CompleteText takes any task.
Build(o, id, s) ==
  /\ ~Stored(o)
  /\ id \in AppIds \/ Known(id)
  /\ heap' = [heap EXCEPT ![o] = [id |-> id, state |-> s]]
  /\ UNCHANGED <<seq, items, hist>>

StoreNext ==
  \/ \E o \in Object : newTask(o)
  \/ \E o \in Object : put(o)
  \/ \E o \in Object, s \in States : SetState(o, s)
  \/ \E o \in AppObjects, id \in Id, s \in States : Build(o, id, s)

StoreSpec == StoreInit /\ [][StoreNext]_storeVars

-----------------------------------------------------------------------------
(***************************************************************************)
(* What the store is for.                                                  *)
(***************************************************************************)

\* Every key of the map leads to a task that bears that key as its ID, so a
\* task a client looks up is the task it asked for (tasks.go:48-53).
KeyMatches == \A id \in Id : Known(id) => heap[items[id]].id = id

\* No issued task is lost: every id the counter has minted stays bound, and
\* two calls of newTask never share an id (tasks.go:32-42, 73-98).
IssuedStayBound ==
  /\ \A n \in 1..seq : Known(formatID(n))
  /\ \A m, n \in 1..seq : m # n => items[formatID(m)] # items[formatID(n)]

\* The last entry of a task's history is the task's state: tasks.go:17 calls
\* hist the "state transition history per task", and put compares the entry
\* it replaces with the new one to keep it so (tasks.go:58-69).
HistoryCurrent ==
  \A id \in Id : Known(id) =>
    /\ hist[id] # <<>>
    /\ hist[id][Len(hist[id])] = heap[items[id]].state

\* A history holds transitions: no two entries in a row are the same state
\* (the comparison at tasks.go:59), and a task's history is never cut short.
HistoryOfTransitions ==
  \A id \in Id : \A i \in 1..(Len(hist[id]) - 1) : hist[id][i] # hist[id][i + 1]

\* What a step may never do to the past: shorten or rewrite a history, or
\* take an id out of the map (tasks.go has no delete).
PastIsKept ==
  [][ \A id \in Id :
        /\ Known(id) => Known(id)'
        /\ Len(hist[id]) <= Len(hist'[id])
        /\ \A i \in 1..Len(hist[id]) : hist'[id][i] = hist[id][i] ]_storeVars
=============================================================================
