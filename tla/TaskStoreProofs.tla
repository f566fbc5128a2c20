-------------------------- MODULE TaskStoreProofs --------------------------
(***************************************************************************)
(* Theorems about TaskStore, for every number of tasks and every set of    *)
(* ids and objects of the application.                                     *)
(***************************************************************************)
EXTENDS TaskStore, SequenceTheorems, TLAPS

USE MaxTasksNat, AppObjectsFresh, AppIdsDisjoint

\* Ids, their making, and the values that are none.
LEMMA IdFacts ==
  /\ NoId \notin Id
  /\ Nil \notin Object
  /\ \A n \in Issued : formatID(n) \in Id /\ n \in Object
  /\ \A m, n \in Nat : formatID(m) = formatID(n) => m = n
<1>1. NoId \notin Id
  BY DEF NoId, Id, formatID
<1>2. Nil \notin Object
  BY DEF Nil, Object, Issued
<1> QED
  BY <1>1, <1>2 DEF Id, Object, Issued, formatID

LEMMA BlankFacts == Blank.id = NoId /\ Blank.state = ""
BY DEF Blank

\* A history after an append: its type, its length and its entries.
LEMMA AppendFacts ==
  ASSUME NEW h \in Seq(TaskState), NEW s \in TaskState
  PROVE  /\ Append(h, s) \in Seq(TaskState)
         /\ Append(h, s) # <<>>
         /\ Len(h) \in Nat
         /\ Len(Append(h, s)) = Len(h) + 1
         /\ Append(h, s)[Len(Append(h, s))] = s
         /\ \A i \in 1..Len(h) : Append(h, s)[i] = h[i]
BY AppendProperties

-----------------------------------------------------------------------------
(***************************************************************************)
(* The inductive invariant: the types, the binding of ids to objects, that *)
(* an object with an id has a state, and that an object newTask has not    *)
(* reached yet is blank.                                                   *)
(***************************************************************************)
Built == \A o \in Object : heap[o].id \in Id => heap[o].state \in TaskState
Unissued == \A n \in Issued : n > seq => heap[n] = Blank

StoreInv ==
  /\ StoreTypeOK
  /\ Built
  /\ Unissued
  /\ KeyMatches
  /\ \A n \in 1..seq : Known(formatID(n))

LEMMA StoreInitInv == StoreInit => StoreInv
<1> SUFFICES ASSUME StoreInit PROVE StoreInv
  OBVIOUS
<1>1. StoreTypeOK
  <2>1. Blank \in TaskRecord
    BY DEF Blank, TaskRecord
  <2> QED
    BY <2>1, EmptySeq DEF StoreInit, StoreTypeOK
<1>2. Unissued
  BY DEF StoreInit, Unissued, Blank, Object
<1>3. KeyMatches
  BY DEF StoreInit, KeyMatches, Known
<1>4. \A n \in 1..seq : Known(formatID(n))
  BY DEF StoreInit
<1>5. Built
  BY IdFacts DEF StoreInit, Built, Blank
<1> QED
  BY <1>1, <1>2, <1>3, <1>4, <1>5 DEF StoreInv

\* What the next object is before newTask reaches it: nobody's.
LEMMA NextObjectIsFree ==
  ASSUME StoreInv, seq < MaxTasks
  PROVE  /\ seq + 1 \in Issued
         /\ seq + 1 \in Object
         /\ formatID(seq + 1) \in Id
         /\ heap[seq + 1] = Blank
         /\ \A id \in Id : Known(id) => items[id] # seq + 1
<1>1. seq + 1 \in Issued /\ seq + 1 > seq
  BY DEF StoreInv, StoreTypeOK, Issued
<1>2. heap[seq + 1] = Blank
  BY <1>1 DEF StoreInv, Unissued
<1> QED
  BY <1>1, <1>2, IdFacts, BlankFacts DEF StoreInv, KeyMatches

LEMMA NewTaskInv ==
  ASSUME StoreInv, NEW o \in Object, newTask(o)
  PROVE  StoreInv'
<1> DEFINE id == formatID(seq + 1)
<1>0. /\ seq \in Nat /\ seq < MaxTasks
      /\ id \in Id /\ o = seq + 1 /\ o \in Issued
      /\ \A i \in Id : Known(i) => items[i] # o
  BY NextObjectIsFree DEF newTask, StoreInv, StoreTypeOK
<1>1. /\ seq' = seq + 1
      /\ heap' = [heap EXCEPT ![o] = [id |-> id, state |-> "running"]]
      /\ items' = [items EXCEPT ![id] = o]
      /\ hist' = [hist EXCEPT ![id] = Append(@, "running")]
  BY DEF newTask
<1>2. StoreTypeOK'
  <2>1. hist[id] \in Seq(TaskState) /\ "running" \in TaskState
    BY <1>0 DEF StoreInv, StoreTypeOK, TaskState
  <2>2. Append(hist[id], "running") \in Seq(TaskState)
    BY <2>1, AppendFacts
  <2>3. hist' \in [Id -> Seq(TaskState)]
    BY <1>0, <1>1, <2>2 DEF StoreInv, StoreTypeOK
  <2>4. heap' \in [Object -> TaskRecord]
    <3>1. [id |-> id, state |-> "running"] \in TaskRecord
      BY <1>0, <2>1 DEF TaskRecord
    <3> QED
      BY <1>0, <1>1, <3>1 DEF StoreInv, StoreTypeOK
  <2> QED
    BY <1>0, <1>1, <2>3, <2>4 DEF StoreInv, StoreTypeOK
<1>3. Unissued'
  BY <1>0, <1>1 DEF StoreInv, StoreTypeOK, Unissued, Object, Issued
<1>4. KeyMatches'
  BY <1>0, <1>1, IdFacts DEF StoreInv, StoreTypeOK, KeyMatches, Known
<1>5. (\A n \in 1..seq : Known(formatID(n)))'
  BY <1>0, <1>1, IdFacts DEF StoreInv, StoreTypeOK, Known, Issued
<1>6. Built'
  BY <1>0, <1>1 DEF StoreInv, StoreTypeOK, Built, TaskState
<1> QED
  BY <1>2, <1>3, <1>4, <1>5, <1>6 DEF StoreInv

\* The history that put leaves behind is a history, and its last entry is
\* the state of the task that was put.
LEMMA RecordedType ==
  ASSUME StoreInv, NEW o \in Object, heap[o].id \in Id
  PROVE  /\ heap[o].state \in TaskState
         /\ Recorded(o) \in Seq(TaskState)
<1>1. heap[o].state \in TaskState /\ hist[heap[o].id] \in Seq(TaskState)
  BY DEF StoreInv, StoreTypeOK, Built
<1> QED
  BY <1>1, AppendFacts DEF Recorded

LEMMA PutInv ==
  ASSUME StoreInv, NEW o \in Object, put(o)
  PROVE  StoreInv'
<1> DEFINE id == heap[o].id
<1>1. /\ id \in Id
      /\ hist' = [hist EXCEPT ![id] = Recorded(o)]
      /\ items' = [items EXCEPT ![id] = o]
      /\ seq' = seq /\ heap' = heap
  BY DEF put
<1>2. Recorded(o) \in Seq(TaskState)
  BY <1>1, RecordedType
<1>3. StoreTypeOK'
  BY <1>1, <1>2 DEF StoreInv, StoreTypeOK
<1>4. Unissued' /\ Built'
  BY <1>1 DEF StoreInv, Unissued, Built
<1>5. KeyMatches'
  BY <1>1 DEF StoreInv, StoreTypeOK, KeyMatches, Known
<1>6. (\A n \in 1..seq : Known(formatID(n)))'
  BY <1>1, IdFacts DEF StoreInv, StoreTypeOK, Known
<1> QED
  BY <1>3, <1>4, <1>5, <1>6 DEF StoreInv

LEMMA SetStateInv ==
  ASSUME StoreInv, NEW o \in Object, NEW s \in TaskState, SetState(o, s)
  PROVE  StoreInv'
<1>1. /\ heap[o].id \in Id
      /\ heap' = [heap EXCEPT ![o].state = s]
      /\ seq' = seq /\ items' = items /\ hist' = hist
  BY DEF SetState
<1>2. /\ heap' \in [Object -> TaskRecord]
      /\ \A p \in Object : heap'[p].id = heap[p].id
      /\ \A p \in Object : heap'[p].state = IF p = o THEN s ELSE heap[p].state
  BY <1>1 DEF StoreInv, StoreTypeOK, TaskRecord
<1>3. StoreTypeOK'
  BY <1>1, <1>2 DEF StoreInv, StoreTypeOK
<1>4. Unissued' /\ Built'
  <2>1. \A n \in Issued : n > seq => n # o
    BY <1>1, IdFacts, BlankFacts DEF StoreInv, Unissued
  <2> QED
    BY <1>1, <1>2, <2>1 DEF StoreInv, StoreTypeOK, Unissued, Built, Object
<1>5. KeyMatches'
  BY <1>1, <1>2 DEF StoreInv, StoreTypeOK, KeyMatches, Known
<1>6. (\A n \in 1..seq : Known(formatID(n)))'
  BY <1>1 DEF StoreInv, Known
<1> QED
  BY <1>3, <1>4, <1>5, <1>6 DEF StoreInv

LEMMA BuildInv ==
  ASSUME StoreInv, NEW o \in AppObjects, NEW id \in Id, NEW s \in TaskState,
         Build(o, id, s)
  PROVE  StoreInv'
<1>0. /\ o \in Object /\ o \notin Issued
      /\ \A i \in Id : Known(i) => items[i] # o
  BY DEF Object, Issued, Build, Stored, StoreInv, KeyMatches
<1>1. /\ heap' = [heap EXCEPT ![o] = [id |-> id, state |-> s]]
      /\ seq' = seq /\ items' = items /\ hist' = hist
  BY DEF Build
<1>2. [id |-> id, state |-> s] \in TaskRecord
  BY DEF TaskRecord
<1>3. StoreTypeOK'
  BY <1>0, <1>1, <1>2 DEF StoreInv, StoreTypeOK
<1>4. Unissued' /\ Built'
  BY <1>0, <1>1 DEF StoreInv, StoreTypeOK, Unissued, Built, Object
<1>5. KeyMatches'
  BY <1>0, <1>1 DEF StoreInv, StoreTypeOK, KeyMatches, Known
<1>6. (\A n \in 1..seq : Known(formatID(n)))'
  BY <1>1 DEF StoreInv, Known
<1> QED
  BY <1>3, <1>4, <1>5, <1>6 DEF StoreInv

LEMMA StoreNextInv == StoreInv /\ [StoreNext]_storeVars => StoreInv'
<1> SUFFICES ASSUME StoreInv, [StoreNext]_storeVars PROVE StoreInv'
  OBVIOUS
<1>1. ASSUME NEW o \in Object, newTask(o) PROVE StoreInv'
  BY <1>1, NewTaskInv
<1>2. ASSUME NEW o \in Object, put(o) PROVE StoreInv'
  BY <1>2, PutInv
<1>3. ASSUME NEW o \in Object, NEW s \in States, SetState(o, s) PROVE StoreInv'
  BY <1>3, SetStateInv, StatesAreTaskStates
<1>4. ASSUME NEW o \in AppObjects, NEW id \in Id, NEW s \in States, Build(o, id, s)
      PROVE  StoreInv'
  BY <1>4, BuildInv, StatesAreTaskStates
<1>5. CASE UNCHANGED storeVars
  BY <1>5 DEF storeVars, StoreInv, StoreTypeOK, Built, Unissued, KeyMatches, Known
<1> QED
  BY <1>1, <1>2, <1>3, <1>4, <1>5 DEF StoreNext

LEMMA StoreInvariant == StoreSpec => []StoreInv
BY StoreInitInv, StoreNextInv, PTL DEF StoreSpec

\* The store's variables keep their types, whoever writes to the tasks.
THEOREM StoreTypeCorrect == StoreSpec => []StoreTypeOK
<1>1. StoreInv => StoreTypeOK
  BY DEF StoreInv
<1> QED
  BY <1>1, StoreInvariant, PTL

\* A lookup finds the task that bears the id, in place or with copies.
THEOREM StoreKeysMatch == StoreSpec => []KeyMatches
<1>1. StoreInv => KeyMatches
  BY DEF StoreInv
<1> QED
  BY <1>1, StoreInvariant, PTL

\* No issued task is lost and no two share an id: ids are distinct because
\* formatID is injective, entries because their IDs are.
THEOREM StoreKeepsIssued == StoreSpec => []IssuedStayBound
<1>1. StoreInv => IssuedStayBound
  <2> SUFFICES ASSUME StoreInv PROVE IssuedStayBound
    OBVIOUS
  <2>1. \A n \in 1..seq : n \in Nat /\ Known(formatID(n))
    BY DEF StoreInv
  <2>2. \A n \in 1..seq : heap[items[formatID(n)]].id = formatID(n)
    BY <2>1 DEF StoreInv, KeyMatches, Known
  <2> QED
    BY <2>1, <2>2, IdFacts DEF IssuedStayBound
<1> QED
  BY <1>1, StoreInvariant, PTL

\* One history after another: the first is a prefix of the second.
Extends(h, g) == Len(h) <= Len(g) /\ \A i \in 1..Len(h) : g[i] = h[i]

LEMMA ExtendsFacts ==
  ASSUME NEW h \in Seq(TaskState)
  PROVE  Extends(h, h) /\ \A s \in TaskState : Extends(h, Append(h, s))
BY AppendFacts DEF Extends

\* No step shortens or rewrites a history, or takes a task out of the map.
THEOREM StorePastIsKept == StoreSpec => PastIsKept
<1> DEFINE Kept == \A id \in Id : (Known(id) => Known(id)') /\ Extends(hist[id], hist'[id])
<1>1. ASSUME StoreInv, NEW o \in Object, newTask(o) PROVE Kept
  <2>1. formatID(seq + 1) \in Id /\ "running" \in TaskState
    BY <1>1, NextObjectIsFree DEF newTask, TaskState
  <2> QED
    BY <1>1, <2>1, IdFacts, ExtendsFacts DEF newTask, StoreInv, StoreTypeOK, Known
<1>2. ASSUME StoreInv, NEW o \in Object, put(o) PROVE Kept
  <2>1. heap[o].id \in Id /\ heap[o].state \in TaskState
    BY <1>2, RecordedType DEF put
  <2>2. Extends(hist[heap[o].id], Recorded(o))
    BY <1>2, <2>1, ExtendsFacts DEF Recorded, StoreInv, StoreTypeOK
  <2> QED
    BY <1>2, <2>1, <2>2, IdFacts, ExtendsFacts DEF put, StoreInv, StoreTypeOK, Known
<1>3. ASSUME StoreInv, items' = items, hist' = hist PROVE Kept
  BY <1>3, ExtendsFacts DEF StoreInv, StoreTypeOK, Known
<1>4. StoreInv /\ [StoreNext]_storeVars => Kept
  BY <1>1, <1>2, <1>3 DEF StoreNext, SetState, Build, storeVars
<1>5. Kept => \A id \in Id :
                /\ Known(id) => Known(id)'
                /\ Len(hist[id]) <= Len(hist'[id])
                /\ \A i \in 1..Len(hist[id]) : hist'[id][i] = hist[id][i]
  BY DEF Extends
<1> QED
  BY <1>4, <1>5, StoreInvariant, PTL DEF StoreSpec, PastIsKept

-----------------------------------------------------------------------------
(***************************************************************************)
(* Histories, for callers that put copies.  A stored task is not written,  *)
(* so the entry put compares with is the state recorded last.              *)
(***************************************************************************)
Distinct(h) == \A i \in 1..(Len(h) - 1) : h[i] # h[i + 1]

\* No task bears an id that newTask has not minted yet.
Unminted == \A o \in Object, n \in Issued : n > seq => heap[o].id # formatID(n)

\* An id that is not in the map has no history.
NoEarlyHistory == \A id \in Id : ~Known(id) => hist[id] = <<>>

HistoryInv ==
  /\ StoreInv
  /\ Unminted
  /\ NoEarlyHistory
  /\ HistoryCurrent
  /\ \A id \in Id : Distinct(hist[id])

LEMMA HistoryInitInv == StoreInit => HistoryInv
<1> SUFFICES ASSUME StoreInit PROVE HistoryInv
  OBVIOUS
<1>1. \A id \in Id : hist[id] = <<>> /\ ~Known(id)
  BY DEF StoreInit, Known
<1>2. Distinct(<<>>)
  BY DEF Distinct
<1>3. Unminted
  BY IdFacts DEF StoreInit, Unminted, Blank
<1> QED
  BY <1>1, <1>2, <1>3, StoreInitInv DEF HistoryInv, NoEarlyHistory, HistoryCurrent

\* Appending what differs from the last entry keeps the entries distinct.
LEMMA AppendDistinct ==
  ASSUME NEW h \in Seq(TaskState), NEW s \in TaskState, Distinct(h),
         h = <<>> \/ h[Len(h)] # s
  PROVE  Distinct(Append(h, s))
<1>1. /\ Len(h) \in Nat
      /\ Len(Append(h, s)) = Len(h) + 1
      /\ Append(h, s)[Len(h) + 1] = s
      /\ \A i \in 1..Len(h) : Append(h, s)[i] = h[i]
  BY AppendFacts
<1>2. h = <<>> => Len(h) = 0
  BY EmptySeq
<1> SUFFICES ASSUME NEW i \in 1..Len(h)
             PROVE  Append(h, s)[i] # Append(h, s)[i + 1]
  BY <1>1 DEF Distinct
<1>3. CASE i = Len(h)
  BY <1>1, <1>2, <1>3
<1>4. CASE i < Len(h)
  <2>1. i + 1 \in 1..Len(h) /\ i \in 1..(Len(h) - 1)
    BY <1>1, <1>4
  <2> QED
    BY <1>1, <2>1 DEF Distinct
<1> QED
  BY <1>1, <1>3, <1>4

LEMMA NewTaskHistory ==
  ASSUME HistoryInv, NEW o \in Object, newTask(o)
  PROVE  HistoryInv'
<1> DEFINE id == formatID(seq + 1)
<1>0. /\ seq \in Nat /\ seq + 1 \in Issued /\ seq + 1 > seq
      /\ id \in Id /\ o = seq + 1
      /\ \A i \in Id : Known(i) => items[i] # o
  BY NextObjectIsFree DEF newTask, HistoryInv, StoreInv, StoreTypeOK
<1>1. /\ seq' = seq + 1
      /\ heap' = [heap EXCEPT ![o] = [id |-> id, state |-> "running"]]
      /\ items' = [items EXCEPT ![id] = o]
      /\ hist' = [hist EXCEPT ![id] = Append(@, "running")]
  BY DEF newTask
<1>2. StoreInv' /\ StoreInv
  BY NewTaskInv DEF HistoryInv
<1>3. hist[id] = <<>> /\ <<>> \in Seq(TaskState) /\ "running" \in TaskState
  <2>1. ~Known(id)
    BY <1>0, <1>2 DEF HistoryInv, StoreInv, StoreTypeOK, KeyMatches, Known, Unminted
  <2> QED
    BY <1>0, <2>1, EmptySeq DEF HistoryInv, NoEarlyHistory, TaskState
<1>4. Unminted'
  <2> SUFFICES ASSUME NEW p \in Object, NEW n \in Issued, n > seq + 1
               PROVE  heap'[p].id # formatID(n)
    BY <1>1 DEF Unminted
  <2>1. n \in Nat /\ n > seq
    BY <1>0 DEF Issued
  <2>2. CASE p = o
    <3>1. heap'[p].id = id
      BY <1>0, <1>1, <1>2, <2>2 DEF StoreInv, StoreTypeOK
    <3> QED
      BY <1>0, <2>1, <3>1, IdFacts
  <2>3. CASE p # o
    <3>1. heap'[p] = heap[p]
      BY <1>0, <1>1, <1>2, <2>3 DEF StoreInv, StoreTypeOK
    <3> QED
      BY <2>1, <3>1 DEF HistoryInv, Unminted
  <2> QED
    BY <2>2, <2>3
<1>5. /\ hist'[id] = Append(<<>>, "running") /\ items'[id] = o
      /\ heap'[o].state = "running"
      /\ \A i \in Id \ {id} : hist'[i] = hist[i] /\ items'[i] = items[i]
      /\ \A p \in Object \ {o} : heap'[p] = heap[p]
  BY <1>0, <1>1, <1>2, <1>3 DEF StoreInv, StoreTypeOK, Object
<1>6. NoEarlyHistory'
  BY <1>0, <1>5, IdFacts DEF HistoryInv, NoEarlyHistory, Known, Object
<1>7. HistoryCurrent'
  <2> SUFFICES ASSUME NEW i \in Id, Known(i)'
               PROVE  /\ hist'[i] # <<>>
                      /\ hist'[i][Len(hist'[i])] = heap'[items'[i]].state
    BY DEF HistoryCurrent
  <2>1. CASE i = id
    BY <1>3, <1>5, <2>1, AppendFacts
  <2>2. CASE i # id
    <3>1. Known(i) /\ items[i] \in Object \ {o}
      BY <1>0, <1>2, <1>5, <2>2 DEF Known, StoreInv, StoreTypeOK
    <3> QED
      BY <1>5, <2>2, <3>1 DEF HistoryInv, HistoryCurrent
  <2> QED
    BY <2>1, <2>2
<1>8. (\A i \in Id : Distinct(hist[i]))'
  <2>1. Distinct(Append(<<>>, "running"))
    BY <1>0, <1>3, AppendDistinct DEF HistoryInv
  <2> QED
    BY <1>5, <2>1 DEF HistoryInv, Distinct
<1> QED
  BY <1>2, <1>4, <1>6, <1>7, <1>8 DEF HistoryInv

LEMMA PutHistory ==
  ASSUME HistoryInv, NEW o \in Object, put(o)
  PROVE  HistoryInv'
<1> DEFINE id == heap[o].id
<1>1. /\ id \in Id
      /\ hist' = [hist EXCEPT ![id] = Recorded(o)]
      /\ items' = [items EXCEPT ![id] = o]
      /\ seq' = seq /\ heap' = heap
  BY DEF put
<1>2. StoreInv' /\ StoreInv
  BY PutInv DEF HistoryInv
<1>3. Unminted'
  BY <1>1 DEF HistoryInv, Unminted
<1>4. /\ hist'[id] = Recorded(o) /\ items'[id] = o
      /\ \A i \in Id \ {id} : hist'[i] = hist[i] /\ items'[i] = items[i]
  BY <1>1, <1>2 DEF StoreInv, StoreTypeOK
<1>5. heap[o].state \in TaskState /\ hist[id] \in Seq(TaskState)
  BY <1>1, <1>2, RecordedType DEF StoreInv, StoreTypeOK
<1>6. /\ Recorded(o) # <<>>
      /\ Recorded(o)[Len(Recorded(o))] = heap[o].state
      /\ Distinct(Recorded(o))
  <2>1. CASE items[id] # Nil /\ heap[items[id]].state = heap[o].state
    BY <1>1, <2>1 DEF Recorded, HistoryInv, HistoryCurrent, Known
  <2>2. CASE ~(items[id] # Nil /\ heap[items[id]].state = heap[o].state)
    <3>1. hist[id] = <<>> \/ hist[id][Len(hist[id])] # heap[o].state
      BY <1>1, <2>2 DEF HistoryInv, HistoryCurrent, NoEarlyHistory, Known
    <3>2. Distinct(hist[id])
      BY <1>1 DEF HistoryInv
    <3>3. Recorded(o) = Append(hist[id], heap[o].state)
      BY <2>2 DEF Recorded
    <3> QED
      BY <1>5, <3>1, <3>2, <3>3, AppendDistinct, AppendFacts
  <2> QED
    BY <2>1, <2>2
<1>7. NoEarlyHistory'
  BY <1>1, <1>4, IdFacts DEF HistoryInv, NoEarlyHistory, Known
<1>8. HistoryCurrent'
  BY <1>1, <1>4, <1>6 DEF HistoryInv, HistoryCurrent, Known
<1>9. (\A i \in Id : Distinct(hist[i]))'
  BY <1>4, <1>6 DEF HistoryInv, Distinct
<1> QED
  BY <1>2, <1>3, <1>7, <1>8, <1>9 DEF HistoryInv

\* What is not stored may change: histories are about what is stored.
LEMMA UnstoredHistory ==
  ASSUME HistoryInv, StoreInv', Unminted', NEW o \in Object, ~Stored(o),
         seq' = seq, items' = items, hist' = hist,
         \A p \in Object \ {o} : heap'[p] = heap[p]
  PROVE  HistoryInv'
<1>1. \A i \in Id : Known(i) => items[i] \in Object \ {o}
  BY DEF HistoryInv, StoreInv, StoreTypeOK, KeyMatches, Known, Stored
<1>2. NoEarlyHistory' /\ HistoryCurrent'
  BY <1>1 DEF HistoryInv, NoEarlyHistory, HistoryCurrent, Known
<1>3. (\A i \in Id : Distinct(hist[i]))'
  BY DEF HistoryInv, Distinct
<1> QED
  BY <1>2, <1>3 DEF HistoryInv

LEMMA SetStateHistory ==
  ASSUME HistoryInv, ~InPlace, NEW o \in Object, NEW s \in TaskState, SetState(o, s)
  PROVE  HistoryInv'
<1>1. /\ ~Stored(o)
      /\ heap' = [heap EXCEPT ![o].state = s]
      /\ seq' = seq /\ items' = items /\ hist' = hist
  BY DEF SetState
<1>2. StoreInv'
  BY SetStateInv DEF HistoryInv
<1>3. \A p \in Object : heap'[p].id = heap[p].id
  BY <1>1 DEF HistoryInv, StoreInv, StoreTypeOK, TaskRecord
<1>4. Unminted'
  BY <1>1, <1>3 DEF HistoryInv, Unminted
<1>5. \A p \in Object \ {o} : heap'[p] = heap[p]
  BY <1>1 DEF HistoryInv, StoreInv, StoreTypeOK
<1> QED
  BY <1>1, <1>2, <1>4, <1>5, UnstoredHistory

LEMMA BuildHistory ==
  ASSUME HistoryInv, NEW o \in AppObjects, NEW id \in Id, NEW s \in TaskState,
         Build(o, id, s)
  PROVE  HistoryInv'
<1>0. o \in Object
  BY DEF Object
<1>1. /\ ~Stored(o)
      /\ id \in AppIds \/ Known(id)
      /\ heap' = [heap EXCEPT ![o] = [id |-> id, state |-> s]]
      /\ seq' = seq /\ items' = items /\ hist' = hist
  BY DEF Build
<1>2. StoreInv'
  BY BuildInv DEF HistoryInv
<1>3. \A p \in Object \ {o} : heap'[p] = heap[p]
  BY <1>1 DEF HistoryInv, StoreInv, StoreTypeOK
<1>4. \A n \in Issued : n > seq => id # formatID(n)
  <2>1. CASE id \in AppIds
    BY <2>1
  <2>2. CASE Known(id)
    BY <2>2 DEF HistoryInv, StoreInv, StoreTypeOK, KeyMatches, Known, Unminted
  <2> QED
    BY <1>1, <2>1, <2>2
<1>5. Unminted'
  BY <1>0, <1>1, <1>3, <1>4 DEF HistoryInv, StoreInv, StoreTypeOK, Unminted
<1> QED
  BY <1>0, <1>1, <1>2, <1>3, <1>5, UnstoredHistory

LEMMA HistoryNextInv ==
  ASSUME ~InPlace, HistoryInv, [StoreNext]_storeVars
  PROVE  HistoryInv'
<1>1. ASSUME NEW o \in Object, newTask(o) PROVE HistoryInv'
  BY <1>1, NewTaskHistory
<1>2. ASSUME NEW o \in Object, put(o) PROVE HistoryInv'
  BY <1>2, PutHistory
<1>3. ASSUME NEW o \in Object, NEW s \in States, SetState(o, s) PROVE HistoryInv'
  BY <1>3, SetStateHistory, StatesAreTaskStates
<1>4. ASSUME NEW o \in AppObjects, NEW id \in Id, NEW s \in States, Build(o, id, s)
      PROVE  HistoryInv'
  BY <1>4, BuildHistory, StatesAreTaskStates
<1>5. CASE UNCHANGED storeVars
  <2>1. StoreInv'
    BY <1>5, StoreNextInv DEF HistoryInv
  <2> QED
    BY <1>5, <2>1 DEF storeVars, HistoryInv, Unminted, NoEarlyHistory,
                      HistoryCurrent, Known, Distinct
<1> QED
  BY <1>1, <1>2, <1>3, <1>4, <1>5 DEF StoreNext

LEMMA HistoryInvariant ==
  ASSUME ~InPlace
  PROVE  StoreSpec => []HistoryInv
<1>1. HistoryInv /\ [StoreNext]_storeVars => HistoryInv'
  BY HistoryNextInv
<1> QED
  BY <1>1, HistoryInitInv, PTL DEF StoreSpec

(***************************************************************************)
(* Histories, for callers that write in place and put no task of their     *)
(* own, which is every caller in the repository.  A task with an id is the *)
(* entry for that id, so put compares its state with itself.               *)
(***************************************************************************)
OwnEntry(o) == heap[o].id = formatID(o) /\ items[formatID(o)] = o

\* A history keeps the one entry newTask gave it.
HistoryStuck == \A id \in Id : Known(id) => hist[id] = <<"running">>

StuckInv ==
  /\ StoreInv
  /\ NoEarlyHistory
  /\ \A o \in Object : heap[o].id \in Id => OwnEntry(o)
  /\ HistoryStuck

LEMMA StuckInitInv == StoreInit => StuckInv
<1> SUFFICES ASSUME StoreInit PROVE StuckInv
  OBVIOUS
<1>1. \A id \in Id : hist[id] = <<>> /\ ~Known(id)
  BY DEF StoreInit, Known
<1>2. \A o \in Object : heap[o].id \notin Id
  BY IdFacts DEF StoreInit, Blank
<1> QED
  BY <1>1, <1>2, StoreInitInv DEF StuckInv, NoEarlyHistory, HistoryStuck

LEMMA NewTaskStuck ==
  ASSUME AppObjects = {}, StuckInv, NEW o \in Object, newTask(o)
  PROVE  StuckInv'
<1> DEFINE id == formatID(seq + 1)
<1>0. /\ seq \in Nat /\ o = seq + 1 /\ id \in Id /\ heap[o] = Blank
  BY NextObjectIsFree DEF newTask, StuckInv, StoreInv, StoreTypeOK
<1>1. /\ heap' = [heap EXCEPT ![o] = [id |-> id, state |-> "running"]]
      /\ items' = [items EXCEPT ![id] = o]
      /\ hist' = [hist EXCEPT ![id] = Append(@, "running")]
  BY DEF newTask
<1>2. StoreInv' /\ StoreInv
  BY NewTaskInv DEF StuckInv
<1>3. hist[id] = <<>>
  <2>1. SUFFICES ASSUME Known(id) PROVE FALSE
    BY <1>0 DEF StuckInv, NoEarlyHistory
  <2>2. items[id] \in Object /\ heap[items[id]].id = id
    BY <1>0, <1>2, <2>1 DEF StoreInv, StoreTypeOK, KeyMatches, Known
  <2>3. formatID(items[id]) = id /\ items[id] \in Nat
    BY <1>0, <2>2 DEF StuckInv, OwnEntry, Object, Issued
  <2>4. items[id] = o
    BY <1>0, <2>3, IdFacts
  <2> QED
    BY <1>0, <2>2, <2>4, IdFacts, BlankFacts
<1>4. /\ hist'[id] = <<"running">> /\ items'[id] = o
      /\ heap'[o].id = id
      /\ \A i \in Id \ {id} : hist'[i] = hist[i] /\ items'[i] = items[i]
      /\ \A p \in Object \ {o} : heap'[p] = heap[p]
  <2>1. Append(<<>>, "running") = <<"running">>
    OBVIOUS
  <2> QED
    BY <1>0, <1>1, <1>2, <1>3, <2>1 DEF StoreInv, StoreTypeOK
<1>5. ASSUME NEW p \in Object, heap'[p].id \in Id PROVE OwnEntry(p)'
  <2>1. CASE p = o
    BY <1>0, <1>4, <2>1 DEF OwnEntry
  <2>2. CASE p # o
    <3>1. OwnEntry(p) /\ heap'[p] = heap[p]
      BY <1>4, <1>5, <2>2 DEF StuckInv
    <3>2. formatID(p) # id
      BY <1>0, <2>2, IdFacts DEF Object, Issued
    <3> QED
      BY <1>4, <1>5, <3>1, <3>2 DEF OwnEntry
  <2> QED
    BY <2>1, <2>2
<1>6. NoEarlyHistory' /\ HistoryStuck'
  BY <1>0, <1>4, IdFacts DEF StuckInv, NoEarlyHistory, HistoryStuck, Known
<1> QED
  BY <1>2, <1>5, <1>6 DEF StuckInv

LEMMA StuckNextInv ==
  ASSUME AppObjects = {}, StuckInv, [StoreNext]_storeVars
  PROVE  StuckInv'
<1>1. ASSUME NEW o \in Object, newTask(o) PROVE StuckInv'
  BY <1>1, NewTaskStuck
<1>2. ASSUME NEW o \in Object, put(o) PROVE StuckInv'
  <2>1. /\ heap[o].id \in Id /\ items[heap[o].id] = o /\ o # Nil
    BY <1>2, IdFacts DEF put, StuckInv, OwnEntry
  <2>2. hist' = hist /\ items' = items
    BY <1>2, <2>1 DEF put, Recorded, StuckInv, StoreInv, StoreTypeOK
  <2>3. StoreInv' /\ heap' = heap
    BY <1>2, PutInv DEF put, StuckInv
  <2> QED
    BY <2>2, <2>3 DEF StuckInv, NoEarlyHistory, HistoryStuck, OwnEntry, Known
<1>3. ASSUME NEW o \in Object, NEW s \in States, SetState(o, s) PROVE StuckInv'
  <2>1. StoreInv'
    BY <1>3, SetStateInv, StatesAreTaskStates DEF StuckInv
  <2>2. \A p \in Object : heap'[p].id = heap[p].id
    BY <1>3 DEF SetState, StuckInv, StoreInv, StoreTypeOK, TaskRecord
  <2> QED
    BY <1>3, <2>1, <2>2
    DEF SetState, StuckInv, NoEarlyHistory, HistoryStuck, OwnEntry, Known
<1>4. CASE UNCHANGED storeVars
  <2>1. StoreInv'
    BY <1>4, StoreNextInv DEF StuckInv
  <2> QED
    BY <1>4, <2>1
    DEF storeVars, StuckInv, NoEarlyHistory, HistoryStuck, OwnEntry, Known
<1> QED
  BY <1>1, <1>2, <1>3, <1>4 DEF StoreNext

LEMMA StuckInvariant ==
  ASSUME AppObjects = {}
  PROVE  StoreSpec => []StuckInv
<1>1. StuckInv /\ [StoreNext]_storeVars => StuckInv'
  BY StuckNextInv
<1> QED
  BY <1>1, StuckInitInv, PTL DEF StoreSpec

\* What put's comparison (tasks.go:59) comes to.  With callers that put
\* copies a history ends with the state of its task and no entry repeats the
\* one before it; with callers that write in place, as those of the
\* repository do, it records nothing after newTask.
THEOREM StoreHistories ==
  StoreSpec => [](IF InPlace THEN AppObjects = {} => HistoryStuck
                             ELSE HistoryCurrent /\ HistoryOfTransitions)
<1>1. CASE InPlace /\ AppObjects = {}
  <2>1. StuckInv => HistoryStuck
    BY DEF StuckInv
  <2>2. StoreSpec => []HistoryStuck
    BY <1>1, <2>1, StuckInvariant, PTL
  <2>3. HistoryStuck => (IF InPlace THEN AppObjects = {} => HistoryStuck
                                    ELSE HistoryCurrent /\ HistoryOfTransitions)
    BY <1>1
  <2> QED
    BY <2>2, <2>3, PTL
<1>2. CASE InPlace /\ AppObjects # {}
  <2>1. IF InPlace THEN AppObjects = {} => HistoryStuck
                   ELSE HistoryCurrent /\ HistoryOfTransitions
    BY <1>2
  <2> QED
    BY <2>1, PTL
<1>3. CASE ~InPlace
  <2>1. StoreSpec => []HistoryInv
    BY <1>3, HistoryInvariant
  <2>2. HistoryInv => (IF InPlace THEN AppObjects = {} => HistoryStuck
                                  ELSE HistoryCurrent /\ HistoryOfTransitions)
    BY <1>3 DEF HistoryInv, HistoryOfTransitions, Distinct
  <2> QED
    BY <2>1, <2>2, PTL
<1> QED
  BY <1>1, <1>2, <1>3
=============================================================================
