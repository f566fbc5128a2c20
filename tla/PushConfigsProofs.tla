------------------------- MODULE PushConfigsProofs -------------------------
(***************************************************************************)
(* Theorems about PushConfigs, for every set of tasks, clients and ids and *)
(* any number of sets.                                                     *)
(***************************************************************************)
EXTENDS PushConfigs, SequenceTheorems, TLAPS

USE MaxSetNat, NobodyIsNoClient, NoIdIsNoId

-----------------------------------------------------------------------------
(***************************************************************************)
(* The inductive invariant.  OwedIsStored holds because an id the store is *)
(* about to generate is owed to nobody (OwedOrAhead): it is new, or some   *)
(* client chose it.  MintedBehind says the same of the ids generated.      *)
(***************************************************************************)
OwedOrAhead ==
  \A c \in owed : c.id \in ClientIds \/ \E n \in 1..pseq : c.id = pcId(n)
MintedBehind ==
  \A i \in 1..Len(minted) : \E n \in 1..pseq : minted[i] = pcId(n)

PushInv ==
  /\ PushTypeOK
  /\ OnlyForKnownTasks
  /\ StoredIsOwed
  /\ OwedIsStored
  /\ OwedOrAhead
  /\ MintedBehind
  /\ MintedOnce

\* What the configs of a task are, entry by entry.
LEMMA StoredFacts ==
  ASSUME NEW t \in TaskId
  PROVE  /\ Stored(t) \subseteq owed <=>
              \A c \in ConfigId : push[t][c] # NoOwner =>
                [task |-> t, id |-> c, owner |-> push[t][c]] \in owed
         /\ Stored(t) # {} <=> \E c \in ConfigId : push[t][c] # NoOwner
BY DEF Stored

\* Generated ids differ when their numbers do, and none is the missing id.
LEMMA IdFacts ==
  /\ \A m, n \in Nat : pcId(m) = pcId(n) => m = n
  /\ \A n \in 1..MaxSet : pcId(n) \in ConfigId
  /\ ClientIds \subseteq ConfigId
BY DEF pcId, ConfigId

LEMMA PushInitInv == Init => PushInv
<1> SUFFICES ASSUME Init PROVE PushInv
  OBVIOUS
<1>1. PushTypeOK
  BY EmptySeq DEF Init, PushTypeOK, Answer
<1>2. OnlyForKnownTasks /\ StoredIsOwed
  BY StoredFacts DEF Init, OnlyForKnownTasks, StoredIsOwed
<1>3. OwedIsStored /\ OwedOrAhead /\ MintedBehind /\ MintedOnce
  BY DEF Init, OwedIsStored, OwedOrAhead, MintedBehind, MintedOnce
<1> QED
  BY <1>1, <1>2, <1>3 DEF PushInv

\* An operation that leaves the configs alone leaves the invariant alone.
LEMMA QuietInv ==
  ASSUME PushInv, UNCHANGED <<supported, pseq, push, owed, minted>>,
         known \subseteq known', known' \subseteq TaskId, answer' \in Answer
  PROVE  PushInv'
<1>1. PushTypeOK'
  BY DEF PushInv, PushTypeOK
<1>2. OnlyForKnownTasks' /\ StoredIsOwed'
  BY DEF PushInv, OnlyForKnownTasks, StoredIsOwed, Stored
<1>3. OwedIsStored' /\ OwedOrAhead' /\ MintedBehind' /\ MintedOnce'
  BY DEF PushInv, OwedIsStored, OwedOrAhead, MintedBehind, MintedOnce
<1> QED
  BY <1>1, <1>2, <1>3 DEF PushInv

\* The id a set is given, and what it is not.
LEMMA GivenIdFacts ==
  ASSUME PushInv, pseq < MaxSet, NEW t \in TaskId, NEW id \in ClientIds \cup {NoId}
  PROVE  /\ pseq + 1 \in 1..MaxSet
         /\ GivenId(t, id) \in ConfigId
         /\ id # NoId => GivenId(t, id) = id
         /\ id = NoId => GivenId(t, id) = pcId(pseq + 1)
         /\ id = NoId => \A c \in owed : c.id # pcId(pseq + 1) \/ c.id \in Squatted
<1>1. pseq \in Nat /\ pseq + 1 \in 1..MaxSet
  BY DEF PushInv, PushTypeOK
<1>2. GivenId(t, id) \in ConfigId
  BY <1>1, IdFacts DEF GivenId
<1>3. \A n \in 1..pseq : pcId(n) # pcId(pseq + 1)
  BY <1>1, IdFacts
<1>4. \A c \in owed : c.id = pcId(pseq + 1) => c.id \in ClientIds
  BY <1>3 DEF PushInv, OwedOrAhead
<1> QED
  BY <1>1, <1>2, <1>4 DEF GivenId, Squatted

LEMMA SetInv ==
  ASSUME PushInv, NEW t \in TaskId, NEW id \in ClientIds \cup {NoId},
         NEW owner \in Client, Set(t, id, owner)
  PROVE  PushInv'
<1> DEFINE g == GivenId(t, id)
           c == [task |-> t, id |-> g, owner |-> owner]
<1>1. /\ t \in known /\ pseq < MaxSet /\ pseq' = pseq + 1
      /\ push' = [push EXCEPT ![t][g] = owner]
      /\ minted' = IF id = NoId THEN Append(minted, g) ELSE minted
      /\ supported' = supported /\ known' = known
      /\ answer' = [kind |-> "ok", configs |-> {c}]
      /\ owed' = {c} \cup { d \in owed : id = NoId \/ d.task # t \/ d.id # id }
  BY DEF Set, SetNamed, addPush
<1>2. /\ pseq \in Nat /\ pseq + 1 \in 1..MaxSet
      /\ g \in ConfigId
      /\ id # NoId => g = id
      /\ id = NoId => g = pcId(pseq + 1)
      /\ id = NoId => \A d \in owed : d.id # pcId(pseq + 1) \/ d.id \in Squatted
  BY <1>1, GivenIdFacts DEF PushInv, PushTypeOK
<1>3. /\ push \in [TaskId -> [ConfigId -> Client \cup {NoOwner}]]
      /\ owed \subseteq Config /\ minted \in Seq(ConfigId)
      /\ supported \in BOOLEAN /\ known \subseteq TaskId
  BY DEF PushInv, PushTypeOK
<1>4. \A s \in TaskId, d \in ConfigId :
        push'[s][d] = IF s = t /\ d = g THEN owner ELSE push[s][d]
  BY <1>1, <1>2, <1>3
<1>5. c \in Config
  BY <1>2 DEF Config
<1> HIDE DEF g
<1>6. PushTypeOK'
  <2>1. push' \in [TaskId -> [ConfigId -> Client \cup {NoOwner}]]
    BY <1>1, <1>2, <1>3
  <2>2. minted' \in Seq(ConfigId)
    BY <1>1, <1>2, <1>3, AppendProperties
  <2>3. answer' \in Answer /\ owed' \subseteq Config
    BY <1>1, <1>3, <1>5 DEF Answer
  <2> QED
    BY <1>1, <1>2, <1>3, <2>1, <2>2, <2>3 DEF PushTypeOK
<1>7. OnlyForKnownTasks'
  BY <1>1, <1>4, StoredFacts DEF PushInv, OnlyForKnownTasks, Stored
<1>8. StoredIsOwed'
  <2> SUFFICES ASSUME NEW s \in TaskId, NEW d \in ConfigId, push'[s][d] # NoOwner
               PROVE  [task |-> s, id |-> d, owner |-> push'[s][d]] \in owed'
    BY DEF StoredIsOwed, Stored
  <2>1. CASE s = t /\ d = g
    BY <1>1, <1>4, <2>1
  <2>2. CASE ~(s = t /\ d = g)
    <3>1. [task |-> s, id |-> d, owner |-> push[s][d]] \in owed
      BY <1>4, <2>2 DEF PushInv, StoredIsOwed, Stored
    <3> QED
      BY <1>1, <1>2, <1>4, <2>2, <3>1
  <2> QED
    BY <2>1, <2>2
<1>9. OwedIsStored'
  <2> SUFFICES ASSUME NEW d \in owed', d.id \notin Squatted
               PROVE  push'[d.task][d.id] = d.owner
    BY DEF OwedIsStored, Squatted
  <2>1. CASE d = c
    BY <1>2, <1>4, <2>1
  <2>2. CASE d # c
    <3>1. d \in owed /\ (id = NoId \/ d.task # t \/ d.id # id)
      BY <1>1, <2>2
    <3>2. push[d.task][d.id] = d.owner /\ d.task \in TaskId /\ d.id \in ConfigId
      BY <1>3, <3>1 DEF PushInv, OwedIsStored, Config
    <3>3. ~(d.task = t /\ d.id = g)
      BY <1>2, <3>1
    <3> QED
      BY <1>4, <3>2, <3>3
  <2> QED
    BY <2>1, <2>2
<1>10. OwedOrAhead'
  <2>1. \A d \in owed : d.id \in ClientIds \/ \E n \in 1..pseq' : d.id = pcId(n)
    BY <1>1, <1>2 DEF PushInv, OwedOrAhead
  <2>2. c.id \in ClientIds \/ \E n \in 1..pseq' : c.id = pcId(n)
    BY <1>1, <1>2
  <2> QED
    BY <1>1, <2>1, <2>2 DEF OwedOrAhead
<1>11. CASE id # NoId
  BY <1>1, <1>2, <1>6, <1>7, <1>8, <1>9, <1>10, <1>11
     DEF PushInv, MintedBehind, MintedOnce
<1>12. CASE id = NoId
  <2>1. /\ Len(minted) \in Nat /\ Len(minted') = Len(minted) + 1
        /\ minted'[Len(minted) + 1] = g
        /\ \A i \in 1..Len(minted) : minted'[i] = minted[i]
    BY <1>1, <1>2, <1>3, <1>12, AppendProperties
  <2>2. \A i \in 1..Len(minted) : \E n \in 1..pseq : minted[i] = pcId(n)
    BY DEF PushInv, MintedBehind
  <2>3. MintedBehind'
    <3> SUFFICES ASSUME NEW i \in 1..Len(minted')
                 PROVE  \E n \in 1..pseq' : minted'[i] = pcId(n)
      BY DEF MintedBehind
    <3>1. CASE i = Len(minted) + 1
      BY <1>1, <1>2, <1>12, <2>1, <3>1
    <3>2. CASE i \in 1..Len(minted)
      BY <1>1, <1>2, <2>1, <2>2, <3>2
    <3> QED
      BY <2>1, <3>1, <3>2
  <2>4. \A i \in 1..Len(minted) : minted[i] # g
    BY <1>2, <1>12, <2>2, IdFacts
  <2>5. \A i, k \in 1..Len(minted) : i # k => minted[i] # minted[k]
    BY DEF PushInv, MintedOnce
  <2>6. MintedOnce'
    <3> SUFFICES ASSUME NEW i \in 1..Len(minted'), NEW k \in 1..Len(minted'), i # k
                 PROVE  minted'[i] # minted'[k]
      BY DEF MintedOnce
    <3>1. \/ i \in 1..Len(minted) /\ k \in 1..Len(minted)
          \/ i \in 1..Len(minted) /\ k = Len(minted) + 1
          \/ k \in 1..Len(minted) /\ i = Len(minted) + 1
      BY <2>1
    <3> QED
      BY <2>1, <2>4, <2>5, <3>1
  <2> QED
    BY <1>6, <1>7, <1>8, <1>9, <1>10, <2>3, <2>6 DEF PushInv
<1> QED
  BY <1>11, <1>12

LEMMA DeleteInv ==
  ASSUME PushInv, NEW t \in TaskId, NEW c \in ConfigId, Delete(t, c)
  PROVE  PushInv'
<1>1. /\ push' = [push EXCEPT ![t][c] = NoOwner]
      /\ owed' = { d \in owed : d.task # t \/ d.id # c }
      /\ answer' = [kind |-> "ok", configs |-> {}]
      /\ UNCHANGED <<supported, known, pseq, minted>>
  BY DEF Delete, DeleteNamed, deletePush, Say
<1>2. /\ push \in [TaskId -> [ConfigId -> Client \cup {NoOwner}]]
      /\ owed \subseteq Config
  BY DEF PushInv, PushTypeOK
<1>3. \A s \in TaskId, d \in ConfigId :
        push'[s][d] = IF s = t /\ d = c THEN NoOwner ELSE push[s][d]
  BY <1>1, <1>2
<1>4. PushTypeOK'
  <2>1. push' \in [TaskId -> [ConfigId -> Client \cup {NoOwner}]]
    BY <1>1, <1>2
  <2>2. answer' \in Answer
    BY <1>1 DEF Answer
  <2> QED
    BY <1>1, <2>1, <2>2 DEF PushInv, PushTypeOK
<1>5. OnlyForKnownTasks'
  BY <1>1, <1>3 DEF PushInv, OnlyForKnownTasks, Stored
<1>6. StoredIsOwed'
  <2> SUFFICES ASSUME NEW s \in TaskId, NEW d \in ConfigId, push'[s][d] # NoOwner
               PROVE  [task |-> s, id |-> d, owner |-> push'[s][d]] \in owed'
    BY DEF StoredIsOwed, Stored
  <2>1. push'[s][d] = push[s][d] /\ ~(s = t /\ d = c)
    BY <1>3
  <2>2. [task |-> s, id |-> d, owner |-> push[s][d]] \in owed
    BY <2>1 DEF PushInv, StoredIsOwed, Stored
  <2> QED
    BY <1>1, <2>1, <2>2
<1>7. OwedIsStored'
  <2> SUFFICES ASSUME NEW d \in owed', d.id \notin Squatted
               PROVE  push'[d.task][d.id] = d.owner
    BY DEF OwedIsStored, Squatted
  <2>1. d \in owed /\ d.task \in TaskId /\ d.id \in ConfigId
    BY <1>1, <1>2 DEF Config
  <2> QED
    BY <1>1, <1>3, <2>1 DEF PushInv, OwedIsStored
<1>8. OwedOrAhead' /\ MintedBehind' /\ MintedOnce'
  BY <1>1 DEF PushInv, OwedOrAhead, MintedBehind, MintedOnce
<1> QED
  BY <1>4, <1>5, <1>6, <1>7, <1>8 DEF PushInv

LEMMA PushNextInv == PushInv /\ [Next]_vars => PushInv'
<1> SUFFICES ASSUME PushInv, [Next]_vars PROVE PushInv'
  OBVIOUS
<1> DEFINE Quiet == /\ UNCHANGED <<supported, pseq, push, owed, minted>>
                    /\ known \subseteq known' /\ known' \subseteq TaskId
                    /\ answer' \in Answer
<1>0. known \subseteq TaskId /\ answer \in Answer
  BY DEF PushInv, PushTypeOK
<1>1. ASSUME NEW t \in TaskId, NewTask(t) \/ ListMiss(t) \/ SetMiss(t) PROVE Quiet
  BY <1>0, <1>1 DEF NewTask, ListMiss, SetMiss, Miss, Say, Answer
<1>2. ASSUME NEW t \in TaskId, List(t) PROVE Quiet
  <2>1. Stored(t) \subseteq Config
    BY DEF PushInv, StoredIsOwed, PushTypeOK
  <2> QED
    BY <1>0, <1>2, <2>1 DEF List, Answer
<1>3. ASSUME NEW t \in TaskId, NEW c \in ConfigId,
             GetMiss(t, c) \/ DeleteMiss(t, c)
      PROVE  Quiet
  BY <1>0, <1>3 DEF GetMiss, DeleteMiss, Miss, Say, Answer
<1>4. ASSUME NEW t \in TaskId, NEW c \in ConfigId, Get(t, c) PROVE Quiet
  <2>1. [task |-> t, id |-> c, owner |-> push[t][c]] \in Config
    BY <1>4 DEF Get, PushInv, PushTypeOK, Config
  <2> QED
    BY <1>0, <1>4, <2>1 DEF Get, Answer
<1>5. ASSUME NEW via \in {"rpc", "rest"}, NEW t \in TaskId \cup {NoId},
             NEW ids \in SUBSET {NoId}, Refuse(via, t, ids)
      PROVE  Quiet
  BY <1>0, <1>5 DEF Refuse, Say, Answer
<1>6. ASSUME NEW kind \in {"redirect", "unauthorized", "notFound", "task"}, Elsewhere(kind)
      PROVE  Quiet
  BY <1>0, <1>6 DEF Elsewhere, Say, Answer
<1>7. CASE UNCHANGED vars
  BY <1>0, <1>7, QuietInv DEF vars
<1>8. CASE Next
  <2>1. CASE Quiet
    BY <2>1, QuietInv
  <2>2. ASSUME NEW t \in TaskId, NEW id \in ClientIds \cup {NoId},
               NEW owner \in Client, Set(t, id, owner)
        PROVE  PushInv'
    BY <2>2, SetInv
  <2>3. ASSUME NEW t \in TaskId, NEW c \in ConfigId, Delete(t, c) PROVE PushInv'
    BY <2>3, DeleteInv
  <2> HIDE DEF Quiet
  <2> QED
    BY <1>1, <1>2, <1>3, <1>4, <1>5, <1>6, <1>8, <2>1, <2>2, <2>3 DEF Next
<1> QED
  BY <1>7, <1>8

LEMMA PushInvariant == Spec => []PushInv
BY PushInitInv, PushNextInv, PTL DEF Spec

-----------------------------------------------------------------------------
\* The store of configs keeps its types.
THEOREM PushTypeCorrect == Spec => []PushTypeOK
<1>1. PushInv => PushTypeOK
  BY DEF PushInv
<1> QED
  BY <1>1, PushInvariant, PTL

\* An acknowledged config is kept until its client's own operations take it
\* away (tasks.go:116-125), whatever others set or delete meanwhile.
THEOREM AcknowledgedIsKept == Spec => []OwedIsStored
<1>1. PushInv => OwedIsStored
  BY DEF PushInv
<1> QED
  BY <1>1, PushInvariant, PTL

\* Nothing is stored that nobody was promised: what was deleted or replaced
\* does not come back (tasks.go:157-169).
THEOREM DeletedStaysAway == Spec => []StoredIsOwed
<1>1. PushInv => StoredIsOwed
  BY DEF PushInv
<1> QED
  BY <1>1, PushInvariant, PTL

\* The counter never generates an id twice (tasks.go:116-118).
THEOREM GeneratedOnce == Spec => []MintedOnce
<1>1. PushInv => MintedOnce
  BY DEF PushInv
<1> QED
  BY <1>1, PushInvariant, PTL

\* Configs hang on tasks that exist (tasks.go:113), so get, list and delete
\* agree about a task nobody created.
THEOREM ConfigsHaveTasks == Spec => []OnlyForKnownTasks
<1>1. PushInv => OnlyForKnownTasks
  BY DEF PushInv
<1> QED
  BY <1>1, PushInvariant, PTL
=============================================================================
