---------------------------- MODULE PushConfigs ----------------------------
(***************************************************************************)
(* Push notification configs: the push map and the pseq counter of         *)
(* taskStore (src/server/tasks.go) and the operations on them, reached     *)
(* through JSON-RPC ("rpc": Server, opsImpl and DefaultOperations have the *)
(* same code) and through REST ("rest").  Each operation takes the store's *)
(* mutex once, so it is one step; the config it answers with is never      *)
(* written again.                                                          *)
(*                                                                         *)
(* A config is its ID and its owner, the client that set it: which         *)
(* receiver is called is all the properties tell apart.  An id is the      *)
(* sequence of the words and separators it is made of, each a tuple, as    *)
(* Routes takes paths apart.                                               *)
(***************************************************************************)
EXTENDS Naturals, FiniteSets, Sequences

CONSTANTS
  TaskId,         \* ids of tasks
  Client,         \* who sets configs
  ClientIds,      \* ids that clients choose for their configs
  MaxSet          \* bound: how often a config is set

NoId == <<>>
NoOwner == "nobody"
pcId(n) == << <<"pc", n>> >>     \* "pc-" + itoa(n), one word
ConfigId == ClientIds \cup { pcId(n) : n \in 1..MaxSet }

ASSUME MaxSetNat == MaxSet \in Nat
ASSUME NobodyIsNoClient == NoOwner \notin Client
ASSUME NoIdIsNoId == NoId \notin ClientIds /\ NoId \notin TaskId

VARIABLES
  supported,  \* card.PushNotificationsSupported(), fixed with the card
  known,   \* the tasks in the store: they are added, never removed
  pseq,    \* taskStore.pseq
  push,    \* taskStore.push: per task and config id, the owner or NoOwner
  answer,  \* the last answer: its kind and the configs it carries
  owed,    \* what clients were promised: configs acknowledged and neither
           \* deleted nor set again under the id their client chose
  minted   \* the ids the store has generated, in order

vars == <<supported, known, pseq, push, answer, owed, minted>>

Config == [task : TaskId, id : ConfigId, owner : Client]
Answer == [kind : {"none", "unauthorized", "unsupported", "invalid", "notFound",
                   "redirect", "task", "ok"},
           configs : SUBSET Config]
Say(kind) == answer' = [kind |-> kind, configs |-> {}]

PushTypeOK ==
  /\ supported \in BOOLEAN
  /\ known \subseteq TaskId
  /\ pseq \in 0..MaxSet
  /\ push \in [TaskId -> [ConfigId -> Client \cup {NoOwner}]]
  /\ answer \in Answer
  /\ owed \subseteq Config
  /\ minted \in Seq(ConfigId)

Init ==
  /\ supported \in BOOLEAN
  /\ known = {}
  /\ pseq = 0
  /\ push = [t \in TaskId |-> [c \in ConfigId |-> NoOwner]]
  /\ answer = [kind |-> "none", configs |-> {}]
  /\ owed = {}
  /\ minted = <<>>

Stored(t) == { [task |-> t, id |-> c, owner |-> push[t][c]] :
               c \in { d \in ConfigId : push[t][d] # NoOwner } }

\* newTask, as far as this component sees it.
NewTask(t) ==
  /\ t \notin known
  /\ known' = known \cup {t}
  /\ UNCHANGED <<supported, pseq, push, answer, owed, minted>>

(***************************************************************************)
(* An operation that changes nothing: the capability is missing, or a      *)
(* parameter is (REST answers 404 when its path has no id).                *)
(***************************************************************************)
Refuse(via, t, ids) ==
  /\ ~supported \/ NoId \in {t} \cup ids
  /\ Say(IF ~supported THEN "unsupported"
         ELSE IF via = "rest" THEN "notFound" ELSE "invalid")
  /\ UNCHANGED <<supported, known, pseq, push, owed, minted>>

\* A request that does not get here: ServeMux redirects it, the auth
\* middleware turned it away, or it is one for a task, or for no handler.
Elsewhere(kind) ==
  /\ Say(kind)
  /\ UNCHANGED <<supported, known, pseq, push, owed, minted>>

Accepts(t, ids) == supported /\ NoId \notin {t} \cup ids

Miss == /\ Say("notFound")
        /\ UNCHANGED <<supported, known, pseq, push, owed, minted>>

\* Faulty: the id counts the configs of the task.
GivenIdByCount(t, id) ==
  IF id = NoId THEN pcId(Cardinality(Stored(t)) + 1) ELSE id

\* Faulty: the id is made before the counter moves on.
GivenIdBeforeIncrement(t, id) == IF id = NoId THEN pcId(pseq) ELSE id

\* The id a config gets: the client's, or one made from the counter.
GivenId(t, id) == IF id = NoId THEN pcId(pseq + 1) ELSE id

\* Faulty: configs are kept for tasks that do not exist.
AddAnyPush(t, id, owner) ==
  /\ pseq < MaxSet
  /\ pseq' = pseq + 1
  /\ push' = [push EXCEPT ![t][GivenId(t, id)] = owner]
  /\ minted' = IF id = NoId THEN Append(minted, GivenId(t, id)) ELSE minted
  /\ UNCHANGED <<supported, known>>

\* addPush: the counter moves on whether or not it is used, and the entry
\* that bears the id is replaced.
addPush(t, id, owner) ==
  /\ t \in known
  /\ pseq < MaxSet
  /\ pseq' = pseq + 1
  /\ push' = [push EXCEPT ![t][GivenId(t, id)] = owner]
  /\ minted' = IF id = NoId THEN Append(minted, GivenId(t, id)) ELSE minted
  /\ UNCHANGED <<supported, known>>

\* set for task t, acknowledged with the config; named is the task the client
\* named.  A client that names an id takes the place of the config that had
\* it; one that names none displaces nobody.
SetNamed(named, t, id, owner) ==
  LET c == [task |-> named, id |-> GivenId(t, id), owner |-> owner]
  IN  /\ Accepts(t, {})
      /\ addPush(t, id, owner)
      /\ answer' = [kind |-> "ok", configs |-> {c}]
      /\ owed' = {c} \cup
                 { d \in owed : id = NoId \/ d.task # named \/ d.id # id }

Set(t, id, owner) == SetNamed(t, t, id, owner)

SetMiss(t) == Accepts(t, {}) /\ t \notin known /\ Miss

Get(t, c) ==
  /\ Accepts(t, {c})
  /\ push[t][c] # NoOwner
  /\ answer' = [kind |-> "ok",
                configs |-> {[task |-> t, id |-> c, owner |-> push[t][c]]}]
  /\ UNCHANGED <<supported, known, pseq, push, owed, minted>>

\* Get and delete look into the map only; list asks for the task first.
GetMiss(t, c) == Accepts(t, {c}) /\ push[t][c] = NoOwner /\ Miss

List(t) ==
  /\ Accepts(t, {})
  /\ t \in known
  /\ answer' = [kind |-> "ok", configs |-> Stored(t)]
  /\ UNCHANGED <<supported, known, pseq, push, owed, minted>>

ListMiss(t) == Accepts(t, {}) /\ t \notin known /\ Miss

\* Faulty: the entry stays.
deleteNoPush(t, c) == push' = push

deletePush(t, c) == push' = [push EXCEPT ![t][c] = NoOwner]

\* delete of config c of task t; the client named config nc of task nt.
DeleteNamed(nt, nc, t, c) ==
  /\ Accepts(t, {c})
  /\ push[t][c] # NoOwner
  /\ deletePush(t, c)
  /\ Say("ok")
  /\ owed' = { d \in owed : d.task # nt \/ d.id # nc }
  /\ UNCHANGED <<supported, known, pseq, minted>>

Delete(t, c) == DeleteNamed(t, c, t, c)

DeleteMiss(t, c) == Accepts(t, {c}) /\ push[t][c] = NoOwner /\ Miss

Next ==
  \/ \E t \in TaskId : NewTask(t) \/ List(t) \/ ListMiss(t) \/ SetMiss(t)
  \/ \E t \in TaskId, id \in ClientIds \cup {NoId}, owner \in Client :
       Set(t, id, owner)
  \/ \E t \in TaskId, c \in ConfigId :
       Get(t, c) \/ GetMiss(t, c) \/ Delete(t, c) \/ DeleteMiss(t, c)
  \/ \E via \in {"rpc", "rest"}, t \in TaskId \cup {NoId},
        ids \in SUBSET {NoId} : Refuse(via, t, ids)
  \/ \E kind \in {"redirect", "unauthorized", "notFound", "task"} : Elsewhere(kind)

Spec == Init /\ [][Next]_vars

-----------------------------------------------------------------------------
(***************************************************************************)
(* What clients may rely on.                                               *)
(***************************************************************************)

\* Ids of the generated form that clients may choose all the same.
Squatted == ClientIds \cap { pcId(n) : n \in 1..MaxSet }

\* A config that was acknowledged is there until its id is deleted or set
\* again by name: setting another one without an id does not displace it
\* (tasks.go:116-125), unless its client chose an id of the form "pc-N".
OwedIsStored ==
  \A c \in owed : c.id \notin Squatted => push[c.task][c.id] = c.owner

\* Nobody is notified of a task without having asked: what is stored is
\* owed, so a deleted or replaced config never comes back.
StoredIsOwed == \A t \in TaskId : Stored(t) \subseteq owed

\* A generated id is never generated again, not even after it was deleted: a
\* client that kept it does not find somebody else's config (tasks.go:116-118).
MintedOnce == \A i, k \in 1..Len(minted) : i # k => minted[i] # minted[k]

\* No config is attached to a task that does not exist (tasks.go:113), so
\* what list denies and what get denies agree.
OnlyForKnownTasks == \A t \in TaskId : Stored(t) # {} => t \in known
=============================================================================
