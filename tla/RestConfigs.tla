----------------------------- MODULE RestConfigs -----------------------------
(***************************************************************************)
(* Push notification configs behind the server's front: ServeMux redirects *)
(* a request or the auth middleware sees it, its path is taken apart, and  *)
(* the operation on the store is the one the handler makes of it.  What clients were promised   *)
(* (owed) is by the ids they named, what is stored by the ids the server   *)
(* read.  A request comes through REST or through JSON-RPC, whose method   *)
(* and params are the operation and its ids.                               *)
(***************************************************************************)
EXTENDS PushConfigs, Routes, AuthMiddleware

CONSTANT Policies   \* the middleware's policies and sources

VARIABLES
  policy,   \* the middleware's policy and sources, fixed
  token,    \* the token of the last request that was served
  asked,    \* the operation that request asked for, and its ids
  reached,  \* the operation it reached
  exempt    \* did the path of the last request start with the policy's prefix?

restVars == <<vars, policy, token, asked, reached, exempt>>

RpcPath == << <<"/v1/jsonrpc">> >>
Unasked == NoTarget

Targets == [op : ConfigOps \cup TaskOps \cup {"none"},
            task : TaskId \cup {Nothing}, id : ConfigId \cup {Nothing}]

\* Ids are sequences of words and separators, in which two words never meet;
\* those of tasks are one word each.
ASSUME IdsAreWords ==
  /\ \A t \in TaskId : t = <<t[1]>> /\ t[1] \notin Separators
  /\ \A c \in ClientIds :
       /\ c \in Seq({ c[i] : i \in DOMAIN c })
       /\ \A i \in 2..Len(c) : {c[i - 1], c[i]} \cap Separators # {}
ASSUME PrefixesHaveLengths == \A p \in Policies : Len(p.excludePrefix) \in Nat

RestTypeOK ==
  /\ PushTypeOK
  /\ policy \in Policies
  /\ token \in Token
  /\ asked \in Targets
  /\ reached \in Targets
  /\ exempt \in BOOLEAN

RestInit ==
  /\ Init
  /\ policy \in Policies
  /\ token = "none"
  /\ asked = Unasked
  /\ reached = NoTarget
  /\ exempt = FALSE

RestNewTask(t) ==
  NewTask(t) /\ UNCHANGED <<policy, token, asked, reached, exempt>>

\* The handler of target, for a client that named what ask says.  Ids nobody
\* has are found by nobody.
Perform(via, ask, target) ==
  LET t == target.task
      c == target.id
      ids == IF target.op \in {"get", "delete"} THEN {c} ELSE {}
  IN  \/ target.op \in TaskOps /\ Elsewhere("task")
      \/ target.op = "none" /\ Elsewhere("notFound")
      \/ target.op \in ConfigOps /\ Refuse(via, t, ids)
      \/ /\ target.op \in ConfigOps /\ Accepts(t, ids)
         /\ t \notin TaskId \/ ~(ids \subseteq ConfigId)
         /\ Miss
      \/ /\ target.op = "set" /\ t \in TaskId
         /\ \/ SetMiss(t)
            \/ \E id \in ClientIds \cup {NoId}, owner \in Client :
                 SetNamed(ask.task, t, id, owner)
      \/ /\ target.op = "list" /\ t \in TaskId
         /\ List(t) \/ ListMiss(t)
      \/ /\ target.op = "get" /\ t \in TaskId /\ c \in ConfigId
         /\ Get(t, c) \/ GetMiss(t, c)
      \/ /\ target.op = "delete" /\ t \in TaskId /\ c \in ConfigId
         /\ DeleteNamed(ask.task, ask.id, t, c) \/ DeleteMiss(t, c)

\* What a client may ask for.
RpcAsks ==
  { Target(op, t, Nothing) : op \in {"set", "list"}, t \in TaskId \cup {NoId} }
    \cup { Target(op, t, c) : op \in {"get", "delete"},
                              t \in TaskId \cup {NoId}, c \in ConfigId \cup {NoId} }
RestAsks ==
  { ask \in RpcAsks : ask.task # NoId }
    \cup { Target(op, t, Nothing) : op \in TaskOps \ {"listTasks"}, t \in TaskId }
    \cup { Target("listTasks", Nothing, Nothing) }

\* ServeMux answers for a path that is not clean, before the middleware.
Redirect(path) ==
  /\ ~Clean(path)
  /\ Elsewhere("redirect")
  /\ token' = "none" /\ asked' = Unasked /\ reached' = NoTarget
  /\ exempt' = FALSE
  /\ UNCHANGED policy

\* One request, from the middleware to the answer.  Whoever only asks for
\* the options of a path asks for no operation.
Request(via, verb, path, ask, target) ==
  \E m \in { Middleware(policy, verb, path, header, result) :
             header \in Header, result \in SourceResult } :
    /\ token' = m.token
    /\ asked' = IF m.served /\ verb # "OPTIONS" THEN ask ELSE Unasked
    /\ reached' = IF m.served THEN target ELSE NoTarget
    /\ exempt' = (policy.excludePrefix # <<>> /\ At(path, policy.excludePrefix, 1))
    /\ IF m.served THEN Perform(via, ask, target) ELSE Elsewhere("unauthorized")
    /\ UNCHANGED policy

\* A REST request has the verb of its operation, or asks for the options.
RestRequest(ask) ==
  \E verb \in {Verb(ask.op), "OPTIONS"} :
    LET path == Path(ask.op, ask.task, ask.id)
    IN  \/ Redirect(path)
        \/ Clean(path) /\ Request("rest", verb, path, ask, Dispatch(verb, path))

\* handleJSONRPC accepts POST only.
RpcRequest(ask) ==
  \E verb \in {"POST", "OPTIONS"} :
    Request("rpc", verb, RpcPath, ask, IF verb = "POST" THEN ask ELSE NoTarget)

RestNext ==
  \/ \E t \in TaskId : RestNewTask(t)
  \/ \E ask \in RestAsks : RestRequest(ask)
  \/ \E ask \in RpcAsks : RpcRequest(ask)

RestSpec == RestInit /\ [][RestNext]_restVars

-----------------------------------------------------------------------------
\* A request that is neither redirected by ServeMux nor turned away by the
\* middleware, and is not for the options, reaches the operation its path was
\* built for, with the ids the client named, whatever its config ids contain
\* (jsonrpc.go:66-119, rest.go:201-215): no delete of a config is taken for
\* the cancel of a task, and none gets lost.
ReachesWhatWasAsked == reached = asked

\* Nothing is answered with ok, and so nothing is changed or shown, without a
\* bearer token, unless the request's own path starts with the excluded
\* prefix: the OPTIONS requests that bypass the middleware reach no operation,
\* and a policy that excludes some paths lets no other one through
\* (middleware.go:34-73, jsonrpc.go:69-94).
OnlyBearersServed ==
  answer.kind \in {"ok", "task"} =>
    token # "none" \/ exempt

\* The store behind the front is the one PushConfigs describes, with the ids
\* that clients named: whatever is proved of it holds of the server.
ConfigsSpec == Spec
=============================================================================
