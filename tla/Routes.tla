------------------------------- MODULE Routes -------------------------------
(***************************************************************************)
(* From the path of a REST request to its handler and its ids, and back:   *)
(* the patterns of RegisterREST (server/jsonrpc.go), the parsing in        *)
(* server/rest.go, and the mapping table a client builds its paths from    *)
(* (comments of RegisterREST, spec.txt:168).                               *)
(*                                                                         *)
(* A path is a sequence of words and separators, each a tuple.  A word     *)
(* that is no separator holds none, and two such words never meet: the     *)
(* text of a path is taken apart in one way.                               *)
(***************************************************************************)
EXTENDS Naturals, Sequences

TasksRoot == <<"/v1/tasks">>
Slash == <<"/">>
ConfigsWord == <<"pushNotificationConfigs">>
CancelSuffix == <<":cancel">>
SubscribeSuffix == <<":subscribe">>
Separators == {Slash, ConfigsWord, CancelSuffix, SubscribeSuffix}
Dots == { <<".">>, <<"..">> }

ConfigsPart == <<Slash, ConfigsWord>>           \* "/pushNotificationConfigs"
ConfigsInfix == <<Slash, ConfigsWord, Slash>>   \* "/pushNotificationConfigs/"

Nothing == <<>>
ConfigOps == {"set", "get", "list", "delete"}
TaskOps == {"getTask", "cancel", "subscribe", "listTasks"}
Target(op, task, id) == [op |-> op, task |-> task, id |-> id]
NoTarget == Target("none", Nothing, Nothing)

\* pat is in s at i.
At(s, pat, i) == /\ i + Len(pat) <= Len(s) + 1
                 /\ \A k \in 1..Len(pat) : s[i + k - 1] = pat[k]
Contains(s, pat) == \E i \in 1..Len(s) : At(s, pat, i)
HasSuffix(s, pat) == Len(pat) <= Len(s) /\ At(s, pat, Len(s) + 1 - Len(pat))

\* strings.Index, counted from 1.
Index(s, pat) == CHOOSE i \in 1..Len(s) :
                   At(s, pat, i) /\ \A j \in 1..(i - 1) : ~At(s, pat, j)

\* What follows "/v1/tasks/".
Rest(path) == SubSeq(path, 3, Len(path))
Before(s, pat) == SubSeq(s, 1, Index(s, pat) - 1)

\* Faulty: the config id ends at the next slash.
BehindUpToSlash(s, pat) ==
  LET behind == SubSeq(s, Index(s, pat) + Len(pat), Len(s))
  IN  IF Contains(behind, <<Slash>>) THEN Before(behind, <<Slash>>) ELSE behind

Behind(s, pat) == SubSeq(s, Index(s, pat) + Len(pat), Len(s))

\* extractTaskAndConfigID.
OneConfig(op, rest) ==
  IF Contains(rest, ConfigsInfix)
  THEN Target(op, Before(rest, ConfigsInfix), Behind(rest, ConfigsInfix))
  ELSE NoTarget

\* The id of a task, up to what says what is asked of it.
OneTask(op, rest, pat) ==
  IF Contains(rest, pat) THEN Target(op, Before(rest, pat), Nothing) ELSE NoTarget

\* An action on a task without an id is not found.
Action(target) == IF target.task = Nothing THEN NoTarget ELSE target

\* Faulty: the handler looks for its own verb only to pick among several.
ByVerbOrAny(verb, targets) ==
  IF verb \in DOMAIN targets THEN targets[verb]
  ELSE targets[CHOOSE v \in DOMAIN targets : TRUE]

\* The handler of each verb, HTTP 404 for the others.
ByVerb(verb, targets) == IF verb \in DOMAIN targets THEN targets[verb] ELSE NoTarget

\* The subroutes of "/v1/tasks/", in the order they are tried.
SuffixFirst(verb, path, rest) ==
  IF HasSuffix(path, ConfigsPart)
  THEN ByVerb(verb, [GET |-> OneTask("list", rest, ConfigsPart),
                     POST |-> OneTask("set", rest, ConfigsPart)])
  ELSE ByVerb(verb, [GET |-> OneConfig("get", rest),
                     DELETE |-> OneConfig("delete", rest)])

Subroute(verb, path, rest) ==
  IF Contains(path, ConfigsInfix)
  THEN ByVerb(verb, [GET |-> OneConfig("get", rest),
                     DELETE |-> OneConfig("delete", rest)])
  ELSE IF HasSuffix(path, ConfigsPart)
  THEN ByVerb(verb, [GET |-> OneTask("list", rest, ConfigsPart),
                     POST |-> OneTask("set", rest, ConfigsPart)])
  ELSE IF HasSuffix(path, <<SubscribeSuffix>>)
  THEN ByVerb(verb, [POST |-> Action(OneTask("subscribe", rest, <<SubscribeSuffix>>))])
  ELSE IF HasSuffix(path, <<CancelSuffix>>)
  THEN ByVerb(verb, [POST |-> Action(OneTask("cancel", rest, <<CancelSuffix>>))])
  ELSE ByVerb(verb, [GET |-> Action(Target("getTask", rest, Nothing))])

\* The patterns "/v1/tasks" and "/v1/tasks/".
Dispatch(verb, path) ==
  IF path = <<TasksRoot>>
  THEN ByVerb(verb, [GET |-> Target("listTasks", Nothing, Nothing)])
  ELSE Subroute(verb, path, Rest(path))

-----------------------------------------------------------------------------
\* The paths ServeMux serves as they are.  One with an empty segment, or with
\* one of Dots for a segment, is redirected to what path.Clean makes of it.
Clean(path) ==
  \A i \in 2..Len(path) : path[i - 1] = Slash =>
    /\ path[i] # Slash
    /\ path[i] \in Dots => i < Len(path) /\ path[i + 1] # Slash

\* What a client sends for an operation (the mapping table).
Verb(op) == CASE op \in {"get", "list", "getTask", "listTasks"} -> "GET"
              [] op \in {"set", "cancel", "subscribe"} -> "POST"
              [] op = "delete" -> "DELETE"

OnTask(t) == <<TasksRoot, Slash>> \o t
Path(op, t, c) ==
  CASE op = "listTasks" -> <<TasksRoot>>
    [] op = "getTask" -> OnTask(t)
    [] op = "cancel" -> OnTask(t) \o <<CancelSuffix>>
    [] op = "subscribe" -> OnTask(t) \o <<SubscribeSuffix>>
    [] op \in {"set", "list"} -> OnTask(t) \o ConfigsPart
    [] op \in {"get", "delete"} -> OnTask(t) \o ConfigsInfix \o c
=============================================================================
