---------------------------- MODULE StreamSession ----------------------------
(***************************************************************************)
(* The calls of a client and how their answers come back.                  *)
(*                                                                         *)
(*   "rpc"     Client.SendMessage, GetTask, CancelTask (client/client.go): *)
(*             one HTTP exchange per call, every one with request id 1     *)
(*   "send"    A2AStreamClient.SendMessage                                 *)
(*   "stream"  A2AStreamClient.StreamMessage                               *)
(*   "resub"   A2AStreamClient.Resubscribe (client/stream.go)              *)
(*                                                                         *)
(* The last three share one session of the jsonrpc library: the server     *)
(* writes the response of each request, and the events of its goroutine,   *)
(* to one stream of frames, and rpc.Send returns the first frame that      *)
(* bears the id of its request.  The library is external; what is modelled *)
(* of it is what client/stream.go, server/rpc_handler.go and               *)
(* server/sse_stream.go use: rpc.Send, the session's LastRequestID and     *)
(* SendResponse, and the response written after Serve has returned.        *)
(***************************************************************************)
EXTENDS Naturals, Sequences

CONSTANTS
  Call,    \* the calls, each made once
  Plans    \* which methods they may be calls of

NoCall == "no call"
Method == {"rpc", "send", "stream", "resub"}
ASSUME NoCallIsNoCall == NoCall \notin Call
ASSUME PlansAreMethods == Plans \subseteq [Call -> Method]

VARIABLES
  streaming,  \* card.StreamingSupported()
  ctxHasId,   \* does the library put RequestIdKey into a handler's context?
  method,     \* what each call is a call of
  link,       \* the A2AStreamClient's connection
  pc,         \* where each call is
  srv,        \* where the server is with it
  response,   \* the response of Serve
  lastId,     \* session.LastRequestID()
  gor,        \* the event streamDemo sends next
  eventId,    \* the id sendSSEResponse has read for it
  wire,       \* frames of the session not yet delivered
  got         \* the frame each call was answered with

fixed == <<streaming, ctxHasId, method>>
serverVars == <<srv, response, lastId>>
streamVars == <<gor, eventId>>
clientVars == <<pc, got>>
vars == <<fixed, link, serverVars, streamVars, clientVars, wire>>

Answers == {"task", "error"}
Events == {"status", "artifact", "final"}
Frame == [id : Call, from : Call, body : Answers \cup Events]
NoFrame == [id |-> NoCall]

OnSession(c) == method[c] # "rpc"

SessionTypeOK ==
  /\ streaming \in BOOLEAN
  /\ ctxHasId \in BOOLEAN
  /\ method \in [Call -> Method]
  /\ link \in {"none", "failed", "up"}
  /\ pc \in [Call -> {"idle", "waiting", "returned"}]
  /\ srv \in [Call -> {"none", "received", "answered", "written"}]
  /\ response \in [Call -> Frame \cup {NoFrame}]
  /\ lastId \in Call \cup {NoCall}
  /\ gor \in [Call -> Events \cup {"none", "end"}]
  /\ eventId \in [Call -> Call \cup {NoCall}]
  /\ wire \in Seq(Frame)
  /\ got \in [Call -> Frame \cup {NoFrame}]

Init ==
  /\ streaming \in BOOLEAN
  /\ ctxHasId \in BOOLEAN
  /\ method \in Plans
  /\ link = "none"
  /\ pc = [c \in Call |-> "idle"]
  /\ srv = [c \in Call |-> "none"]
  /\ response = [c \in Call |-> NoFrame]
  /\ lastId = NoCall
  /\ gor = [c \in Call |-> "none"]
  /\ eventId = [c \in Call |-> NoCall]
  /\ wire = <<>>
  /\ got = [c \in Call |-> NoFrame]

-----------------------------------------------------------------------------
(***************************************************************************)
(* The client.                                                             *)
(***************************************************************************)

\* AutoStreamClient: a probe that is answered with a session header means
\* Streamable HTTP; any other outcome, a failed probe among them, means SSE.
Detected(endpoint, probed) ==
  IF probed /\ endpoint = "streamable" THEN "streamable" ELSE "sse"

\* The handshake with an endpoint of the other kind fails.
Connect ==
  /\ link = "none"
  /\ \E endpoint \in {"sse", "streamable"}, probed \in BOOLEAN :
       link' = IF Detected(endpoint, probed) = endpoint THEN "up" ELSE "failed"
  /\ UNCHANGED <<fixed, serverVars, streamVars, clientVars, wire>>

Start(c) ==
  /\ pc[c] = "idle"
  /\ OnSession(c) => link = "up"
  /\ pc' = [pc EXCEPT ![c] = "waiting"]
  /\ UNCHANGED <<fixed, link, serverVars, streamVars, got, wire>>

\* Faulty: a call that has given up is answered all the same.
ReturnLate(f) == /\ pc' = [pc EXCEPT ![f.id] = "returned"]
                 /\ got' = [got EXCEPT ![f.id] = f]

\* rpc.Send returns the first frame with its id.  Later ones find nobody
\* waiting: they are Responses, which OnNotification is not called for.
Return(f) ==
  IF pc[f.id] = "waiting"
  THEN /\ pc' = [pc EXCEPT ![f.id] = "returned"]
       /\ got' = [got EXCEPT ![f.id] = f]
  ELSE UNCHANGED clientVars

Deliver ==
  /\ wire # <<>>
  /\ Return(Head(wire))
  /\ wire' = Tail(wire)
  /\ UNCHANGED <<fixed, link, serverVars, streamVars>>

\* The caller's context ends first; the request may still be served.
GiveUp(c) ==
  /\ pc[c] = "waiting"
  /\ pc' = [pc EXCEPT ![c] = "returned"]
  /\ UNCHANGED <<fixed, link, serverVars, streamVars, got, wire>>

-----------------------------------------------------------------------------
(***************************************************************************)
(* The server: every request in a goroutine of its own.                    *)
(***************************************************************************)

Receive(c) ==
  /\ pc[c] # "idle" /\ srv[c] = "none"
  /\ srv' = [srv EXCEPT ![c] = "received"]
  /\ lastId' = IF OnSession(c) THEN c ELSE lastId
  /\ UNCHANGED <<fixed, link, response, streamVars, clientVars, wire>>

\* What the operations may answer: the gate refuses streams and
\* resubscriptions, and resubscribe refuses nothing else.
MayAnswer(c) ==
  IF method[c] \in {"stream", "resub"} /\ ~streaming THEN {"error"}
  ELSE IF method[c] = "resub" THEN {"task"} ELSE Answers

\* Faulty: the response gets no id.
ResponseIdMissing(c) == NoCall

\* Faulty: the response bears the id of the session's last request.
ResponseIdLast(c) == IF OnSession(c) THEN lastId ELSE c

ResponseId(c) == c

\* Serve returns; by then an accepted message/stream has started its
\* goroutine, unless it needs authentication (the notification of that
\* branch has no session).
Serve(c) ==
  /\ srv[c] = "received"
  /\ srv' = [srv EXCEPT ![c] = "answered"]
  /\ \E body \in MayAnswer(c), authRequired \in BOOLEAN :
       /\ response' = [response EXCEPT ![c] =
                         [id |-> ResponseId(c), from |-> c, body |-> body]]
       /\ gor' = IF method[c] = "stream" /\ body = "task" /\ ~authRequired
                 THEN [gor EXCEPT ![c] = "status"] ELSE gor
  /\ UNCHANGED <<fixed, link, lastId, eventId, clientVars, wire>>

\* Client.SendMessage and its like decode what their own connection brings
\* and compare no id.
Exchange(c) ==
  IF pc[c] = "waiting"
  THEN /\ pc' = [pc EXCEPT ![c] = "returned"]
       /\ got' = [got EXCEPT ![c] = response[c]]
  ELSE UNCHANGED clientVars

\* The library writes the response: to the session, or to the connection of
\* the call.
WriteResponse(c) ==
  /\ srv[c] = "answered"
  /\ srv' = [srv EXCEPT ![c] = "written"]
  /\ IF OnSession(c)
     THEN wire' = Append(wire, response[c]) /\ UNCHANGED clientVars
     ELSE Exchange(c) /\ UNCHANGED wire
  /\ UNCHANGED <<fixed, link, response, lastId, streamVars>>

After(event) == CASE event = "status" -> "artifact"
                  [] event = "artifact" -> "final"
                  [] event = "final" -> "end"

\* Faulty: RequestIdKey is not looked at.
EventIdLast(c) == lastId

\* The originating request's id, or the last one of the session.
EventId(c) == IF ctxHasId THEN c ELSE lastId

\* sendSSEResponse reads the id, marshals the event and then sends it.
ReadEventId(c) ==
  /\ gor[c] \in Events /\ eventId[c] = NoCall
  /\ eventId' = [eventId EXCEPT ![c] = EventId(c)]
  /\ UNCHANGED <<fixed, link, serverVars, gor, clientVars, wire>>

SendEvent(c) ==
  /\ gor[c] \in Events /\ eventId[c] # NoCall
  /\ wire' = Append(wire, [id |-> eventId[c], from |-> c, body |-> gor[c]])
  /\ gor' = [gor EXCEPT ![c] = After(gor[c])]
  /\ eventId' = [eventId EXCEPT ![c] = NoCall]
  /\ UNCHANGED <<fixed, link, serverVars, clientVars>>

Attend(c) == Serve(c) \/ WriteResponse(c) \/ ReadEventId(c) \/ SendEvent(c)

\* Nothing is under way: the client and the server wait for what comes.
AtRest ==
  /\ wire = <<>>
  /\ \A c \in Call : /\ pc[c] # "waiting"
                     /\ srv[c] \in {"none", "written"}
                     /\ gor[c] \in {"none", "end"}
Wait == AtRest /\ UNCHANGED vars

Next == \/ Connect \/ Deliver \/ Wait
        \/ \E c \in Call : Start(c) \/ GiveUp(c) \/ Receive(c) \/ Attend(c)

Spec == Init /\ [][Next]_vars

(***************************************************************************)
(* While a call waits, its request gets to the server, the server's        *)
(* goroutines go on, as none of them waits for another, and the session    *)
(* delivers.  Nobody is obliged to connect, to call or to give up.         *)
(***************************************************************************)
Fairness ==
  /\ WF_vars(Deliver)
  /\ \A c \in Call : /\ WF_vars(pc[c] = "waiting" /\ Receive(c))
                     /\ WF_vars(Attend(c))

FairSpec == Spec /\ Fairness

-----------------------------------------------------------------------------
Answered(c) == got[c] # NoFrame

\* When handlers know the id of their request, whatever overlaps on the
\* session a call returns what was sent on its own behalf, and a call that
\* starts no stream its response: an event of an earlier stream, or one of a
\* call that gave up, is never taken for it (sse_stream.go:15-24;
\* spec.txt:974, "The Server MUST reply with the same value in the Response
\* object").
OwnAnswer ==
  \A c \in Call : Answered(c) /\ (ctxHasId \/ ~OnSession(c)) =>
    /\ got[c].from = c
    /\ method[c] # "stream" => got[c].body \in Answers

\* Even when handlers do not know the id, and events go out under the id of
\* whatever request came last, only events of streams stray: a response
\* reaches its own call or nobody (rpc_handler.go:13, sse_stream.go:22-24).
OnlyEventsStray ==
  \A c \in Call : Answered(c) /\ got[c].from # c =>
    got[c].body \in Events /\ method[got[c].from] = "stream"

\* No answer is lost: once the response of a call is written, the call has
\* returned or something under its id is still on the way (client/stream.go:117,
\* 137, 151; rpc_handler.go:13).  An rpc call returns with its response.
AnswerComes ==
  \A c \in Call : pc[c] = "waiting" /\ srv[c] = "written" =>
    OnSession(c) /\ \E i \in 1..Len(wire) : wire[i].id = c

-----------------------------------------------------------------------------
(***************************************************************************)
(* The session implements the service it is to be for its callers.         *)
(***************************************************************************)
Sent(c) == CASE gor[c] \in {"none", "status"} -> {}
             [] gor[c] = "artifact" -> {"status"}
             [] gor[c] = "final" -> {"status", "artifact"}
             [] gor[c] = "end" -> Events
Spoke == {"answered", "written"}
Said(c) == Sent(c) \cup (IF srv[c] \in Spoke THEN {response[c].body} ELSE {})
Result(c) ==
  IF got[c] = NoFrame THEN [from |-> "nobody"]
                      ELSE [from |-> got[c].from, body |-> got[c].body]

Service == INSTANCE CallService
  WITH known <- ctxHasId,
       said <- [c \in Call |-> Said(c)],
       result <- [c \in Call |-> Result(c)]

\* Overlapping calls, answers that events overtake, callers that give up and
\* late frames: each call is answered as CallService promises
\* (client/stream.go:111-160, sse_stream.go:13-33, default_ops.go:166-216).
CallsAreServed == Service!Spec

AnswerTo(c) == IF srv[c] \in Spoke THEN response[c].body ELSE "none"
Told(c) == CASE gor[c] \in {"none", "status"} -> <<>>
             [] gor[c] = "artifact" -> <<"status">>
             [] gor[c] = "final" -> <<"status", "artifact">>
             [] gor[c] = "end" -> <<"status", "artifact", "final">>

Server == INSTANCE CallServer
  WITH answer <- [c \in Call |-> AnswerTo(c)],
       open <- [c \in Call |-> gor[c] # "none"],
       told <- [c \in Call |-> Told(c)]

\* The server's half of the session is what the handlers are: CallServer
\* (rpc_handler.go:12-39, ops_impl.go:81-123, 265-279).
SessionIsServed == Server!Spec

\* Every call returns, whatever the goroutines of other calls put on the
\* session before its response (client/stream.go:117, 137, 151).
CallsReturn == \A c \in Call : pc[c] = "waiting" ~> pc[c] = "returned"
=============================================================================
