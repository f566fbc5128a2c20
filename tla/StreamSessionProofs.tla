------------------------- MODULE StreamSessionProofs -------------------------
(***************************************************************************)
(* Theorems about StreamSession, for any number of calls and whether or    *)
(* not the library puts the request id into the context.                   *)
(***************************************************************************)
EXTENDS StreamSession, SequenceTheorems, TLAPS

USE NoCallIsNoCall, PlansAreMethods

-----------------------------------------------------------------------------
(***************************************************************************)
(* The inductive invariant: every frame that is ready, under way or        *)
(* delivered is one the server may send under its id.                      *)
(***************************************************************************)

\* A frame of call f.from under the id f.id: a response has its own id, an
\* event belongs to a stream, and has its own id if handlers know it.
Fit(f) == /\ f.body \in Answers => f.id = f.from
          /\ f.body \in Events => method[f.from] = "stream"
          /\ ctxHasId => f.id = f.from

FramesFit ==
  /\ \A i \in 1..Len(wire) : Fit(wire[i])
  /\ \A c \in Call : got[c] # NoFrame => got[c].id = c /\ Fit(got[c])
ResponsesFit ==
  \A c \in Call : srv[c] \in {"answered", "written"} =>
    /\ response[c] \in Frame
    /\ response[c].id = c /\ response[c].from = c
    /\ response[c].body \in Answers

\* A goroutine has an event to send only for a stream that was received, so
\* the session has a last request by then.
StreamsFit ==
  \A c \in Call : gor[c] \in Events =>
    /\ method[c] = "stream" /\ lastId # NoCall
    /\ eventId[c] # NoCall /\ ctxHasId => eventId[c] = c
LastKnown ==
  \A c \in Call : srv[c] # "none" /\ OnSession(c) => lastId # NoCall
IdsOnSession == \A c \in Call : gor[c] \notin Events => eventId[c] = NoCall

\* Call by call: an rpc call is answered on its own connection only.
OwnConnection ==
  /\ \A i \in 1..Len(wire) : OnSession(wire[i].id)
  /\ \A c \in Call : eventId[c] # NoCall => OnSession(eventId[c])
  /\ lastId # NoCall => OnSession(lastId)
  /\ \A c \in Call : got[c] # NoFrame /\ ~OnSession(c) =>
       got[c].from = c /\ got[c].body \in Answers

SessionInv == /\ SessionTypeOK
              /\ FramesFit
              /\ ResponsesFit
              /\ StreamsFit
              /\ LastKnown
              /\ IdsOnSession
              /\ OwnConnection

LEMMA NoFrameFacts == NoFrame \notin Frame /\ \A f \in Frame : f # NoFrame
<1>1. \A f \in Frame : f.id \in Call
  BY DEF Frame
<1>2. NoFrame.id = NoCall
  BY DEF NoFrame
<1> QED
  BY <1>1, <1>2

LEMMA SessionInitInv == Init => SessionInv
<1> SUFFICES ASSUME Init PROVE SessionInv
  OBVIOUS
<1>1. SessionTypeOK
  BY EmptySeq DEF Init, SessionTypeOK
<1>2. wire = <<>> /\ Len(wire) = 0
  BY EmptySeq DEF Init
<1>3. FramesFit /\ ResponsesFit /\ StreamsFit /\ LastKnown /\ IdsOnSession
      /\ OwnConnection
  BY <1>2 DEF Init, FramesFit, ResponsesFit, StreamsFit, LastKnown,
              IdsOnSession, OwnConnection, Events
<1> QED
  BY <1>1, <1>3 DEF SessionInv

-----------------------------------------------------------------------------
\* What only the client does disturbs nothing.
LEMMA QuietSession ==
  ASSUME SessionInv, UNCHANGED <<fixed, serverVars, streamVars, got, wire>>,
         link' \in {"none", "failed", "up"},
         pc' \in [Call -> {"idle", "waiting", "returned"}]
  PROVE  SessionInv'
<1> USE DEF SessionInv, fixed, serverVars, streamVars
<1>1. SessionTypeOK'
  BY DEF SessionTypeOK
<1>2. FramesFit' /\ OwnConnection'
  BY DEF FramesFit, OwnConnection, Fit, OnSession
<1>3. ResponsesFit' /\ StreamsFit' /\ LastKnown' /\ IdsOnSession'
  BY DEF ResponsesFit, StreamsFit, LastKnown, IdsOnSession, OnSession
<1> QED
  BY <1>1, <1>2, <1>3

\* A call is answered with a frame that fits it.
LEMMA AnswerFits ==
  ASSUME SessionInv, NEW f \in Frame, Fit(f),
         ~OnSession(f.id) => f.from = f.id /\ f.body \in Answers,
         UNCHANGED fixed,
         \/ UNCHANGED clientVars
         \/ /\ pc' = [pc EXCEPT ![f.id] = "returned"]
            /\ got' = [got EXCEPT ![f.id] = f]
  PROVE  /\ pc' \in [Call -> {"idle", "waiting", "returned"}]
         /\ got' \in [Call -> Frame \cup {NoFrame}]
         /\ \A c \in Call : got'[c] # NoFrame =>
              got'[c].id = c /\ Fit(got'[c])
         /\ \A c \in Call : got'[c] # NoFrame /\ ~OnSession(c) =>
              got'[c].from = c /\ got'[c].body \in Answers
<1>1. f.id \in Call
  BY DEF Frame
<1>2. /\ pc \in [Call -> {"idle", "waiting", "returned"}]
      /\ got \in [Call -> Frame \cup {NoFrame}]
  BY DEF SessionInv, SessionTypeOK
<1>3. /\ \A c \in Call : got[c] # NoFrame => got[c].id = c /\ Fit(got[c])
      /\ \A c \in Call : got[c] # NoFrame /\ ~OnSession(c) =>
           got[c].from = c /\ got[c].body \in Answers
  BY DEF SessionInv, FramesFit, OwnConnection
<1>4. CASE UNCHANGED clientVars
  BY <1>2, <1>3, <1>4 DEF clientVars
<1>5. CASE /\ pc' = [pc EXCEPT ![f.id] = "returned"]
           /\ got' = [got EXCEPT ![f.id] = f]
  <2>1. \A c \in Call : got'[c] = IF c = f.id THEN f ELSE got[c]
    BY <1>2, <1>5
  <2> QED
    BY <1>1, <1>2, <1>3, <1>5, <2>1
<1> QED
  BY <1>4, <1>5

LEMMA DeliverInv == SessionInv /\ Deliver => SessionInv'
<1> SUFFICES ASSUME SessionInv, Deliver PROVE SessionInv'
  OBVIOUS
<1> DEFINE f == Head(wire)
<1>1. /\ wire # <<>> /\ wire' = Tail(wire) /\ Return(f)
      /\ UNCHANGED <<fixed, link, serverVars, streamVars>>
  BY DEF Deliver
<1>2. wire \in Seq(Frame)
  BY DEF SessionInv, SessionTypeOK
<1>3. /\ f \in Frame /\ f = wire[1] /\ 1 \in 1..Len(wire)
      /\ wire' \in Seq(Frame)
      /\ \A i \in 1..Len(wire') : wire'[i] = wire[i + 1] /\ i + 1 \in 1..Len(wire)
  BY <1>1, <1>2, HeadTailProperties
<1>4. Fit(f) /\ OnSession(f.id)
  BY <1>3 DEF SessionInv, FramesFit, OwnConnection
<1> HIDE DEF f
<1>5. \/ UNCHANGED clientVars
      \/ /\ pc' = [pc EXCEPT ![f.id] = "returned"]
         /\ got' = [got EXCEPT ![f.id] = f]
  BY <1>1 DEF Return
<1>6. /\ pc' \in [Call -> {"idle", "waiting", "returned"}]
      /\ got' \in [Call -> Frame \cup {NoFrame}]
      /\ \A c \in Call : got'[c] # NoFrame => got'[c].id = c /\ Fit(got'[c])
      /\ \A c \in Call : got'[c] # NoFrame /\ ~OnSession(c) =>
           got'[c].from = c /\ got'[c].body \in Answers
  BY <1>1, <1>3, <1>4, <1>5, AnswerFits
<1> USE DEF SessionInv, fixed, serverVars, streamVars
<1>7. SessionTypeOK'
  BY <1>1, <1>3, <1>6 DEF SessionTypeOK
<1>8. FramesFit' /\ OwnConnection'
  BY <1>1, <1>3, <1>6 DEF FramesFit, OwnConnection, Fit, OnSession
<1>9. ResponsesFit' /\ StreamsFit' /\ LastKnown' /\ IdsOnSession'
  BY <1>1 DEF ResponsesFit, StreamsFit, LastKnown, IdsOnSession, OnSession
<1> QED
  BY <1>7, <1>8, <1>9

LEMMA ReceiveInv ==
  ASSUME SessionInv, NEW c \in Call, Receive(c)
  PROVE  SessionInv'
<1>1. /\ srv[c] = "none" /\ srv' = [srv EXCEPT ![c] = "received"]
      /\ lastId' = IF OnSession(c) THEN c ELSE lastId
      /\ UNCHANGED <<fixed, link, response, streamVars, clientVars, wire>>
  BY DEF Receive
<1> USE DEF SessionInv, fixed, streamVars, clientVars
<1>2. SessionTypeOK'
  BY <1>1 DEF SessionTypeOK
<1>3. FramesFit' /\ OwnConnection'
  BY <1>1 DEF FramesFit, OwnConnection, Fit, OnSession
<1>4. \A d \in Call : srv'[d] = IF d = c THEN "received" ELSE srv[d]
  BY <1>1 DEF SessionTypeOK
<1>5. ResponsesFit' /\ StreamsFit' /\ LastKnown' /\ IdsOnSession'
  BY <1>1, <1>4 DEF ResponsesFit, StreamsFit, LastKnown, IdsOnSession, OnSession
<1> QED
  BY <1>2, <1>3, <1>5

LEMMA ServeInv ==
  ASSUME SessionInv, NEW c \in Call, Serve(c)
  PROVE  SessionInv'
<1>1. PICK body \in MayAnswer(c), authRequired \in BOOLEAN :
        /\ response' = [response EXCEPT ![c] =
                          [id |-> ResponseId(c), from |-> c, body |-> body]]
        /\ gor' = IF method[c] = "stream" /\ body = "task" /\ ~authRequired
                  THEN [gor EXCEPT ![c] = "status"] ELSE gor
  BY DEF Serve
<1>2. /\ srv[c] = "received" /\ srv' = [srv EXCEPT ![c] = "answered"]
      /\ UNCHANGED <<fixed, link, lastId, eventId, clientVars, wire>>
  BY DEF Serve
<1>3. body \in Answers
  BY DEF MayAnswer, Answers
<1> USE DEF SessionInv, fixed, clientVars
<1> DEFINE f == [id |-> c, from |-> c, body |-> body]
<1>4. f \in Frame
  BY <1>3 DEF Frame
<1>5. /\ \A d \in Call : srv'[d] = IF d = c THEN "answered" ELSE srv[d]
      /\ \A d \in Call : response'[d] = IF d = c THEN f ELSE response[d]
      /\ \A d \in Call : gor'[d] # gor[d] => d = c /\ method[c] = "stream"
  BY <1>1, <1>2 DEF SessionTypeOK, ResponseId
<1>6. SessionTypeOK'
  <2>1. response' \in [Call -> Frame \cup {NoFrame}]
    BY <1>1, <1>4 DEF SessionTypeOK, ResponseId
  <2>2. gor' \in [Call -> Events \cup {"none", "end"}]
    BY <1>1 DEF SessionTypeOK, Events
  <2> QED
    BY <1>2, <2>1, <2>2 DEF SessionTypeOK
<1>7. FramesFit' /\ OwnConnection'
  BY <1>2 DEF FramesFit, OwnConnection, Fit, OnSession
<1>8. ResponsesFit'
  BY <1>2, <1>3, <1>4, <1>5 DEF ResponsesFit
<1>9. LastKnown'
  BY <1>2, <1>5 DEF LastKnown, OnSession
<1>10. IdsOnSession'
  <2> SUFFICES ASSUME NEW d \in Call, gor'[d] \notin Events
               PROVE  eventId'[d] = NoCall
    BY DEF IdsOnSession
  <2>1. gor[d] \notin Events
    BY <1>1, <1>2 DEF SessionTypeOK, Events
  <2> QED
    BY <1>2, <2>1 DEF IdsOnSession
<1>11. StreamsFit'
  <2> SUFFICES ASSUME NEW d \in Call, gor'[d] \in Events
               PROVE  /\ method'[d] = "stream" /\ lastId' # NoCall
                      /\ eventId'[d] # NoCall /\ ctxHasId' => eventId'[d] = d
    BY DEF StreamsFit
  <2>1. CASE gor'[d] = gor[d]
    BY <1>2, <2>1 DEF StreamsFit
  <2>2. CASE gor'[d] # gor[d]
    <3>1. d = c /\ method[c] = "stream"
      BY <1>5, <2>2
    <3>2. lastId # NoCall
      BY <1>2, <3>1 DEF LastKnown, OnSession
    <3>3. eventId[d] # NoCall /\ ctxHasId => eventId[d] = d
      BY DEF StreamsFit, IdsOnSession
    <3> QED
      BY <1>2, <3>1, <3>2, <3>3
  <2> QED
    BY <2>1, <2>2
<1> QED
  BY <1>6, <1>7, <1>8, <1>9, <1>10, <1>11

\* A frame that fits is put on the wire.
LEMMA WireFits ==
  ASSUME SessionInv, NEW f \in Frame, Fit(f), OnSession(f.id),
         wire' = Append(wire, f), UNCHANGED <<fixed, got>>
  PROVE  /\ wire' \in Seq(Frame)
         /\ FramesFit'
         /\ \A i \in 1..Len(wire') : OnSession(wire'[i].id)
<1>1. wire \in Seq(Frame)
  BY DEF SessionInv, SessionTypeOK
<1>2. /\ wire' \in Seq(Frame) /\ Len(wire') = Len(wire) + 1
      /\ wire'[Len(wire) + 1] = f
      /\ \A i \in 1..Len(wire) : wire'[i] = wire[i]
  BY <1>1, AppendProperties
<1>3. \A i \in 1..Len(wire') : i \in 1..Len(wire) \/ i = Len(wire) + 1
  BY <1>1, <1>2
<1>4. \A i \in 1..Len(wire') : Fit(wire'[i]) /\ OnSession(wire'[i].id)
  BY <1>2, <1>3 DEF SessionInv, FramesFit, OwnConnection
<1>5. FramesFit'
  BY <1>4 DEF SessionInv, FramesFit, Fit, fixed
<1> QED
  BY <1>2, <1>4, <1>5

LEMMA WriteResponseInv ==
  ASSUME SessionInv, NEW c \in Call, WriteResponse(c)
  PROVE  SessionInv'
<1> DEFINE f == response[c]
<1>1. /\ srv[c] = "answered" /\ srv' = [srv EXCEPT ![c] = "written"]
      /\ UNCHANGED <<fixed, link, response, lastId, streamVars>>
  BY DEF WriteResponse, Exchange
<1>2. /\ f \in Frame /\ f.id = c /\ f.from = c /\ f.body \in Answers
      /\ Fit(f)
  BY <1>1 DEF SessionInv, ResponsesFit, Fit, Answers, Events
<1>3. \A d \in Call : srv'[d] = IF d = c THEN "written" ELSE srv[d]
  BY <1>1 DEF SessionInv, SessionTypeOK
<1>4. ResponsesFit' /\ StreamsFit' /\ LastKnown' /\ IdsOnSession'
  BY <1>1, <1>3 DEF SessionInv, ResponsesFit, StreamsFit, LastKnown,
                    IdsOnSession, OnSession, fixed, streamVars
<1>5. CASE OnSession(c)
  <2>1. wire' = Append(wire, f) /\ UNCHANGED clientVars
    BY <1>5 DEF WriteResponse, Exchange
  <2>2. /\ wire' \in Seq(Frame) /\ FramesFit'
        /\ \A i \in 1..Len(wire') : OnSession(wire'[i].id)
    BY <1>1, <1>2, <1>5, <2>1, WireFits DEF clientVars
  <2>3. SessionTypeOK'
    BY <1>1, <2>1, <2>2 DEF SessionInv, SessionTypeOK, fixed, streamVars, clientVars
  <2>4. OwnConnection'
    BY <1>1, <2>1, <2>2 DEF SessionInv, OwnConnection, OnSession, fixed,
                            streamVars, clientVars
  <2> QED
    BY <1>4, <2>2, <2>3, <2>4 DEF SessionInv
<1>6. CASE ~OnSession(c)
  <2>1. /\ UNCHANGED wire
        /\ \/ UNCHANGED clientVars
           \/ /\ pc' = [pc EXCEPT ![f.id] = "returned"]
              /\ got' = [got EXCEPT ![f.id] = f]
    BY <1>2, <1>6 DEF WriteResponse, Exchange
  <2> HIDE DEF f
  <2>2. /\ pc' \in [Call -> {"idle", "waiting", "returned"}]
        /\ got' \in [Call -> Frame \cup {NoFrame}]
        /\ \A d \in Call : got'[d] # NoFrame => got'[d].id = d /\ Fit(got'[d])
        /\ \A d \in Call : got'[d] # NoFrame /\ ~OnSession(d) =>
             got'[d].from = d /\ got'[d].body \in Answers
    BY <1>1, <1>2, <2>1, AnswerFits
  <2>3. SessionTypeOK'
    BY <1>1, <2>1, <2>2 DEF SessionInv, SessionTypeOK, fixed, streamVars
  <2>4. FramesFit' /\ OwnConnection'
    BY <1>1, <2>1, <2>2 DEF SessionInv, FramesFit, OwnConnection, Fit, OnSession,
                            fixed, streamVars
  <2> QED
    BY <1>4, <2>3, <2>4 DEF SessionInv
<1> QED
  BY <1>5, <1>6

LEMMA ReadEventIdInv ==
  ASSUME SessionInv, NEW c \in Call, ReadEventId(c)
  PROVE  SessionInv'
<1>1. /\ gor[c] \in Events
      /\ eventId' = [eventId EXCEPT ![c] = EventId(c)]
      /\ UNCHANGED <<fixed, link, serverVars, gor, clientVars, wire>>
  BY DEF ReadEventId
<1>2. /\ method[c] = "stream" /\ lastId # NoCall
  BY <1>1 DEF SessionInv, StreamsFit
<1>3. /\ EventId(c) \in Call /\ OnSession(EventId(c))
      /\ ctxHasId => EventId(c) = c
  BY <1>2 DEF EventId, SessionInv, SessionTypeOK, OwnConnection, OnSession
<1>4. \A d \in Call : eventId'[d] = IF d = c THEN EventId(c) ELSE eventId[d]
  BY <1>1 DEF SessionInv, SessionTypeOK
<1> USE DEF SessionInv, fixed, serverVars, clientVars
<1>5. SessionTypeOK'
  BY <1>1, <1>3 DEF SessionTypeOK
<1>6. FramesFit' /\ OwnConnection'
  BY <1>1, <1>3, <1>4 DEF FramesFit, OwnConnection, Fit, OnSession
<1>7. ResponsesFit' /\ LastKnown'
  BY <1>1 DEF ResponsesFit, LastKnown, OnSession
<1>8. StreamsFit' /\ IdsOnSession'
  BY <1>1, <1>3, <1>4 DEF StreamsFit, IdsOnSession
<1> QED
  BY <1>5, <1>6, <1>7, <1>8

LEMMA SendEventInv ==
  ASSUME SessionInv, NEW c \in Call, SendEvent(c)
  PROVE  SessionInv'
<1> DEFINE f == [id |-> eventId[c], from |-> c, body |-> gor[c]]
<1>1. /\ gor[c] \in Events /\ eventId[c] # NoCall
      /\ wire' = Append(wire, f)
      /\ gor' = [gor EXCEPT ![c] = After(gor[c])]
      /\ eventId' = [eventId EXCEPT ![c] = NoCall]
      /\ UNCHANGED <<fixed, link, serverVars, clientVars>>
  BY DEF SendEvent
<1>2. /\ method[c] = "stream" /\ eventId[c] \in Call
      /\ ctxHasId => eventId[c] = c
      /\ OnSession(eventId[c])
  BY <1>1 DEF SessionInv, SessionTypeOK, StreamsFit, OwnConnection
<1>3. f \in Frame /\ Fit(f) /\ OnSession(f.id)
  BY <1>1, <1>2 DEF Frame, Fit, Answers, Events
<1>4. /\ wire' \in Seq(Frame) /\ FramesFit'
      /\ \A i \in 1..Len(wire') : OnSession(wire'[i].id)
  BY <1>1, <1>3, WireFits DEF clientVars
<1>5. After(gor[c]) \in Events \cup {"end"}
  BY <1>1 DEF After, Events
<1>6. /\ \A d \in Call : eventId'[d] = IF d = c THEN NoCall ELSE eventId[d]
      /\ \A d \in Call : gor'[d] = IF d = c THEN After(gor[c]) ELSE gor[d]
  BY <1>1 DEF SessionInv, SessionTypeOK
<1> HIDE DEF f
<1> USE DEF SessionInv, fixed, serverVars, clientVars
<1>7. SessionTypeOK'
  BY <1>1, <1>4, <1>5 DEF SessionTypeOK
<1>8. OwnConnection'
  BY <1>1, <1>4, <1>6 DEF OwnConnection, OnSession
<1>9. ResponsesFit' /\ LastKnown'
  BY <1>1 DEF ResponsesFit, LastKnown, OnSession
<1>10. StreamsFit' /\ IdsOnSession'
  BY <1>1, <1>2, <1>6 DEF StreamsFit, IdsOnSession
<1> QED
  BY <1>4, <1>7, <1>8, <1>9, <1>10

LEMMA SessionNextInv == SessionInv /\ [Next]_vars => SessionInv'
<1> SUFFICES ASSUME SessionInv, [Next]_vars PROVE SessionInv'
  OBVIOUS
<1>0. link \in {"none", "failed", "up"}
      /\ pc \in [Call -> {"idle", "waiting", "returned"}]
  BY DEF SessionInv, SessionTypeOK
<1>1. CASE Connect
  BY <1>0, <1>1, QuietSession DEF Connect, clientVars
<1>2. CASE Wait \/ UNCHANGED vars
  BY <1>0, <1>2, QuietSession DEF Wait, vars, clientVars
<1>3. ASSUME NEW c \in Call, Start(c) \/ GiveUp(c) PROVE SessionInv'
  <2>1. pc' \in [Call -> {"idle", "waiting", "returned"}]
    BY <1>0, <1>3 DEF Start, GiveUp
  <2> QED
    BY <1>0, <1>3, <2>1, QuietSession DEF Start, GiveUp
<1>4. ASSUME NEW c \in Call, Receive(c) \/ Attend(c) PROVE SessionInv'
  BY <1>4, ReceiveInv, ServeInv, WriteResponseInv, ReadEventIdInv, SendEventInv
     DEF Attend
<1> QED
  BY <1>1, <1>2, <1>3, <1>4, DeliverInv DEF Next

LEMMA SessionInvariant == Spec => []SessionInv
BY SessionInitInv, SessionNextInv, PTL DEF Spec

-----------------------------------------------------------------------------
\* The session and its calls keep their types.
THEOREM SessionTypeCorrect == Spec => []SessionTypeOK
<1>1. SessionInv => SessionTypeOK
  BY DEF SessionInv
<1> QED
  BY <1>1, SessionInvariant, PTL

\* Where handlers know the id of their request, a call returns what was sent
\* on its behalf (sse_stream.go:15-24), however many overlap.
THEOREM CallsGetTheirOwn == Spec => []OwnAnswer
<1>1. ASSUME SessionInv, NEW c \in Call, Answered(c), ctxHasId \/ ~OnSession(c)
      PROVE  got[c].from = c /\ (method[c] # "stream" => got[c].body \in Answers)
  <2>1. got[c] \in Frame /\ got[c].id = c /\ Fit(got[c])
    BY <1>1 DEF SessionInv, SessionTypeOK, FramesFit, Answered
  <2>2. got[c].body \in Answers \cup Events
    BY <2>1 DEF Frame
  <2>3. CASE ctxHasId
    BY <2>1, <2>2, <2>3 DEF Fit
  <2>4. CASE ~OnSession(c)
    BY <1>1, <2>4 DEF SessionInv, OwnConnection, Answered
  <2> QED
    BY <1>1, <2>3, <2>4
<1>2. SessionInv => OwnAnswer
  BY <1>1 DEF OwnAnswer
<1> QED
  BY <1>2, SessionInvariant, PTL

\* A response never answers another call (rpc_handler.go:13), whatever the
\* events of streams do.
THEOREM ResponsesArriveHome == Spec => []OnlyEventsStray
<1>1. ASSUME SessionInv, NEW c \in Call, Answered(c), got[c].from # c
      PROVE  got[c].body \in Events /\ method[got[c].from] = "stream"
  <2>1. got[c] \in Frame /\ got[c].id = c /\ Fit(got[c])
    BY <1>1 DEF SessionInv, SessionTypeOK, FramesFit, Answered
  <2>2. got[c].body \in Answers \cup Events
    BY <2>1 DEF Frame
  <2> QED
    BY <1>1, <2>1, <2>2 DEF Fit
<1>2. SessionInv => OnlyEventsStray
  BY <1>1 DEF OnlyEventsStray
<1> QED
  BY <1>2, SessionInvariant, PTL
-----------------------------------------------------------------------------
(***************************************************************************)
(* What has been said on behalf of each call.  The second inductive        *)
(* invariant rests on the first: events follow an acceptance, the service  *)
(* says nothing for a call nobody made, the frames under way carry what    *)
(* has been said, and a written response that its call still waits for is  *)
(* among them.                                                             *)
(***************************************************************************)
StreamsAccepted ==
  \A c \in Call : gor[c] # "none" =>
    method[c] = "stream" /\ srv[c] \in Spoke /\ response[c].body = "task"
AskedFirst == \A c \in Call : pc[c] = "idle" => srv[c] = "none"
FramesSaid == \A i \in 1..Len(wire), c \in Call :
  wire[i].from = c => wire[i].body \in Said(c)

SaidInv == StreamsAccepted /\ AskedFirst /\ FramesSaid /\ AnswerComes

SaidStays(c) == Said(c)' = Said(c)
ResultStays(c) == Result(c)' = Result(c)

LEMMA NothingElseSaid ==
  ASSUME UNCHANGED <<gor, response>>,
         \A c \in Call : srv'[c] = srv[c] \/ (srv[c] \in Spoke <=> srv'[c] \in Spoke)
  PROVE  \A c \in Call : SaidStays(c)
<1> SUFFICES ASSUME NEW c \in Call PROVE SaidStays(c)
  OBVIOUS
<1>1. srv[c] \in Spoke <=> srv'[c] \in Spoke
  OBVIOUS
<1> QED
  BY <1>1 DEF SaidStays, Said, Sent, Spoke

LEMMA ResultsStay ==
  ASSUME UNCHANGED got
  PROVE  \A c \in Call : ResultStays(c)
BY DEF ResultStays, Result

\* The response is the first that is said of a call.
LEMMA ServeSays ==
  ASSUME SessionInv, SaidInv, NEW c \in Call, Serve(c)
  PROVE  /\ Said(c) = {}
         /\ \E body \in MayAnswer(c) :
              /\ Said(c)' = {body}
              /\ response'[c].body = body
              /\ gor'[c] # "none" => method[c] = "stream" /\ body = "task"
         /\ \A d \in Call \ {c} : /\ SaidStays(d)
                                  /\ gor'[d] = gor[d]
                                  /\ response'[d] = response[d]
<1>1. PICK body \in MayAnswer(c), authRequired \in BOOLEAN :
        /\ response' = [response EXCEPT ![c] =
                          [id |-> ResponseId(c), from |-> c, body |-> body]]
        /\ gor' = IF method[c] = "stream" /\ body = "task" /\ ~authRequired
                  THEN [gor EXCEPT ![c] = "status"] ELSE gor
  BY DEF Serve
<1>2. srv[c] = "received" /\ srv' = [srv EXCEPT ![c] = "answered"]
  BY DEF Serve
<1>3. gor[c] = "none"
  BY <1>2 DEF SaidInv, StreamsAccepted, Spoke
<1>4. /\ srv \in [Call -> {"none", "received", "answered", "written"}]
      /\ response \in [Call -> Frame \cup {NoFrame}]
      /\ gor \in [Call -> Events \cup {"none", "end"}]
  BY DEF SessionInv, SessionTypeOK
<1>5. /\ srv'[c] = "answered" /\ response'[c].body = body
      /\ gor'[c] \in {"none", "status"}
      /\ gor'[c] # "none" => method[c] = "stream" /\ body = "task"
  BY <1>1, <1>2, <1>3, <1>4
<1>6. Said(c) = {} /\ Said(c)' = {body}
  BY <1>2, <1>3, <1>5 DEF Said, Sent, Spoke
<1>7. \A d \in Call \ {c} : /\ gor'[d] = gor[d] /\ response'[d] = response[d]
                            /\ srv'[d] = srv[d]
  BY <1>1, <1>2, <1>4
<1>8. \A d \in Call \ {c} : SaidStays(d)
  BY <1>7 DEF SaidStays, Said, Sent
<1> QED
  BY <1>5, <1>6, <1>7, <1>8

\* An event is said after those before it, and only of an accepted stream.
LEMMA EventSays ==
  ASSUME SessionInv, SaidInv, NEW c \in Call, SendEvent(c)
  PROVE  /\ method[c] = "stream" /\ srv[c] \in Spoke
         /\ gor[c] \in Events
         /\ Said(c) = Service!Before(gor[c])
         /\ Said(c)' = Said(c) \cup {gor[c]}
         /\ \A d \in Call \ {c} : SaidStays(d)
<1>1. /\ gor[c] \in Events
      /\ gor' = [gor EXCEPT ![c] = After(gor[c])]
      /\ UNCHANGED serverVars
  BY DEF SendEvent
<1>2. method[c] = "stream" /\ srv[c] \in Spoke /\ response[c].body = "task"
  BY <1>1 DEF SaidInv, StreamsAccepted, Events
<1>3. gor \in [Call -> Events \cup {"none", "end"}]
  BY DEF SessionInv, SessionTypeOK
<1>4. gor'[c] = After(gor[c])
  BY <1>1, <1>3
<1>5. Said(c) = Sent(c) \cup {"task"} /\ Said(c)' = Sent(c)' \cup {"task"}
  BY <1>1, <1>2 DEF Said, Spoke, serverVars
<1>6. /\ Sent(c)' = Sent(c) \cup {gor[c]}
      /\ Service!Before(gor[c]) = Sent(c) \cup {"task"}
  BY <1>1, <1>4 DEF Sent, After, Events, Service!Before
<1>7. \A d \in Call \ {c} : SaidStays(d)
  BY <1>1, <1>3 DEF SaidStays, Said, Sent, serverVars
<1> QED
  BY <1>1, <1>2, <1>5, <1>6, <1>7

LEMMA SaidInitInv == Init => SaidInv
<1> SUFFICES ASSUME Init PROVE SaidInv
  OBVIOUS
<1>1. Len(wire) = 0
  BY EmptySeq DEF Init
<1> QED
  BY <1>1 DEF Init, SaidInv, StreamsAccepted, AskedFirst, FramesSaid, AnswerComes

\* What was said stays said, so the frames under way stay good.
LEMMA FramesStaySaid ==
  ASSUME SessionInv, SaidInv, UNCHANGED wire,
         \A c \in Call : Said(c) \subseteq Said(c)'
  PROVE  FramesSaid'
BY DEF SaidInv, FramesSaid

LEMMA MoreFramesSaid ==
  ASSUME SessionInv, SaidInv, NEW f \in Frame, wire' = Append(wire, f),
         \A c \in Call : f.from = c => f.body \in Said(c)',
         \A c \in Call : Said(c) \subseteq Said(c)'
  PROVE  /\ FramesSaid'
         /\ \E i \in 1..Len(wire') : wire'[i] = f
         /\ \A i \in 1..Len(wire) : i \in 1..Len(wire') /\ wire'[i] = wire[i]
<1>1. wire \in Seq(Frame)
  BY DEF SessionInv, SessionTypeOK
<1>2. /\ Len(wire) \in Nat /\ Len(wire') = Len(wire) + 1
      /\ wire'[Len(wire) + 1] = f
      /\ \A i \in 1..Len(wire) : wire'[i] = wire[i]
  BY <1>1, AppendProperties
<1>3. \A i \in 1..Len(wire') : i \in 1..Len(wire) \/ i = Len(wire) + 1
  BY <1>2
<1>4. \A i \in 1..Len(wire'), c \in Call :
        wire'[i].from = c => wire'[i].body \in Said(c)'
  BY <1>2, <1>3 DEF SaidInv, FramesSaid
<1> QED
  BY <1>2, <1>4 DEF FramesSaid

LEMMA ServeSaid ==
  ASSUME SessionInv, SaidInv, NEW c \in Call, Serve(c)
  PROVE  SaidInv'
<1>1. /\ srv[c] = "received" /\ srv' = [srv EXCEPT ![c] = "answered"]
      /\ UNCHANGED <<fixed, link, lastId, eventId, clientVars, wire>>
  BY DEF Serve
<1>2. /\ gor'[c] # "none" => method[c] = "stream" /\ response'[c].body = "task"
      /\ \A d \in Call \ {c} : gor'[d] = gor[d] /\ response'[d] = response[d]
      /\ \A d \in Call : Said(d) \subseteq Said(d)'
  BY ServeSays DEF SaidStays
<1>3. \A d \in Call : srv'[d] = IF d = c THEN "answered" ELSE srv[d]
  BY <1>1 DEF SessionInv, SessionTypeOK
<1>4. FramesSaid'
  BY <1>1, <1>2, FramesStaySaid
<1>5. StreamsAccepted' /\ AskedFirst' /\ AnswerComes'
  BY <1>1, <1>2, <1>3 DEF SaidInv, StreamsAccepted, AskedFirst, AnswerComes,
                          Spoke, fixed, clientVars, OnSession
<1> QED
  BY <1>4, <1>5 DEF SaidInv

LEMMA SendEventSaid ==
  ASSUME SessionInv, SaidInv, NEW c \in Call, SendEvent(c)
  PROVE  SaidInv'
<1> DEFINE f == [id |-> eventId[c], from |-> c, body |-> gor[c]]
<1>1. /\ gor[c] \in Events /\ eventId[c] # NoCall
      /\ wire' = Append(wire, f)
      /\ gor' = [gor EXCEPT ![c] = After(gor[c])]
      /\ UNCHANGED <<fixed, link, serverVars, clientVars>>
  BY DEF SendEvent
<1>2. f \in Frame
  BY <1>1 DEF SessionInv, SessionTypeOK, Frame
<1>3. /\ gor[c] \in Said(c)'
      /\ \A d \in Call : Said(d) \subseteq Said(d)'
  BY EventSays DEF SaidStays
<1>4. \A d \in Call : f.from = d => f.body \in Said(d)'
  BY <1>3
<1> HIDE DEF f
<1>5. /\ FramesSaid'
      /\ \A i \in 1..Len(wire) : i \in 1..Len(wire') /\ wire'[i] = wire[i]
  BY <1>1, <1>2, <1>3, <1>4, MoreFramesSaid
<1>6. AnswerComes' /\ AskedFirst'
  BY <1>1, <1>5 DEF SaidInv, AnswerComes, AskedFirst, OnSession, fixed, serverVars,
                    clientVars
<1>7. StreamsAccepted'
  <2>1. \A d \in Call : gor'[d] # "none" => gor[d] # "none"
    BY <1>1 DEF SessionInv, SessionTypeOK, Events
  <2> QED
    BY <1>1, <2>1 DEF SaidInv, StreamsAccepted, fixed, serverVars
<1> QED
  BY <1>5, <1>6, <1>7 DEF SaidInv

LEMMA WriteResponseSaid ==
  ASSUME SessionInv, SaidInv, NEW c \in Call, WriteResponse(c)
  PROVE  SaidInv'
<1> DEFINE f == response[c]
<1>1. /\ srv[c] = "answered" /\ srv' = [srv EXCEPT ![c] = "written"]
      /\ UNCHANGED <<fixed, link, response, lastId, streamVars>>
  BY DEF WriteResponse, Exchange
<1>2. f \in Frame /\ f.id = c /\ f.from = c
  BY <1>1 DEF SessionInv, ResponsesFit
<1>3. \A d \in Call : srv'[d] = IF d = c THEN "written" ELSE srv[d]
  BY <1>1 DEF SessionInv, SessionTypeOK
<1>4. \A d \in Call : Said(d)' = Said(d)
  BY <1>1, <1>3, NothingElseSaid DEF SaidStays, Spoke, streamVars
<1>5. f.body \in Said(c)
  BY <1>1 DEF Said, Spoke
<1>6. \A d \in Call : f.from = d => f.body \in Said(d)'
  BY <1>2, <1>4, <1>5
<1>7. StreamsAccepted'
  BY <1>1, <1>3 DEF SaidInv, StreamsAccepted, Spoke, fixed, streamVars
<1>8. CASE OnSession(c)
  <2>1. wire' = Append(wire, f) /\ UNCHANGED clientVars
    BY <1>8 DEF WriteResponse, Exchange
  <2>2. /\ FramesSaid'
        /\ \E i \in 1..Len(wire') : wire'[i] = f
        /\ \A i \in 1..Len(wire) : i \in 1..Len(wire') /\ wire'[i] = wire[i]
    BY <1>2, <1>4, <1>6, <2>1, MoreFramesSaid
  <2>3. AnswerComes' /\ AskedFirst'
    BY <1>1, <1>2, <1>3, <1>8, <2>1, <2>2
       DEF SaidInv, AnswerComes, AskedFirst, OnSession, fixed, clientVars
  <2> QED
    BY <1>7, <2>2, <2>3 DEF SaidInv
<1>9. CASE ~OnSession(c)
  <2>1. UNCHANGED wire
    BY <1>9 DEF WriteResponse, Exchange
  <2>2. FramesSaid'
    BY <1>4, <2>1, FramesStaySaid
  <2>3. /\ \A d \in Call : pc'[d] = pc[d] \/ pc'[d] = "returned"
        /\ pc'[c] # "waiting"
    BY <1>9 DEF WriteResponse, Exchange, SessionInv, SessionTypeOK, clientVars
  <2>4. AnswerComes' /\ AskedFirst'
    BY <1>1, <1>3, <2>1, <2>3 DEF SaidInv, AnswerComes, AskedFirst, OnSession, fixed
  <2> QED
    BY <1>7, <2>2, <2>4 DEF SaidInv
<1> QED
  BY <1>8, <1>9

\* The frame that is delivered answers its call, if that still waits, and the
\* others move up.
LEMMA DeliverSaid ==
  ASSUME SessionInv, SaidInv, Deliver
  PROVE  SaidInv'
<1> DEFINE f == Head(wire)
<1>1. /\ wire # <<>> /\ wire' = Tail(wire) /\ Return(f)
      /\ UNCHANGED <<fixed, link, serverVars, streamVars>>
  BY DEF Deliver
<1>2. wire \in Seq(Frame)
  BY DEF SessionInv, SessionTypeOK
<1>3. /\ f \in Frame /\ f = wire[1] /\ Len(wire) \in Nat
      /\ Len(wire') = Len(wire) - 1
      /\ \A i \in 1..Len(wire') : wire'[i] = wire[i + 1] /\ i + 1 \in 1..Len(wire)
  BY <1>1, <1>2, HeadTailProperties
<1> HIDE DEF f
<1>4. /\ \A d \in Call : pc'[d] = pc[d] \/ pc'[d] = "returned"
      /\ pc'[f.id] # "waiting"
  BY <1>1, <1>3 DEF Return, SessionInv, SessionTypeOK, clientVars, Frame
<1>5. \A d \in Call : Said(d)' = Said(d)
  BY <1>1, NothingElseSaid DEF SaidStays, streamVars, serverVars
<1>6. FramesSaid'
  <2>1. \A i \in 1..Len(wire'), c \in Call :
          wire'[i].from = c => wire'[i].body \in Said(c)
    BY <1>3 DEF SaidInv, FramesSaid
  <2> QED
    BY <1>5, <2>1 DEF FramesSaid
<1>7. AnswerComes'
  <2> SUFFICES ASSUME NEW c \in Call, pc'[c] = "waiting", srv'[c] = "written"
               PROVE  OnSession(c)' /\ \E i \in 1..Len(wire') : wire'[i].id = c
    BY DEF AnswerComes
  <2>1. pc[c] = "waiting" /\ srv[c] = "written" /\ c # f.id
    BY <1>1, <1>4 DEF serverVars
  <2>2. PICK i \in 1..Len(wire) : wire[i].id = c
    BY <2>1 DEF SaidInv, AnswerComes
  <2>3. i # 1 /\ i - 1 \in 1..Len(wire') /\ wire'[i - 1] = wire[i]
    BY <1>3, <2>1, <2>2
  <2>4. OnSession(c)'
    BY <1>1, <2>1 DEF SaidInv, AnswerComes, OnSession, fixed
  <2> QED
    BY <2>2, <2>3, <2>4
<1>8. StreamsAccepted' /\ AskedFirst'
  BY <1>1, <1>4 DEF SaidInv, StreamsAccepted, AskedFirst, fixed, serverVars, streamVars
<1> QED
  BY <1>6, <1>7, <1>8 DEF SaidInv

\* Steps that say nothing and move no frame.
LEMMA SilentSaid ==
  ASSUME SessionInv, SaidInv, UNCHANGED <<fixed, response, gor, wire>>,
         \A c \in Call : \/ srv'[c] = srv[c]
                         \/ pc[c] # "idle" /\ srv[c] = "none" /\ srv'[c] = "received",
         \A c \in Call : pc'[c] \in {pc[c], "returned"} \/ srv'[c] = "none",
         \A c \in Call : pc'[c] = "idle" => pc[c] = "idle"
  PROVE  SaidInv' /\ \A c \in Call : SaidStays(c)
<1>1. \A c \in Call : SaidStays(c)
  BY NothingElseSaid DEF Spoke
<1>2. FramesSaid'
  BY <1>1, FramesStaySaid DEF SaidStays
<1>3. StreamsAccepted'
  BY DEF SaidInv, StreamsAccepted, Spoke, fixed
<1>4. AskedFirst' /\ AnswerComes'
  BY DEF SaidInv, AskedFirst, AnswerComes, OnSession, fixed
<1> QED
  BY <1>1, <1>2, <1>3, <1>4 DEF SaidInv

LEMMA SaidNextInv == SessionInv /\ SaidInv /\ [Next]_vars => SaidInv'
<1> SUFFICES ASSUME SessionInv, SaidInv, [Next]_vars PROVE SaidInv'
  OBVIOUS
<1>0. /\ pc \in [Call -> {"idle", "waiting", "returned"}]
      /\ srv \in [Call -> {"none", "received", "answered", "written"}]
  BY DEF SessionInv, SessionTypeOK
<1>1. CASE Connect \/ Wait \/ UNCHANGED vars
  BY <1>1, SilentSaid DEF Connect, Wait, vars, clientVars, serverVars, streamVars
<1>2. ASSUME NEW c \in Call, Start(c) PROVE SaidInv'
  <2>1. /\ \A d \in Call : pc'[d] = IF d = c THEN "waiting" ELSE pc[d]
        /\ srv[c] = "none"
    BY <1>0, <1>2 DEF Start, SaidInv, AskedFirst
  <2> QED
    BY <1>2, <2>1, SilentSaid DEF Start, serverVars, streamVars
<1>3. ASSUME NEW c \in Call, GiveUp(c) PROVE SaidInv'
  <2>1. \A d \in Call : pc'[d] = IF d = c THEN "returned" ELSE pc[d]
    BY <1>0, <1>3 DEF GiveUp
  <2> QED
    BY <1>3, <2>1, SilentSaid DEF GiveUp, serverVars, streamVars
<1>4. ASSUME NEW c \in Call, Receive(c) PROVE SaidInv'
  <2>1. \A d \in Call : srv'[d] = IF d = c THEN "received" ELSE srv[d]
    BY <1>0, <1>4 DEF Receive
  <2> QED
    BY <1>4, <2>1, SilentSaid DEF Receive, streamVars, clientVars
<1>5. ASSUME NEW c \in Call, ReadEventId(c) PROVE SaidInv'
  BY <1>5, SilentSaid DEF ReadEventId, serverVars, clientVars
<1> QED
  BY <1>1, <1>2, <1>3, <1>4, <1>5, DeliverSaid, ServeSaid, WriteResponseSaid,
     SendEventSaid DEF Next, Attend

LEMMA SaidInvariant == Spec => [](SessionInv /\ SaidInv)
<1>1. Init => SessionInv /\ SaidInv
  BY SessionInitInv, SaidInitInv
<1>2. SessionInv /\ SaidInv /\ [Next]_vars => SessionInv' /\ SaidInv'
  BY SessionNextInv, SaidNextInv
<1> QED
  BY <1>1, <1>2, PTL DEF Spec

\* No answer is lost (client/stream.go:117, 137, 151; rpc_handler.go:13): a
\* call that still waits after its response was written has something under
\* its id on the way, however many calls overlap.
THEOREM AnswersAreOnTheWay == Spec => []AnswerComes
<1>1. SessionInv /\ SaidInv => AnswerComes
  BY DEF SaidInv
<1> QED
  BY <1>1, SaidInvariant, PTL

-----------------------------------------------------------------------------
(***************************************************************************)
(* The session implements CallService: the actions of the service, told    *)
(* call by call, and then the step of the session that takes each.         *)
(***************************************************************************)
LEMMA ServiceStutters ==
  ASSUME UNCHANGED <<fixed, pc>>,
         \A c \in Call : SaidStays(c) /\ ResultStays(c)
  PROVE  UNCHANGED Service!serviceVars
BY DEF Service!serviceVars, SaidStays, ResultStays, fixed

LEMMA ServiceAsks ==
  ASSUME NEW c \in Call, pc[c] = "idle",
         pc' = [pc EXCEPT ![c] = "waiting"], UNCHANGED fixed,
         \A d \in Call : SaidStays(d) /\ ResultStays(d)
  PROVE  Service!Ask(c)
BY DEF Service!Ask, SaidStays, ResultStays, fixed

LEMMA ServiceAbandons ==
  ASSUME NEW c \in Call, pc[c] = "waiting",
         pc' = [pc EXCEPT ![c] = "returned"], UNCHANGED fixed,
         \A d \in Call : SaidStays(d) /\ ResultStays(d)
  PROVE  Service!Abandon(c)
BY DEF Service!Abandon, SaidStays, ResultStays, fixed

LEMMA ServiceSays ==
  ASSUME NEW c \in Call, NEW x, pc[c] # "idle", Said(c) = Service!Before(x),
         x \in Events => method[c] = "stream",
         UNCHANGED <<fixed, pc>>,
         Said(c)' = Said(c) \cup {x},
         \A d \in Call \ {c} : SaidStays(d),
         \A d \in Call : ResultStays(d)
  PROVE  Service!Say(c, x)
BY DEF Service!Say, Service!StreamEvents, Events, SaidStays, ResultStays, fixed

LEMMA ServiceHands ==
  ASSUME NEW c \in Call, NEW d \in Call, NEW x, pc[c] = "waiting", x \in Said(d),
         d # c => ~ctxHasId /\ method[c] # "rpc" /\ x \in Events,
         pc' = [pc EXCEPT ![c] = "returned"], UNCHANGED fixed,
         Result(c)' = [from |-> d, body |-> x],
         \A e \in Call \ {c} : ResultStays(e),
         \A e \in Call : SaidStays(e)
  PROVE  Service!Hand(c, d, x)
BY DEF Service!Hand, Service!MayHand, Service!StreamEvents, Events, SaidStays,
       ResultStays, fixed
\* The frame a call returns with is one the service may hand it.
LEMMA FrameIsHanded ==
  ASSUME SessionInv, NEW f \in Frame, Fit(f),
         ~OnSession(f.id) => f.from = f.id,
         \A d \in Call : f.from = d => f.body \in Said(d),
         pc[f.id] = "waiting",
         pc' = [pc EXCEPT ![f.id] = "returned"],
         got' = [got EXCEPT ![f.id] = f],
         UNCHANGED fixed, \A c \in Call : SaidStays(c)
  PROVE  Service!Next
<1>1. PICK c \in Call, d \in Call, x \in Answers \cup Events :
        c = f.id /\ d = f.from /\ x = f.body
  BY DEF Frame
<1>2. d # c => ~ctxHasId /\ method[c] # "rpc" /\ x \in Events
  BY <1>1 DEF Fit, OnSession
<1>3. got \in [Call -> Frame \cup {NoFrame}]
  BY DEF SessionInv, SessionTypeOK
<1>4. got'[c] = f /\ \A e \in Call \ {c} : got'[e] = got[e]
  BY <1>1, <1>3
<1>5. /\ Result(c)' = [from |-> d, body |-> x]
      /\ \A e \in Call \ {c} : ResultStays(e)
  BY <1>1, <1>4, NoFrameFacts DEF Result, ResultStays
<1>6. Service!Hand(c, d, x)
  BY <1>1, <1>2, <1>5, ServiceHands
<1>7. x \in Service!StreamEvents \cup {"task", "error"}
  BY DEF Service!StreamEvents, Events, Answers
<1> QED
  BY <1>6, <1>7 DEF Service!Next

LEMMA DeliverIsService ==
  ASSUME SessionInv, SaidInv, Deliver
  PROVE  Service!Next \/ UNCHANGED Service!serviceVars
<1> DEFINE f == Head(wire)
<1>1. /\ wire # <<>> /\ Return(f)
      /\ UNCHANGED <<fixed, link, serverVars, streamVars>>
  BY DEF Deliver
<1>2. wire \in Seq(Frame)
  BY DEF SessionInv, SessionTypeOK
<1>3. f \in Frame /\ f = wire[1] /\ 1 \in 1..Len(wire)
  BY <1>1, <1>2, HeadTailProperties
<1>4. /\ Fit(f) /\ OnSession(f.id)
      /\ \A d \in Call : f.from = d => f.body \in Said(d)
  BY <1>3 DEF SessionInv, FramesFit, OwnConnection, SaidInv, FramesSaid
<1> HIDE DEF f
<1>5. \A c \in Call : SaidStays(c)
  BY <1>1, NothingElseSaid DEF serverVars, streamVars
<1>6. CASE pc[f.id] = "waiting"
  BY <1>1, <1>3, <1>4, <1>5, <1>6, FrameIsHanded DEF Return
<1>7. CASE pc[f.id] # "waiting"
  BY <1>1, <1>5, <1>7, ResultsStay, ServiceStutters DEF Return, clientVars
<1> QED
  BY <1>6, <1>7

LEMMA WriteResponseIsService ==
  ASSUME SessionInv, SaidInv, NEW c \in Call, WriteResponse(c)
  PROVE  Service!Next \/ UNCHANGED Service!serviceVars
<1> DEFINE f == response[c]
<1>1. /\ srv[c] = "answered" /\ srv' = [srv EXCEPT ![c] = "written"]
      /\ UNCHANGED <<fixed, link, response, lastId, streamVars>>
  BY DEF WriteResponse, Exchange
<1>2. /\ f \in Frame /\ f.id = c /\ f.from = c /\ f.body \in Answers
      /\ Fit(f)
  BY <1>1 DEF SessionInv, ResponsesFit, Fit, Answers, Events
<1>3. \A d \in Call : srv'[d] = IF d = c THEN "written" ELSE srv[d]
  BY <1>1 DEF SessionInv, SessionTypeOK
<1>4. \A d \in Call : SaidStays(d)
  BY <1>1, <1>3, NothingElseSaid DEF Spoke, streamVars
<1>5. f.body \in Said(c)
  BY <1>1 DEF Said, Spoke
<1> HIDE DEF f
<1>6. CASE ~OnSession(c) /\ pc[c] = "waiting"
  <2>1. /\ pc' = [pc EXCEPT ![f.id] = "returned"]
        /\ got' = [got EXCEPT ![f.id] = f]
    BY <1>2, <1>6 DEF WriteResponse, Exchange, f
  <2> QED
    BY <1>1, <1>2, <1>4, <1>5, <1>6, <2>1, FrameIsHanded
<1>7. CASE OnSession(c) \/ pc[c] # "waiting"
  <2>1. UNCHANGED clientVars
    BY <1>7 DEF WriteResponse, Exchange
  <2> QED
    BY <1>1, <1>4, <2>1, ResultsStay, ServiceStutters DEF clientVars
<1> QED
  BY <1>6, <1>7

LEMMA ServeIsService ==
  ASSUME SessionInv, SaidInv, NEW c \in Call, Serve(c)
  PROVE  Service!Next
<1>1. PICK body \in MayAnswer(c) :
        Said(c) = {} /\ Said(c)' = {body} /\ \A d \in Call \ {c} : SaidStays(d)
  BY ServeSays
<1>2. body \in Answers
  BY DEF MayAnswer, Answers
<1>3. /\ srv[c] = "received"
      /\ UNCHANGED <<fixed, pc, got>>
  BY DEF Serve, clientVars
<1>4. pc[c] # "idle"
  BY <1>3 DEF SaidInv, AskedFirst
<1>5. /\ Said(c) = Service!Before(body) /\ Said(c)' = Said(c) \cup {body}
      /\ body \notin Events
  BY <1>1, <1>2 DEF Service!Before, Answers, Events
<1>6. Service!Say(c, body)
  BY <1>1, <1>3, <1>4, <1>5, ResultsStay, ServiceSays
<1>7. body \in Service!StreamEvents \cup {"task", "error"}
  BY <1>2 DEF Answers
<1> QED
  BY <1>6, <1>7 DEF Service!Next

LEMMA SendEventIsService ==
  ASSUME SessionInv, SaidInv, NEW c \in Call, SendEvent(c)
  PROVE  Service!Next
<1> DEFINE x == gor[c]
<1>1. /\ method[c] = "stream" /\ srv[c] \in Spoke /\ x \in Events
      /\ Said(c) = Service!Before(x) /\ Said(c)' = Said(c) \cup {x}
      /\ \A d \in Call \ {c} : SaidStays(d)
  BY EventSays
<1>2. UNCHANGED <<fixed, pc, got>>
  BY DEF SendEvent, clientVars
<1>3. pc[c] # "idle"
  BY <1>1 DEF SaidInv, AskedFirst, Spoke
<1> HIDE DEF x
<1>4. Service!Say(c, x)
  BY <1>1, <1>2, <1>3, ResultsStay, ServiceSays
<1>5. x \in Service!StreamEvents \cup {"task", "error"}
  BY <1>1 DEF Service!StreamEvents, Events
<1> QED
  BY <1>4, <1>5 DEF Service!Next

LEMMA ServiceStep ==
  SessionInv /\ SaidInv /\ [Next]_vars => [Service!Next]_Service!serviceVars
<1> SUFFICES ASSUME SessionInv, SaidInv, [Next]_vars
             PROVE  Service!Next \/ UNCHANGED Service!serviceVars
  OBVIOUS
<1>0. srv \in [Call -> {"none", "received", "answered", "written"}]
  BY DEF SessionInv, SessionTypeOK
<1>1. CASE Connect \/ Wait \/ UNCHANGED vars
  <2>1. UNCHANGED <<fixed, pc, got, gor, response, srv>>
    BY <1>1 DEF Connect, Wait, vars, clientVars, serverVars, streamVars
  <2> QED
    BY <2>1, NothingElseSaid, ResultsStay, ServiceStutters
<1>2. ASSUME NEW c \in Call, Start(c) PROVE Service!Next
  <2>1. /\ pc[c] = "idle" /\ pc' = [pc EXCEPT ![c] = "waiting"]
        /\ UNCHANGED <<fixed, got, gor, response, srv>>
    BY <1>2 DEF Start, serverVars, streamVars
  <2>2. Service!Ask(c)
    BY <2>1, NothingElseSaid, ResultsStay, ServiceAsks
  <2> QED
    BY <2>2 DEF Service!Next
<1>3. ASSUME NEW c \in Call, GiveUp(c) PROVE Service!Next
  <2>1. /\ pc[c] = "waiting" /\ pc' = [pc EXCEPT ![c] = "returned"]
        /\ UNCHANGED <<fixed, got, gor, response, srv>>
    BY <1>3 DEF GiveUp, serverVars, streamVars
  <2>2. Service!Abandon(c)
    BY <2>1, NothingElseSaid, ResultsStay, ServiceAbandons
  <2> QED
    BY <2>2 DEF Service!Next
<1>4. ASSUME NEW c \in Call, Receive(c) \/ ReadEventId(c)
      PROVE  UNCHANGED Service!serviceVars
  <2>1. /\ UNCHANGED <<fixed, pc, got, gor, response>>
        /\ \A d \in Call : srv'[d] \in Spoke <=> srv[d] \in Spoke
    BY <1>0, <1>4 DEF Receive, ReadEventId, serverVars, streamVars, clientVars, Spoke
  <2> QED
    BY <2>1, NothingElseSaid, ResultsStay, ServiceStutters
<1> QED
  BY <1>1, <1>2, <1>3, <1>4, DeliverIsService, WriteResponseIsService,
     ServeIsService, SendEventIsService DEF Next, Attend

LEMMA ServiceStart == Init => Service!Init
<1> SUFFICES ASSUME Init PROVE Service!Init
  OBVIOUS
<1>1. \A c \in Call : Said(c) = {} /\ Result(c) = [from |-> "nobody"]
  BY DEF Init, Said, Sent, Result, Spoke
<1>2. method \in [Call -> {"rpc", "send", "stream", "resub"}]
  BY DEF Init, Method
<1> QED
  BY <1>1, <1>2 DEF Init, Service!Init, Service!Nothing

\* Overlapping calls, answers that events overtake, callers that give up and
\* late frames: the session implements CallService for any number of calls
\* (client/stream.go:111-160, sse_stream.go:13-33, default_ops.go:166-216).
THEOREM SessionImplementsService == Spec => CallsAreServed
<1>1. Init => Service!Init
  BY ServiceStart
<1>2. SessionInv /\ SaidInv /\ [Next]_vars => [Service!Next]_Service!serviceVars
  BY ServiceStep
<1> QED
  BY <1>1, <1>2, SaidInvariant, PTL DEF Spec, CallsAreServed, Service!Spec

-----------------------------------------------------------------------------
(***************************************************************************)
(* The server's half of the session implements CallServer, which is what   *)
(* the handlers implement as well.                                         *)
(***************************************************************************)
AnswerKept(c) == AnswerTo(c)' = AnswerTo(c)
OpenKept(c) == gor'[c] # "none" <=> gor[c] # "none"
ToldKept(c) == Told(c)' = Told(c)

LEMMA ServerKept ==
  ASSUME UNCHANGED <<streaming, method>>,
         \A c \in Call : AnswerKept(c) /\ OpenKept(c) /\ ToldKept(c)
  PROVE  UNCHANGED Server!serverVars
BY DEF Server!serverVars, AnswerKept, OpenKept, ToldKept

LEMMA NothingElseTold ==
  ASSUME UNCHANGED <<gor, response>>,
         NEW c \in Call, srv[c] \in Spoke <=> srv'[c] \in Spoke
  PROVE  AnswerKept(c) /\ OpenKept(c) /\ ToldKept(c)
BY DEF AnswerKept, OpenKept, ToldKept, AnswerTo, Told

LEMMA ServeAnswers ==
  ASSUME SessionInv, SaidInv, NEW c \in Call, Serve(c)
  PROVE  Server!Next
<1>1. PICK body \in MayAnswer(c) :
        /\ response'[c].body = body
        /\ gor'[c] # "none" => method[c] = "stream" /\ body = "task"
        /\ \A d \in Call \ {c} : gor'[d] = gor[d] /\ response'[d] = response[d]
  BY ServeSays
<1>2. /\ srv[c] = "received" /\ srv' = [srv EXCEPT ![c] = "answered"]
      /\ UNCHANGED <<streaming, method>>
  BY DEF Serve, fixed
<1>3. srv \in [Call -> {"none", "received", "answered", "written"}]
  BY DEF SessionInv, SessionTypeOK
<1>4. gor[c] = "none"
  BY <1>2 DEF SaidInv, StreamsAccepted, Spoke
<1>5. gor'[c] \in {"none", "status"}
  BY <1>4 DEF Serve, SessionInv, SessionTypeOK
<1>6. /\ AnswerTo(c) = "none" /\ AnswerTo(c)' = body
      /\ Told(c) = <<>> /\ Told(c)' = <<>>
  BY <1>1, <1>2, <1>3, <1>4, <1>5 DEF AnswerTo, Spoke, Told
<1>7. \A d \in Call \ {c} : AnswerKept(d) /\ OpenKept(d) /\ ToldKept(d)
  BY <1>1, <1>2, <1>3 DEF AnswerKept, OpenKept, ToldKept, AnswerTo, Told
<1>8. body \in {"task", "error"} /\ Server!Admitted(c, body)
  BY DEF MayAnswer, Answers, Server!Admitted
<1> DEFINE open == [d \in Call |-> gor[d] # "none"]
           openNow == [d \in Call |-> gor'[d] # "none"]
<1>9. openNow = open \/ openNow = [open EXCEPT ![c] = TRUE]
  <2>1. CASE gor'[c] # "none"
    <3>1. \A d \in Call : openNow[d] = [open EXCEPT ![c] = TRUE][d]
      BY <1>7, <2>1 DEF OpenKept
    <3> QED
      BY <3>1
  <2>2. CASE gor'[c] = "none"
    BY <1>4, <1>7, <2>2 DEF OpenKept
  <2> QED
    BY <2>1, <2>2
<1>10. openNow # open => method[c] = "stream" /\ body = "task"
  BY <1>1, <1>4, <1>7 DEF OpenKept
<1>11. openNow \in {open} \cup IF method[c] = "stream" /\ body = "task"
                               THEN {[open EXCEPT ![c] = TRUE]} ELSE {}
  BY <1>9, <1>10
<1>12. [d \in Call |-> AnswerTo(d)'] = [[d \in Call |-> AnswerTo(d)] EXCEPT ![c] = body]
  BY <1>6, <1>7 DEF AnswerKept
<1>13. [d \in Call |-> Told(d)'] = [d \in Call |-> Told(d)]
  BY <1>6, <1>7 DEF ToldKept
<1>14. Server!Answer(c, body)
  BY <1>2, <1>6, <1>8, <1>11, <1>12, <1>13 DEF Server!Answer
<1> QED
  BY <1>8, <1>14 DEF Server!Next

LEMMA SendEventTells ==
  ASSUME SessionInv, SaidInv, NEW c \in Call, SendEvent(c)
  PROVE  Server!Next
<1>1. /\ gor[c] \in Events /\ gor' = [gor EXCEPT ![c] = After(gor[c])]
      /\ UNCHANGED <<serverVars, streaming, method>>
  BY DEF SendEvent, fixed
<1>2. gor \in [Call -> Events \cup {"none", "end"}]
  BY DEF SessionInv, SessionTypeOK
<1>3. gor'[c] = After(gor[c]) /\ \A d \in Call \ {c} : gor'[d] = gor[d]
  BY <1>1, <1>2
<1>4. /\ gor[c] # "none" /\ gor'[c] # "none"
      /\ Len(Told(c)) < Len(Server!Order)
      /\ Told(c)' = Append(Told(c), Server!Order[Len(Told(c)) + 1])
  <2>1. CASE gor[c] = "status"
    BY <1>3, <2>1 DEF Told, After, Server!Order
  <2>2. CASE gor[c] = "artifact"
    BY <1>3, <2>2 DEF Told, After, Server!Order
  <2>3. CASE gor[c] = "final"
    BY <1>3, <2>3 DEF Told, After, Server!Order
  <2> QED
    BY <1>1, <2>1, <2>2, <2>3 DEF Events
<1>5. \A d \in Call : AnswerKept(d) /\ OpenKept(d)
  BY <1>1, <1>3, <1>4 DEF AnswerKept, OpenKept, AnswerTo, serverVars
<1>6. \A d \in Call \ {c} : ToldKept(d)
  BY <1>3 DEF ToldKept, Told
<1>7. [d \in Call |-> Told(d)']
        = [[d \in Call |-> Told(d)] EXCEPT
             ![c] = Append(@, Server!Order[Len(@) + 1])]
  BY <1>4, <1>6 DEF ToldKept
<1>8. /\ [d \in Call |-> AnswerTo(d)'] = [d \in Call |-> AnswerTo(d)]
      /\ [d \in Call |-> gor'[d] # "none"] = [d \in Call |-> gor[d] # "none"]
  BY <1>5 DEF AnswerKept, OpenKept
<1>9. Server!Tell(c)
  BY <1>1, <1>4, <1>7, <1>8 DEF Server!Tell
<1> QED
  BY <1>9 DEF Server!Next

LEMMA SessionServerStep ==
  SessionInv /\ SaidInv /\ [Next]_vars => [Server!Next]_Server!serverVars
<1> SUFFICES ASSUME SessionInv, SaidInv, [Next]_vars
             PROVE  Server!Next \/ UNCHANGED Server!serverVars
  OBVIOUS
<1>0. srv \in [Call -> {"none", "received", "answered", "written"}]
  BY DEF SessionInv, SessionTypeOK
<1>1. CASE Connect \/ Deliver \/ Wait \/ UNCHANGED vars
  <2>1. UNCHANGED <<streaming, method, gor, response, srv>>
    BY <1>1 DEF Connect, Deliver, Wait, vars, fixed, serverVars, streamVars
  <2> QED
    BY <2>1, NothingElseTold, ServerKept
<1>2. ASSUME NEW c \in Call,
             \/ Start(c) \/ GiveUp(c) \/ Receive(c)
             \/ WriteResponse(c) \/ ReadEventId(c)
      PROVE  UNCHANGED Server!serverVars
  <2>1. /\ UNCHANGED <<streaming, method, gor, response>>
        /\ \A d \in Call : srv'[d] \in Spoke <=> srv[d] \in Spoke
    BY <1>0, <1>2
    DEF Start, GiveUp, Receive, WriteResponse, Exchange, ReadEventId, fixed, serverVars,
        streamVars, Spoke
  <2> QED
    BY <2>1, NothingElseTold, ServerKept
<1> QED
  BY <1>1, <1>2, ServeAnswers, SendEventTells DEF Next, Attend

\* However the frames travel, what the server says to the callers of a
\* session is what CallServer lets it say (rpc_handler.go:12-39).
THEOREM SessionTellsCallers == Spec => SessionIsServed
<1>1. Init => Server!Init
  <2> SUFFICES ASSUME Init PROVE Server!Init
    OBVIOUS
  <2>1. \A c \in Call : AnswerTo(c) = "none" /\ gor[c] = "none" /\ Told(c) = <<>>
    BY DEF Init, AnswerTo, Told, Spoke
  <2>2. method \in [Call -> {"rpc", "send", "stream", "resub"}]
    BY PlansAreMethods DEF Init, Method
  <2> QED
    BY <2>1, <2>2 DEF Init, Server!Init
<1>2. SessionInv /\ SaidInv /\ [Next]_vars => [Server!Next]_Server!serverVars
  BY SessionServerStep
<1> QED
  BY <1>1, <1>2, SaidInvariant, PTL DEF Spec, SessionIsServed, Server!Spec
=============================================================================
