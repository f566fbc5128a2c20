----------------------------- MODULE Discovery -----------------------------
(***************************************************************************)
(* How an application starts a server and how clients learn what it can    *)
(* do.  The application has a card and variables its capabilities point    *)
(* to (README.md:44-80, cmd/a2a-server/main.go); New copies the card       *)
(* (server/jsonrpc.go:42), the Register functions mount the endpoints on a *)
(* ServeMux, and clients get the card from the well-known address, where   *)
(* the application serves its own, or from the server by JSON-RPC.         *)
(***************************************************************************)
EXTENDS AgentCard, Sequences

CONSTANTS
  Client,     \* who fetches cards
  SSEBase     \* the base path RegisterSSE is told to mount at

\* A path or pattern is the names after each of its slashes; "/" is the one
\* after a slash at its end: "/v1" is <<"v1">>, "/v1/" is <<"v1", "/">>.  A
\* base begins with a slash or is empty, and its names are literal: no
\* method, host or wildcard.
SSENames == {"/", "message:stream", "message:send"}
Name == STRING \cup SSENames
ASSUME SSEBaseIsPath == SSEBase \in Seq(Name)

VARIABLES
  cell,       \* the application's variables
  appCard,    \* its card
  srvCard,    \* the server's copy of it
  mounted,    \* the endpoints registered on the mux
  panicked,   \* the mux refused a pattern, and the program ended
  view        \* the card each client has, and whether the server still
              \* stands by it

vars == <<cell, appCard, srvCard, mounted, panicked, view>>

Endpoint == {"sse", "streamable", "rest", "jsonrpc"}
RpcEndpoints == Endpoint \ {"rest"}     \* where a card can be asked for

\* The patterns on the mux.  RegisterStreaming and RegisterJSONRPC mount where
\* the README and the tests have them.
SSEPatterns == { Append(SSEBase, name) : name \in SSENames }
RESTPatterns == {<<"v1", "message:send">>, <<"v1", "tasks", "/">>, <<"v1", "tasks">>}

Patterns(endpoint) ==
  CASE endpoint = "sse" -> SSEPatterns
    [] endpoint = "rest" -> RESTPatterns
    [] endpoint = "streamable" -> {<<"a2a">>}
    [] endpoint = "jsonrpc" -> {<<"rpc">>}

Registered == UNION { Patterns(e) : e \in mounted }

DiscoveryTypeOK ==
  /\ cell \in [Flag -> BOOLEAN]
  /\ appCard \in Card
  /\ srvCard \in Card
  /\ mounted \subseteq Endpoint
  /\ panicked \in BOOLEAN
  /\ view \in [Client -> [card : Card, current : BOOLEAN]]

Init ==
  /\ cell \in [Flag -> BOOLEAN]
  /\ appCard = NewCard
  /\ srvCard = NewCard
  /\ mounted = {}
  /\ panicked = FALSE
  /\ view = [c \in Client |-> [card |-> NewCard, current |-> FALSE]]

-----------------------------------------------------------------------------
(***************************************************************************)
(* The application.                                                        *)
(***************************************************************************)
\* Faulty: the server keeps the application's card.
AppSetsBoth(caps) ==
  /\ appCard' = SetCapabilities(caps, cell)
  /\ srvCard' = SetCapabilities(caps, cell)
  /\ UNCHANGED <<cell, mounted, panicked, view>>

AppSets(caps) ==
  /\ appCard' = SetCapabilities(caps, cell)
  /\ UNCHANGED <<cell, srvCard, mounted, panicked, view>>

\* The legacy way (MIGRATION.md:36).
AppLists(list) ==
  /\ appCard' = [appCard EXCEPT !.list = list]
  /\ UNCHANGED <<cell, srvCard, mounted, panicked, view>>

\* A configuration is read into the card.
AppLoads(wire) ==
  /\ appCard' = UnmarshalJSON(appCard, wire)
  /\ UNCHANGED <<cell, srvCard, mounted, panicked, view>>

\* What clients learned before is out of date.
Outdated == [c \in Client |-> [view[c] EXCEPT !.current = FALSE]]

AppFlips(f) ==
  /\ cell' = [cell EXCEPT ![f] = ~cell[f]]
  /\ view' = Outdated
  /\ UNCHANGED <<appCard, srvCard, mounted, panicked>>

\* A server is made, in the place of the last one and with a mux of its own.
New ==
  /\ srvCard' = appCard
  /\ mounted' = {}
  /\ view' = Outdated
  /\ UNCHANGED <<cell, appCard, panicked>>

\* RegisterSSE, RegisterREST, RegisterStreaming, RegisterJSONRPC: a ServeMux
\* panics on a pattern it has.
Register(endpoint) ==
  /\ endpoint \notin mounted
  /\ mounted' = mounted \cup {endpoint}
  /\ panicked' = (Patterns(endpoint) \cap Registered # {})
  /\ UNCHANGED <<cell, appCard, srvCard, view>>

-----------------------------------------------------------------------------
(***************************************************************************)
(* Clients.                                                                *)
(***************************************************************************)
\* Faulty: the card the client has is decoded into again.
DecodeIntoOld(c, wire) == UnmarshalJSON(view[c].card, wire)

\* AgentGetCard decodes into a new card.
Decode(c, wire) == UnmarshalJSON(NewCard, wire)

\* From the well-known address: the application's card, which the server may
\* know nothing of.
FetchWellKnown(c) ==
  /\ view' = [view EXCEPT ![c] =
       [card |-> Decode(c, MarshalJSON(appCard, cell)), current |-> appCard = srvCard]]
  /\ UNCHANGED <<cell, appCard, srvCard, mounted, panicked>>

\* agent/getAuthenticatedExtendedCard.
FetchRPC(c) ==
  /\ mounted \cap RpcEndpoints # {}
  /\ view' = [view EXCEPT ![c] =
       [card |-> Decode(c, MarshalJSON(srvCard, cell)), current |-> TRUE]]
  /\ UNCHANGED <<cell, appCard, srvCard, mounted, panicked>>

Step ==
  \/ \E caps \in [Flag -> Pointer] : AppSets(caps)
  \/ \E list \in SUBSET Flag : AppLists(list)
  \/ \E wire \in Wire : AppLoads(wire)
  \/ \E f \in Flag : AppFlips(f)
  \/ New
  \/ \E endpoint \in Endpoint : Register(endpoint)
  \/ \E c \in Client : FetchWellKnown(c) \/ FetchRPC(c)

Next == ~panicked /\ Step

Spec == Init /\ [][Next]_vars

-----------------------------------------------------------------------------
Believes(c, f) == Supported(view[c].card, cell, f)

\* A client that has the server's card is not refused what the card offers:
\* what is advertised is what the gates test (README.md:97-100), although the
\* list is as old as SetCapabilities and the program's variables move on
\* (card_capabilities.go:5-61, types.go:155-240).
NotMisled ==
  \A c \in Client, f \in Flag :
    view[c].current /\ Believes(c, f) => Supported(srvCard, cell, f)

\* Nor is anything the gates allow kept from it, unless the list of a card
\* with an object names what the object leaves open.
NothingHidden ==
  \A c \in Client, f \in Flag :
    /\ view[c].current /\ Supported(srvCard, cell, f)
    /\ ~(srvCard.hasObj /\ srvCard.obj[f] = "nil")
    => Believes(c, f)

\* The endpoints fit on one mux: the example server mounts SSE at /v1, then
\* REST, and goes on to serve them (main.go:59-83).
Mountable == ~panicked
=============================================================================
