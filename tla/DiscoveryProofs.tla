-------------------------- MODULE DiscoveryProofs --------------------------
(***************************************************************************)
(* Theorems about Discovery, for every set of capabilities and clients.    *)
(***************************************************************************)
EXTENDS Discovery, SequenceTheorems, TLAPS

(***************************************************************************)
(* The inductive invariant: a card the server still stands by is what the  *)
(* server's card looks like through JSON.                                  *)
(***************************************************************************)
Shown(card) == UnmarshalJSON(NewCard, MarshalJSON(card, cell))

Faithful == \A c \in Client : view[c].current => view[c].card = Shown(srvCard)

DiscoveryInv == DiscoveryTypeOK /\ Faithful

\* What is shown of a card is a card.
LEMMA ShownType ==
  ASSUME NEW card \in Card, cell \in [Flag -> BOOLEAN]
  PROVE  Shown(card) \in Card
<1>1. Read(card.obj, cell) \in [Flag -> Boolean]
  BY DEF Read, Card, Pointer, Boolean
<1>2. CASE card.hasObj
  BY <1>1, <1>2 DEF Shown, UnmarshalJSON, MarshalJSON, OnWire, Card, Pointer
<1>3. CASE ~card.hasObj
  BY <1>3 DEF Shown, UnmarshalJSON, MarshalJSON, OnWire, Card, NewCard, NoObject,
              Pointer, Boolean
<1> QED
  BY <1>2, <1>3

\* Through JSON a card supports what it supports, but for what its list says
\* of a boolean its object leaves open.
LEMMA ShownSupports ==
  ASSUME NEW card \in Card, cell \in [Flag -> BOOLEAN], NEW f \in Flag
  PROVE  /\ Supported(Shown(card), cell, f) => Supported(card, cell, f)
         /\ Supported(card, cell, f) /\ ~(card.hasObj /\ card.obj[f] = "nil")
              => Supported(Shown(card), cell, f)
<1>1. CASE card.hasObj
  <2> DEFINE read == Read(card.obj, cell)
  <2>1. Shown(card) = [list |-> { g \in Flag : read[g] = "true" },
                       hasObj |-> TRUE, obj |-> read]
    BY <1>1 DEF Shown, UnmarshalJSON, MarshalJSON, OnWire
  <2>2. read[f] = IF card.obj[f] # "app" THEN card.obj[f]
                  ELSE IF cell[f] THEN "true" ELSE "false"
    BY DEF Read
  <2>3. card.obj[f] \in {"nil", "true", "false", "app"}
    BY DEF Card, Pointer, Boolean
  <2> HIDE DEF read
  <2> QED
    BY <1>1, <2>1, <2>2, <2>3 DEF Supported, IsTrue
<1>2. CASE ~card.hasObj
  <2>1. Shown(card) = [NewCard EXCEPT !.list = card.list]
    BY <1>2 DEF Shown, UnmarshalJSON, MarshalJSON, OnWire, Card, NewCard
  <2> QED
    BY <1>2, <2>1 DEF Supported, NewCard
<1> QED
  BY <1>1, <1>2

LEMMA DiscoveryInitInv == Init => DiscoveryInv
<1>1. NewCard \in Card
  BY DEF NewCard, NoObject, Card, Pointer, Boolean
<1> HIDE DEF NewCard
<1> SUFFICES ASSUME Init PROVE DiscoveryInv
  OBVIOUS
<1>2. view \in [Client -> [card : Card, current : BOOLEAN]]
  BY <1>1 DEF Init
<1>3. \A c \in Client : view[c].card = NewCard /\ ~view[c].current
  BY DEF Init
<1>4. DiscoveryTypeOK
  BY <1>1, <1>2, <1>3 DEF Init, DiscoveryTypeOK
<1> QED
  BY <1>3, <1>4 DEF DiscoveryInv, Faithful

\* What the application does to its own card concerns nobody else.
LEMMA AppCardInv ==
  ASSUME DiscoveryInv, appCard' \in Card,
         UNCHANGED <<cell, srvCard, mounted, panicked, view>>
  PROVE  DiscoveryInv'
BY DEF DiscoveryInv, DiscoveryTypeOK, Faithful, Shown

LEMMA FetchInv ==
  ASSUME DiscoveryInv, NEW c \in Client, NEW card \in Card,
         NEW current \in BOOLEAN, current => card = srvCard,
         view' = [view EXCEPT ![c] = [card |-> Shown(card), current |-> current]],
         UNCHANGED <<cell, appCard, srvCard, mounted, panicked>>
  PROVE  DiscoveryInv'
<1>1. Shown(card) \in Card
  BY ShownType DEF DiscoveryInv, DiscoveryTypeOK
<1>2. Shown(srvCard)' = Shown(srvCard)
  BY DEF Shown
<1>3. DiscoveryTypeOK'
  BY <1>1 DEF DiscoveryInv, DiscoveryTypeOK
<1>4. Faithful'
  BY <1>2 DEF DiscoveryInv, DiscoveryTypeOK, Faithful
<1> QED
  BY <1>3, <1>4 DEF DiscoveryInv

LEMMA OutdatedInv ==
  ASSUME DiscoveryInv, view' = Outdated, cell' \in [Flag -> BOOLEAN],
         srvCard' \in Card, mounted' \subseteq Endpoint, UNCHANGED <<appCard, panicked>>
  PROVE  DiscoveryInv'
BY DEF DiscoveryInv, DiscoveryTypeOK, Faithful, Outdated

LEMMA DiscoveryNextInv == DiscoveryInv /\ [Next]_vars => DiscoveryInv'
<1> SUFFICES ASSUME DiscoveryInv, [Next]_vars PROVE DiscoveryInv'
  OBVIOUS
<1> USE DEF DiscoveryInv, DiscoveryTypeOK
<1>1. ASSUME NEW caps \in [Flag -> Pointer], AppSets(caps) PROVE DiscoveryInv'
  <2>1. SetCapabilities(caps, cell) \in Card
    BY DEF SetCapabilities, Derived, Card
  <2> QED
    BY <1>1, <2>1, AppCardInv DEF AppSets
<1>2. ASSUME NEW list \in SUBSET Flag, AppLists(list) PROVE DiscoveryInv'
  <2>1. [appCard EXCEPT !.list = list] \in Card
    BY DEF Card
  <2> QED
    BY <1>2, <2>1, AppCardInv DEF AppLists
<1>3. ASSUME NEW wire \in Wire, AppLoads(wire) PROVE DiscoveryInv'
  <2>1. UnmarshalJSON(appCard, wire) \in Card
    BY DEF UnmarshalJSON, Card, Wire, Pointer, Boolean
  <2> QED
    BY <1>3, <2>1, AppCardInv DEF AppLoads
<1>4. ASSUME NEW f \in Flag, AppFlips(f) PROVE DiscoveryInv'
  BY <1>4, OutdatedInv DEF AppFlips
<1>5. ASSUME New PROVE DiscoveryInv'
  BY <1>5, OutdatedInv DEF New
<1>6. ASSUME NEW e \in Endpoint, Register(e) PROVE DiscoveryInv'
  BY <1>6 DEF Register, Faithful, Shown
<1>7. ASSUME NEW c \in Client, FetchWellKnown(c) PROVE DiscoveryInv'
  BY <1>7, FetchInv DEF FetchWellKnown, Decode, Shown
<1>8. ASSUME NEW c \in Client, FetchRPC(c) PROVE DiscoveryInv'
  BY <1>8, FetchInv DEF FetchRPC, Decode, Shown
<1>9. CASE UNCHANGED vars
  BY <1>9 DEF vars, Faithful, Shown
<1> QED
  BY <1>1, <1>2, <1>3, <1>4, <1>5, <1>6, <1>7, <1>8, <1>9 DEF Next, Step

LEMMA DiscoveryInvariant == Spec => []DiscoveryInv
BY DiscoveryInitInv, DiscoveryNextInv, PTL DEF Spec

-----------------------------------------------------------------------------
\* Cards keep their shape, however they are set, listed, loaded and fetched
\* (types.go:155-240).
THEOREM DiscoveryTypeCorrect == Spec => []DiscoveryTypeOK
<1>1. DiscoveryInv => DiscoveryTypeOK
  BY DEF DiscoveryInv
<1> QED
  BY <1>1, DiscoveryInvariant, PTL

\* A client with the server's card is never refused what the card offers
\* (README.md:97-100).
THEOREM CardsTellTheTruth == Spec => []NotMisled
<1>1. DiscoveryInv => NotMisled
  BY ShownSupports DEF DiscoveryInv, DiscoveryTypeOK, Faithful, NotMisled, Believes
<1> QED
  BY <1>1, DiscoveryInvariant, PTL

\* And learns of all that the server's object or list allows.
THEOREM CardsTellAll == Spec => []NothingHidden
<1>1. DiscoveryInv => NothingHidden
  BY ShownSupports DEF DiscoveryInv, DiscoveryTypeOK, Faithful, NothingHidden, Believes
<1> QED
  BY <1>1, DiscoveryInvariant, PTL

\* Where the patterns of RegisterSSE fall on one of another endpoint.
LEMMA SSEPatternsApart ==
  ASSUME SSEBase \notin {<<"v1">>, <<"v1", "tasks">>}, NEW p \in SSEPatterns
  PROVE  p \notin RESTPatterns \cup {<<"a2a">>, <<"rpc">>}
<1>1. PICK name \in SSENames : p = Append(SSEBase, name)
  BY DEF SSEPatterns
<1>2. SSEBase \in Seq(Name) /\ name \in Name
  BY SSEBaseIsPath DEF Name
<1>3. /\ Len(SSEBase) \in Nat /\ Len(p) = Len(SSEBase) + 1
      /\ p[Len(p)] = name
      /\ \A i \in 1..Len(SSEBase) : p[i] = SSEBase[i]
  BY <1>1, <1>2, AppendProperties
<1>4. p # <<"v1", "message:send">>
  <2>1. SUFFICES ASSUME p = <<"v1", "message:send">> PROVE SSEBase = <<"v1">>
    OBVIOUS
  <2>2. Len(SSEBase) = 1 /\ SSEBase[1] = "v1"
    BY <1>3, <2>1
  <2> QED
    BY <1>2, <2>2
<1>5. p # <<"v1", "tasks", "/">>
  <2>1. SUFFICES ASSUME p = <<"v1", "tasks", "/">> PROVE SSEBase = <<"v1", "tasks">>
    OBVIOUS
  <2>2. Len(p) = 3 /\ \A n \in Nat : n + 1 = 3 => n = 2
    BY <2>1
  <2>3. Len(SSEBase) = 2
    BY <1>3, <2>2
  <2>4. SSEBase[1] = "v1" /\ SSEBase[2] = "tasks"
    BY <1>3, <2>1, <2>3
  <2> QED
    BY <1>2, <2>3, <2>4
<1>6. name # "tasks" /\ name # "a2a" /\ name # "rpc"
  BY DEF SSENames
<1>7. p # <<"v1", "tasks">>
  BY <1>3, <1>6
<1>8. p # <<"a2a">>
  BY <1>3, <1>6
<1>9. p # <<"rpc">>
  BY <1>3, <1>6
<1> QED
  BY <1>4, <1>5, <1>7, <1>8, <1>9 DEF RESTPatterns

\* All endpoints can be mounted on one mux wherever SSE is, but at "/v1",
\* where both it and REST register "/v1/message:send", and at "/v1/tasks",
\* where both register "/v1/tasks/" (sse.go:14-22, jsonrpc.go:56-128).
THEOREM MountedApart ==
  ASSUME SSEBase \notin {<<"v1">>, <<"v1", "tasks">>}
  PROVE  Spec => []Mountable
<1>1. Init => Mountable
  BY DEF Init, Mountable
<1>2. DiscoveryInv /\ Mountable /\ [Next]_vars => Mountable'
  <2>1. RESTPatterns \cap {<<"a2a">>, <<"rpc">>} = {} /\ <<"a2a">> # <<"rpc">>
    <3>1. <<"a2a">>[1] = "a2a" /\ <<"rpc">>[1] = "rpc"
      OBVIOUS
    <3>2. \A p \in RESTPatterns : p[1] = "v1"
      BY DEF RESTPatterns
    <3> QED
      BY <3>1, <3>2
  <2>2. ASSUME NEW e \in Endpoint, NEW d \in Endpoint, e # d
        PROVE  Patterns(e) \cap Patterns(d) = {}
    <3>1. SSEPatterns \cap (RESTPatterns \cup {<<"a2a">>, <<"rpc">>}) = {}
      BY SSEPatternsApart
    <3>2. /\ Patterns("sse") = SSEPatterns /\ Patterns("rest") = RESTPatterns
          /\ Patterns("streamable") = {<<"a2a">>} /\ Patterns("jsonrpc") = {<<"rpc">>}
      BY DEF Patterns
    <3> QED
      BY <2>1, <2>2, <3>1, <3>2 DEF Endpoint
  <2>3. ASSUME DiscoveryInv, Mountable, NEW e \in Endpoint, Register(e)
        PROVE  Mountable'
    <3>1. \A d \in mounted : d \in Endpoint /\ d # e
      BY <2>3 DEF DiscoveryInv, DiscoveryTypeOK, Register
    <3>2. Patterns(e) \cap Registered = {}
      BY <2>2, <3>1 DEF Registered
    <3> QED
      BY <2>3, <3>2 DEF Register, Mountable
  <2>4. ASSUME Mountable, UNCHANGED panicked PROVE Mountable'
    BY <2>4 DEF Mountable
  <2> QED
    BY <2>3, <2>4
       DEF Next, Step, vars, AppSets, AppLists, AppLoads, AppFlips, New,
           FetchWellKnown, FetchRPC
<1> QED
  BY <1>1, <1>2, DiscoveryInvariant, PTL DEF Spec
=============================================================================
