----------------------------- MODULE AgentCard -----------------------------
(***************************************************************************)
(* The capabilities of an agent card (schema/card_capabilities.go,         *)
(* schema/types.go): a legacy list of names and, behind it, an object of   *)
(* optional booleans.  The object holds pointers: a boolean is absent, or  *)
(* the program's own variable, which it may change afterwards ("app"), or  *)
(* one that nobody else holds.  cell gives the program's variables.        *)
(***************************************************************************)
CONSTANT Flag   \* streaming, pushNotifications, stateTransitionHistory

Boolean == {"nil", "true", "false"}
Pointer == Boolean \cup {"app"}
Card == [list : SUBSET Flag, hasObj : BOOLEAN, obj : [Flag -> Pointer]]

NoObject == [f \in Flag |-> "nil"]
NewCard == [list |-> {}, hasObj |-> FALSE, obj |-> NoObject]

\* The "capabilities" of a card in JSON: an object, a list, or neither.
Wire == [shape : {"object", "list", "none"}, list : SUBSET Flag,
         obj : [Flag -> Boolean]]
OnWire(shape, list, obj) == [shape |-> shape, list |-> list, obj |-> obj]

IsTrue(pointer, cell, f) == pointer = "true" \/ (pointer = "app" /\ cell[f])

\* Faulty: a name that no capability has.
DerivedMisspelled(obj, cell) ==
  { "stream" : f \in { g \in Flag : IsTrue(obj[g], cell, g) } }

\* The names of what is true; the code spells each of them out.
Derived(obj, cell) == { f \in Flag : IsTrue(obj[f], cell, f) }

\* What the card holds of caps is shared with whoever holds a copy of the
\* card, the list is made here once.
SetCapabilities(caps, cell) ==
  [list |-> Derived(caps, cell), hasObj |-> TRUE, obj |-> caps]

\* StreamingSupported, PushNotificationsSupported, ...
Supported(card, cell, f) ==
  IF card.hasObj /\ card.obj[f] # "nil"
  THEN IsTrue(card.obj[f], cell, f)
  ELSE f \in card.list

\* What a pointer looks like to a reader.
Read(obj, cell) ==
  [f \in Flag |-> IF obj[f] # "app" THEN obj[f]
                  ELSE IF cell[f] THEN "true" ELSE "false"]

\* Faulty: the legacy list is preferred.
MarshalListFirst(card, cell) ==
  IF card.list # {} THEN OnWire("list", card.list, NoObject)
  ELSE IF card.hasObj THEN OnWire("object", {}, Read(card.obj, cell))
  ELSE OnWire("none", {}, NoObject)

\* Faulty: a card without a name in its list has no capabilities to show.
MarshalListed(card, cell) ==
  IF card.list = {} THEN OnWire("none", {}, NoObject)
  ELSE IF card.hasObj THEN OnWire("object", {}, Read(card.obj, cell))
  ELSE OnWire("list", card.list, NoObject)

\* The object if there is one, else the list unless it is empty.
MarshalJSON(card, cell) ==
  IF card.hasObj THEN OnWire("object", {}, Read(card.obj, cell))
  ELSE IF card.list # {} THEN OnWire("list", card.list, NoObject)
  ELSE OnWire("none", {}, NoObject)

\* Into a card that may have been used: the object it has stays when the JSON
\* brings none, the list never does.
UnmarshalJSON(card, wire) ==
  CASE wire.shape = "object" ->
         [list |-> { f \in Flag : wire.obj[f] = "true" },
          hasObj |-> TRUE, obj |-> wire.obj]
    [] wire.shape = "list" -> [card EXCEPT !.list = wire.list]
    [] wire.shape = "none" -> [card EXCEPT !.list = {}]
=============================================================================
