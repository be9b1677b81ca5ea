---------------------------- MODULE ConfigBoundary ----------------------------
(***************************************************************************)
(* The way of a configuration through the server: the shape guard of the   *)
(* controller, the value objects that trust it, the stored row, the        *)
(* aggregate read back from the row and the projection that pages send     *)
(* again.  A body is JSON; text is a member of a small set.                *)
(***************************************************************************)
EXTENDS Integers, Sequences, FiniteSets

CONSTANTS
    Trim,            \* a function: the texts that trimming changes
    Defaults,        \* the default of every field, as JSON
    CronTexts, ZoneTexts, HostZone,      \* valid ones, and the host's own zone
    CategoryCodes,   \* the texts that are codes of capital letters
    IdOf,            \* the identifier a new category of each code is given
    Bodies,          \* the documents that are sent
    TtsDrafts        \* voice settings an administrator may have on the page

VARIABLES
    request,         \* the document that was sent
    response,        \* what became of it
    first            \* what became of the document sent first

boundaryVars == <<request, response, first>>

-----------------------------------------------------------------------------
(* JSON.  Numbers are in tenths.                                           *)
Undefined == <<"undefined">>
JsonNull == <<"null">>
Text(text) == <<"string", text>>
Number(tenths) == <<"number", tenths>>
Truth(value) == <<"boolean", value>>
List(seq) == <<"array", seq>>
Object(map) == <<"object", map>>

Is(json, kind) == json[1] = kind
Absent(json) == Is(json, "undefined") \/ Is(json, "null")
Of(json) == json[2]
Entries(json) == {Of(json)[key] : key \in DOMAIN Of(json)}
Field(json, name) == IF Is(json, "object") /\ name \in DOMAIN Of(json) THEN Of(json)[name] ELSE Undefined
Falsy(json) == Absent(json) \/ json \in {Text(""), Number(0), Truth(FALSE)}
TrimmedText(text) == IF text \in DOMAIN Trim THEN Trim[text] ELSE text
Blank(json) == Falsy(json) \/ TrimmedText(Of(json)) = ""

(* What building a value comes to: the value, a refusal (400), or a        *)
(* TypeError that nobody meant (500).                                      *)
Ok(value) == <<"ok", value>>
Refusal == <<"refused">>
TypeError == <<"TypeError">>
Built(outcome) == outcome[1] = "ok"

(* The parts are built in their order; the first failure is the outcome.   *)
FirstFailure(outcomes) ==
    outcomes[CHOOSE i \in DOMAIN outcomes :
                ~Built(outcomes[i]) /\ \A j \in 1 .. i - 1 : Built(outcomes[j])]
All(outcomes, value) ==
    IF \A i \in DOMAIN outcomes : Built(outcomes[i]) THEN Ok(value) ELSE FirstFailure(outcomes)
BuiltValues(outcomes) == [i \in DOMAIN outcomes |-> outcomes[i][2]]
When(test, value) == IF test THEN Ok(value) ELSE Refusal

-----------------------------------------------------------------------------
(* Value objects that look at the type of all they are given.              *)

(* What a map of raw comes to, given what its entries, if it is one, come  *)
(* to.                                                                     *)
EntriesOf(raw) == IF Is(raw, "object") THEN DOMAIN Of(raw) ELSE {}
KeyedMap(raw, built) ==
    CASE Absent(raw) -> Ok(<<>>)
      [] ~Is(raw, "object") -> Refusal
      [] OTHER -> When("" \notin DOMAIN built /\ \A key \in DOMAIN built : Built(built[key]),
                       [key \in DOMAIN built |-> built[key][2]])

Sides == {"top", "right", "bottom", "left"}
IsSide(json) == Is(json, "string") /\ Of(json) \in Sides
EdgeSides(json) ==
    When(Is(json, "object") /\ IsSide(Field(json, "sourceSide")) /\ IsSide(Field(json, "targetSide")),
         [sourceSide |-> Of(Field(json, "sourceSide")), targetSide |-> Of(Field(json, "targetSide"))])
EdgeRoutingLayout(raw) == KeyedMap(raw, [key \in EntriesOf(raw) |-> EdgeSides(Of(raw)[key])])

Spot(json) ==
    When(Is(json, "object") /\ Is(Field(json, "x"), "number") /\ Is(Field(json, "y"), "number"),
         [x |-> Of(Field(json, "x")), y |-> Of(Field(json, "y"))])
NodePositions(raw) == KeyedMap(raw, [key \in EntriesOf(raw) |-> Spot(Of(raw)[key])])

ActionOf(json) ==
    When(/\ Is(json, "object")
         /\ Field(json, "executionType") \in {Text("ON_ENTRY"), Text("ON_EXIT")}
         /\ Field(json, "type") = Text("UPDATE_STATUS")
         /\ Is(Field(json, "value"), "string") /\ Of(Field(json, "value")) # "",
         <<Of(Field(json, "executionType")), Of(Field(json, "value"))>>)
ActionList(json) ==
    IF ~Is(json, "array") THEN Refusal
    ELSE LET built == [i \in DOMAIN Of(json) |-> ActionOf(Of(json)[i])] IN All(built, BuiltValues(built))
NodeActions(raw) == KeyedMap(raw, [key \in EntriesOf(raw) |-> ActionList(Of(raw)[key])])

(* Descriptions are trimmed, and the blank ones left out.                  *)
Description(json) == When(Is(json, "string"), TrimmedText(Of(json)))
StateDescriptions(raw) ==
    LET map == KeyedMap(raw, [key \in EntriesOf(raw) |-> Description(Of(raw)[key])])
    IN IF Built(map) THEN Ok([key \in {k \in DOMAIN map[2] : map[2][k] # ""} |-> map[2][key]]) ELSE map

(* A marker is derived, hidden, or placed.                                 *)
SpotJson(spot) == Object([x |-> Number(spot.x), y |-> Number(spot.y)])
normalizeTerminal(json) ==
    CASE Is(json, "undefined") -> Ok(Text("auto"))
      [] Is(json, "string") -> When(Of(json) \in {"auto", "hidden"}, json)
      [] OTHER -> IF Built(Spot(json)) THEN Ok(SpotJson(Spot(json)[2])) ELSE Refusal
TerminalNodes(raw) ==
    LET start == normalizeTerminal(Field(raw, "start"))
        end == normalizeTerminal(Field(raw, "end"))
    IN CASE Absent(raw) -> Ok([start |-> Text("auto"), end |-> Text("auto")])
         [] ~Is(raw, "object") -> Refusal
         [] OTHER -> When(Built(start) /\ Built(end), [start |-> start[2], end |-> end[2]])

(* The states linked to a marker: trimmed, without repetitions.            *)
Sources(raw) ==
    CASE Absent(raw) -> Ok({})
      [] ~Is(raw, "array") -> Refusal
      [] OTHER -> When(\A json \in Entries(raw) : Is(json, "string") /\ TrimmedText(Of(json)) # "",
                       {TrimmedText(Of(json)) : json \in Entries(raw)})

Surfaces == {"kiosk", "tv", "caller", "admin"}
ServiceThemes(raw) ==
    CASE Absent(raw) -> Ok([surface \in Surfaces |-> "light"])
      [] ~Is(raw, "object") -> Refusal
      [] OTHER -> When(\A surface \in Surfaces :
                          Absent(Field(raw, surface)) \/ Field(raw, surface) \in {Text("light"), Text("dark")},
                       [surface \in Surfaces |->
                          IF Absent(Field(raw, surface)) THEN "light" ELSE Of(Field(raw, surface))])

IsWhole(json) == Is(json, "number") /\ Of(json) % 10 = 0
InRange(json, min, max) == Is(json, "number") /\ Of(json) \in min .. max
readMultiplier(json, min, max) ==
    IF Is(json, "undefined") THEN Ok(10) ELSE When(InRange(json, min, max), Of(json))
PauseMs(json) ==
    IF Is(json, "undefined") THEN Ok(0) ELSE When(IsWhole(json) /\ InRange(json, 0, 20000), Of(json))
TtsConfiguration(raw) ==
    LET built == <<readMultiplier(Field(raw, "speed"), 5, 20),
                   readMultiplier(Field(raw, "volume"), 0, 20), PauseMs(Field(raw, "pauseMs"))>>
    IN CASE Absent(raw) -> Ok([speed |-> 10, volume |-> 10, pauseMs |-> 0])
         [] ~Is(raw, "object") -> Refusal
         [] OTHER -> When(\A i \in 1 .. 3 : Built(built[i]),
                          [speed |-> built[1][2], volume |-> built[2][2], pauseMs |-> built[3][2]])

(* The widgets' rectangles are looked at elsewhere: here only their types. *)
WidgetShape(json) ==
    /\ Is(json, "object")
    /\ Is(Field(json, "id"), "string") /\ Of(Field(json, "id")) # ""
    /\ Is(Field(json, "component"), "string")
    /\ \A name \in {"x", "y", "w", "h"} : IsWhole(Field(json, name))
TvPanelLayout(raw) ==
    CASE Absent(raw) -> Ok(Of(Defaults.tvPanelLayout))
      [] ~Is(raw, "array") -> Refusal
      [] OTHER -> When(\A json \in Entries(raw) : WidgetShape(json), Of(raw))

-----------------------------------------------------------------------------
(* Value objects that trust the types of what they are given.              *)

(* Each element is asked for its trimmed text; only a text has one.        *)
TrimmedTest(json) ==
    CASE Falsy(json) -> Refusal
      [] ~Is(json, "string") -> TypeError
      [] OTHER -> When(TrimmedText(Of(json)) # "", Of(json))

Distinct(seq) == \A i, j \in DOMAIN seq : seq[i] = seq[j] => i = j

StateSchema(raw) ==
    IF ~Is(raw, "array") THEN TypeError
    ELSE LET built == [i \in DOMAIN Of(raw) |-> TrimmedTest(Of(raw)[i])]
         IN CASE Of(raw) = <<>> -> Refusal
              [] \E i \in DOMAIN built : ~Built(built[i]) -> FirstFailure(built)
              [] OTHER -> When(Distinct(Of(raw)), BuiltValues(built))

requeuePolicyFromWire(raw) ==
    LET kind == Field(raw, "kind")
        n == Field(raw, "n")
    IN CASE Absent(raw) -> Ok(<<"KEEP">>)
         [] ~Is(raw, "object") \/ kind \notin {Text("KEEP"), Text("TO_BACK"), Text("BACK_N")} -> Refusal
         [] kind = Text("BACK_N") -> When(IsWhole(n) /\ Of(n) >= 0, <<"BACK_N", Of(n)>>)
         [] OTHER -> Ok(<<Of(kind)>>)

(* The policy is read before the rest of the rule.                         *)
TransitionRule(json) ==
    LET built == <<requeuePolicyFromWire(Field(json, "requeuePolicy")), TrimmedTest(Field(json, "from")),
                   TrimmedTest(Field(json, "to")), TrimmedTest(Field(json, "actionLabel"))>>
    IN IF Absent(json) THEN TypeError ELSE All(built, BuiltValues(built))

From(rule) == rule[2]
To(rule) == rule[3]

StateMachine(raw) ==
    LET schema == StateSchema(Field(raw, "states"))
        transitions == Field(raw, "transitions")
        rules == [i \in DOMAIN Of(transitions) |-> TransitionRule(Of(transitions)[i])]
        descriptions == StateDescriptions(Field(raw, "descriptions"))
        edges == [i \in DOMAIN rules |-> <<From(rules[i][2]), To(rules[i][2])>>]
        states == {schema[2][i] : i \in DOMAIN schema[2]}
    IN CASE ~Built(schema) -> schema
         [] ~Is(transitions, "array") -> TypeError
         [] \E i \in DOMAIN rules : ~Built(rules[i]) -> FirstFailure(rules)
         [] ~Built(descriptions) -> Refusal
         [] OTHER -> When(/\ edges # <<>> /\ Distinct(edges)
                          /\ \A i \in DOMAIN edges : edges[i][1] \in states /\ edges[i][2] \in states,
                          [states |-> schema[2], transitions |-> BuiltValues(rules),
                           descriptions |-> descriptions[2]])

(* The cron expression is looked at in automatic mode only; a blank zone   *)
(* is the host's.                                                          *)
DailyReset(raw) ==
    LET automatic == Field(raw, "mode") = Text("AUTOMATIC_CRON")
        cron == Field(raw, "cronExpression")
        resetTo == Field(raw, "resetTicketNumberTo")
        zone == Field(raw, "timezone")
        resolved == IF Blank(zone) THEN Text(HostZone) ELSE zone
    IN CASE automatic /\ Falsy(cron) -> Refusal
         [] automatic /\ ~Is(cron, "string") -> TypeError
         [] automatic /\ Of(cron) \notin CronTexts -> Refusal
         [] ~Is(resetTo, "undefined") /\ ~(IsWhole(resetTo) /\ Of(resetTo) >= 10) -> Refusal
         [] ~Falsy(zone) /\ ~Is(zone, "string") -> TypeError
         [] OTHER -> When(Of(resolved) \in ZoneTexts,
                          [mode |-> Field(raw, "mode"), cronExpression |-> cron,
                           resetTicketNumberTo |-> IF Is(resetTo, "undefined") THEN Number(10) ELSE resetTo,
                           timezone |-> resolved])

(* A category without an id is given one.                                  *)
CategoryOf(json) ==
    LET id == Field(json, "id")
        code == Field(json, "code")
        name == Field(json, "name")
    IN CASE Absent(json) -> TypeError
         [] ~Falsy(id) /\ id \notin {Text(IdOf[c]) : c \in CategoryCodes} -> Refusal
         [] ~Is(code, "string") \/ Of(code) \notin CategoryCodes \/ Falsy(name) -> Refusal
         [] ~Is(name, "string") -> TypeError
         [] OTHER -> When(TrimmedText(Of(name)) # "",
                          [id |-> IF Falsy(id) THEN Text(IdOf[Of(code)]) ELSE id, code |-> Of(code), name |-> Of(name)])
buildCategories(raw) ==
    LET built == [i \in DOMAIN Of(raw) |-> CategoryOf(Of(raw)[i])]
    IN CASE ~Is(raw, "array") -> TypeError
         [] \E i \in DOMAIN built : ~Built(built[i]) -> FirstFailure(built)
         [] OTHER -> When(Distinct([i \in DOMAIN built |-> built[i][2].code]), BuiltValues(built))

RuleOf(json, codes) ==
    LET assigned == Field(json, "assignedCategoryCodes")
    IN CASE Absent(json) \/ ~Is(assigned, "array") -> TypeError
         [] OTHER -> When(/\ Of(assigned) # <<>> /\ Distinct(Of(assigned))
                          /\ \A code \in Entries(assigned) : Is(code, "string") /\ Of(code) \in codes,
                          [counterId |-> Field(json, "counterId"), codes |-> Of(assigned)])
buildRoutingRules(raw, codes) ==
    LET built == [i \in DOMAIN Of(raw) |-> RuleOf(Of(raw)[i], codes)]
    IN CASE ~Is(raw, "array") -> TypeError
         [] \E i \in DOMAIN built : ~Built(built[i]) -> FirstFailure(built)
         [] OTHER -> When(Distinct([i \in DOMAIN built |-> built[i][2].counterId]), BuiltValues(built))

StoreName(raw) == IF ~Is(raw, "string") THEN TypeError ELSE When(TrimmedText(Of(raw)) # "", Of(raw))

-----------------------------------------------------------------------------
(* The controller's guard: presence, then shape, then the nested shapes.   *)

Shapes ==
    [storeName |-> "string", brandColor |-> "string", stateMachine |-> "object",
     dailyReset |-> "object", categories |-> "array", routingRules |-> "array",
     serviceThemes |-> "object", tvPanelLayout |-> "array", edgeRoutingLayout |-> "object",
     nodePositions |-> "object", nodeActions |-> "object", terminalNodes |-> "object",
     endSources |-> "array", startSources |-> "array", ttsConfiguration |-> "object"]
ConfigFields == DOMAIN Shapes

MissingField(body) == \E field \in ConfigFields : Absent(body[field])
ShapeMismatch(body) == \E field \in ConfigFields : ~Is(body[field], Shapes[field])

IfPresent(json, kind) == Absent(json) \/ Is(json, kind)
AllOf(json, Test(_)) == Is(json, "array") /\ \A entry \in Entries(json) : Test(entry)
IsText(json) == Is(json, "string")
FieldsAre(json, names, kind) == \A name \in names : IfPresent(Field(json, name), kind)

MachineShape(sm) ==
    /\ AllOf(Field(sm, "states"), IsText)
    /\ AllOf(Field(sm, "transitions"),
             LAMBDA t : Is(t, "object") /\ \A name \in {"from", "to", "actionLabel"} : IsText(Field(t, name)))
    /\ Absent(Field(sm, "descriptions")) \/
          (Is(Field(sm, "descriptions"), "object") /\ \A text \in Entries(Field(sm, "descriptions")) : IsText(text))
(* Mutant: the types of the reset policy are not looked at.                *)
AnyReset(reset) == TRUE

ResetShape(reset) == FieldsAre(reset, {"cronExpression", "timezone"}, "string")
CategoryShape(json) == Is(json, "object") /\ FieldsAre(json, {"name"}, "string")
RuleShape(json) == Is(json, "object") /\ AllOf(Field(json, "assignedCategoryCodes"), IsText)
WidgetTypes(json) ==
    Is(json, "object") /\ FieldsAre(json, {"id", "component"}, "string")
                       /\ FieldsAre(json, {"x", "y", "w", "h"}, "number")
EdgeShape(json) == Is(json, "object") /\ FieldsAre(json, {"sourceSide", "targetSide"}, "string")
SpotShape(json) == Is(json, "object") /\ FieldsAre(json, {"x", "y"}, "number")
ActionShape(json) == Is(json, "object") /\ FieldsAre(json, {"executionType", "type", "value"}, "string")
TerminalShape(json) == IfPresent(json, "string") \/ SpotShape(json)

configNestedShapes(body) ==
    /\ MachineShape(body.stateMachine)
    /\ ResetShape(body.dailyReset)
    /\ \A json \in Entries(body.categories) : CategoryShape(json)
    /\ \A json \in Entries(body.routingRules) : RuleShape(json)
    /\ \A json \in Entries(body.tvPanelLayout) : WidgetTypes(json)
    /\ \A json \in Entries(body.edgeRoutingLayout) : EdgeShape(json)
    /\ \A json \in Entries(body.nodePositions) : SpotShape(json)
    /\ \A list \in Entries(body.nodeActions) : AllOf(list, ActionShape)
    /\ \A name \in {"start", "end"} : TerminalShape(Field(body.terminalNodes, name))
    /\ \A field \in {"endSources", "startSources"} :
          \A json \in Entries(body[field]) : IfPresent(json, "string")
    /\ FieldsAre(body.ttsConfiguration, {"speed", "volume", "pauseMs"}, "number")

Guarded(body) == ~MissingField(body) /\ ~ShapeMismatch(body) /\ configNestedShapes(body)

-----------------------------------------------------------------------------
(* The save: every part is built in its turn, then held against the states *)
(* and edges of the flow.                                                  *)

StoredCodes(categories) == {categories[i].code : i \in DOMAIN categories}

Parts(body) ==
    LET categories == buildCategories(body.categories)
    IN [stateMachine |-> StateMachine(body.stateMachine), dailyReset |-> DailyReset(body.dailyReset),
        serviceThemes |-> ServiceThemes(body.serviceThemes), tvPanelLayout |-> TvPanelLayout(body.tvPanelLayout),
        edgeRoutingLayout |-> EdgeRoutingLayout(body.edgeRoutingLayout),
        nodePositions |-> NodePositions(body.nodePositions), nodeActions |-> NodeActions(body.nodeActions),
        terminalNodes |-> TerminalNodes(body.terminalNodes), endSources |-> Sources(body.endSources),
        startSources |-> Sources(body.startSources), ttsConfiguration |-> TtsConfiguration(body.ttsConfiguration),
        categories |-> categories,
        routingRules |-> IF Built(categories) THEN buildRoutingRules(body.routingRules, StoredCodes(categories[2]))
                         ELSE categories,
        storeName |-> StoreName(body.storeName)]

States(config) == {config.stateMachine.states[i] : i \in DOMAIN config.stateMachine.states}
Edges(config) == {From(config.stateMachine.transitions[i]) \o "->" \o To(config.stateMachine.transitions[i]) :
                     i \in DOMAIN config.stateMachine.transitions}

FitsTheFlow(config) ==
    /\ \A i \in DOMAIN config.stateMachine.transitions :
          LET rule == config.stateMachine.transitions[i]
          IN rule[1] # <<"KEEP">> => To(rule) = "WAITING"
    /\ DOMAIN config.edgeRoutingLayout \subseteq Edges(config)
    /\ DOMAIN config.nodePositions \subseteq States(config)
    /\ DOMAIN config.nodeActions \subseteq States(config)
    /\ \A state \in DOMAIN config.nodeActions : \A i \in DOMAIN config.nodeActions[state] :
          config.nodeActions[state][i][2] \in States(config)
    /\ DOMAIN config.stateMachine.descriptions \subseteq States(config)
    /\ config.endSources \cup config.startSources \subseteq States(config)

Execute(body) ==
    LET parts == Parts(body)
        config == [field \in DOMAIN parts |-> parts[field][2]]
    IN CASE \E field \in DOMAIN parts : parts[field] = TypeError -> TypeError
         [] \E field \in DOMAIN parts : ~Built(parts[field]) -> Refusal
         [] OTHER -> When(FitsTheFlow(config), config)

SaveBody(body) == IF Guarded(body) THEN Execute(body) ELSE Refusal

-----------------------------------------------------------------------------
(* The values as JSON, in the row and in the projection.                   *)

TextMap(map, ValueOf(_)) == Object([key \in DOMAIN map |-> ValueOf(map[key])])
TextList(seq) == List([i \in DOMAIN seq |-> Text(seq[i])])

PolicyJson(policy) ==
    IF policy[1] = "BACK_N" THEN Object([kind |-> Text("BACK_N"), n |-> Number(policy[2])])
    ELSE Object([kind |-> Text(policy[1]), n |-> JsonNull])
RuleJson(rule) ==
    Object([requeuePolicy |-> PolicyJson(rule[1]), from |-> Text(rule[2]), to |-> Text(rule[3]),
            actionLabel |-> Text(rule[4])])
MachineJson(machine) ==
    Object([states |-> TextList(machine.states),
            transitions |-> List([i \in DOMAIN machine.transitions |-> RuleJson(machine.transitions[i])]),
            descriptions |-> TextMap(machine.descriptions, Text)])
ActionJson(action) ==
    Object([executionType |-> Text(action[1]), type |-> Text("UPDATE_STATUS"), value |-> Text(action[2])])
ListOfSet(set) == LET n == Cardinality(set)
                  IN List(CHOOSE seq \in [1 .. n -> {Text(t) : t \in set}] : Distinct(seq))

Projection(config) ==
    [stateMachine |-> MachineJson(config.stateMachine),
     dailyReset |-> Object(config.dailyReset),
     serviceThemes |-> TextMap(config.serviceThemes, Text),
     tvPanelLayout |-> List(config.tvPanelLayout),
     edgeRoutingLayout |-> TextMap(config.edgeRoutingLayout, LAMBDA sides : TextMap(sides, Text)),
     nodePositions |-> TextMap(config.nodePositions, SpotJson),
     nodeActions |-> TextMap(config.nodeActions,
                             LAMBDA list : List([i \in DOMAIN list |-> ActionJson(list[i])])),
     terminalNodes |-> Object(config.terminalNodes),
     endSources |-> ListOfSet(config.endSources), startSources |-> ListOfSet(config.startSources),
     ttsConfiguration |-> TextMap(config.ttsConfiguration, Number)]

(* The row is read back by the same value objects, without the guard.      *)
ReadRow(row) ==
    [stateMachine |-> StateMachine(row.stateMachine), dailyReset |-> DailyReset(row.dailyReset),
     serviceThemes |-> ServiceThemes(row.serviceThemes), tvPanelLayout |-> TvPanelLayout(row.tvPanelLayout),
     edgeRoutingLayout |-> EdgeRoutingLayout(row.edgeRoutingLayout),
     nodePositions |-> NodePositions(row.nodePositions), nodeActions |-> NodeActions(row.nodeActions),
     terminalNodes |-> TerminalNodes(row.terminalNodes), endSources |-> Sources(row.endSources),
     startSources |-> Sources(row.startSources), ttsConfiguration |-> TtsConfiguration(row.ttsConfiguration)]

(* What a page sends back when nothing was touched: categories with their  *)
(* ids, and counters by the codes of their categories.                     *)
Resent(config) ==
    [field \in ConfigFields |->
        CASE field = "storeName" -> Text(config.storeName)
          [] field = "brandColor" -> Defaults.brandColor
          [] field = "categories" ->
                List([i \in DOMAIN config.categories |->
                        Object([id |-> config.categories[i].id, code |-> Text(config.categories[i].code),
                                name |-> Text(config.categories[i].name)])])
          [] field = "routingRules" ->
                List([i \in DOMAIN config.routingRules |->
                        Object([counterId |-> config.routingRules[i].counterId,
                                assignedCategoryCodes |-> List(config.routingRules[i].codes)])])
          [] OTHER -> Projection(config)[field]]

-----------------------------------------------------------------------------
(* The admin application's own checks of a voice setting.                  *)

coerceInRange(json, min, max, fallback, whole) ==
    IF InRange(json, min, max) /\ (whole => IsWhole(json)) THEN Of(json) ELSE fallback
coerceTtsConfiguration(raw) ==
    [speed |-> coerceInRange(Field(raw, "speed"), 5, 20, 10, FALSE),
     volume |-> coerceInRange(Field(raw, "volume"), 0, 20, 10, FALSE),
     pauseMs |-> coerceInRange(Field(raw, "pauseMs"), 0, 20000, 0, TRUE)]
validateTtsConfiguration(draft) ==
    draft.speed \in 5 .. 20 /\ draft.volume \in 0 .. 20
        /\ draft.pauseMs \in 0 .. 20000 /\ draft.pauseMs % 10 = 0

coerceServiceThemes(raw) ==
    [surface \in Surfaces |->
        IF Field(raw, surface) \in {Text("light"), Text("dark")} THEN Of(Field(raw, surface)) ELSE "light"]

-----------------------------------------------------------------------------
(* A document is sent, and what a page shows of it is sent again.          *)

BoundaryInit ==
    /\ request \in Bodies
    /\ response = SaveBody(request) /\ first = response

(* A page sends back what it was shown.                                    *)
Resend ==
    /\ Built(response)
    /\ request' = Resent(response[2]) /\ response' = SaveBody(request')
    /\ UNCHANGED first

BoundarySpec == BoundaryInit /\ [][Resend]_boundaryVars

-----------------------------------------------------------------------------
(* Properties.                                                             *)

(* A document the guard lets through is stored or refused with a reason:   *)
(* no value object that trusts its types is handed one it cannot read      *)
(* ("a malformed payload is 400, not an unhandled 500").                   *)
MalformedIsRefused == response # TypeError

(* What was stored can be read back at the next start, and is the same.    *)
StoredIsReadBack ==
    Built(response) =>
        LET loaded == ReadRow(Projection(response[2]))
        IN \A field \in DOMAIN loaded : loaded[field] = Ok(response[2][field])

(* What a page was shown it can save again, and nothing changes by it.     *)
ReadCanBeSavedAgain == response = first

(* The pages show the settings that are stored.                            *)
PagesShowWhatIsStored ==
    Built(response) =>
        LET shown == Projection(response[2])
        IN /\ coerceTtsConfiguration(shown.ttsConfiguration) = response[2].ttsConfiguration
           /\ coerceServiceThemes(shown.serviceThemes) = response[2].serviceThemes

(* The voice page lets through exactly what the server accepts.            *)
PageAcceptsWhatTheServerDoes ==
    \A draft \in TtsDrafts :
        validateTtsConfiguration(draft) <=> Built(TtsConfiguration(TextMap(draft, Number)))

ConfigurationTravels ==
    /\ MalformedIsRefused /\ StoredIsReadBack /\ ReadCanBeSavedAgain
    /\ PagesShowWhatIsStored /\ PageAcceptsWhatTheServerDoes
===============================================================================
