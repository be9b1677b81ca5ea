---------------------------- MODULE ConfigurationMC ----------------------------
(***************************************************************************)
(* The configuration on the server: saves and restarts of                  *)
(* StoreConfiguration, and single documents on their way through           *)
(* ConfigBoundary.  The initial state says which of the two runs.          *)
(***************************************************************************)
EXTENDS StoreConfigurationMC, ConfigBoundary

VARIABLE side

configurationVars == <<side, vars, boundaryVars>>

-----------------------------------------------------------------------------
(* A document that is in order, and what its parts are made of.            *)
TrimMC == "" :> "" @@ " " :> "" @@ "SKIPPED " :> "SKIPPED"
IdOfMC == "A" :> "id-a"

Edge(from, to) == Object([from |-> Text(from), to |-> Text(to), actionLabel |-> Text("go")])
Machine(states, edges) == Object([states |-> List(states), transitions |-> List(edges)])
OneCategory == Object([code |-> Text("A"), name |-> Text("one")])
OneRule == Object([counterId |-> Number(10), assignedCategoryCodes |-> List(<<Text("A")>>)])
Widget(id, component, x) ==
    Object([id |-> id, component |-> component, x |-> x, y |-> Number(0), w |-> Number(10), h |-> Number(10)])

Base ==
    [storeName |-> Text("shop"), brandColor |-> Text("#2563eb"),
     stateMachine |-> Machine(<<Text("WAITING"), Text("CALLING")>>,
                              <<Edge("WAITING", "CALLING"), Edge("CALLING", "WAITING")>>),
     dailyReset |-> Object([mode |-> Text("MANUAL"), cronExpression |-> JsonNull, timezone |-> Text("UTC")]),
     categories |-> List(<<OneCategory>>), routingRules |-> List(<<OneRule>>),
     serviceThemes |-> Object(<<>>), tvPanelLayout |-> List(<<>>), edgeRoutingLayout |-> Object(<<>>),
     nodePositions |-> Object(<<>>), nodeActions |-> Object(<<>>), terminalNodes |-> Object(<<>>),
     endSources |-> List(<<>>), startSources |-> List(<<>>), ttsConfiguration |-> Object(<<>>)]

-----------------------------------------------------------------------------
(* What one field may hold instead: any simple value, an empty or a        *)
(* one-element container, or something near a proper value of that field.  *)
Simple == {Undefined, JsonNull, Truth(TRUE), Number(5), Number(10), Number(-10),
           Text(""), Text(" "), Text("WAITING"), Text("SKIPPED ")}
Junk == Simple \cup {List(<<>>), Object(<<>>), List(<<JsonNull>>), List(<<Number(10)>>)}
Maps(names, values) == {Object(f) : f \in UNION {[s -> values] : s \in SUBSET names}}
Keyed(values) ==
    {Object(key :> value) : key \in {"", "WAITING", "SKIPPED", "WAITING->CALLING"}, value \in values}
Lists(values, last) == {List(<<v>>) : v \in values} \cup {List(<<v, last>>) : v \in values}

SomeStates == {JsonNull, Number(10), Text(" "), Text("WAITING"), Text("SKIPPED ")}
SomePolicies ==
    {Undefined, JsonNull, Text("KEEP"), Object([kind |-> Text("KEEP")]), Object([kind |-> Text("BACK_N")])}
    \cup {Object([kind |-> Text(kind), n |-> Number(n)]) : kind \in {"TO_BACK", "BACK_N"}, n \in {0, 5}}
SomeMachines ==
    Maps({"states", "transitions"}, {JsonNull, List(<<>>), List(<<Text("WAITING")>>), Text("WAITING")})
    \cup {Machine(<<s1, s2>>, <<Edge("WAITING", "WAITING")>>) : s1, s2 \in SomeStates}
    \cup {Machine(<<Text("WAITING"), Text("SKIPPED ")>>,
                  <<Object([from |-> from, to |-> to, actionLabel |-> label, requeuePolicy |-> policy])>>) :
             from \in SomeStates, to \in {Text("WAITING"), Text("SKIPPED "), Number(10)},
             label \in {Text("go"), Number(10), Text(" ")}, policy \in SomePolicies}
    \cup {Object([states |-> List(<<Text("WAITING")>>), transitions |-> List(<<Edge("WAITING", "WAITING")>>),
                  descriptions |-> d]) : d \in Junk \cup Keyed(Simple)}

SomeResets ==
    {Object([mode |-> Text(mode), cronExpression |-> cron, resetTicketNumberTo |-> number, timezone |-> zone]) :
        mode \in {"MANUAL", "AUTOMATIC_CRON"}, cron \in {JsonNull, Text("midnight"), Text("never"), Number(10)},
        number \in {Undefined, Number(15), Number(0)},
        zone \in {JsonNull, Text(" "), Text("UTC"), Text("mars"), Number(10)}}
SomeCategories ==
    Maps({"code", "name"}, {JsonNull, Text("A"), Text("a"), Number(10)})
    \cup {Object([id |-> id, code |-> Text("A"), name |-> Text("one")]) : id \in Simple \cup {Text("id-a")}}
SomeRules ==
    {Object([counterId |-> counter, assignedCategoryCodes |-> list]) :
        counter \in {Number(10), Number(20)},
        list \in Junk \cup {List(<<Text("A")>>), List(<<Text("A"), Text("A")>>)}}
SomeWidgets ==
    {Widget(id, component, x) : id \in {Text("a"), Text(""), JsonNull},
        component \in {Text("clock"), Number(10)}, x \in {JsonNull, Number(10), Number(5)}}
SomeActions ==
    {List(<<Object([executionType |-> moment, type |-> Text("UPDATE_STATUS"), value |-> value])>>) :
        moment \in {Undefined, Text("ON_ENTRY"), Number(10)}, value \in Simple}
SomeVoices ==
    {Object([speed |-> speed, volume |-> volume, pauseMs |-> pause]) :
        speed, volume \in {Undefined, JsonNull, Number(4), Number(5), Number(20)},
        pause \in {Undefined, Text(""), Number(15), Number(20000)}}

Near ==
    [storeName |-> {}, brandColor |-> {}, stateMachine |-> SomeMachines, dailyReset |-> SomeResets,
     categories |-> Lists(SomeCategories, OneCategory), routingRules |-> Lists(SomeRules, OneRule),
     serviceThemes |-> Maps({"kiosk", "tv"}, {JsonNull, Text("dark"), Text("light"), Number(10)}),
     tvPanelLayout |-> Lists(SomeWidgets, Widget(Text("b"), Text("clock"), Number(0))),
     edgeRoutingLayout |->
        Keyed(Maps({"sourceSide", "targetSide"}, {JsonNull, Text("top"), Text("up"), Number(10)})),
     nodePositions |-> Keyed(Junk \cup Maps({"x", "y"}, {JsonNull, Number(5), Text("top")})),
     nodeActions |-> Keyed(Junk \cup SomeActions),
     terminalNodes |-> {Object([start |-> spot]) :
                           spot \in Junk \cup {Text("hidden"), Object([x |-> Number(5), y |-> Number(10)])}},
     endSources |-> Lists(Simple, Text("WAITING")), startSources |-> Lists(Simple, Text("WAITING")),
     ttsConfiguration |-> SomeVoices]

BodiesMC == UNION {{[Base EXCEPT ![field] = raw] : raw \in Junk \cup Near[field]} : field \in DOMAIN Base}
DraftsMC == [speed : {4, 5, 20, 21}, volume : {-1, 0, 20, 21}, pauseMs : {-10, 0, 15, 20000, 20010}]

-----------------------------------------------------------------------------
ConfigurationInit ==
    /\ side \in {"saves", "documents"}
    /\ Init /\ BoundaryInit
    /\ side = "saves" => request = Base

ConfigurationNext ==
    /\ UNCHANGED side
    /\ \/ side = "saves" /\ Next /\ UNCHANGED boundaryVars
       \/ side = "documents" /\ Resend /\ UNCHANGED vars

ConfigurationSpec ==
    /\ ConfigurationInit /\ [][ConfigurationNext]_configurationVars
    /\ \A p \in Proc :
          WF_configurationVars(side = "saves" /\ Continue(p) /\ UNCHANGED <<side, boundaryVars>>)

(* ConfigurationTravels of ConfigBoundary, where a document travels.       *)
DocumentTravels == side = "documents" => ConfigurationTravels
===============================================================================
