----------------------------- MODULE FlowEditor -----------------------------
(***************************************************************************)
(* The designer of the ticket-status flow in the admin panel.              *)
(*                                                                         *)
(* The draft of the whole configuration holds the flow as a form; the      *)
(* diagram keeps nodes and edges of its own, rebuilt from the form only    *)
(* when the form's signature is not the one the diagram emitted last.      *)
(* Edits of the diagram go to the form by commit, which captures the       *)
(* canvas, reconciles everything keyed by a status name and stamps the     *)
(* signature; edits of node actions and descriptions are lifted past the   *)
(* canvas; edits of the Start and End markers only change the form and     *)
(* leave the redrawing to the signature.  Saving maps the form onto the    *)
(* wire, the core API checks it once more, and the draft is read back.     *)
(*                                                                         *)
(* Coordinates are abstracted to "laid" (where autoLayout put a node) and  *)
(* "moved"; the handles of an edge to "plain" (right to left) and "corner" *)
(* (right to top), or "absent" in a form nobody routed; a label to being   *)
(* filled in.  Selection and the text on the node cards are left out.      *)
(***************************************************************************)
EXTENDS SequencesExt, Filter

CONSTANTS
    Waiting,             \* the status a re-queue policy may lead to
    DefaultStates,       \* DEFAULT_STATE_MACHINE, its states in order
    DefaultPairs,        \* and the ends of its transitions, in order
    FreshNames,          \* STATUS_1, STATUS_2, ... in order
    TypedNames,          \* what the manager may type as a status's name
    Trimmed,             \* [name -> the name without outer blanks], where it differs
    Stores,              \* the stored configurations the editor may open
    MaxEdits, MaxStates, MaxLinks   \* bounds of an instance

VARIABLES
    form,                \* StateMachineForm, in the shared draft
    canvas,              \* nodes and edges of the mounted diagram
    emitted,             \* lastEmitted: the signature the diagram knows
    minted,              \* edgeIdSeq
    view,                \* "diagram", "source" or "crashed"
    stored,              \* what the core API keeps
    saving,              \* whether the answer to a save is still being re-read
    edits                \* how many edits were made, a bound

editorVars == <<form, canvas, emitted, minted, view, stored, saving, edits>>

Marks == {"start", "end"}
Strip(name) == IF name \in DOMAIN Trimmed THEN Trimmed[name] ELSE name
Names(states) == ToSet(states)
Unique(s) == Cardinality(ToSet(s)) = Len(s)

-----------------------------------------------------------------------------
(* The form, and what makes it valid.                                      *)

Bare(pair) == [from |-> pair[1], to |-> pair[2], named |-> TRUE,
               policy |-> "KEEP", route |-> "absent"]

DefaultForm ==
    [mode |-> "default", states |-> DefaultStates,
     transitions |-> [i \in DOMAIN DefaultPairs |-> Bare(DefaultPairs[i])],
     positions |-> <<>>, nodeActions |-> <<>>, descriptions |-> {},
     marks |-> [k \in Marks |-> "auto"], sources |-> [k \in Marks |-> {}]]

Pairs(transitions) == [i \in DOMAIN transitions |-> <<transitions[i].from, transitions[i].to>>]

(* isDefaultSides: an edge nobody routed reads as a plain one.             *)
Side(t) == IF t.route = "absent" THEN "plain" ELSE t.route

(* isDefaultGraph: node actions and descriptions do not count.             *)
IsDefaultGraph(f) ==
    /\ f.positions = <<>>
    /\ \A k \in Marks : f.marks[k] = "auto" /\ f.sources[k] = {}
    /\ f.states = DefaultStates
    /\ Pairs(f.transitions) = DefaultPairs
    /\ \A t \in ToSet(f.transitions) : t.named /\ t.policy = "KEEP" /\ Side(t) = "plain"

(* What the form and the core API check alike.                             *)
WellFormed(states, transitions) ==
    /\ states # <<>> /\ transitions # <<>> /\ "" \notin Names(states)
    /\ Unique(states) /\ Unique(Pairs(transitions))
    /\ \A t \in ToSet(transitions) :
           /\ t.named
           /\ {t.from, t.to} \subseteq Names(states)
           /\ t.policy # "KEEP" => t.to = Waiting

(* The save button: computeFormValidity, the other sections being valid.   *)
Savable(f) == f.mode = "custom" => WellFormed(f.states, f.transitions)

-----------------------------------------------------------------------------
(* The wire, and the core API's cross-checks.                              *)

(* The data transfer objects: what a stored configuration says of the flow.*)
StatusNames ==
    UNION {{""}, Names(DefaultStates), Names(FreshNames), TypedNames,
           UNION {Names(d.states) : d \in Stores}}
Policies == {"KEEP", "TO_BACK"}
Rule == [from : StatusNames, to : StatusNames, named : BOOLEAN, policy : Policies]
Spots == {"laid", "moved"}
MarkStates == {"auto", "hidden", "pinned"}
ByStatus(map, values) == \A name \in DOMAIN map : name \in StatusNames /\ map[name] \in values

IsDocument(d) ==
    /\ d \in [states : Seq(StatusNames), transitions : Seq(Rule), descriptions : SUBSET StatusNames,
              layout : SUBSET (StatusNames \X StatusNames), positions : {d.positions},
              nodeActions : {d.nodeActions}, marks : [Marks -> MarkStates],
              sources : [Marks -> SUBSET StatusNames]]
    /\ ByStatus(d.positions, Spots) /\ ByStatus(d.nodeActions, Seq(StatusNames))

(* toEdgeRoutingLayoutDto: only edges off the default sides.               *)
LayoutOf(f) ==
    {<<t.from, t.to>> : t \in {u \in ToSet(f.transitions) : Side(u) # "plain"}}

Wired(t) == [from |-> t.from, to |-> t.to, named |-> t.named, policy |-> t.policy]
Routed(t, route) ==
    [from |-> t.from, to |-> t.to, named |-> t.named, policy |-> t.policy, route |-> route]

(* toStateMachineDto: default mode forces the graph and drops the          *)
(* descriptions.  The rest (toNodePositionsDto, toNodeActionsDto,          *)
(* toTerminalNodesDto, toEndSourcesDto and toStartSourcesDto) is read from *)
(* the form in any mode.                                                   *)
Dto(f) ==
    LET g == IF f.mode = "default" THEN DefaultForm ELSE f
    IN  [states |-> g.states,
         transitions |-> [i \in DOMAIN g.transitions |-> Wired(g.transitions[i])],
         descriptions |-> g.descriptions, layout |-> LayoutOf(f),
         positions |-> f.positions, nodeActions |-> f.nodeActions,
         marks |-> f.marks, sources |-> f.sources]

(* The value objects and the membership checks of the save use case.       *)
Accepted(d) ==
    /\ WellFormed(d.states, d.transitions)
    /\ d.layout \subseteq ToSet(Pairs(d.transitions))
    /\ DOMAIN d.positions \subseteq Names(d.states)
    /\ DOMAIN d.nodeActions \subseteq Names(d.states)
    /\ \A s \in DOMAIN d.nodeActions : ToSet(d.nodeActions[s]) \subseteq Names(d.states)
    /\ d.descriptions \subseteq Names(d.states)
    /\ \A k \in Marks : {Strip(s) : s \in d.sources[k]} \subseteq Names(d.states)

(* The default flow is in order, and so is what the core API has stored;   *)
(* no status bears the name that stands for the ids minted by a counter.   *)
ASSUME EditorAssumption ==
    /\ "sm-edge" \notin StatusNames
    /\ DefaultStates \in Seq(StatusNames) /\ FreshNames \in Seq(StatusNames)
    /\ DefaultPairs \in Seq(StatusNames \X StatusNames)
    /\ WellFormed(DefaultStates, DefaultForm.transitions)
    /\ \A d \in Stores :
           /\ IsDocument(d) /\ Accepted(d)
           /\ \A k \in Marks : d.sources[k] \subseteq Names(d.states)

AsStored(d) == [d EXCEPT !.sources = [k \in Marks |-> {Strip(s) : s \in d.sources[k]}]]

(* toForm: mergeEdgeSides, then the mode by comparison with the default.   *)
NoSidesOf(layout, t) == "absent"
SidesOf(layout, t) == IF <<t.from, t.to>> \in layout THEN "corner" ELSE "absent"

Merged(d) ==
    [i \in DOMAIN d.transitions |->
        Routed(d.transitions[i], SidesOf(d.layout, d.transitions[i]))]

ToForm(d) ==
    LET f == [mode |-> "custom", states |-> d.states, transitions |-> Merged(d),
              positions |-> d.positions, nodeActions |-> d.nodeActions,
              descriptions |-> d.descriptions, marks |-> d.marks, sources |-> d.sources]
    IN  IF IsDefaultGraph(f) THEN [f EXCEPT !.mode = "default"] ELSE f

-----------------------------------------------------------------------------
(* From the form to the canvas and back.                                   *)

(* graphSignature: neither the mode, nor actions, nor descriptions.        *)
Routes(transitions) == [i \in DOMAIN transitions |-> Routed(transitions[i], Side(transitions[i]))]

SignatureWithoutSources(f) ==
    [s |-> f.states, t |-> Routes(f.transitions), p |-> f.positions,
     tn |-> f.marks, e |-> <<>>]

Signature(f) ==
    [s |-> f.states, t |-> Routes(f.transitions), p |-> f.positions,
     tn |-> f.marks, e |-> f.sources]

(* defaultHandlesFor: a self-loop has a default shape of its own.          *)
DefaultRoute(from, to) == IF from = to THEN "corner" ELSE "plain"
Drawn(t) == IF t.route = "absent" THEN DefaultRoute(t.from, t.to) ELSE t.route

(* handlesAfterReroute                                                     *)
RouteAfter(l, from, to) ==
    IF l.route = DefaultRoute(l.from, l.to) THEN DefaultRoute(from, to) ELSE l.route

(* An edge built from the form is named by its ends and its index, an edge *)
(* drawn here by a counter.                                                *)
IndexId(t, i) == [from |-> t.from, to |-> t.to, n |-> i]
IdByLength(from, to, n) == [from |-> from, to |-> to, n |-> Len(canvas.links) + 1]
MintId(from, to, n) == [from |-> "sm-edge", to |-> "sm-edge", n |-> n]

LinkOf(id, t) ==
    [id |-> id, from |-> t.from, to |-> t.to, named |-> t.named, policy |-> t.policy,
     route |-> Drawn(t)]

Linked(f, k) == {s \in f.sources[k] : s \in Names(f.states)}

(* The markers of formToFlowWithMarkers and their arrows.                  *)
MarkersOf(f) ==
    [k \in Marks |-> IF f.marks[k] = "hidden" THEN "absent" ELSE f.marks[k]]
ArrowsOf(f) ==
    [k \in Marks |-> IF f.marks[k] = "hidden" THEN {} ELSE Linked(f, k)]

(* An automatic marker of a flow without statuses has no place to be put:  *)
(* formToFlowWithMarkers throws.                                           *)
Throws(f) == f.states = <<>> /\ \E k \in Marks : f.marks[k] = "auto"

NoCanvas == [nodes |-> <<>>, links |-> <<>>, marks |-> [k \in Marks |-> "absent"],
             arrows |-> [k \in Marks |-> {}]]

(* formToFlowWithMarkers, with the places of the nodes already there.      *)
PlaceOf(f, old, name) ==
    IF name \in DOMAIN f.positions THEN f.positions[name]
    ELSE IF \E n \in ToSet(old) : n.name = name
         THEN (CHOOSE n \in ToSet(old) : n.name = name).at
         ELSE "laid"

FormToFlow(f, old) ==
    [nodes |-> [i \in DOMAIN f.states |->
                   [name |-> f.states[i], at |-> PlaceOf(f, old, f.states[i])]],
     links |-> [i \in DOMAIN f.transitions |->
                   LinkOf(IndexId(f.transitions[i], i), f.transitions[i])],
     marks |-> MarkersOf(f), arrows |-> ArrowsOf(f)]

(* The capture of a marker: absence alone does not tell hidden from gone,  *)
(* so the form's own value stands.                                         *)
CaptureAuto(mark, prev) == IF mark = "absent" THEN "auto" ELSE mark
Capture(mark, prev) == IF mark = "absent" THEN prev ELSE mark

(* reconcileStateNameRefs: a rename carries over, a dead name goes.        *)
NameKept(name, rename) == name
MapName(name, rename) == IF name = rename.from THEN rename.to ELSE name

AnyValue(values, live) == values
LiveValues(values, live) == Kept(values, live)

Reconcile(f, live, rename) ==
    LET Map(s) == MapName(s, rename)
        owners == {s \in DOMAIN f.nodeActions : Map(s) \in live}
        Owner(s) == CHOOSE o \in owners : Map(o) = s
    IN  [nodeActions |->
            [s \in {Map(o) : o \in owners} |->
                LiveValues([i \in DOMAIN f.nodeActions[Owner(s)] |-> Map(f.nodeActions[Owner(s)][i])], live)],
         descriptions |-> {Map(s) : s \in f.descriptions} \cap live,
         sources |-> [k \in Marks |-> {Map(s) : s \in f.sources[k]} \cap live]]

NoRename == [from |-> "", to |-> ""]

(* flowToGraph and the reconciliation: the form a commit lifts.            *)
Captured(nodes, links, marks, rename) ==
    LET states == [i \in DOMAIN nodes |-> nodes[i].name]
        r == Reconcile(form, Names(states), rename)
    IN  [mode |-> form.mode, states |-> states,
         transitions |-> [i \in DOMAIN links |-> Routed(links[i], links[i].route)],
         positions |-> [s \in Names(states) |-> (CHOOSE n \in ToSet(nodes) : n.name = s).at],
         nodeActions |-> r.nodeActions, descriptions |-> r.descriptions,
         marks |-> [k \in Marks |-> Capture(marks[k], form.marks[k])],
         sources |-> r.sources]

-----------------------------------------------------------------------------
(* The three ways an edit reaches the form.                                *)

(* commit: stamps the signature, so the canvas stays as it was drawn; the  *)
(* markers are rebuilt.  A throw leaves everything as it is.               *)
CommitWith(nodes, links, marks, rename) ==
    LET f == Captured(nodes, links, marks, rename)
    IN  /\ ~Throws(f)
        /\ form' = f
        /\ canvas' = [nodes |-> nodes, links |-> links,
                      marks |-> MarkersOf(f), arrows |-> ArrowsOf(f)]
        /\ emitted' = Signature(f)

Commit(nodes, links) == CommitWith(nodes, links, canvas.marks, NoRename)

(* lift: a form-only edit, stamped as well.                                *)
Lift(f) ==
    /\ form' = f /\ emitted' = Signature(f)
    /\ UNCHANGED canvas

(* A plain onChange, and the sync effect that answers it.                  *)
Reset(f) ==
    /\ form' = f
    /\ IF view = "diagram" /\ Signature(f) # emitted
       THEN IF Throws(f)
            THEN canvas' = NoCanvas /\ view' = "crashed" /\ UNCHANGED emitted
            ELSE canvas' = FormToFlow(f, canvas.nodes) /\ emitted' = Signature(f) /\ UNCHANGED view
       ELSE UNCHANGED <<canvas, emitted, view>>

Editing ==
    /\ view = "diagram" /\ form.mode = "custom"
    /\ edits < MaxEdits /\ edits' = edits + 1
    /\ UNCHANGED <<stored, saving>>

Quiet == UNCHANGED <<minted, view>>

-----------------------------------------------------------------------------
(* Statuses.                                                               *)

(* addStateAt, with the first free generated name.                         *)
AddState ==
    /\ Editing /\ Quiet
    /\ Len(form.states) < MaxStates
    /\ LET free == Kept(FreshNames,
                        Names(FreshNames) \ (Names(form.states) \union Names(DefaultStates)))
       IN  /\ free # <<>>
           /\ Commit(Append(canvas.nodes, [name |-> Head(free), at |-> "moved"]), canvas.links)

InUse(name) == \E n \in ToSet(canvas.nodes) : n.name = name

RenameState(old, new) ==
    /\ Editing /\ Quiet
    /\ new # old /\ ~InUse(new)
    /\ CommitWith([i \in DOMAIN canvas.nodes |->
                      IF canvas.nodes[i].name = old THEN [canvas.nodes[i] EXCEPT !.name = new]
                      ELSE canvas.nodes[i]],
                  [i \in DOMAIN canvas.links |->
                      LET l == canvas.links[i]
                      IN  [l EXCEPT !.from = IF @ = old THEN new ELSE @,
                                    !.to = IF @ = old THEN new ELSE @]],
                  canvas.marks, [from |-> old, to |-> new])

DeleteState(s) ==
    /\ Editing /\ Quiet
    /\ Commit(Kept(canvas.nodes, {n \in ToSet(canvas.nodes) : n.name # s}),
              Kept(canvas.links, {l \in ToSet(canvas.links) : s \notin {l.from, l.to}}))

DragState(i) ==
    /\ Editing /\ Quiet
    /\ Commit([canvas.nodes EXCEPT ![i].at = "moved"], canvas.links)

-----------------------------------------------------------------------------
(* Transitions.                                                            *)

IsDuplicate(from, to) == \E l \in ToSet(canvas.links) : l.from = from /\ l.to = to
NeverDuplicate(from, to) == FALSE
Taken(from, to) == IsDuplicate(from, to)

NewLink(from, to, route) ==
    [id |-> MintId(from, to, minted), from |-> from, to |-> to, named |-> FALSE,
     policy |-> "KEEP", route |-> route]

Draw(link) ==
    /\ Editing /\ UNCHANGED view
    /\ Len(canvas.links) < MaxLinks
    /\ minted' = minted + 1
    /\ Commit(canvas.nodes, Append(canvas.links, link))

(* onConnect: between two handles, also two of one node.                   *)
Connect(from, to, route) == ~Taken(from, to) /\ Draw(NewLink(from, to, route))

(* onConnectEnd: a drag let go over its own card, where decideConnectEnd   *)
(* turns the first side clockwise into the other end of the loop.          *)
WantsSelfLoop(s) == ~IsDuplicate(s, s)
DropOnSelf(s) == WantsSelfLoop(s) /\ Draw(NewLink(s, s, "corner"))

(* onAddTransitionFrom: the first target that makes no duplicate.          *)
AddTransitionFrom(s) ==
    LET free == Kept(form.states, {t \in Names(form.states) : ~IsDuplicate(s, t)})
    IN  free # <<>> /\ Draw(NewLink(s, Head(free), DefaultRoute(s, Head(free))))

(* The label is typed, or emptied.                                         *)
Relabelled(t) == [t EXCEPT !.named = ~@]

EditLabel(i) ==
    /\ Editing /\ Quiet
    /\ Commit(canvas.nodes, [canvas.links EXCEPT ![i] = Relabelled(@)])

(* The panel shows the policy of transitions to WAITING only.              *)
EditPolicy(i, policy) ==
    /\ Editing /\ Quiet
    /\ canvas.links[i].to = Waiting /\ canvas.links[i].policy # policy
    /\ Commit(canvas.nodes, [canvas.links EXCEPT ![i].policy = policy])

DeleteTransition(i) ==
    /\ Editing /\ Quiet
    /\ Len(form.transitions) > 1
    /\ Commit(canvas.nodes, RemoveAt(canvas.links, i))

RerouteTransition(i, from, to) ==
    /\ Editing /\ Quiet
    /\ <<canvas.links[i].from, canvas.links[i].to>> # <<from, to>>
    /\ ~Taken(from, to)
    /\ Commit(canvas.nodes,
              [canvas.links EXCEPT ![i] = [@ EXCEPT !.from = from, !.to = to,
                                                    !.route = RouteAfter(canvas.links[i], from, to)]])

-----------------------------------------------------------------------------
(* The Start and End markers: only a drag goes through the canvas.         *)

ChangeMark(k, mark) == Reset([form EXCEPT !.marks[k] = mark])

LinkMark(k, s) ==
    /\ Editing /\ UNCHANGED minted
    /\ canvas.marks[k] # "absent" /\ s \notin canvas.arrows[k]
    /\ Reset([form EXCEPT !.sources[k] = @ \union {s}])

UnlinkMark(k, s) ==
    /\ Editing /\ UNCHANGED minted
    /\ canvas.marks[k] # "absent"
    /\ Reset([form EXCEPT !.sources[k] = @ \ {s}])

ResetMark(k) ==
    /\ Editing /\ UNCHANGED minted
    /\ canvas.marks[k] = "pinned" /\ ChangeMark(k, "auto")

HideMark(k) ==
    /\ Editing /\ UNCHANGED minted
    /\ canvas.marks[k] # "absent" /\ ChangeMark(k, "hidden")

DropMark(k) ==
    /\ Editing /\ UNCHANGED minted
    /\ ChangeMark(k, "pinned")

DragMark(k) ==
    /\ Editing /\ Quiet
    /\ canvas.marks[k] # "absent"
    /\ CommitWith(canvas.nodes, canvas.links, [canvas.marks EXCEPT ![k] = "pinned"], NoRename)

-----------------------------------------------------------------------------
(* Node actions and descriptions, lifted past the canvas.                  *)

ActionsOf(s) == IF s \in DOMAIN form.nodeActions THEN form.nodeActions[s] ELSE <<>>

SetActions(s, actions) ==
    Lift([form EXCEPT !.nodeActions =
             [o \in DOMAIN @ \union {s} |-> IF o = s THEN actions ELSE ActionsOf(o)]])

(* The value starts as another status, where there is one.                 *)
AddNodeAction(s) ==
    /\ Editing /\ Quiet
    /\ Len(ActionsOf(s)) < 1
    /\ LET others == Kept(form.states, Names(form.states) \ {s})
       IN  SetActions(s, Append(ActionsOf(s), IF others = <<>> THEN s ELSE Head(others)))

EditNodeAction(s, i, value) ==
    /\ Editing /\ Quiet
    /\ SetActions(s, [ActionsOf(s) EXCEPT ![i] = value])

DeleteNodeAction(s, i) ==
    /\ Editing /\ Quiet
    /\ SetActions(s, RemoveAt(ActionsOf(s), i))

Describe(s) ==
    /\ Editing /\ Quiet
    /\ Lift([form EXCEPT !.descriptions = @ \union {s}])

ClearDescription(s) ==
    /\ Editing /\ Quiet
    /\ s \in form.descriptions
    /\ Lift([form EXCEPT !.descriptions = @ \ {s}])

-----------------------------------------------------------------------------
(* The mode, the view, and the draft.                                      *)

ChooseDefault ==
    /\ view = "diagram"
    /\ Reset(DefaultForm)
    /\ UNCHANGED <<minted, stored, saving, edits>>

ChooseCustom ==
    /\ view = "diagram" /\ form.mode = "default"
    /\ Reset([form EXCEPT !.mode = "custom"])
    /\ UNCHANGED <<minted, stored, saving, edits>>

(* The diagram is mounted anew every time it is shown.                     *)
Mount(f) ==
    /\ ~Throws(f)
    /\ view' = "diagram" /\ canvas' = FormToFlow(f, <<>>) /\ emitted' = Signature(f)
    /\ minted' = 0

ShowSource ==
    /\ view = "diagram" /\ view' = "source" /\ canvas' = NoCanvas
    /\ UNCHANGED <<form, emitted, minted, stored, saving, edits>>

ShowDiagram ==
    /\ view = "source" /\ Mount(form)
    /\ UNCHANGED <<form, stored, saving, edits>>

(* save: the form as it is now; edits may follow before it is re-read.     *)
(* What the core API refuses leaves only a message.                        *)
Save ==
    /\ view # "crashed" /\ ~saving /\ Savable(form)
    /\ Accepted(Dto(form))
    /\ stored' = AsStored(Dto(form)) /\ saving' = TRUE
    /\ UNCHANGED <<form, canvas, emitted, minted, view, edits>>

(* The re-read replaces the draft, or fails and leaves it.                 *)
ReRead ==
    /\ saving /\ saving' = FALSE
    /\ Reset(ToForm(stored))
    /\ UNCHANGED <<minted, stored, edits>>

ReReadFails ==
    /\ saving /\ saving' = FALSE
    /\ UNCHANGED <<form, canvas, emitted, minted, view, stored, edits>>

(* The page is opened again, the draft loaded afresh.                      *)
Reopen ==
    /\ form' = ToForm(stored) /\ Mount(form') /\ saving' = FALSE
    /\ UNCHANGED <<stored, edits>>

-----------------------------------------------------------------------------
EditorInit ==
    /\ stored \in Stores
    /\ form = ToForm(stored) /\ view = "diagram"
    /\ canvas = FormToFlow(form, <<>>) /\ emitted = Signature(form)
    /\ minted = 0 /\ saving = FALSE /\ edits = 0

StatusEdit ==
    \/ AddState
    \/ \E s \in Names(form.states) :
          \/ DeleteState(s)
          \/ \E new \in TypedNames : RenameState(s, new)
    \/ \E i \in DOMAIN canvas.nodes : DragState(i)

LinkEdit(i) ==
    EditLabel(i) \/ DeleteTransition(i) \/ \E policy \in {"KEEP", "TO_BACK"} : EditPolicy(i, policy)

TransitionEdit ==
    \/ \E from, to \in Names(form.states) :
          \/ \E route \in {"plain", "corner"} : Connect(from, to, route)
          \/ \E i \in DOMAIN canvas.links : RerouteTransition(i, from, to)
    \/ \E s \in Names(form.states) : AddTransitionFrom(s) \/ DropOnSelf(s)
    \/ \E i \in DOMAIN canvas.links : LinkEdit(i)

MarkEdit ==
    \E k \in Marks :
        \/ ResetMark(k) \/ HideMark(k) \/ DropMark(k) \/ DragMark(k)
        \/ \E s \in Names(form.states) : LinkMark(k, s)
        \/ \E s \in form.sources[k] : UnlinkMark(k, s)

NodeEdit ==
    \E s \in Names(form.states) :
        \/ AddNodeAction(s) \/ Describe(s) \/ ClearDescription(s)
        \/ \E i \in DOMAIN ActionsOf(s) :
              DeleteNodeAction(s, i) \/ \E value \in Names(form.states) : EditNodeAction(s, i, value)

EditorNext ==
    \/ StatusEdit \/ TransitionEdit \/ MarkEdit \/ NodeEdit
    \/ ChooseDefault \/ ChooseCustom \/ ShowSource \/ ShowDiagram
    \/ Save \/ ReRead \/ ReReadFails \/ Reopen

EditorSpec == EditorInit /\ [][EditorNext]_editorVars

-----------------------------------------------------------------------------
(* The diagram and the form always agree on what is drawn, although only   *)
(* some edits redraw: an edit the signature misses would leave the manager *)
(* looking at something that is not saved.  The sides of a self-loop are   *)
(* left out: one drawn from right to left is saved as one nobody routed.   *)
Shows(drawn, f) ==
    /\ [i \in DOMAIN drawn.nodes |-> drawn.nodes[i].name] = f.states
    /\ \A i \in DOMAIN drawn.nodes :
           f.states[i] \in DOMAIN f.positions => drawn.nodes[i].at = f.positions[f.states[i]]
    /\ Len(drawn.links) = Len(f.transitions)
    /\ \A i \in DOMAIN drawn.links :
           /\ Wired(drawn.links[i]) = Wired(f.transitions[i])
           /\ drawn.links[i].from # drawn.links[i].to =>
                  drawn.links[i].route = Drawn(f.transitions[i])
    /\ drawn.marks = MarkersOf(f) /\ drawn.arrows = ArrowsOf(f)

CanvasShowsForm == view = "diagram" => Shows(canvas, form)

(* No sequence of edits leads to a form the editor finds valid and the     *)
(* core API refuses: nothing keyed by a status outlives it.  A status whose *)
(* name ends in a blank is the exception once it is linked to a marker.    *)
SavesAreAccepted ==
    /\ Savable(form)
    /\ \A k \in Marks : \A s \in form.sources[k] : Strip(s) = s
    => Accepted(Dto(form))

(* Two edges never share an id nor a pair of ends, whatever is renamed,    *)
(* re-pointed, deleted and drawn again.                                    *)
LinksAreDistinct ==
    /\ Unique([i \in DOMAIN canvas.links |-> canvas.links[i].id])
    /\ Unique(Pairs(canvas.links))

(* The canvas and the form stay in step.                                   *)
CanvasIsInStep == CanvasShowsForm /\ LinksAreDistinct

(* Saving a custom flow and reading it back gives the flow that was drawn. *)
SavingKeepsTheFlow ==
    form.mode = "custom" /\ Savable(form) /\ Accepted(Dto(form)) =>
        LET f == ToForm(AsStored(Dto(form)))
        IN  /\ f.states = form.states /\ f.positions = form.positions
            /\ f.nodeActions = form.nodeActions /\ f.descriptions = form.descriptions
            /\ f.marks = form.marks
            /\ \A i \in DOMAIN f.transitions :
                   LET t == f.transitions[i] u == form.transitions[i]
                   IN  Wired(t) = Wired(u) /\ (t.from # t.to => Drawn(t) = Drawn(u))

(* The manager's work beside the graph: descriptions, actions, links.      *)
Work(f) ==
    {<<"description", s>> : s \in f.descriptions}
        \union (UNION {{<<"action", s, i>> : i \in DOMAIN f.nodeActions[s]} : s \in DOMAIN f.nodeActions})
        \union (UNION {{<<k, s>> : s \in f.sources[k]} : k \in Marks})

Loaded == form' \in {DefaultForm, ToForm(stored)}

(* It is lost only with a status that is deleted, or one piece at a time   *)
(* by the control that removes it; a rename carries all of it along, also  *)
(* in the wizard's rows (FlowForm), unless two rows come to bear one name. *)
WorkIsLostOnlyByDeletion ==
    [][\/ form' = form
       \/ ~Unique(form'.states)
       \/ Cardinality(Work(form')) >= Cardinality(Work(form))
       \/ Len(form'.states) < Len(form.states)
       \/ form'.states = form.states /\ Cardinality(Work(form) \ Work(form')) <= 1
       \/ Loaded]_form

(* Editing the graph never brings back a marker that was hidden, nor moves *)
(* one that was placed.                                                    *)
MarkersStayPut ==
    [][\/ form'.marks = form.marks \/ Loaded
       \/ form'.states = form.states /\ Pairs(form'.transitions) = Pairs(form.transitions)]_form

(* An edit leaves alone what it is not about.                              *)
EditsKeepTheRest == WorkIsLostOnlyByDeletion /\ MarkersStayPut

(* "in default mode the default canvas carries no node actions, so the map *)
(* is {} regardless"                                                       *)
DefaultModeIsBare == form.mode = "default" => form.nodeActions = <<>>
=============================================================================
