------------------------------ MODULE FlowForm ------------------------------
(***************************************************************************)
(* The third step of the wizard: the same status flow as in FlowEditor,    *)
(* edited as rows of names and rows of transitions (StateMachineEditor).   *)
(*                                                                         *)
(* A row has no identity but its place: what is typed goes to the form at  *)
(* every keystroke, so a name may for a while be blank or another row's.   *)
(* The parts the rows do not show (places, actions, descriptions, links of *)
(* the markers) are those of the configuration the wizard opened with and  *)
(* are keyed by name.  What is saved is opened on the canvas afterwards.   *)
(***************************************************************************)
EXTENDS FlowEditor

onChange(f) ==
    /\ view = "form" /\ form' = f
    /\ UNCHANGED <<canvas, emitted, minted, view, stored, saving>>

Filling3 == form.mode = "custom" /\ edits < MaxEdits /\ edits' = edits + 1

-----------------------------------------------------------------------------
(* The form, mutated by row.                                               *)

referencedStates(f) == UNION {{t.from, t.to} : t \in ToSet(f.transitions)}

updateTransition(f, i, t) == [f EXCEPT !.transitions[i] = t]

(* A new transition leads from the first status to itself.                 *)
addTransition(f) ==
    [f EXCEPT !.transitions =
        Append(@, [Bare(<<f.states[1], f.states[1]>>) EXCEPT !.named = FALSE])]

removeTransition(f, i) == [f EXCEPT !.transitions = RemoveAt(@, i)]

RenamedKey(map, old, new) ==
    IF old \notin DOMAIN map \/ old = new THEN map
    ELSE [name \in (DOMAIN map \ {old}) \union {new} |->
             IF name = new THEN map[old] ELSE map[name]]

RenamedIn(names, old, new) == {IF s = old THEN new ELSE s : s \in names}

(* The name goes with everything keyed by it, but not with the statuses    *)
(* that node actions lead to.  (Mutant: the transitions stay behind.)      *)
TransitionsStay(transitions, old, new) == transitions
Retargeted(transitions, old, new) ==
    [i \in DOMAIN transitions |->
        [transitions[i] EXCEPT !.from = IF @ = old THEN new ELSE @,
                               !.to = IF @ = old THEN new ELSE @]]

updateState(f, i, new) ==
    LET old == f.states[i]
    IN  [f EXCEPT !.states[i] = new,
                  !.transitions = Retargeted(@, old, new),
                  !.positions = RenamedKey(@, old, new),
                  !.nodeActions = RenamedKey(@, old, new),
                  !.descriptions = RenamedIn(@, old, new),
                  !.sources = [k \in Marks |-> RenamedIn(@[k], old, new)]]

addState(f) == [f EXCEPT !.states = Append(@, "")]

(* The mutant forgets what is keyed by the status.                         *)
RowOnly(f, i) == [f EXCEPT !.states = RemoveAt(@, i)]
removeState(f, i) ==
    LET name == f.states[i]
    IN  [f EXCEPT !.states = RemoveAt(@, i),
                  !.positions = Restrict(@, DOMAIN @ \ {name}),
                  !.nodeActions = Restrict(@, DOMAIN @ \ {name}),
                  !.descriptions = @ \ {name},
                  !.sources = [k \in Marks |-> @[k] \ {name}]]

-----------------------------------------------------------------------------
(* The controls.  A status some transition names cannot be removed, nor    *)
(* the last transition.                                                    *)

ChooseFlow ==
    /\ UNCHANGED edits
    /\ \/ onChange(DefaultForm)
       \/ form.mode = "default" /\ onChange([form EXCEPT !.mode = "custom"])

StateRows ==
    /\ Filling3
    /\ \/ Len(form.states) < MaxStates /\ onChange(addState(form))
       \/ \E i \in DOMAIN form.states :
             \/ \E name \in TypedNames \union {""} : onChange(updateState(form, i, name))
             \/ form.states[i] \notin referencedStates(form) /\ onChange(removeState(form, i))

TransitionRows ==
    /\ Filling3
    /\ \/ Len(form.transitions) < MaxLinks /\ onChange(addTransition(form))
       \/ \E i \in DOMAIN form.transitions :
             LET t == form.transitions[i]
             IN  \/ Len(form.transitions) > 1 /\ onChange(removeTransition(form, i))
                 \/ \E s \in Names(form.states) :
                       \/ onChange(updateTransition(form, i, [t EXCEPT !.from = s]))
                       \/ onChange(updateTransition(form, i, [t EXCEPT !.to = s]))
                 \/ onChange(updateTransition(form, i, Relabelled(t)))

(* Finalize, past the guard of the third step, leaves the wizard.          *)
FinishForm ==
    /\ view = "form" /\ Savable(form) /\ Accepted(Dto(form))
    /\ stored' = AsStored(Dto(form)) /\ view' = "left"
    /\ UNCHANGED <<form, canvas, emitted, minted, saving, edits>>

OpenSaved == view = "left" /\ Reopen

-----------------------------------------------------------------------------
FormInit ==
    /\ stored \in Stores /\ form = ToForm(stored)
    /\ view = "form" /\ canvas = NoCanvas /\ emitted = Signature(form)
    /\ minted = 0 /\ saving = FALSE /\ edits = 0

FormNext == ChooseFlow \/ StateRows \/ TransitionRows \/ FinishForm \/ OpenSaved

FormSpec == FormInit /\ [][FormNext]_editorVars

-----------------------------------------------------------------------------
(* "structurally prevents the backend's 'transition references states not  *)
(* in schema' 400": whatever is typed, also through blank and double       *)
(* names, each transition's ends are among the rows; and what nobody can   *)
(* see in the rows is keyed by one of them.                                *)
NothingDangles ==
    view = "form" =>
        /\ referencedStates(form) \subseteq Names(form.states)
        /\ DOMAIN form.positions \union DOMAIN form.nodeActions \subseteq Names(form.states)
        /\ form.descriptions \subseteq Names(form.states)
        /\ \A k \in Marks : form.sources[k] \subseteq Names(form.states)

(* A form that passes the third step is accepted by the core API, unless a *)
(* node action still leads to the old name of a renamed or removed status, *)
(* or a linked status's name ends in a blank.                              *)
StepThreeIsAccepted ==
    /\ Savable(form)
    /\ \A s \in DOMAIN form.nodeActions : ToSet(form.nodeActions[s]) \subseteq Names(form.states)
    /\ \A k \in Marks : \A s \in form.sources[k] : Strip(s) = s
    => Accepted(Dto(form))
=============================================================================
