------------------------------- MODULE TvLayout -------------------------------
(***************************************************************************)
(* The editor of the TV board's layout (admin-service, TvLayoutPage with   *)
(* lib/tv-grid-layout and lib/use-grid-dnd): widgets on a grid, placed by  *)
(* drags, steppers and a palette, while a save or a refresh of the shared  *)
(* configuration may replace the draft under a drag.  TvPanelLayout of the *)
(* core API says which layouts are stored.                                 *)
(*                                                                         *)
(* A layout maps the identity of a widget to the widget: the order of the  *)
(* array is left out, nothing reads it.  What lies around the editor (the  *)
(* preview, focus, labels, messages) is left out too.                      *)
(***************************************************************************)
EXTENDS Integers, FiniteSets

CONSTANTS
    Cols, Rows,         \* GRID_COLS and GRID_MAX_ROWS
    WidgetIds,          \* what newWidgetId can mint, and the default's ids
    Components,
    WidgetSize,         \* DEFAULT_WIDGET_SIZE: of each component, its w and h
    DefaultLayout,      \* DEFAULT_TV_GRID_LAYOUT
    NoLayout, NoDrag, NoSave, NoSpot,
    MaxLayoutEdits,     \* edits of the draft
    MaxForeign,         \* layouts stored by another page or browser
    MaxLayoutFaults,    \* calls of the page that fail
    RawLayouts          \* what GrammarsAgree is checked on

ASSUME GridAssumption ==
    /\ Cols \in Nat \ {0} /\ Rows \in Nat \ {0}
    /\ WidgetSize \in [Components -> [w : 1 .. Cols, h : 1 .. Rows]]

VARIABLES
    layout,         \* the page's draft
    storedLayout,         \* tvPanelLayout of the core API
    drag,           \* activeRef and preview of useGridDnd
    editing,        \* mode = 'edit'
    saving,         \* the save in flight
    editedSince,    \* history: the draft may have changed since the last save
    layoutEdits, layoutForeign, layoutFaults

layoutLimits == <<layoutEdits, layoutForeign, layoutFaults>>
layoutVars == <<layout, storedLayout, drag, editing, saving, editedSince, layoutLimits>>

-----------------------------------------------------------------------------
(* The grammar of a layout, as the page and the core API state it.         *)

RectsOverlap(a, b) ==
    /\ a.x < b.x + b.w /\ b.x < a.x + a.w
    /\ a.y < b.y + b.h /\ b.y < a.y + a.h

(* Mutant: each size within the grid, the far edge not looked at.          *)
IsValidBySize(raw) ==
    /\ \A i \in DOMAIN raw :
           /\ \A j \in DOMAIN raw \ {i} : raw[j].id # raw[i].id
           /\ raw[i].component \in Components
           /\ raw[i].x \in 0 .. Cols - 1 /\ raw[i].y \in 0 .. Rows - 1
           /\ raw[i].w \in 1 .. Cols /\ raw[i].h \in 1 .. Rows
    /\ \A i \in DOMAIN raw : \A j \in DOMAIN raw \ {i} : ~RectsOverlap(raw[i], raw[j])

(* validateTvGridLayout: each widget by itself, then all the pairs.        *)
IsValidTvGridLayout(raw) ==
    /\ \A i \in DOMAIN raw :
           /\ \A j \in DOMAIN raw \ {i} : raw[j].id # raw[i].id
           /\ raw[i].component \in Components
           /\ raw[i].x \in 0 .. Cols - 1 /\ raw[i].y \in 0 .. Rows - 1
           /\ raw[i].w \in 1 .. Cols /\ raw[i].x + raw[i].w <= Cols
           /\ raw[i].h \in 1 .. Rows /\ raw[i].y + raw[i].h <= Rows
    /\ \A i \in DOMAIN raw : \A j \in DOMAIN raw \ {i} : ~RectsOverlap(raw[i], raw[j])

(* TvPanelLayout.of: a widget is looked at with those accepted before it.  *)
Acceptable(widget) ==
    /\ widget.component \in Components
    /\ widget.x \in 0 .. Cols - 1 /\ widget.y \in 0 .. Rows - 1
    /\ widget.w \in 1 .. Cols - widget.x
    /\ widget.h \in 1 .. Rows - widget.y

Accepted(raw) ==
    /\ \A i \in DOMAIN raw : Acceptable(raw[i])
    /\ \A i \in DOMAIN raw : \A j \in DOMAIN raw \ {i} :
           /\ raw[i].id # raw[j].id
           /\ ~RectsOverlap(raw[i], raw[j])

Widget == [id : WidgetIds, component : Components, x : Nat, y : Nat, w : Nat, h : Nat]

ASSUME DefaultAssumption ==
    /\ DefaultLayout \in [DOMAIN DefaultLayout -> Widget]
    /\ \A id \in DOMAIN DefaultLayout : DefaultLayout[id].id = id
    /\ Accepted(DefaultLayout)

(* Before the snapshot has been read there is no draft, not an empty one.  *)
ASSUME NoLayoutAssumption ==
    \A ids \in SUBSET WidgetIds : NoLayout \notin [ids -> Widget]

CoerceTvGridLayout(raw) == IF IsValidTvGridLayout(raw) THEN raw ELSE DefaultLayout

-----------------------------------------------------------------------------
(* lib/tv-grid-layout: every helper gives back the layout it was given     *)
(* when the change cannot be made.                                         *)

Clamp(n, low, high) == IF n < low THEN low ELSE IF n > high THEN high ELSE n

HasOverlap(l, rect, except) == \E id \in DOMAIN l \ except : RectsOverlap(rect, l[id])

Rect(x, y, w, h) == [x |-> x, y |-> y, w |-> w, h |-> h]

(* findFreeSpot: row by row, each from the left.                           *)
FreeSpots(l, size) ==
    {spot \in (0 .. Cols - size.w) \X (0 .. Rows - size.h) :
        ~HasOverlap(l, Rect(spot[1], spot[2], size.w, size.h), {})}

FindFreeSpot(l, size) ==
    IF FreeSpots(l, size) = {} THEN NoSpot
    ELSE CHOOSE spot \in FreeSpots(l, size) :
            \A other \in FreeSpots(l, size) :
                spot[2] < other[2] \/ (spot[2] = other[2] /\ spot[1] <= other[1])

AddWidget(l, id, component) ==
    LET size == WidgetSize[component]
        spot == FindFreeSpot(l, size)
    IN IF spot = NoSpot THEN l
       ELSE [i \in DOMAIN l \cup {id} |->
                IF i = id THEN [id |-> id, component |-> component, x |-> spot[1],
                                y |-> spot[2], w |-> size.w, h |-> size.h]
                ELSE l[i]]

Placed(widget, rect) == [widget EXCEPT !.x = rect.x, !.y = rect.y, !.w = rect.w, !.h = rect.h]

(* Mutant: the ghost was shown valid, so the place is free.                *)
PutAsShown(l, id, rect) == [l EXCEPT ![id] = Placed(l[id], rect)]

Put(l, id, rect) ==
    IF HasOverlap(l, rect, {id}) THEN l
    ELSE [l EXCEPT ![id] = Placed(l[id], rect)]

MoveTarget(widget, x, y) ==
    Rect(Clamp(x, 0, Cols - widget.w), Clamp(y, 0, Rows - widget.h), widget.w, widget.h)

ResizeTarget(widget, w, h) ==
    Rect(widget.x, widget.y, Clamp(w, 1, Cols - widget.x), Clamp(h, 1, Rows - widget.y))

MoveWidget(l, id, x, y) ==
    IF id \notin DOMAIN l THEN l ELSE Put(l, id, MoveTarget(l[id], x, y))

ResizeWidget(l, id, w, h) ==
    IF id \notin DOMAIN l THEN l ELSE Put(l, id, ResizeTarget(l[id], w, h))

RemoveWidget(l, id) == [i \in DOMAIN l \ {id} |-> l[i]]

-----------------------------------------------------------------------------
(* The page.  An edit is made by the helper on the draft as rendered.      *)

(* A snapshot just read becomes the draft, whatever the draft was.         *)
ShowSnapshot == layout' = CoerceTvGridLayout(storedLayout)

LayoutInit ==
    /\ layout = NoLayout
    /\ storedLayout = DefaultLayout
    /\ drag = NoDrag /\ editing = FALSE /\ saving = NoSave /\ editedSince = FALSE
    /\ layoutEdits = 0 /\ layoutForeign = 0 /\ layoutFaults = 0

LoadConfig ==
    /\ layout = NoLayout
    /\ ShowSnapshot
    /\ UNCHANGED <<storedLayout, drag, editing, saving, editedSince, layoutLimits>>

OpenEditor ==
    /\ layout # NoLayout /\ ~editing
    /\ editing' = TRUE
    /\ UNCHANGED <<layout, storedLayout, drag, saving, editedSince, layoutLimits>>

(* Selesai or Escape: the draft stays, a drag goes with the editor.        *)
CloseEditor ==
    /\ editing /\ saving = NoSave
    /\ editing' = FALSE /\ drag' = NoDrag
    /\ UNCHANGED <<layout, storedLayout, saving, editedSince, layoutLimits>>

Edit(l) ==
    /\ editing
    /\ layoutEdits < MaxLayoutEdits
    /\ layoutEdits' = layoutEdits + 1
    /\ layout' = l
    /\ editedSince' = (editedSince \/ l # layout)
    /\ UNCHANGED <<storedLayout, editing, saving, layoutForeign, layoutFaults>>

(* The identities in use: a new one is none of them (newWidgetId).         *)
IdsInUse ==
    UNION {DOMAIN layout, DOMAIN storedLayout,
           IF saving = NoSave THEN {} ELSE DOMAIN saving.payload,
           IF drag = NoDrag THEN {} ELSE {drag.id}}

ClickChip(component) ==
    /\ editing
    /\ \E id \in WidgetIds \ IdsInUse : Edit(AddWidget(layout, id, component))
    /\ UNCHANGED drag

ClickRemove(id) == Edit(RemoveWidget(layout, id)) /\ UNCHANGED drag

(* A stepper writes one of the two sizes, the other as rendered.           *)
StepSize(id) ==
    /\ \/ \E n \in 1 .. Cols - layout[id].x : Edit(ResizeWidget(layout, id, n, layout[id].h))
       \/ \E n \in 1 .. Rows - layout[id].y : Edit(ResizeWidget(layout, id, layout[id].w, n))
    /\ UNCHANGED drag

ResetToDefault == Edit(DefaultLayout) /\ UNCHANGED drag

(* beginDrag: one drag at a time.                                          *)
BeginDrag(id, kind) ==
    /\ editing /\ drag = NoDrag
    /\ drag' = [kind |-> kind, id |-> id, valid |-> TRUE,
                rect |-> Rect(layout[id].x, layout[id].y, layout[id].w, layout[id].h)]
    /\ UNCHANGED <<layout, storedLayout, editing, saving, editedSince, layoutLimits>>

(* Mutant: clamped as if every widget were one cell.                       *)
GhostOfACell(widget, kind, dx, dy) ==
    IF kind = "move"
    THEN Rect(Clamp(dx, 0, Cols - 1), Clamp(dy, 0, Rows - 1), widget.w, widget.h)
    ELSE Rect(widget.x, widget.y, Clamp(widget.w + dx, 1, Cols), Clamp(widget.h + dy, 1, Rows))

(* The ghost under a pointer that points at cell (col, row), or has gone   *)
(* by (dx, dy) cells since the drag began.                                 *)
Ghost(widget, kind, dx, dy) ==
    IF kind = "move"
    THEN Rect(Clamp(dx, 0, Cols - widget.w), Clamp(dy, 0, Rows - widget.h), widget.w, widget.h)
    ELSE Rect(widget.x, widget.y, Clamp(widget.w + dx, 1, Cols - widget.x),
              Clamp(widget.h + dy, 1, Rows - widget.y))

Ghosts == {Ghost(layout[drag.id], drag.kind, dx, dy) : dx \in -1 .. Cols, dy \in -1 .. Rows}

PointerMove ==
    /\ drag # NoDrag
    /\ drag.id \in DOMAIN layout
    /\ \E ghost \in Ghosts :
           drag' = [drag EXCEPT !.rect = ghost,
                                !.valid = ~HasOverlap(layout, ghost, {drag.id})]
    /\ UNCHANGED <<layout, storedLayout, editing, saving, editedSince, layoutLimits>>

(* onPointerUp: the ghost last shown, through the helper once more, since  *)
(* the layout may not be the one the ghost was judged on.                  *)
Dropped(l) ==
    IF drag.kind = "move" THEN MoveWidget(l, drag.id, drag.rect.x, drag.rect.y)
    ELSE ResizeWidget(l, drag.id, drag.rect.w, drag.rect.h)

PointerUp ==
    /\ drag # NoDrag
    /\ drag' = NoDrag
    /\ \/ /\ drag.valid
          /\ Edit(Dropped(layout))
       \/ /\ ~drag.valid
          /\ UNCHANGED <<layout, storedLayout, editing, saving, editedSince, layoutLimits>>

-----------------------------------------------------------------------------
(* The save: the draft goes out with the rest of the configuration, and    *)
(* the shared snapshot is read again after it.  Nothing stops an edit in   *)
(* the meantime.                                                           *)

(* Mutant: the configuration goes out as it was read.                      *)
PayloadAsRead == storedLayout

(* The field this page edits; the others go out as they were read.         *)
Payload == layout

SaveLayout ==
    /\ editing /\ saving = NoSave
    /\ IsValidTvGridLayout(layout)
    /\ saving' = [phase |-> "put", payload |-> Payload]
    /\ editedSince' = FALSE
    /\ UNCHANGED <<layout, storedLayout, drag, editing, layoutLimits>>

PutStored ==
    /\ saving # NoSave /\ saving.phase = "put"
    /\ Accepted(saving.payload)
    /\ storedLayout' = saving.payload
    /\ saving' = [saving EXCEPT !.phase = "refresh"]
    /\ UNCHANGED <<layout, drag, editing, editedSince, layoutLimits>>

(* The call fails, before or after the core API has stored the layout.     *)
PutFailed ==
    /\ saving # NoSave /\ saving.phase = "put"
    /\ layoutFaults < MaxLayoutFaults
    /\ storedLayout' \in {storedLayout, saving.payload}
    /\ saving' = NoSave
    /\ layoutFaults' = layoutFaults + 1
    /\ editedSince' = TRUE
    /\ UNCHANGED <<layout, drag, editing, layoutEdits, layoutForeign>>

(* refresh: when it fails the snapshot stays, and the page says nothing.   *)
Refreshed ==
    /\ saving # NoSave /\ saving.phase = "refresh"
    /\ \/ ShowSnapshot /\ UNCHANGED <<editedSince, layoutFaults>>
       \/ /\ layoutFaults < MaxLayoutFaults
          /\ layoutFaults' = layoutFaults + 1
          /\ UNCHANGED <<layout, editedSince>>
    /\ saving' = NoSave
    /\ editing' = FALSE /\ drag' = NoDrag
    /\ UNCHANGED <<storedLayout, layoutEdits, layoutForeign>>

(* Another page of the browser, whose save refreshes the snapshot, or      *)
(* another browser, whose save shows when the snapshot is read again.      *)
ForeignSave ==
    /\ layoutForeign < MaxForeign
    /\ layoutForeign' = layoutForeign + 1
    /\ \E id \in WidgetIds : storedLayout' \in {RemoveWidget(storedLayout, id), DefaultLayout}
    /\ editedSince' = TRUE
    /\ UNCHANGED <<layout, drag, editing, saving, layoutEdits, layoutFaults>>

SnapshotRead ==
    /\ layout # NoLayout /\ layoutForeign > 0
    /\ ShowSnapshot
    /\ editedSince' = TRUE
    /\ UNCHANGED <<storedLayout, drag, editing, saving, layoutLimits>>

LayoutNext ==
    \/ LoadConfig \/ OpenEditor \/ CloseEditor
    \/ \E component \in Components : ClickChip(component)
    \/ /\ editing
       /\ \E id \in DOMAIN layout :
              \/ ClickRemove(id) \/ StepSize(id)
              \/ \E kind \in {"move", "resize"} : BeginDrag(id, kind)
    \/ ResetToDefault
    \/ PointerMove \/ PointerUp
    \/ SaveLayout \/ PutStored \/ PutFailed \/ Refreshed
    \/ ForeignSave \/ SnapshotRead

LayoutSpec == LayoutInit /\ [][LayoutNext]_layoutVars

-----------------------------------------------------------------------------
(* Whatever drags, steppers, chips and refreshes come in whatever order,   *)
(* the draft is a layout the core API would take: within the grid, no two  *)
(* widgets on a cell.  The drop of a ghost judged on another layout is     *)
(* what could break it (use-grid-dnd.ts, onPointerUp).                     *)
DraftIsAccepted == layout # NoLayout => Accepted(layout)

(* A ghost shown valid, of the size (place) the widget has, and still free *)
(* of the others, is where the drop puts the widget: the two computations  *)
(* of the target, one for the ghost and one for the layout, agree.         *)
SameShape(widget, rect) ==
    IF drag.kind = "move" THEN widget.w = rect.w /\ widget.h = rect.h
    ELSE widget.x = rect.x /\ widget.y = rect.y

GhostIsHonoured ==
    [][ (PointerUp /\ drag.valid /\ drag.id \in DOMAIN layout)
            => (SameShape(layout[drag.id], drag.rect) /\ ~HasOverlap(layout, drag.rect, {drag.id})
                   => layout'[drag.id] = Placed(layout[drag.id], drag.rect)) ]_layoutVars

(* After a save that was answered, with no edit and no other writer since, *)
(* the layout on the page is the one in the store, although nothing the    *)
(* page does compares them (TvLayoutPage.tsx, save).                       *)
SavedAsShown ==
    saving # NoSave /\ saving.phase = "refresh" /\ ~editedSince => layout = storedLayout

(* The two grammars accept the same layouts (tv-grid-layout.ts: "a         *)
(* divergence is a bug").                                                  *)
GrammarsAgree == \A raw \in RawLayouts : IsValidTvGridLayout(raw) <=> Accepted(raw)
===============================================================================
