----------------------------- MODULE ConfigPages -----------------------------
(***************************************************************************)
(* The configuration pages of the admin application in one browser.  Each  *)
(* page sends the whole document and changes a part of it: the panel from  *)
(* a draft it reads for itself, the printer and voice pages from the       *)
(* snapshot that the whole application shares.  Requests and answers take  *)
(* their time, and the administrator may leave a page before its save ends.*)
(***************************************************************************)
EXTENDS Naturals, SequencesExt, Filter

CONSTANTS
    Fields,          \* the scalar settings; each belongs to the page of its name
    Values,          \* what a scalar setting may be
    Numbering,       \* category codes; 0 is the blank code of a new row
    CounterCap,      \* the counters the licence allows
    Nothing,
    MaxConfigEdits, MaxPuts, MaxConfigFaults, MaxCounters

ASSUME PanelAssumption ==
    /\ "panel" \in Fields /\ "dashboard" \notin Fields
    /\ Numbering \subseteq Nat \ {0} /\ 1 \in Numbering
    /\ Nothing \notin Values
    /\ MaxConfigFaults \in Nat

VARIABLES
    doc,             \* the stored document
    categoryIds,          \* how many category ids were minted
    snapshot,        \* the shared copy
    generation,      \* the number of the shared copy's last read
    reads,           \* the reads on their way, and what they were answered
    page,            \* the page in view
    panel,           \* the panel's draft
    modal,           \* the counter row being edited over the panel
    fieldDraft,      \* the draft of a page of one setting
    puts,            \* the saves on their way
    pageEdits, sent, faults,
    calm,            \* no page was left, no draft touched, while a save ran; no fault
    intended,        \* the settings as their pages last saved them
    everStored,      \* the category ids that were ever stored
    dropped          \* the category ids whose row was removed

pagesVars == <<doc, categoryIds, snapshot, generation, reads, page, panel, modal, fieldDraft,
               puts, pageEdits, sent, faults, calm, intended, everStored, dropped>>
history == <<intended, everStored, dropped>>
budget == <<pageEdits, sent, faults>>

Pages == Fields
Unnamed == 0
CategoryRow == [id : Nat, code : Numbering \cup {0}]
RoutingRow == [counter : Nat, codes : SUBSET (Numbering \cup {0})]

-----------------------------------------------------------------------------
(* The document and the form made of it.                                   *)

CodesIn(categories) == {category.code : category \in categories}
CodeOf(document, id) == (CHOOSE c \in document.categories : c.id = id).code
Known(document) == {c.id : c \in document.categories}

NewCategory == [id |-> Unnamed, code |-> 0]
DefaultCategory == [id |-> Unnamed, code |-> 1]

(* The numbers of a set, the least first.                                  *)
InOrder(numbers) == CHOOSE walk \in Ascending(numbers) : TRUE

(* The rows of the form; an assigned category that is not there is left out. *)
CategoryRows(document) ==
    LET codes == InOrder(CodesIn(document.categories))
    IN [i \in DOMAIN codes |-> CHOOSE c \in document.categories : c.code = codes[i]]
RoutingRows(document) ==
    LET counters == InOrder(DOMAIN document.rules)
    IN [i \in DOMAIN counters |->
           [counter |-> counters[i],
            codes |-> {CodeOf(document, id) :
                         id \in document.rules[counters[i]] \cap Known(document)}]]

FormOf(document) ==
    [fields |-> document.fields,
     categories |-> IF document.categories = {} THEN <<DefaultCategory>>
                    ELSE CategoryRows(document),
     routing |-> IF DOMAIN document.rules = {} THEN <<[counter |-> 1, codes |-> {}]>>
                 ELSE RoutingRows(document)]

(* What keeps the save button from being disabled.                         *)
FormIsSavable(form) ==
    /\ \A i \in DOMAIN form.categories : form.categories[i].code # 0
    /\ \A i, j \in DOMAIN form.categories :
          form.categories[i].code = form.categories[j].code => i = j
    /\ \E i \in DOMAIN form.routing : form.routing[i].codes # {}

-----------------------------------------------------------------------------
(* The server: what it refuses and what it stores.                         *)

RowCodes(form) == {form.categories[i].code : i \in DOMAIN form.categories}

NamesUnknownCode(form) == \E i \in DOMAIN form.routing : ~(form.routing[i].codes \subseteq RowCodes(form))
OverTheCap(form) == Len(form.routing) > CounterCap
LeavesUnserved(form) == \E i \in DOMAIN form.routing : form.routing[i].codes = {}

SaveIsRefused(form) ==
    \/ OverTheCap(form)
    \/ \E i \in DOMAIN form.categories : form.categories[i].code = 0
    \/ \E i, j \in DOMAIN form.categories : i # j /\ form.categories[i].code = form.categories[j].code
    \/ \E i, j \in DOMAIN form.routing : i # j /\ form.routing[i].counter = form.routing[j].counter
    \/ NamesUnknownCode(form)
    \/ LeavesUnserved(form)

(* A row without an id is given the next one, in the order of the rows.    *)
IdOfRow(form, i) ==
    IF form.categories[i].id # Unnamed THEN form.categories[i].id
    ELSE categoryIds + Cardinality({j \in 1 .. i : form.categories[j].id = Unnamed})

Written(form) ==
    LET id == [code \in RowCodes(form) |->
                 IdOfRow(form, CHOOSE i \in DOMAIN form.categories : form.categories[i].code = code)]
        row(counter) == form.routing[CHOOSE i \in DOMAIN form.routing : form.routing[i].counter = counter]
    IN [fields |-> form.fields,
        categories |-> {[id |-> id[code], code |-> code] : code \in RowCodes(form)},
        rules |-> [counter \in {form.routing[i].counter : i \in DOMAIN form.routing} |->
                     {id[code] : code \in row(counter).codes}]]

NewIds(form) == Cardinality({i \in DOMAIN form.categories : form.categories[i].id = Unnamed})

-----------------------------------------------------------------------------
(* Reads.  "for" says who asked: the shared copy, or the mount of the panel. *)

Read(asker, number) == [for |-> asker, number |-> number, answer |-> Nothing]
PanelLoading == [status |-> "loading"]
PanelReady(form) == [status |-> "ready", form |-> form]
PanelFailed == [status |-> "error"]

PagesInit ==
    /\ \E value \in Values :
          doc = [fields |-> [field \in Fields |-> value], categories |-> {[id |-> 1, code |-> 1]},
                 rules |-> [counter \in {1, 2} |-> {1}]]
    /\ categoryIds = 1
    /\ snapshot = Nothing /\ generation = 1 /\ reads = {Read("shared", 1)}
    /\ page = "dashboard" /\ panel = PanelLoading /\ modal = Nothing /\ fieldDraft = Nothing
    /\ puts = {}
    /\ pageEdits = 0 /\ sent = 0 /\ faults = 0
    /\ calm = TRUE /\ intended = doc.fields /\ everStored = {1} /\ dropped = {}

ServerReads(read) ==
    /\ read \in reads /\ read.answer = Nothing
    /\ reads' = (reads \ {read}) \cup {[read EXCEPT !.answer = doc]}
    /\ UNCHANGED <<doc, categoryIds, snapshot, generation, page, panel, modal, fieldDraft, puts,
                   budget, calm, history>>

(* The modal shows the row at its index: it starts over when that row comes back. *)
Reseated(routing) ==
    IF modal = Nothing \/ panel.status # "ready" THEN modal
    ELSE IF modal.index \in DOMAIN routing /\ modal.index \notin DOMAIN panel.form.routing
         THEN [modal EXCEPT !.codes = routing[modal.index].codes] ELSE modal

(* The shared copy takes only the answer to its last read; the page of one *)
(* setting starts its draft over from every new copy.                      *)
SharedAnswered(read, came) ==
    /\ read \in reads /\ read.for = "shared"
    /\ came => read.answer # Nothing
    /\ reads' = reads \ {read}
    /\ IF came /\ read.number = generation
       THEN /\ snapshot' = read.answer
            /\ fieldDraft' = IF page \in Fields \ {"panel"} THEN read.answer.fields[page] ELSE fieldDraft
       ELSE UNCHANGED <<snapshot, fieldDraft>>
    /\ puts' = {put \in puts : ~(put.phase = "refresh" /\ put.read = read.number)}
    /\ UNCHANGED <<doc, categoryIds, generation, page, panel, modal, pageEdits, sent, history>>

(* The panel's first read; leaving the page cancels it.                    *)
PanelAnswered(read, came) ==
    /\ read \in reads /\ read.for = "panel"
    /\ came => read.answer # Nothing
    /\ reads' = reads \ {read}
    /\ panel' = IF came THEN PanelReady(FormOf(read.answer)) ELSE PanelFailed
    /\ UNCHANGED <<doc, categoryIds, snapshot, generation, page, modal, fieldDraft, puts, pageEdits, sent, history>>

(* An answer comes, or the request fails.                                  *)
ReadAnswered(read) ==
    /\ SharedAnswered(read, TRUE) \/ PanelAnswered(read, TRUE)
    /\ UNCHANGED <<faults, calm>>
ReadFails(read) ==
    /\ faults < MaxConfigFaults /\ faults' = faults + 1 /\ calm' = FALSE
    /\ SharedAnswered(read, FALSE) \/ PanelAnswered(read, FALSE)

-----------------------------------------------------------------------------
(* Pages.                                                                  *)

(* A page is shown once there is a shared copy.  The panel mounts with a   *)
(* read of its own, and the reads of an earlier mount are not heard.       *)
OpenPage(target) ==
    /\ snapshot # Nothing /\ page # target
    /\ page' = target /\ modal' = Nothing
    /\ calm' = (calm /\ puts = {})
    /\ panel' = PanelLoading
    /\ reads' = {read \in reads : read.for # "panel"}
                  \cup (IF target = "panel" THEN {Read("panel", 0)} ELSE {})
    /\ fieldDraft' = IF target = "panel" THEN Nothing ELSE snapshot.fields[target]
    /\ puts' = {[put EXCEPT !.mounted = FALSE] : put \in puts}
    /\ UNCHANGED <<doc, categoryIds, snapshot, generation, budget, history>>

Retry ==
    /\ \/ panel.status = "error" /\ page = "panel"
          /\ panel' = PanelLoading /\ reads' = reads \cup {Read("panel", 0)} /\ UNCHANGED generation
       \/ snapshot = Nothing /\ (\A read \in reads : read.for # "shared")
          /\ generation' = generation + 1 /\ reads' = reads \cup {Read("shared", generation + 1)}
          /\ UNCHANGED panel
    /\ UNCHANGED <<doc, categoryIds, snapshot, page, modal, fieldDraft, puts, budget, calm, history>>

-----------------------------------------------------------------------------
(* Edits.  The panel's inputs stay enabled while a save runs.              *)

CountEdit ==
    /\ pageEdits < MaxConfigEdits /\ pageEdits' = pageEdits + 1
    /\ calm' = (calm /\ puts = {})
    /\ UNCHANGED <<doc, categoryIds, snapshot, generation, reads, page, puts, sent, faults,
                   intended, everStored>>

EditPanel(form) ==
    /\ CountEdit
    /\ panel' = PanelReady(form) /\ modal' = Reseated(form.routing)
    /\ UNCHANGED fieldDraft

OnPanel == page = "panel" /\ panel.status = "ready" /\ modal = Nothing

EditSetting(value) ==
    /\ OnPanel /\ value # panel.form.fields["panel"]
    /\ EditPanel([panel.form EXCEPT !.fields["panel"] = value])
    /\ UNCHANGED dropped

updateCategory(i, code) ==
    /\ OnPanel /\ i \in DOMAIN panel.form.categories
    /\ code # panel.form.categories[i].code
    /\ EditPanel([panel.form EXCEPT !.categories[i].code = code])
    /\ UNCHANGED dropped

addCategory ==
    /\ OnPanel /\ Len(panel.form.categories) <= Cardinality(Numbering)
    /\ EditPanel([panel.form EXCEPT !.categories = Append(@, NewCategory)])
    /\ UNCHANGED dropped

removeCategory(i) ==
    /\ OnPanel /\ i \in DOMAIN panel.form.categories /\ Len(panel.form.categories) > 1
    /\ EditPanel([panel.form EXCEPT !.categories = RemoveAt(@, i)])
    /\ dropped' = dropped \cup ({panel.form.categories[i].id} \ {Unnamed})

(* A counter is numbered after the highest one, not after the count.       *)
NextCounter(routing) ==
    IF routing = <<>> THEN 1 ELSE 1 + Max({routing[i].counter : i \in DOMAIN routing})

addRouting ==
    /\ OnPanel
    /\ NextCounter(panel.form.routing) <= MaxCounters
    /\ EditPanel([panel.form EXCEPT !.routing =
                    Append(@, [counter |-> NextCounter(panel.form.routing), codes |-> {}])])
    /\ UNCHANGED dropped

removeRouting(i) ==
    /\ OnPanel /\ i \in DOMAIN panel.form.routing /\ Len(panel.form.routing) > 1
    /\ EditPanel([panel.form EXCEPT !.routing = RemoveAt(@, i)])
    /\ UNCHANGED dropped

(* The modal takes a copy of the row; its select offers the categories of  *)
(* the form and a chip for every code already chosen.                      *)
OpenModal(i) ==
    /\ OnPanel /\ i \in DOMAIN panel.form.routing
    /\ modal' = [index |-> i, codes |-> panel.form.routing[i].codes]
    /\ UNCHANGED <<doc, categoryIds, snapshot, generation, reads, page, panel, fieldDraft, puts,
                   budget, calm, history>>

ModalShown == page = "panel" /\ modal # Nothing /\ panel.status = "ready" /\ modal.index \in DOMAIN panel.form.routing

Toggle(code) ==
    /\ ModalShown /\ code \in RowCodes(panel.form) \cup modal.codes
    /\ CountEdit
    /\ modal' = [modal EXCEPT !.codes = SymDiff(@, {code})]
    /\ UNCHANGED <<panel, fieldDraft, dropped>>

updateRouting ==
    /\ ModalShown
    /\ panel' = PanelReady([panel.form EXCEPT !.routing[modal.index].codes = modal.codes])
    /\ modal' = Nothing
    /\ calm' = (calm /\ puts = {})
    /\ UNCHANGED <<doc, categoryIds, snapshot, generation, reads, page, fieldDraft, puts, budget, history>>

CloseModal ==
    /\ ModalShown /\ modal' = Nothing
    /\ UNCHANGED <<doc, categoryIds, snapshot, generation, reads, page, panel, fieldDraft, puts,
                   budget, calm, history>>

EditField(value) ==
    /\ page \in Fields \ {"panel"} /\ fieldDraft \in Values \ {value}
    /\ CountEdit
    /\ fieldDraft' = value
    /\ UNCHANGED <<panel, modal, dropped>>

-----------------------------------------------------------------------------
(* Saves.  One runs at a time on a page; the one of a page that was left   *)
(* goes on by itself.                                                      *)

Submitting == \E put \in puts : put.by = page /\ put.mounted

Put(payload) == [by |-> page, mounted |-> TRUE, phase |-> "put", payload |-> payload,
                 answer |-> Nothing, read |-> 0, number |-> sent]

Send(payload) ==
    /\ ~Submitting /\ sent < MaxPuts
    /\ sent' = sent + 1
    /\ puts' = puts \cup {Put(payload)}
    /\ calm' = (calm /\ puts = {})
    /\ UNCHANGED <<doc, categoryIds, snapshot, generation, reads, page, panel, modal, fieldDraft,
                   pageEdits, faults, history>>

SavePanel ==
    /\ OnPanel /\ FormIsSavable(panel.form)
    /\ Send(panel.form)

SaveField ==
    /\ page \in Fields \ {"panel"} /\ fieldDraft # Nothing
    /\ Send([FormOf(snapshot) EXCEPT !.fields[page] = fieldDraft])

Follow(put, changes) == puts' = (puts \ {put}) \cup {changes}

ServerSaves(put) ==
    /\ put \in puts /\ put.phase = "put"
    /\ IF SaveIsRefused(put.payload)
       THEN /\ Follow(put, [put EXCEPT !.phase = "refused"])
            /\ UNCHANGED <<doc, categoryIds, intended, everStored>>
       ELSE /\ Follow(put, [put EXCEPT !.phase = "stored"])
            /\ doc' = Written(put.payload)
            /\ categoryIds' = categoryIds + NewIds(put.payload)
            /\ intended' = [intended EXCEPT ![put.by] = put.payload.fields[put.by]]
            /\ everStored' = everStored \cup Known(doc')
    /\ UNCHANGED <<snapshot, generation, reads, page, panel, modal, fieldDraft, budget, calm, dropped>>

(* Mutant: the shared copy is left as it was.                              *)
DoneWithoutRefresh(put) ==
    /\ puts' = puts \ {put}
    /\ UNCHANGED <<generation, reads>>

Refresh(put) ==
    /\ generation' = generation + 1
    /\ reads' = reads \cup {Read("shared", generation + 1)}
    /\ Follow(put, [put EXCEPT !.phase = "refresh", !.read = generation + 1])

(* The panel reads the document again for its draft; a field page at once  *)
(* has the shared copy read again.                                         *)
SaveAnswered(put) ==
    /\ put \in puts
    /\ \/ put.phase = "refused" /\ puts' = puts \ {put} /\ UNCHANGED <<generation, reads>>
       \/ put.phase = "stored" /\ put.by # "panel" /\ Refresh(put)
       \/ /\ put.phase = "stored" /\ put.by = "panel"
          /\ Follow(put, [put EXCEPT !.phase = "reread"]) /\ UNCHANGED <<generation, reads>>
    /\ UNCHANGED <<doc, categoryIds, snapshot, page, panel, modal, fieldDraft, budget, calm, history>>

SaveLost(put) ==
    /\ faults < MaxConfigFaults /\ faults' = faults + 1 /\ calm' = FALSE
    /\ put \in puts /\ put.phase \in {"put", "stored"}
    /\ puts' = puts \ {put}
    /\ UNCHANGED <<doc, categoryIds, snapshot, generation, reads, page, panel, modal, fieldDraft,
                   pageEdits, sent, history>>

ServerRereads(put) ==
    /\ put \in puts /\ put.phase = "reread" /\ put.answer = Nothing
    /\ Follow(put, [put EXCEPT !.answer = doc])
    /\ UNCHANGED <<doc, categoryIds, snapshot, generation, reads, page, panel, modal, fieldDraft,
                   budget, calm, history>>

Rereads(put) ==
    /\ put \in puts /\ put.phase = "reread" /\ put.answer # Nothing
    /\ panel' = IF put.mounted THEN PanelReady(FormOf(put.answer)) ELSE panel
    /\ modal' = IF put.mounted THEN Reseated(FormOf(put.answer).routing) ELSE modal
    /\ Refresh(put)
    /\ UNCHANGED <<doc, categoryIds, snapshot, page, fieldDraft, budget, calm, history>>

(* The draft is kept, and the shared copy is not read again.               *)
RereadFails(put) ==
    /\ faults < MaxConfigFaults /\ faults' = faults + 1 /\ calm' = FALSE
    /\ put \in puts /\ put.phase = "reread"
    /\ puts' = puts \ {put}
    /\ UNCHANGED <<doc, categoryIds, snapshot, generation, reads, page, panel, modal, fieldDraft,
                   pageEdits, sent, history>>

-----------------------------------------------------------------------------
PagesNext ==
    \/ \E read \in reads : ServerReads(read) \/ ReadAnswered(read) \/ ReadFails(read)
    \/ \E target \in Pages : OpenPage(target)
    \/ Retry
    \/ \E value \in Values : EditSetting(value) \/ EditField(value)
    \/ \E i \in 1 .. MaxCounters, code \in Numbering : updateCategory(i, code)
    \/ \E i \in 1 .. MaxCounters + 1 : removeCategory(i) \/ removeRouting(i) \/ OpenModal(i)
    \/ addCategory \/ addRouting
    \/ \E code \in Numbering \cup {0} : Toggle(code)
    \/ updateRouting \/ CloseModal
    \/ SavePanel \/ SaveField
    \/ \E put \in puts :
          \/ ServerSaves(put) \/ SaveAnswered(put) \/ SaveLost(put)
          \/ ServerRereads(put) \/ Rereads(put) \/ RereadFails(put)

PagesSpec == PagesInit /\ [][PagesNext]_pagesVars

-----------------------------------------------------------------------------
(* Properties.                                                             *)

PagesTypeOK ==
    /\ doc.fields \in [Fields -> Values]
    /\ \A category \in doc.categories : category.id \in 1 .. categoryIds /\ category.code \in Numbering
    /\ UNION {doc.rules[counter] : counter \in DOMAIN doc.rules} \subseteq Known(doc)
    /\ page \in Pages \cup {"dashboard"}
    /\ panel.status \in {"loading", "ready", "error"}
    /\ fieldDraft \in Values \cup {Nothing}
    /\ \A put \in puts : put.phase \in {"put", "refused", "stored", "reread", "refresh"}

(* A page that saves its own setting puts back none that another page saved *)
(* before, as long as no page was left in the middle of a save.            *)
NothingIsReverted == calm => doc.fields = intended

(* Once everything was answered the shared copy is what is stored, whatever *)
(* the order of the answers was.                                           *)
QuietSnapshotIsCurrent == faults = 0 /\ reads = {} /\ puts = {} => snapshot = doc

SettingsSurvive == PagesTypeOK /\ NothingIsReverted /\ QuietSnapshotIsCurrent

(* A category keeps its id, which the tickets refer to, until its row is   *)
(* removed: renaming it, or saving a new row twice, mints no other.        *)
IdsSurvive == calm => everStored \ dropped \subseteq Known(doc)

(* What the form lets through the server accepts, but for one counter too  *)
(* many, one without a category, or one with a code no row has any more.   *)
OnlyStaleCodesAreRefused ==
    \A put \in puts : put.phase = "refused" =>
        NamesUnknownCode(put.payload) \/ OverTheCap(put.payload) \/ LeavesUnserved(put.payload)

CategoriesSurvive == IdsSurvive /\ OnlyStaleCodesAreRefused
===============================================================================
