------------------------------- MODULE AdminMC -------------------------------
(***************************************************************************)
(* The admin application with what answers it, each part by itself: the    *)
(* flow editor, on its canvas and as the wizard's rows, the configuration  *)
(* pages of one browser, the reports and the wizard of the first run.  The *)
(* initial state says which of them runs.                                  *)
(***************************************************************************)
EXTENDS FlowForm, ConfigPages, Reports, SetupWizard

CONSTANTS Alone, MaxRaceEdits

ASSUME AloneAssumption == Alone \in Browsers

VARIABLE part

adminVars == <<part, editorVars, pagesVars, reportsVars, wizardVars>>

-----------------------------------------------------------------------------
(* The editor: two statuses by default, a store that never customised its  *)
(* flow, and one whose third status carries a description, an action and   *)
(* links.                                                                  *)
DefaultStatesMC == <<"WAITING", "CALLING">>
DefaultPairsMC == <<<<"WAITING", "CALLING">>, <<"CALLING", "WAITING">>>>
FreshNamesMC == <<"STATUS_1", "STATUS_2">>
TypedNamesMC == {"CALLING", "CALLING_"}
TrimmedMC == "CALLING_" :> "CALLING"

Plain == Dto(DefaultForm)
Custom ==
    [Plain EXCEPT !.states = <<"WAITING", "STATUS_1">>,
                  !.transitions = <<Wired(Bare(<<"STATUS_1", "WAITING">>)),
                                    Wired(Bare(<<"WAITING", "WAITING">>))>>,
                  !.descriptions = {"STATUS_1"},
                  !.nodeActions = "STATUS_1" :> <<"WAITING">>,
                  !.sources = [start |-> {}, end |-> {"STATUS_1"}],
                  !.marks = [start |-> "hidden", end |-> "auto"]]
StoresMC == {Plain, Custom}

-----------------------------------------------------------------------------
(* The reports: two days, and one that is picked before it begins.         *)
DaysMC == 0 .. 2
DayStartMC == 0 :> 0 @@ 1 :> 1 @@ 2 :> 2 @@ 3 :> 3

-----------------------------------------------------------------------------
(* The wizard: the standard categories are two.                            *)
StandardCodesMC == <<1, 2>>

-----------------------------------------------------------------------------
(* The source view is opened before the last edit and the flow saved after *)
(* the second: the stores of Stores stand for what was saved before.       *)
EditsFirst ==
    /\ EditorNext
    /\ view' = "source" => edits < MaxEdits
    /\ saving' => saving \/ edits + 1 >= MaxEdits

-----------------------------------------------------------------------------
(* The parts that do not run stay in one of their initial states.  The     *)
(* values of a setting are interchangeable: the pages start with one.      *)
AtRest ==
    /\ part \notin {"editor", "rows"} => stored = Plain
    /\ doc.fields["panel"] = CHOOSE value \in Values : TRUE

(* One wizard by itself, which may change every part of its form, and      *)
(* several at once that keep the standard categories and one counter, go   *)
(* forward only, and start in one order: browsers are interchangeable.     *)
Races(b) ==
    /\ Browse(b) \/ EditForm(b)
    /\ tab[b].page = "boot" => b = Alone \/ tab[Alone].page # "boot"
    /\ tab[b].at = "idle" /\ tab'[b].page = "wizard" => tab'[b].step \notin (1 .. tab[b].step - 1)
    /\ spentEdits' # spentEdits => tab[b].step # 1 /\ spentEdits' <= MaxRaceEdits

WizardsNext ==
    \/ part \in {"wizard", "race"} /\ Serve
    \/ part = "wizard" /\ (Browse(Alone) \/ EditForm(Alone))
    \/ part = "race" /\ \E b \in Browsers : Races(b)

AdminInit ==
    /\ part \in {"editor", "rows", "pages", "reports", "wizard", "race"}
    /\ (IF part = "rows" THEN FormInit ELSE EditorInit) /\ PagesInit /\ ReportsInit /\ WizardInit
    /\ AtRest

AdminNext ==
    /\ UNCHANGED part
    /\ \/ part = "editor" /\ EditsFirst /\ UNCHANGED <<pagesVars, reportsVars, wizardVars>>
       \/ part = "rows" /\ FormNext /\ UNCHANGED <<pagesVars, reportsVars, wizardVars>>
       \/ part = "pages" /\ PagesNext /\ UNCHANGED <<editorVars, reportsVars, wizardVars>>
       \/ part = "reports" /\ ReportsNext /\ UNCHANGED <<editorVars, pagesVars, wizardVars>>
       \/ WizardsNext /\ UNCHANGED <<editorVars, pagesVars, reportsVars>>

AdminSpec == AdminInit /\ [][AdminNext]_adminVars

-----------------------------------------------------------------------------
(* The invariants of the parts, each where its part runs.                  *)
EditorIsConsistent ==
    /\ part \in {"editor", "rows"} => CanvasIsInStep
    /\ part = "editor" => SavesAreAccepted
    /\ part = "rows" => NothingDangles /\ StepThreeIsAccepted
DocumentSurvives == part = "pages" => SettingsSurvive /\ CategoriesSurvive
RangeAddsUp == part = "reports" => ReportsAddUp
(* The wizards: nobody ends outside, and a detour keeps the categories.    *)
SetupEndsInside ==
    part \in {"wizard", "race"} => EndsInside /\ GuardsSettle /\ DetourKeepsIds
===============================================================================
