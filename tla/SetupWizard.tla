----------------------------- MODULE SetupWizard -----------------------------
(***************************************************************************)
(* The first run: the wizard of the admin application, in several browsers *)
(* that do not know of each other, the two endpoints it may use without a  *)
(* session, and the guards that decide which page a browser shows.  The    *)
(* two writes are served in two steps, for their guard reads the status    *)
(* before they run, and one whose answer is lost may still run later.      *)
(***************************************************************************)
EXTENDS Naturals, SequencesExt

CONSTANTS
    Browsers,
    Usernames, Passwords,
    StandardCodes,      \* the codes of DEFAULT_CATEGORIES; 0 is a blank code
    Absent,
    MaxWizardEdits,     \* bound: edits of the form
    MaxFinalizes,       \* bound: times a wizard is finished
    MaxWizardFaults,    \* bound: failed calls and reloads
    MaxRows, MaxRules   \* bounds: category rows and counters of the form

ASSUME WizardAssumption ==
    /\ StandardCodes \in Seq(Nat \ {0})
    /\ \A i, j \in DOMAIN StandardCodes : StandardCodes[i] = StandardCodes[j] => i = j
    /\ {MaxWizardEdits, MaxFinalizes, MaxWizardFaults, MaxRows, MaxRules} \subseteq Nat
    /\ Absent \notin Nat \cup Usernames \cup Passwords \cup BOOLEAN
    /\ Absent \notin {"ok", "refused", "unauthorized"}

VARIABLES
    setup,              \* isInitialSetupCompleted
    document,               \* the stored categories and rules
    lastId,             \* how many category ids were minted
    accounts,           \* the password of each account, or Absent
    tab,                \* what each browser holds
    calls,              \* the writes the server has not answered
    spentEdits, finalizes, wizardFaults

wizardVars == <<setup, document, lastId, accounts, tab, calls, spentEdits, finalizes, wizardFaults>>
store == <<setup, document, lastId, accounts>>
bounds == <<spentEdits, finalizes, wizardFaults>>

TotalSteps == 6

-----------------------------------------------------------------------------
(* The guards.  A page that may not be shown sends the browser to another  *)
(* one; on the way to a page this happens at most twice.                   *)

SetupGuard(page, config, user) == IF ~config THEN "wizard" ELSE page
WizardGuard(config) == IF config THEN "home" ELSE "wizard"
RequireAuth(user) == IF user = Absent THEN "login" ELSE "home"

Redirected(page, config, user) ==
    CASE page = "wizard" -> WizardGuard(config)
      [] page = "login"  -> SetupGuard("login", config, user)
      [] page = "home"   -> SetupGuard(RequireAuth(user), config, user)

Shown(page, config, user) == Redirected(Redirected(page, config, user), config, user)

-----------------------------------------------------------------------------
(* The form.                                                               *)

DefaultRows == [i \in DOMAIN StandardCodes |-> [id |-> Absent, code |-> StandardCodes[i]]]
FirstRule == [counter |-> 1, codes |-> {}]

EmptyForm == [mode |-> "default", categories |-> DefaultRows, count |-> TRUE,
              rules |-> <<FirstRule>>, admin |-> Absent]

IsDefaultCategories(rows) ==
    /\ Len(rows) = Len(DefaultRows)
    /\ \A i \in DOMAIN rows : rows[i].code = DefaultRows[i].code

(* The standard rows with the ids that the pool has for their codes.       *)
DefaultCategoriesWithIds(pool) ==
    [i \in DOMAIN DefaultRows |->
        LET same == {j \in DOMAIN pool : pool[j].code = DefaultRows[i].code}
        IN IF same = {} THEN DefaultRows[i]
           ELSE [DefaultRows[i] EXCEPT
                    !.id = pool[CHOOSE j \in same : \A k \in same : j <= k].id]]

(* What the form is made of when the wizard opens.                         *)
LoadedCategories(config) == IF config.categories = <<>> THEN DefaultRows ELSE config.categories
LoadedRules(config) == IF config.rules = <<>> THEN <<FirstRule>> ELSE config.rules

Prefilled(config) ==
    [EmptyForm EXCEPT !.categories = LoadedCategories(config),
                      !.rules = LoadedRules(config),
                      !.mode = IF IsDefaultCategories(LoadedCategories(config))
                               THEN "default" ELSE "custom"]

(* What keeps the wizard on a step; the third and the fourth are the flow  *)
(* editor's and the schedule's.                                            *)
Step1Valid(form) ==
    /\ form.count
    /\ form.mode = "custom" =>
         \A i, j \in DOMAIN form.categories :
            form.categories[i].code # 0
              /\ (form.categories[i].code = form.categories[j].code => i = j)
Step2Valid(form) == \E i \in DOMAIN form.rules : form.rules[i].codes # {}
Step5Valid(form, firstRun) == firstRun => form.admin # Absent

MayAdvance(t) ==
    CASE t.step = 1 -> Step1Valid(t.form)
      [] t.step = 2 -> Step2Valid(t.form)
      [] t.step = 5 -> Step5Valid(t.form, t.firstRun)
      [] OTHER -> TRUE

-----------------------------------------------------------------------------
(* Browsers.  at is where finalize waits; calm says that it began a first  *)
(* run, or with the principal read, and that nothing failed since; bounced, *)
(* that it ended calmly and outside all the same.                          *)

Opening(t) == [t EXCEPT !.step = 1, !.form = EmptyForm, !.loading = TRUE, !.firstRun = TRUE,
                        !.loaded = <<>>, !.at = "idle", !.answer = Absent]
AtPage(t, page) == IF page = "wizard" THEN [Opening(t) EXCEPT !.page = page]
                   ELSE [t EXCEPT !.page = page]

NewTab == [page |-> "boot", config |-> Absent, user |-> Absent, token |-> Absent, step |-> 1,
           form |-> EmptyForm, loading |-> TRUE, firstRun |-> TRUE, loaded |-> <<>>,
           at |-> "idle", run |-> 0, answer |-> Absent, calm |-> TRUE,
           bounced |-> FALSE]

WizardInit ==
    /\ setup = FALSE /\ document = [categories |-> <<>>, rules |-> <<>>] /\ lastId = 0
    /\ accounts = [u \in Usernames |-> Absent]
    /\ tab = [b \in Browsers |-> NewTab]
    /\ calls = {}
    /\ spentEdits = 0 /\ finalizes = 0 /\ wizardFaults = 0

Becomes(b, t) == tab' = [tab EXCEPT ![b] = t]
Fault == wizardFaults < MaxWizardFaults /\ wizardFaults' = wizardFaults + 1
Filling(b) == tab[b].page = "wizard" /\ ~tab[b].loading /\ tab[b].at = "idle"

(* The application starts: the shared configuration and, with a stored     *)
(* token, the principal.                                                   *)
Boot(b) ==
    /\ tab[b].page = "boot"
    /\ LET t == [tab[b] EXCEPT !.config = setup, !.user = tab[b].token]
       IN Becomes(b, AtPage(t, Shown("home", t.config, t.user)))
    /\ UNCHANGED <<store, calls, bounds>>

(* The page is loaded again: the token stays, the calls are not heard.     *)
Reload(b) ==
    /\ Fault /\ tab[b].page # "boot"
    /\ Becomes(b, [NewTab EXCEPT !.token = tab[b].token])
    /\ UNCHANGED <<store, calls, spentEdits, finalizes>>

(* The read the wizard opens with; when it fails, the wizard opens empty.  *)
Prefill(b) ==
    /\ tab[b].page = "wizard" /\ tab[b].loading
    /\ Becomes(b, [tab[b] EXCEPT !.loading = FALSE, !.form = Prefilled(document),
                                 !.loaded = LoadedCategories(document), !.firstRun = ~setup])
    /\ UNCHANGED <<store, calls, bounds>>
PrefillFails(b) ==
    /\ Fault /\ tab[b].page = "wizard" /\ tab[b].loading
    /\ Becomes(b, [tab[b] EXCEPT !.loading = FALSE])
    /\ UNCHANGED <<store, calls, spentEdits, finalizes>>

-----------------------------------------------------------------------------
(* Edits, each on its step.                                                *)

Edit(b, step, form) ==
    /\ Filling(b) /\ tab[b].step = step /\ form # tab[b].form
    /\ spentEdits < MaxWizardEdits /\ spentEdits' = spentEdits + 1
    /\ Becomes(b, [tab[b] EXCEPT !.form = form])
    /\ UNCHANGED <<store, calls, finalizes, wizardFaults>>

(* The pool of ids is what was loaded, not the rows as edited since.       *)
(* (Mutant: the rows of the form.)                                         *)
LiveRows(t) == t.form.categories
IdPool(t) == t.loaded

ChooseStandard(b) ==
    Edit(b, 1, [tab[b].form EXCEPT !.mode = "default",
                                   !.categories = DefaultCategoriesWithIds(IdPool(tab[b]))])
ChooseOwn(b) == Edit(b, 1, [tab[b].form EXCEPT !.mode = "custom"])

TypeCode(b, i, code) ==
    /\ tab[b].form.mode = "custom" /\ i \in DOMAIN tab[b].form.categories
    /\ Edit(b, 1, [tab[b].form EXCEPT !.categories[i].code = code])
AddRow(b) ==
    /\ tab[b].form.mode = "custom" /\ Len(tab[b].form.categories) < MaxRows
    /\ Edit(b, 1, [tab[b].form EXCEPT !.categories = Append(@, [id |-> Absent, code |-> 0])])
RemoveRow(b, i) ==
    /\ tab[b].form.mode = "custom" /\ i \in DOMAIN tab[b].form.categories
    /\ Len(tab[b].form.categories) > 1
    /\ Edit(b, 1, [tab[b].form EXCEPT !.categories = RemoveAt(@, i)])

(* New counters follow the greatest id; an unusable count changes no rule. *)
Resized(rules, n) ==
    IF Len(rules) >= n THEN SubSeq(rules, 1, n)
    ELSE LET greatest == CHOOSE c \in {0} \cup {rules[i].counter : i \in DOMAIN rules} :
                            \A i \in DOMAIN rules : rules[i].counter <= c
         IN rules \o [k \in 1 .. n - Len(rules) |-> [counter |-> greatest + k, codes |-> {}]]

SetCounterCount(b, n) ==
    Edit(b, 1, IF n = 0 THEN [tab[b].form EXCEPT !.count = FALSE]
               ELSE [tab[b].form EXCEPT !.count = TRUE, !.rules = Resized(@, n)])

UpdateRouting(b, i, codes) ==
    /\ i \in DOMAIN tab[b].form.rules
    /\ Edit(b, 2, [tab[b].form EXCEPT !.rules[i].codes = codes])

EnterAdmin(b, username, password) ==
    /\ tab[b].firstRun
    /\ Edit(b, 5, [tab[b].form EXCEPT !.admin = [username |-> username, password |-> password]])

FormCodes(form) == {form.categories[i].code : i \in DOMAIN form.categories}

EditForm(b) ==
    \/ ChooseStandard(b) \/ ChooseOwn(b) \/ AddRow(b)
    \/ \E i \in 1 .. MaxRows : RemoveRow(b, i)
    \/ \E i \in 1 .. MaxRows, code \in ToSet(StandardCodes) \cup {0} : TypeCode(b, i, code)
    \/ \E n \in 0 .. MaxRules : SetCounterCount(b, n)
    \/ \E i \in 1 .. MaxRules, codes \in SUBSET FormCodes(tab[b].form) : UpdateRouting(b, i, codes)
    \/ \E username \in Usernames, password \in Passwords : EnterAdmin(b, username, password)

NextStep(b) ==
    /\ Filling(b) /\ tab[b].step < TotalSteps /\ MayAdvance(tab[b])
    /\ Becomes(b, [tab[b] EXCEPT !.step = @ + 1])
    /\ UNCHANGED <<store, calls, bounds>>
Back(b) ==
    /\ Filling(b) /\ tab[b].step > 1
    /\ Becomes(b, [tab[b] EXCEPT !.step = @ - 1])
    /\ UNCHANGED <<store, calls, bounds>>

-----------------------------------------------------------------------------
(* Finishing: on a first run the account before the configuration, since   *)
(* saving it ends the setup, then a session.  (Mutants: the account is     *)
(* left out; the principal is not read again.)                             *)

SavedRows(t) == IF t.form.mode = "default" THEN DefaultCategoriesWithIds(IdPool(t))
                 ELSE t.form.categories

SetupCall(b, t) ==
    [op |-> "setup", from |-> b, run |-> t.run, at |-> "arrived", admin |-> t.form.admin]
SaveCall(b, t) ==
    [op |-> "save", from |-> b, run |-> t.run, at |-> "arrived", token |-> t.token,
     categories |-> SavedRows(t), rules |-> t.form.rules, read |-> t.loaded,
     standard |-> t.form.mode = "default"]

WithoutAccount(t) == "save"
FirstCall(t) == IF t.firstRun THEN "setup" ELSE "save"

SendWrite(b, t, op) ==
    /\ Becomes(b, [t EXCEPT !.at = op, !.answer = Absent])
    /\ calls' = calls \cup {IF op = "setup" THEN SetupCall(b, t) ELSE SaveCall(b, t)}

Finalize(b) ==
    /\ Filling(b) /\ tab[b].step = TotalSteps /\ finalizes < MaxFinalizes
    /\ finalizes' = finalizes + 1
    /\ LET t == [tab[b] EXCEPT !.run = finalizes + 1,
                            !.calm = tab[b].firstRun \/ tab[b].user # Absent]
       IN SendWrite(b, t, FirstCall(t))
    /\ UNCHANGED <<store, spentEdits, wizardFaults>>

(* A refusal, or a call that fails, ends it with a message; only a refusal *)
(* for want of a session drops the token.                                  *)
Stopped(t, drop) ==
    [t EXCEPT !.at = "idle", !.answer = Absent, !.token = IF drop THEN Absent ELSE @,
              !.user = IF drop THEN Absent ELSE @]

AfterSave(t) == IF t.firstRun THEN "login" ELSE "config"

Answer(b) ==
    /\ tab[b].answer # Absent
    /\ \/ tab[b].answer # "ok" /\ UNCHANGED calls
             /\ Becomes(b, Stopped(tab[b], tab[b].answer = "unauthorized"))
       \/ tab[b].answer = "ok" /\ tab[b].at = "setup" /\ SendWrite(b, tab[b], "save")
       \/ tab[b].answer = "ok" /\ tab[b].at = "save" /\ UNCHANGED calls
             /\ Becomes(b, [tab[b] EXCEPT !.at = AfterSave(tab[b]), !.answer = Absent])
    /\ UNCHANGED <<store, bounds>>

CallFails(b) ==
    /\ Fault /\ tab[b].at \in {"setup", "save", "login"}
    /\ Becomes(b, Stopped(tab[b], FALSE))
    /\ UNCHANGED <<store, calls, spentEdits, finalizes>>

WithoutPrincipal(t) == [t EXCEPT !.token = t.form.admin.username, !.at = "config"]
LoggedIn(t) == [t EXCEPT !.token = t.form.admin.username, !.at = "principal"]

Login(b) ==
    /\ tab[b].at = "login"
    /\ Becomes(b, IF accounts[tab[b].form.admin.username] = tab[b].form.admin.password
                  THEN LoggedIn(tab[b]) ELSE Stopped(tab[b], FALSE))
    /\ UNCHANGED <<store, calls, bounds>>

(* refresh of the principal and of the configuration: neither throws.      *)
RefreshPrincipal(b, came) ==
    /\ tab[b].at = "principal"
    /\ IF came THEN UNCHANGED wizardFaults ELSE Fault
    /\ Becomes(b, [tab[b] EXCEPT !.at = "config", !.calm = @ /\ came,
                                 !.user = IF came THEN tab[b].token ELSE Absent])
    /\ UNCHANGED <<store, calls, spentEdits, finalizes>>

RefreshConfig(b, came) ==
    /\ tab[b].at = "config"
    /\ IF came THEN UNCHANGED wizardFaults ELSE Fault
    /\ LET t == [tab[b] EXCEPT !.config = IF came THEN setup ELSE @, !.calm = @ /\ came,
                               !.at = "idle"]
           landed == Shown("home", t.config, t.user)
       IN Becomes(b, [AtPage(t, landed) EXCEPT !.bounced = t.calm /\ landed # "home"])
    /\ UNCHANGED <<store, calls, spentEdits, finalizes>>

(* The login page: a refusal changes nothing.                              *)
SignIn(b, username) ==
    /\ tab[b].page = "login" /\ accounts[username] # Absent
    /\ Becomes(b, [tab[b] EXCEPT !.token = username, !.user = username,
                                 !.page = Shown("home", tab[b].config, username)])
    /\ UNCHANGED <<store, calls, bounds>>

-----------------------------------------------------------------------------
(* The server.                                                             *)

HasSession(token) == token # Absent /\ accounts[token] # Absent

(* SetupAdmin's own check, and AdminOrSetupGuard.                          *)
Verdict(call) ==
    CASE call.op = "setup" -> IF setup THEN "refused" ELSE "ok"
      [] call.op = "save" -> IF setup /\ ~HasSession(call.token) THEN "unauthorized" ELSE "ok"

RowCodesOf(rows) == {rows[i].code : i \in DOMAIN rows}
SaveRefused(call) ==
    \/ 0 \in RowCodesOf(call.categories)
    \/ Cardinality(RowCodesOf(call.categories)) < Len(call.categories)
    \/ \E i \in DOMAIN call.rules :
          call.rules[i].codes = {} \/ ~(call.rules[i].codes \subseteq RowCodesOf(call.categories))

(* The answer reaches the browser that still waits for this call.          *)
WriteAnswered(call, answer) ==
    tab' = IF tab[call.from].at = call.op /\ tab[call.from].run = call.run
           THEN [tab EXCEPT ![call.from].answer = answer] ELSE tab

Admit(call) ==
    /\ call \in calls /\ call.at = "arrived"
    /\ IF Verdict(call) = "ok"
       THEN calls' = (calls \ {call}) \cup {[call EXCEPT !.at = "admitted"]} /\ UNCHANGED tab
       ELSE calls' = calls \ {call} /\ WriteAnswered(call, Verdict(call))
    /\ UNCHANGED <<store, bounds>>

SetupAdmin(call) ==
    /\ call \in calls /\ call.op = "setup" /\ call.at = "admitted"
    /\ accounts' = [accounts EXCEPT ![call.admin.username] = call.admin.password]
    /\ calls' = calls \ {call} /\ WriteAnswered(call, "ok")
    /\ UNCHANGED <<setup, document, lastId, bounds>>

WithIds(rows) ==
    [i \in DOMAIN rows |->
        IF rows[i].id # Absent THEN rows[i]
        ELSE [rows[i] EXCEPT !.id = lastId + Cardinality({j \in 1 .. i : rows[j].id = Absent})]]

Minted(rows) == Cardinality({i \in DOMAIN rows : rows[i].id = Absent})

SaveSystemConfig(call) ==
    /\ call \in calls /\ call.op = "save" /\ call.at = "admitted"
    /\ calls' = calls \ {call}
    /\ \/ /\ SaveRefused(call) /\ WriteAnswered(call, "refused")
          /\ UNCHANGED <<setup, document, lastId>>
       \/ /\ ~SaveRefused(call) /\ WriteAnswered(call, "ok")
          /\ setup' = TRUE
          /\ document' = [categories |-> WithIds(call.categories), rules |-> call.rules]
          /\ lastId' = lastId + Minted(call.categories)
    /\ UNCHANGED <<accounts, bounds>>

-----------------------------------------------------------------------------
Browse(b) ==
    \/ Boot(b) \/ Reload(b) \/ Prefill(b) \/ PrefillFails(b) \/ NextStep(b) \/ Back(b)
    \/ Finalize(b) \/ Answer(b) \/ CallFails(b) \/ Login(b)
    \/ \E came \in BOOLEAN : RefreshPrincipal(b, came) \/ RefreshConfig(b, came)
    \/ \E username \in Usernames : SignIn(b, username)

Serve == \E call \in calls : Admit(call) \/ SetupAdmin(call) \/ SaveSystemConfig(call)

WizardNext == Serve \/ \E b \in Browsers : Browse(b) \/ EditForm(b)

WizardSpec == WizardInit /\ [][WizardNext]_wizardVars

-----------------------------------------------------------------------------
(* Nobody is locked out: once the setup is complete somebody can sign in,  *)
(* whichever call of whichever browser failed or came late (the order of   *)
(* finalize, and the upsert that a second try relies on).                  *)
NobodyIsLockedOut == setup => \E u \in Usernames : accounts[u] # Absent

(* A wizard whose calls all succeeded ends on the dashboard, signed in: no *)
(* guard still holds what it knew before (the two refreshes).  Not one     *)
(* that begins without its principal, after two refreshes that failed.     *)
EndsInside == \A b \in Browsers : ~tab[b].bounced

(* The page a browser shows is one its guards let stay: a redirection does *)
(* not lead to another one for ever.                                       *)
GuardsSettle ==
    \A b \in Browsers : tab[b].page # "boot" =>
        Redirected(tab[b].page, tab[b].config, tab[b].user) = tab[b].page

(* A wizard that goes back to the standard categories after a detour saves *)
(* them with the ids that it read, so that tickets keep their category, as *)
(* long as no other wizard saved in between (defaultCategoriesWithIds).    *)
DetourKeepsIds ==
    \A call \in calls :
        call.op = "save" /\ call.standard /\ call.read = document.categories =>
            \A i \in DOMAIN call.categories, row \in ToSet(document.categories) :
                row.code = call.categories[i].code => row.id = call.categories[i].id
===============================================================================
