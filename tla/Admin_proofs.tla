----------------------------- MODULE Admin_proofs -----------------------------
(***************************************************************************)
(* The parts of the admin application.  First the wizards of the first     *)
(* run, for any number of browsers, accounts, failures and retries: nobody *)
(* is locked out, nobody ends outside, and a detour over categories of     *)
(* one's own keeps the ids of the standard ones.  The invariant follows    *)
(* the account through the two writes: a browser that was told that the    *)
(* account exists, and a save that is on its way, both imply that some     *)
(* account is there.  Then the reports, the configuration pages and the    *)
(* editor of the status flow, each with an invariant of its own: the       *)
(* editor's says that canvas, form and rows are always the same flow, and  *)
(* that what is stored or under way is one the form can show again.        *)
(***************************************************************************)
EXTENDS AdminMC, Filter_proofs, FiniteSetTheorems, TLAPS

(* Different elements of some are at different places of seq.              *)
FromPlaces(some, seq) ==
    \A k, l \in DOMAIN some : \E p, q \in DOMAIN seq :
        some[k] = seq[p] /\ some[l] = seq[q] /\ (p = q => k = l)

LEMMA RemovalKeepsTheRest ==
    ASSUME NEW T, NEW seq \in Seq(T), NEW i \in DOMAIN seq
    PROVE  /\ RemoveAt(seq, i) \in Seq(T)
           /\ \A j \in DOMAIN seq : j # i =>
                 \E k \in DOMAIN RemoveAt(seq, i) : RemoveAt(seq, i)[k] = seq[j]
           /\ FromPlaces(RemoveAt(seq, i), seq) /\ Len(RemoveAt(seq, i)) = Len(seq) - 1
<1> DEFINE place(k) == IF k < i THEN k ELSE k + 1
           rest == [k \in 1 .. Len(seq) - 1 |-> seq[place(k)]]
<1>1. Len(seq) \in Nat /\ DOMAIN seq = 1 .. Len(seq) /\ i \in 1 .. Len(seq)
    OBVIOUS
<1>2. \A k \in 1 .. Len(seq) - 1 : place(k) \in 1 .. Len(seq)
    BY <1>1
<1>3. RemoveAt(seq, i) = rest
  <2> DEFINE left == SubSeq(seq, 1, i - 1)
             right == SubSeq(seq, i + 1, Len(seq))
  <2>1. left \in Seq(T) /\ Len(left) = i - 1 /\ \A k \in 1 .. i - 1 : left[k] = seq[k]
      BY <1>1
  <2>2. /\ right \in Seq(T) /\ Len(right) = Len(seq) - i
        /\ \A k \in 1 .. Len(seq) - i : right[k] = seq[i + k]
    <3>1. right \in Seq(T) /\ Len(right) = Len(seq) - i
        BY <1>1
    <3>2. ASSUME NEW k \in 1 .. Len(seq) - i PROVE right[k] = seq[i + k]
      <4>1. i + k = (i + 1) + k - 1
          BY <1>1
      <4> QED BY <1>1, <4>1
    <3> QED BY <3>1, <3>2
  <2>3. RemoveAt(seq, i) = left \o right
      BY DEF RemoveAt
  <2> HIDE DEF left, right
  <2>4. left \o right \in Seq(T) /\ Len(left \o right) = Len(seq) - 1
    <3>1. left \o right \in Seq(T) /\ Len(left \o right) = Len(left) + Len(right)
        BY <2>1, <2>2, ConcatProperties, Zenon
    <3> QED BY <1>1, <2>1, <2>2, <3>1
  <2>5. \A k \in 1 .. Len(seq) - 1 : (left \o right)[k] = seq[place(k)]
    <3> TAKE k \in 1 .. Len(seq) - 1
    <3>1. (left \o right)[k] = IF k <= i - 1 THEN left[k] ELSE right[k - (i - 1)]
        BY <1>1, <2>1, <2>2, ConcatProperties
    <3>2. CASE k < i
        BY <1>1, <2>1, <3>1, <3>2
    <3>3. CASE ~(k < i)
      <4>1. k - (i - 1) \in 1 .. Len(seq) - i /\ i + (k - (i - 1)) = k + 1 /\ ~(k <= i - 1)
          BY <1>1, <3>3
      <4> QED BY <2>2, <3>1, <3>3, <4>1
    <3> QED BY <3>2, <3>3
  <2> PICK joined : joined = left \o right
      OBVIOUS
  <2>6. joined = [k \in 1 .. Len(seq) - 1 |-> joined[k]]
    <3>1. joined \in Seq(T) /\ Len(joined) = Len(seq) - 1
        BY <2>4
    <3>2. joined \in [1 .. Len(joined) -> T]
        BY <3>1, LenProperties, Zenon
    <3> QED BY <3>1, <3>2
  <2> HIDE DEF place
  <2> QED BY <2>3, <2>5, <2>6
<1>4. rest \in Seq(T) /\ DOMAIN rest = 1 .. Len(seq) - 1 /\ Len(rest) = Len(seq) - 1
  <2> HIDE DEF place
  <2> QED BY <1>1, <1>2
<1>5. ASSUME NEW j \in DOMAIN seq, j # i PROVE \E k \in DOMAIN rest : rest[k] = seq[j]
  <2>1. PICK k \in 1 .. Len(seq) - 1 : place(k) = j
    <3>1. CASE j < i
        BY <1>1, <3>1
    <3>2. CASE ~(j < i)
      <4>1. j - 1 \in 1 .. Len(seq) - 1 /\ place(j - 1) = j
          BY <1>1, <1>5, <3>2
      <4> QED BY <4>1
    <3> QED BY <3>1, <3>2
  <2> HIDE DEF place
  <2> QED BY <1>4, <2>1
<1>6. FromPlaces(rest, seq)
  <2> SUFFICES ASSUME NEW k \in DOMAIN rest, NEW l \in DOMAIN rest
               PROVE  \E p, q \in DOMAIN seq :
                         rest[k] = seq[p] /\ rest[l] = seq[q] /\ (p = q => k = l)
      BY DEF FromPlaces
  <2>1. place(k) = place(l) => k = l
      BY <1>1, <1>4
  <2>2. place(k) \in DOMAIN seq /\ place(l) \in DOMAIN seq
      BY <1>1, <1>2, <1>4
  <2> HIDE DEF place
  <2> QED BY <1>4, <2>1, <2>2
<1> HIDE DEF rest
<1> QED BY <1>3, <1>4, <1>5, <1>6

-----------------------------------------------------------------------------
TabFields == {"page", "config", "user", "token", "step", "form", "loading", "firstRun", "loaded",
              "at", "run", "answer", "calm", "bounced"}
FormFields == {"mode", "categories", "count", "rules", "admin"}
Admin == [username : Usernames, password : Passwords]

WizardRow == [id : Nat \cup {Absent}, code : Nat]
Distinct(rows) == \A i, j \in DOMAIN rows : rows[i].code = rows[j].code => i = j
FormOK(f) ==
    /\ DOMAIN f = FormFields
    /\ f.admin \in Admin \cup {Absent}
    /\ f.categories \in Seq(WizardRow)

HasAccount == \E u \in Usernames : accounts[u] # Absent

(* What a browser may hold: an administrator is entered before the last    *)
(* step of a first run, which is over once the wizard has read that it is. *)
HeldOK(t) ==
    /\ DOMAIN t = TabFields /\ FormOK(t.form)
    /\ t.step \in 1 .. TotalSteps /\ t.loading \in BOOLEAN /\ t.firstRun \in BOOLEAN
    /\ t.calm \in BOOLEAN /\ ~t.bounced
    /\ t.loading => t.step = 1
    /\ t.firstRun /\ t.step = TotalSteps => t.form.admin \in Admin
    /\ ~t.firstRun => setup
    /\ t.loaded \in Seq(WizardRow) /\ Distinct(t.loaded)

(* Where finalize waits: past the save the setup is complete, and a calm   *)
(* one goes on with a principal or on the way to one.                      *)
AtOK(t) ==
    /\ t.at \in {"idle", "setup", "save", "login", "principal", "config"}
    /\ t.at # "idle" => t.page = "wizard" /\ t.step = TotalSteps
    /\ t.answer # Absent => t.at \in {"setup", "save"}
    /\ t.at = "setup" /\ t.answer = "ok" => HasAccount
    /\ t.at = "save" /\ t.answer = "ok" => setup
    /\ t.at \in {"login", "principal"} => t.firstRun /\ setup
    /\ t.at = "principal" => t.token # Absent
    /\ t.at = "config" => setup /\ (t.calm => t.user # Absent)
    /\ t.at \in {"setup", "save"} /\ ~t.firstRun /\ t.calm => t.user # Absent

(* The page is one the guards let stay.                                    *)
PageOK(t) ==
    /\ t.page \in {"boot", "wizard", "login", "home"}
    /\ t.page # "boot" => t.config \in BOOLEAN /\ (t.config <=> t.page # "wizard")
    /\ t.page = "home" => t.user # Absent

TabOK(t) == HeldOK(t) /\ AtOK(t) /\ PageOK(t)

CallOK(call) ==
    /\ {"op", "at"} \subseteq DOMAIN call /\ call.op \in {"setup", "save"}
    /\ call.op = "setup" => "admin" \in DOMAIN call /\ call.admin \in Admin
    /\ call.op = "save" =>
         /\ HasAccount
         /\ {"categories", "read", "standard"} \subseteq DOMAIN call
         /\ call.categories \in Seq(WizardRow)
         /\ call.read \in Seq(WizardRow) /\ Distinct(call.read)
         /\ call.standard => call.categories = DefaultCategoriesWithIds(call.read)

DocumentOK ==
    /\ document.categories \in Seq(WizardRow) /\ Distinct(document.categories)
    /\ lastId \in Nat

WizardInv ==
    /\ setup \in BOOLEAN
    /\ DOMAIN accounts = Usernames
    /\ DOMAIN tab = Browsers
    /\ \A b \in Browsers : TabOK(tab[b])
    /\ \A call \in calls : CallOK(call)
    /\ setup => HasAccount
    /\ DocumentOK

-----------------------------------------------------------------------------
(* The rows.                                                               *)

LEMMA DefaultRowsOK == DefaultRows \in Seq(WizardRow) /\ Distinct(DefaultRows)
<1>1. StandardCodes \in Seq(Nat) /\ DOMAIN StandardCodes = 1 .. Len(StandardCodes)
    BY WizardAssumption
<1>2. \A i \in DOMAIN StandardCodes :
          DefaultRows[i] \in WizardRow /\ DefaultRows[i].code = StandardCodes[i]
    BY <1>1 DEF DefaultRows, WizardRow
<1>3. DefaultRows \in Seq(WizardRow)
    BY <1>1, <1>2 DEF DefaultRows
<1> QED BY <1>2, <1>3, WizardAssumption DEF Distinct, DefaultRows

(* The standard rows take the ids that the pool has for their codes.       *)
LEMMA PoolIds ==
    ASSUME NEW pool \in Seq(WizardRow), Distinct(pool)
    PROVE  /\ DefaultCategoriesWithIds(pool) \in Seq(WizardRow)
           /\ \A i \in DOMAIN DefaultCategoriesWithIds(pool), j \in DOMAIN pool :
                 pool[j].code = DefaultCategoriesWithIds(pool)[i].code =>
                    pool[j].id = DefaultCategoriesWithIds(pool)[i].id
<1> DEFINE D == DefaultCategoriesWithIds(pool)
           Same(i) == {j \in DOMAIN pool : pool[j].code = DefaultRows[i].code}
           Chosen(i) == CHOOSE j \in Same(i) : \A k \in Same(i) : j <= k
<1>1. /\ DefaultRows \in Seq(WizardRow) /\ DOMAIN D = DOMAIN DefaultRows
      /\ DOMAIN DefaultRows = 1 .. Len(DefaultRows) /\ Len(DefaultRows) \in Nat
    BY DefaultRowsOK DEF DefaultCategoriesWithIds
<1>2. ASSUME NEW i \in DOMAIN DefaultRows
      PROVE  /\ D[i] \in WizardRow /\ D[i].code = DefaultRows[i].code
             /\ \A j \in Same(i) : D[i].id = pool[j].id
    <2>1. DefaultRows[i] \in WizardRow
        BY <1>1
    <2>2. CASE Same(i) = {}
        BY <1>1, <2>1, <2>2 DEF DefaultCategoriesWithIds
    <2>3. CASE Same(i) # {}
        <3>1. PICK j \in Same(i) : TRUE
            BY <2>3
        <3>2. \A k \in Same(i) : k = j /\ j <= k
            BY <3>1 DEF Distinct
        <3>3. Chosen(i) = j
            BY <3>1, <3>2
        <3>4. D[i] = [DefaultRows[i] EXCEPT !.id = pool[j].id]
            BY <2>3, <3>3 DEF DefaultCategoriesWithIds
        <3>5. pool[j] \in WizardRow
            BY <3>1
        <3> QED BY <2>1, <3>2, <3>4, <3>5 DEF WizardRow
    <2> QED BY <2>2, <2>3
<1>3. D \in Seq(WizardRow)
    <2>1. D = [i \in 1 .. Len(DefaultRows) |-> D[i]]
        BY <1>1 DEF DefaultCategoriesWithIds
    <2> HIDE DEF D
    <2> QED BY <1>1, <1>2, <2>1
<1> QED BY <1>1, <1>2, <1>3

LEMMA LoadedOK ==
    ASSUME DocumentOK
    PROVE  LoadedCategories(document) \in Seq(WizardRow) /\ Distinct(LoadedCategories(document))
BY DefaultRowsOK DEF LoadedCategories, DocumentOK

(* What is stored has an id in every row and no code twice.                *)
LEMMA StoredOK ==
    ASSUME DocumentOK, NEW rows \in Seq(WizardRow),
           ~(Cardinality(RowCodesOf(rows)) < Len(rows))
    PROVE  /\ WithIds(rows) \in Seq(WizardRow) /\ Distinct(WithIds(rows))
           /\ lastId + Minted(rows) \in Nat
<1> DEFINE n == Len(rows)
           f == [i \in 1 .. n |-> rows[i].code]
           W == WithIds(rows)
<1>1. n \in Nat /\ DOMAIN rows = 1 .. n
    OBVIOUS
<1>2. IsFiniteSet(1 .. n) /\ Cardinality(1 .. n) = n
  <2>1. 1 \in Int /\ n \in Int
      BY <1>1
  <2> HIDE DEF n
  <2>2. /\ IsFiniteSet(1 .. n)
        /\ Cardinality(1 .. n) = IF 1 > n THEN 0 ELSE n - 1 + 1
      BY <2>1, FS_Interval, Zenon
  <2> QED BY <1>1, <2>2
<1>3. f \in Surjection(1 .. n, RowCodesOf(rows))
    BY <1>1 DEF Surjection, RowCodesOf
<1>4. f \in Injection(1 .. n, RowCodesOf(rows))
    <2>1. /\ IsFiniteSet(RowCodesOf(rows)) /\ Cardinality(RowCodesOf(rows)) <= n
          /\ Cardinality(RowCodesOf(rows)) = n => f \in Injection(1 .. n, RowCodesOf(rows))
        BY <1>2, <1>3, FS_Surjection
    <2>2. Cardinality(RowCodesOf(rows)) \in Nat
        BY <2>1, FS_CardinalityType
    <2> QED BY <1>1, <2>1, <2>2
<1>5. \A i, j \in 1 .. n : rows[i].code = rows[j].code => i = j
    BY <1>4 DEF Injection, IsInjective
<1>6. ASSUME NEW i \in 1 .. n PROVE W[i] \in WizardRow /\ W[i].code = rows[i].code
    <2> DEFINE S == {j \in 1 .. i : rows[j].id = Absent}
    <2>1. rows[i] \in WizardRow
        BY <1>1
    <2>2. IsFiniteSet(1 .. i) /\ S \in SUBSET (1 .. i)
        BY FS_Interval
    <2>3. Cardinality(S) \in Nat
        BY <2>2, FS_Subset, FS_CardinalityType
    <2>4. lastId + Cardinality(S) \in Nat
        BY <2>3 DEF DocumentOK
    <2>5. W[i] = IF rows[i].id # Absent THEN rows[i]
                ELSE [rows[i] EXCEPT !.id = lastId + Cardinality(S)]
        BY <1>1 DEF WithIds
    <2> QED BY <2>1, <2>4, <2>5 DEF WizardRow
<1>7. W \in Seq(WizardRow) /\ DOMAIN W = 1 .. n
    <2>1. W = [i \in 1 .. n |-> W[i]]
        BY <1>1 DEF WithIds
    <2> HIDE DEF W
    <2> QED BY <1>1, <1>6, <2>1
<1>8. Distinct(W)
    BY <1>5, <1>6, <1>7 DEF Distinct
<1>9. lastId + Minted(rows) \in Nat
    <2> DEFINE S == {i \in DOMAIN rows : rows[i].id = Absent}
    <2>1. S \in SUBSET (1 .. n)
        BY <1>1
    <2>2. Cardinality(S) \in Nat
        BY <1>2, <2>1, FS_Subset, FS_CardinalityType
    <2> QED BY <2>2 DEF Minted, DocumentOK
<1> QED BY <1>7, <1>8, <1>9

-----------------------------------------------------------------------------
(* The steps of a browser change what it holds and at most add a call.     *)
LEMMA TabStep ==
    ASSUME WizardInv, NEW b \in Browsers, NEW t, TabOK(t), Becomes(b, t), UNCHANGED store,
           \A call \in calls' : call \in calls \/ CallOK(call)
    PROVE  WizardInv'
<1>1. UNCHANGED <<setup, accounts, document, lastId>>
    BY DEF store
<1>2. HasAccount' <=> HasAccount
    BY <1>1 DEF HasAccount
<1>3. \A call : CallOK(call)' <=> CallOK(call)
    BY <1>2 DEF CallOK
<1>4. DOMAIN tab' = Browsers /\ \A c \in Browsers : tab'[c] = IF c = b THEN t ELSE tab[c]
    BY DEF Becomes, WizardInv
<1>5. ASSUME NEW c \in Browsers PROVE TabOK(tab[c])'
    <2>1. TabOK(tab'[c])
        BY <1>4 DEF WizardInv
    <2> QED BY <1>1, <1>2, <2>1 DEF TabOK, HeldOK, AtOK, PageOK
<1>6. \A call \in calls' : CallOK(call)'
    BY <1>3 DEF WizardInv
<1>7. (setup => HasAccount)' /\ DocumentOK'
    BY <1>1, <1>2 DEF WizardInv, DocumentOK
<1> QED BY <1>1, <1>4, <1>5, <1>6, <1>7 DEF WizardInv

(* Where the guards lead: to a page that they let stay.                    *)
LEMMA GuardsLead ==
    ASSUME NEW config \in BOOLEAN, NEW user
    PROVE  Shown("home", config, user) =
              IF ~config THEN "wizard" ELSE IF user = Absent THEN "login" ELSE "home"
BY DEF Shown, Redirected, SetupGuard, WizardGuard, RequireAuth

(* A browser that waits for nothing is shown a page, or opens it anew.     *)
LEMMA OpensWell ==
    ASSUME NEW t, HeldOK(t), t.at = "idle", t.answer = Absent, t.config \in BOOLEAN
    PROVE  TabOK(AtPage(t, Shown("home", t.config, t.user)))
<1> DEFINE landed == Shown("home", t.config, t.user)
<1>1. landed = IF ~t.config THEN "wizard" ELSE IF t.user = Absent THEN "login" ELSE "home"
    BY GuardsLead
<1> HIDE DEF landed
<1>2. CASE landed = "wizard"
    <2>1. FormOK(EmptyForm)
        BY DefaultRowsOK DEF FormOK, EmptyForm, FormFields
    <2> DEFINE o == [Opening(t) EXCEPT !.page = landed]
    <2>2. /\ DOMAIN o = TabFields /\ o.step = 1 /\ o.form = EmptyForm /\ o.loading /\ o.firstRun
          /\ o.loading \in BOOLEAN /\ o.firstRun \in BOOLEAN
          /\ o.loaded = <<>> /\ o.at = "idle" /\ o.answer = Absent /\ o.page = landed
          /\ o.config = t.config /\ o.calm = t.calm /\ o.bounced = t.bounced
        BY DEF HeldOK, TabFields, Opening
    <2> HIDE DEF o
    <2>3. HeldOK(o)
        BY <2>1, <2>2 DEF HeldOK, TotalSteps, Distinct
    <2>4. AtOK(o) /\ PageOK(o)
        BY <1>1, <1>2, <2>2 DEF AtOK, PageOK
    <2> QED BY <1>2, <2>3, <2>4 DEF TabOK, AtPage, o, landed
<1>3. CASE landed # "wizard"
    <2> DEFINE o == [t EXCEPT !.page = landed]
    <2>1. HeldOK(o)
        BY DEF HeldOK, TabFields
    <2>2. AtOK(o) /\ PageOK(o)
        BY <1>1, <1>3 DEF HeldOK, AtOK, PageOK, TabFields
    <2> QED BY <1>3, <2>1, <2>2 DEF TabOK, AtPage, landed
<1> QED BY <1>2, <1>3

LEMMA TabsAreOK ==
    ASSUME WizardInv, NEW b \in Browsers
    PROVE  TabOK(tab[b])
BY DEF WizardInv

-----------------------------------------------------------------------------
(* The actions of a browser.                                               *)

LEMMA BootStep ==
    ASSUME WizardInv, NEW b \in Browsers, Boot(b) PROVE WizardInv'
<1> DEFINE t == [tab[b] EXCEPT !.config = setup, !.user = tab[b].token]
<1>1. HeldOK(t) /\ t.at = "idle" /\ t.answer = Absent /\ t.config = setup /\ setup \in BOOLEAN
    BY TabsAreOK DEF TabOK, HeldOK, AtOK, TabFields, Boot, WizardInv
<1>2. TabOK(AtPage(t, Shown("home", t.config, t.user)))
    BY <1>1, OpensWell
<1> QED BY <1>2, TabStep DEF Boot

LEMMA ReloadStep ==
    ASSUME WizardInv, NEW b \in Browsers, Reload(b) PROVE WizardInv'
<1>1. HeldOK([NewTab EXCEPT !.token = tab[b].token])
    BY DefaultRowsOK
       DEF HeldOK, FormOK, NewTab, EmptyForm, TabFields, FormFields, TotalSteps, Distinct
<1>2. TabOK([NewTab EXCEPT !.token = tab[b].token])
    BY <1>1 DEF TabOK, AtOK, PageOK, NewTab
<1> QED BY <1>2, TabStep DEF Reload

LEMMA PrefillStep ==
    ASSUME WizardInv, NEW b \in Browsers, Prefill(b) \/ PrefillFails(b) PROVE WizardInv'
<1>1. TabOK(tab[b]) /\ tab[b].step = 1 /\ tab[b].at = "idle" /\ setup \in BOOLEAN
    BY TabsAreOK DEF TabOK, HeldOK, AtOK, Prefill, PrefillFails, WizardInv, TotalSteps
<1>2. CASE Prefill(b)
    <2> DEFINE f == Prefilled(document)
               ld == LoadedCategories(document)
               t == [tab[b] EXCEPT !.loading = FALSE, !.form = f,
                                   !.loaded = ld, !.firstRun = ~setup]
    <2>1. ld \in Seq(WizardRow) /\ Distinct(ld)
        BY LoadedOK DEF WizardInv
    <2>2. FormOK(f)
        BY <2>1 DEF FormOK, Prefilled, EmptyForm, FormFields
    <2> HIDE DEF f, ld
    <2>3. HeldOK(t)
        BY <1>1, <2>1, <2>2 DEF TabOK, HeldOK, TabFields, TotalSteps
    <2>4. AtOK(t) /\ PageOK(t)
        BY <1>1 DEF TabOK, HeldOK, AtOK, PageOK, TabFields
    <2>5. TabOK(t)
        BY <2>3, <2>4 DEF TabOK
    <2> QED BY <1>2, <2>5, TabStep DEF Prefill, f, ld
<1>3. CASE PrefillFails(b)
    <2>1. TabOK([tab[b] EXCEPT !.loading = FALSE])
        BY <1>1 DEF TabOK, HeldOK, AtOK, PageOK, TabFields
    <2> QED BY <1>3, <2>1, TabStep DEF PrefillFails
<1> QED BY <1>2, <1>3

(* An edit is made before the last step and leaves a form.                 *)
LEMMA EditStep ==
    ASSUME WizardInv, NEW b \in Browsers, NEW step \in {1, 2, 5}, NEW f, FormOK(f), Edit(b, step, f)
    PROVE  WizardInv'
<1>1. TabOK([tab[b] EXCEPT !.form = f])
    BY TabsAreOK DEF TabOK, HeldOK, AtOK, PageOK, TabFields, Edit, TotalSteps, Filling
<1> QED BY <1>1, TabStep DEF Edit

LEMMA EditFormStep ==
    ASSUME WizardInv, NEW b \in Browsers, EditForm(b) PROVE WizardInv'
<1> DEFINE f == tab[b].form
<1>1. FormOK(f)
    BY TabsAreOK DEF TabOK, HeldOK
<1>2. CASE ChooseStandard(b)
    <2> DEFINE g == [f EXCEPT !.mode = "default",
                              !.categories = DefaultCategoriesWithIds(IdPool(tab[b]))]
    <2>1. DefaultCategoriesWithIds(IdPool(tab[b])) \in Seq(WizardRow)
        BY PoolIds, TabsAreOK DEF IdPool, TabOK, HeldOK
    <2>2. FormOK(g)
        BY <1>1, <2>1 DEF FormOK, FormFields
    <2>3. Edit(b, 1, g)
        BY <1>2 DEF ChooseStandard
    <2> QED BY <2>2, <2>3, EditStep
<1>3. CASE ChooseOwn(b)
    <2> DEFINE g == [f EXCEPT !.mode = "custom"]
    <2>1. FormOK(g)
        BY <1>1 DEF FormOK, FormFields
    <2>2. Edit(b, 1, g)
        BY <1>3 DEF ChooseOwn
    <2> QED BY <2>1, <2>2, EditStep
<1>4. CASE AddRow(b)
    <2> DEFINE g == [f EXCEPT !.categories = Append(@, [id |-> Absent, code |-> 0])]
    <2>1. Append(f.categories, [id |-> Absent, code |-> 0]) \in Seq(WizardRow)
        BY <1>1 DEF FormOK, WizardRow
    <2>2. FormOK(g)
        BY <1>1, <2>1 DEF FormOK, FormFields
    <2>3. Edit(b, 1, g)
        BY <1>4 DEF AddRow
    <2> QED BY <2>2, <2>3, EditStep
<1>5. ASSUME NEW i \in 1 .. MaxRows, RemoveRow(b, i) PROVE WizardInv'
    <2> DEFINE g == [f EXCEPT !.categories = RemoveAt(@, i)]
    <2>0. f.categories \in Seq(WizardRow) /\ i \in DOMAIN f.categories
        BY <1>1, <1>5 DEF FormOK, RemoveRow
    <2>1. RemoveAt(f.categories, i) \in Seq(WizardRow)
        BY <2>0, RemovalKeepsTheRest
    <2>2. FormOK(g)
        BY <1>1, <2>1 DEF FormOK, FormFields
    <2>3. Edit(b, 1, g)
        BY <1>5 DEF RemoveRow
    <2> QED BY <2>2, <2>3, EditStep
<1>6. ASSUME NEW i \in 1 .. MaxRows,
              NEW code \in ToSet(StandardCodes) \cup {0}, TypeCode(b, i, code)
      PROVE  WizardInv'
    <2> DEFINE g == [f EXCEPT !.categories[i].code = code]
    <2> DEFINE row == [f.categories[i] EXCEPT !.code = code]
               rows == [f.categories EXCEPT ![i] = row]
    <2>1. i \in DOMAIN f.categories /\ f.categories \in Seq(WizardRow)
        BY <1>1, <1>6 DEF FormOK, TypeCode
    <2>2. row \in WizardRow
        <3>1. code \in Nat
            BY WizardAssumption DEF ToSet
        <3>2. f.categories[i] \in WizardRow
            BY <2>1
        <3> QED BY <3>1, <3>2 DEF WizardRow
    <2>3. rows \in Seq(WizardRow)
        BY <2>1, <2>2
    <2>4. g = [f EXCEPT !.categories = rows]
        OBVIOUS
    <2>5. FormOK(g)
        BY <1>1, <2>3, <2>4 DEF FormOK, FormFields
    <2>6. Edit(b, 1, g)
        BY <1>6 DEF TypeCode
    <2> QED BY <2>5, <2>6, EditStep
<1>7. ASSUME NEW n \in 0 .. MaxRules, SetCounterCount(b, n) PROVE WizardInv'
    <2> DEFINE g == IF n = 0 THEN [f EXCEPT !.count = FALSE]
                    ELSE [f EXCEPT !.count = TRUE, !.rules = Resized(@, n)]
    <2>1. FormOK(g)
        BY <1>1 DEF FormOK, FormFields
    <2>2. Edit(b, 1, g)
        BY <1>7 DEF SetCounterCount
    <2> QED BY <2>1, <2>2, EditStep
<1>8. ASSUME NEW i \in 1 .. MaxRules, NEW codes, UpdateRouting(b, i, codes) PROVE WizardInv'
    <2> DEFINE g == [f EXCEPT !.rules[i].codes = codes]
    <2>1. FormOK(g)
        BY <1>1 DEF FormOK, FormFields
    <2>2. Edit(b, 2, g)
        BY <1>8 DEF UpdateRouting
    <2> QED BY <2>1, <2>2, EditStep
<1>9. ASSUME NEW username \in Usernames, NEW password \in Passwords,
              EnterAdmin(b, username, password)
      PROVE  WizardInv'
    <2> DEFINE g == [f EXCEPT !.admin = [username |-> username, password |-> password]]
    <2>1. FormOK(g)
        BY <1>1 DEF FormOK, FormFields, Admin
    <2>2. Edit(b, 5, g)
        BY <1>9 DEF EnterAdmin
    <2> QED BY <2>1, <2>2, EditStep
<1> QED BY <1>2, <1>3, <1>4, <1>5, <1>6, <1>7, <1>8, <1>9 DEF EditForm

LEMMA TurnStep ==
    ASSUME WizardInv, NEW b \in Browsers, NextStep(b) \/ Back(b) PROVE WizardInv'
<1>1. CASE NextStep(b)
    <2>1. TabOK(tab[b]) /\ ~tab[b].loading /\ tab[b].step < TotalSteps /\ tab[b].at = "idle"
        BY <1>1, TabsAreOK DEF NextStep, Filling
    <2>2. tab[b].step = 5 /\ tab[b].firstRun => tab[b].form.admin \in Admin
        BY <1>1, <2>1 DEF NextStep, MayAdvance, Step5Valid, TabOK, HeldOK, FormOK
    <2>3. TabOK([tab[b] EXCEPT !.step = @ + 1])
        BY <2>1, <2>2 DEF TabOK, HeldOK, AtOK, PageOK, TabFields, TotalSteps
    <2> QED BY <1>1, <2>3, TabStep DEF NextStep
<1>2. CASE Back(b)
    <2>1. TabOK([tab[b] EXCEPT !.step = @ - 1])
        BY <1>2, TabsAreOK DEF Back, TabOK, HeldOK, AtOK, PageOK, TabFields, TotalSteps, Filling
    <2> QED BY <1>2, <2>1, TabStep DEF Back
<1> QED BY <1>1, <1>2

-----------------------------------------------------------------------------
(* The calls of finalize.                                                  *)

(* The account's call is sent with an administrator, the configuration's   *)
(* once there is an account.                                               *)
LEMMA SendStep ==
    ASSUME WizardInv, NEW b \in Browsers, NEW t, HeldOK(t), PageOK(t), NEW op, SendWrite(b, t, op),
           UNCHANGED store, op \in {"setup", "save"},
           t.page = "wizard", t.step = TotalSteps,
           ~t.firstRun /\ t.calm => t.user # Absent,
           op = "setup" => t.form.admin \in Admin,
           op = "save" => HasAccount
    PROVE  WizardInv'
<1> DEFINE waiting == [t EXCEPT !.at = op, !.answer = Absent]
<1>1. HeldOK(waiting) /\ PageOK(waiting)
    BY DEF HeldOK, PageOK, TabFields
<1>2. AtOK(waiting)
    BY WizardAssumption DEF HeldOK, AtOK, TabFields
<1>3. TabOK(waiting)
    BY <1>1, <1>2 DEF TabOK
<1> HIDE DEF waiting
<1>4. CASE op = "setup"
    <2>1. CallOK(SetupCall(b, t))
        BY <1>4 DEF CallOK, SetupCall
    <2> QED BY <1>3, <1>4, <2>1, TabStep DEF SendWrite, waiting
<1>5. CASE op = "save"
    <2>1. t.loaded \in Seq(WizardRow) /\ Distinct(t.loaded) /\ t.form.categories \in Seq(WizardRow)
        BY DEF HeldOK, FormOK
    <2>2. SavedRows(t) \in Seq(WizardRow)
        BY <2>1, PoolIds DEF SavedRows, IdPool
    <2>3. t.form.mode = "default" => SavedRows(t) = DefaultCategoriesWithIds(t.loaded)
        BY DEF SavedRows, IdPool
    <2>4. CallOK(SaveCall(b, t))
        BY <1>5, <2>1, <2>2, <2>3 DEF CallOK, SaveCall
    <2> QED BY <1>3, <1>5, <2>4, TabStep DEF SendWrite, waiting
<1> QED BY <1>4, <1>5

LEMMA FinalizeStep ==
    ASSUME WizardInv, NEW b \in Browsers, Finalize(b) PROVE WizardInv'
<1> DEFINE t == [tab[b] EXCEPT !.run = finalizes + 1,
                               !.calm = tab[b].firstRun \/ tab[b].user # Absent]
<1>1. TabOK(tab[b]) /\ tab[b].step = TotalSteps /\ tab[b].page = "wizard"
    BY TabsAreOK DEF Finalize, Filling
<1>2. PICK quiet \in BOOLEAN : quiet = (tab[b].firstRun \/ tab[b].user # Absent)
    OBVIOUS
<1>3. HeldOK(t) /\ PageOK(t) /\ t.page = "wizard" /\ t.step = TotalSteps
    <2>1. t = [tab[b] EXCEPT !.run = finalizes + 1, !.calm = quiet]
        BY <1>2
    <2> HIDE DEF t
    <2> QED BY <1>1, <2>1 DEF TabOK, HeldOK, PageOK, TabFields
<1>4. ~t.firstRun /\ t.calm => t.user # Absent
    BY <1>1 DEF TabOK, HeldOK, TabFields
<1>5. FirstCall(t) \in {"setup", "save"} /\ (FirstCall(t) = "setup" <=> t.firstRun)
    BY DEF FirstCall
<1>6. FirstCall(t) = "setup" => t.form.admin \in Admin
    BY <1>3, <1>5 DEF HeldOK
<1>7. FirstCall(t) = "save" => HasAccount
    BY <1>3, <1>5 DEF HeldOK, WizardInv
<1>8. SendWrite(b, t, FirstCall(t)) /\ UNCHANGED store
    BY DEF Finalize
<1> HIDE DEF t
<1> QED BY <1>3, <1>4, <1>5, <1>6, <1>7, <1>8, SendStep

LEMMA StoppedOK ==
    ASSUME NEW t, TabOK(t), t.at # "idle", NEW drop \in BOOLEAN PROVE TabOK(Stopped(t, drop))
BY DEF TabOK, HeldOK, AtOK, PageOK, TabFields, Stopped

LEMMA AnswerStep ==
    ASSUME WizardInv, NEW b \in Browsers, Answer(b) PROVE WizardInv'
<1>1. TabOK(tab[b]) /\ tab[b].at # "idle" /\ UNCHANGED store
    BY TabsAreOK DEF Answer, TabOK, AtOK
<1>2. CASE tab[b].answer # "ok"
    <2>1. TabOK(Stopped(tab[b], tab[b].answer = "unauthorized"))
        BY <1>1, StoppedOK
    <2> QED BY <1>1, <1>2, <2>1, TabStep DEF Answer
<1>3. CASE tab[b].answer = "ok" /\ tab[b].at = "setup"
    <2>1. /\ HasAccount /\ HeldOK(tab[b]) /\ PageOK(tab[b])
          /\ tab[b].page = "wizard" /\ tab[b].step = TotalSteps
          /\ ~tab[b].firstRun /\ tab[b].calm => tab[b].user # Absent
        BY <1>1, <1>3 DEF TabOK, AtOK
    <2>2. SendWrite(b, tab[b], "save")
        BY <1>3 DEF Answer
    <2> QED BY <1>1, <2>1, <2>2, SendStep
<1>4. CASE tab[b].answer = "ok" /\ tab[b].at = "save"
    <2> DEFINE t == [tab[b] EXCEPT !.at = AfterSave(tab[b]), !.answer = Absent]
    <2>1. AfterSave(tab[b]) = IF tab[b].firstRun THEN "login" ELSE "config"
        BY DEF AfterSave
    <2>2. HeldOK(t) /\ PageOK(t)
        BY <1>1 DEF TabOK, HeldOK, PageOK, TabFields
    <2>3. AtOK(t)
        BY <1>1, <1>4, <2>1 DEF TabOK, HeldOK, AtOK, TabFields
    <2>4. TabOK(t)
        BY <2>2, <2>3 DEF TabOK
    <2> QED BY <1>1, <1>4, <2>4, TabStep DEF Answer
<1> QED BY <1>2, <1>3, <1>4 DEF Answer

LEMMA CallFailsStep ==
    ASSUME WizardInv, NEW b \in Browsers, CallFails(b) PROVE WizardInv'
<1>1. TabOK(Stopped(tab[b], FALSE))
    BY TabsAreOK, StoppedOK DEF CallFails
<1> QED BY <1>1, TabStep DEF CallFails

LEMMA SessionStep ==
    ASSUME WizardInv, NEW b \in Browsers,
           Login(b) \/ (\E username \in Usernames : SignIn(b, username))
    PROVE  WizardInv'
<1>1. TabOK(tab[b])
    BY TabsAreOK
<1>2. CASE Login(b)
    <2>1. tab[b].at = "login" /\ tab[b].firstRun /\ tab[b].page = "wizard"
        BY <1>1, <1>2 DEF TabOK, AtOK, Login
    <2>2. PICK username : username = tab[b].form.admin.username
        OBVIOUS
    <2>3. username \in Usernames /\ username # Absent
        <3>1. tab[b].form.admin \in Admin
            BY <1>1, <2>1 DEF TabOK, HeldOK, AtOK
        <3> QED BY <2>2, <3>1, WizardAssumption DEF Admin
    <2>4. TabOK([tab[b] EXCEPT !.token = username, !.at = "principal"])
        BY <1>1, <2>1, <2>3 DEF TabOK, HeldOK, AtOK, PageOK, TabFields
    <2>5. TabOK(LoggedIn(tab[b])) /\ TabOK(Stopped(tab[b], FALSE))
        BY <1>1, <2>1, <2>2, <2>4, StoppedOK DEF LoggedIn
    <2> QED BY <1>2, <2>5, TabStep DEF Login
<1>3. ASSUME NEW username \in Usernames, SignIn(b, username) PROVE WizardInv'
    <2>1. username # Absent
        BY WizardAssumption
    <2>2. tab[b].page = "login" /\ tab[b].config \in BOOLEAN /\ tab[b].config /\ tab[b].at = "idle"
        BY <1>1, <1>3 DEF TabOK, AtOK, PageOK, SignIn
    <2>3. Shown("home", tab[b].config, username) = "home"
        BY <2>1, <2>2, GuardsLead
    <2>4. TabOK([tab[b] EXCEPT !.token = username, !.user = username, !.page = "home"])
        BY <1>1, <2>1, <2>2 DEF TabOK, HeldOK, AtOK, PageOK, TabFields
    <2> QED BY <1>3, <2>3, <2>4, TabStep DEF SignIn
<1> QED BY <1>2, <1>3

LEMMA PrincipalStep ==
    ASSUME WizardInv, NEW b \in Browsers, NEW came \in BOOLEAN, RefreshPrincipal(b, came)
    PROVE  WizardInv'
<1>1. TabOK(tab[b]) /\ tab[b].at = "principal" /\ tab[b].token # Absent
    BY TabsAreOK DEF RefreshPrincipal, TabOK, AtOK
<1>2. PICK user : user = IF came THEN tab[b].token ELSE Absent
    OBVIOUS
<1>3. PICK quiet \in BOOLEAN : quiet = (tab[b].calm /\ came)
    OBVIOUS
<1>4. TabOK([tab[b] EXCEPT !.at = "config", !.calm = quiet, !.user = user])
    BY <1>1, <1>2, <1>3 DEF TabOK, HeldOK, AtOK, PageOK, TabFields
<1>5. Becomes(b, [tab[b] EXCEPT !.at = "config", !.calm = quiet, !.user = user])
    BY <1>2, <1>3 DEF RefreshPrincipal
<1> QED BY <1>4, <1>5, TabStep DEF RefreshPrincipal

(* The last call: a calm wizard lands on the dashboard, for the setup is   *)
(* complete and its principal is known.                                    *)
LEMMA ConfigStep ==
    ASSUME WizardInv, NEW b \in Browsers, NEW came \in BOOLEAN, RefreshConfig(b, came)
    PROVE  WizardInv'
<1> DEFINE t == [tab[b] EXCEPT !.config = IF came THEN setup ELSE @, !.calm = @ /\ came,
                               !.at = "idle"]
           landed == Shown("home", t.config, t.user)
           o == AtPage(t, landed)
<1>1. TabOK(tab[b]) /\ tab[b].at = "config" /\ tab[b].page = "wizard" /\ setup
    BY TabsAreOK DEF RefreshConfig, TabOK, AtOK
<1>2. setup = TRUE /\ tab[b].config \in BOOLEAN /\ tab[b].calm \in BOOLEAN
    BY <1>1 DEF WizardInv, TabOK, HeldOK, PageOK
<1>3. PICK quiet \in BOOLEAN : quiet = (tab[b].calm /\ came)
    OBVIOUS
<1>4. PICK config \in BOOLEAN : config = IF came THEN setup ELSE tab[b].config
    BY <1>2
<1>5. t = [tab[b] EXCEPT !.config = config, !.calm = quiet, !.at = "idle"]
    BY <1>3, <1>4
<1> HIDE DEF t
<1>6. /\ HeldOK(t) /\ t.at = "idle" /\ t.config = config /\ t.calm = quiet
      /\ t.user = tab[b].user /\ t.answer = Absent /\ t.config \in BOOLEAN
    BY <1>1, <1>5 DEF TabOK, HeldOK, AtOK, TabFields
<1>7. TabOK(o)
    BY <1>6, OpensWell
<1>8. ~(t.calm /\ landed # "home")
    <2>1. t.calm => t.config /\ t.user # Absent
        BY <1>1, <1>2, <1>3, <1>4, <1>6 DEF TabOK, AtOK
    <2> QED BY <1>6, <2>1, GuardsLead
<1>9. [o EXCEPT !.bounced = t.calm /\ landed # "home"] = [o EXCEPT !.bounced = FALSE]
    BY <1>8
<1> HIDE DEF o, landed
<1>10. TabOK([o EXCEPT !.bounced = FALSE])
    BY <1>7 DEF TabOK, HeldOK, AtOK, PageOK, TabFields
<1>11. Becomes(b, [o EXCEPT !.bounced = t.calm /\ landed # "home"])
    BY DEF RefreshConfig, o, landed, t
<1> QED BY <1>9, <1>10, <1>11, TabStep DEF RefreshConfig

-----------------------------------------------------------------------------
(* The server.                                                             *)

(* An answer changes what a browser was told, and nothing else of it: one  *)
(* to the account's call once there is an account, one to the save once    *)
(* the setup is complete.                                                  *)
LEMMA AnsweredStep ==
    ASSUME WizardInv, NEW call \in calls, NEW answer, WriteAnswered(call, answer) \/ UNCHANGED tab,
           answer = "ok" /\ call.op = "setup" => HasAccount',
           answer = "ok" /\ call.op = "save" => setup',
           setup => setup', HasAccount => HasAccount'
    PROVE  DOMAIN tab' = Browsers /\ \A b \in Browsers : TabOK(tab[b])'
<1>1. DOMAIN tab' = Browsers
    BY DEF WriteAnswered, WizardInv
<1>2. ASSUME NEW b \in Browsers PROVE TabOK(tab[b])'
    <2>1. TabOK(tab[b]) /\ call.op \in {"setup", "save"}
        BY TabsAreOK DEF WizardInv, CallOK
    <2>2. \/ tab'[b] = tab[b]
          \/ tab[b].at = call.op /\ tab'[b] = [tab[b] EXCEPT !.answer = answer]
        BY DEF WriteAnswered, WizardInv
    <2>3. CASE tab'[b] = tab[b]
        BY <2>1, <2>3 DEF TabOK, HeldOK, AtOK, PageOK
    <2>4. CASE tab[b].at = call.op /\ tab'[b] = [tab[b] EXCEPT !.answer = answer]
        <3>1. HeldOK(tab[b])' /\ PageOK(tab[b])'
            BY <2>1, <2>4 DEF TabOK, HeldOK, PageOK, TabFields
        <3>2. AtOK(tab[b])'
            BY <2>1, <2>4 DEF TabOK, HeldOK, AtOK, TabFields
        <3> QED BY <3>1, <3>2 DEF TabOK
    <2> QED BY <2>2, <2>3, <2>4
<1> QED BY <1>1, <1>2

LEMMA AdmitStep ==
    ASSUME WizardInv, NEW call \in calls, Admit(call) PROVE WizardInv'
<1>1. UNCHANGED <<setup, accounts, document, lastId>>
    BY DEF Admit, store
<1>2. (HasAccount' <=> HasAccount) /\ (DocumentOK' <=> DocumentOK)
    BY <1>1 DEF HasAccount, DocumentOK
<1>3. ASSUME NEW c \in calls' PROVE CallOK(c)'
    <2>1. c \in calls \/ c = [call EXCEPT !.at = "admitted"]
        BY DEF Admit
    <2>2. CallOK(call) /\ (c \in calls => CallOK(c))
        BY DEF WizardInv
    <2>3. CASE c = [call EXCEPT !.at = "admitted"]
        <3>1. c.op = call.op /\ DOMAIN c = DOMAIN call
            BY <2>2, <2>3 DEF CallOK
        <3>2. call.op = "setup" => c.admin = call.admin
            BY <2>2, <2>3 DEF CallOK
        <3>3. call.op = "save" => /\ c.categories = call.categories
                                  /\ c.read = call.read /\ c.standard = call.standard
            BY <2>2, <2>3 DEF CallOK
        <3> QED BY <1>2, <2>2, <3>1, <3>2, <3>3 DEF CallOK
    <2> QED BY <1>2, <2>1, <2>2, <2>3 DEF CallOK
<1>4. DOMAIN tab' = Browsers /\ \A b \in Browsers : TabOK(tab[b])'
    <2>1. PICK answer : answer # "ok" /\ (WriteAnswered(call, answer) \/ UNCHANGED tab)
        BY DEF Admit
    <2> QED BY <1>1, <1>2, <2>1, AnsweredStep
<1> QED BY <1>1, <1>2, <1>3, <1>4 DEF WizardInv

LEMMA SetupAdminStep ==
    ASSUME WizardInv, NEW call \in calls, SetupAdmin(call) PROVE WizardInv'
<1>1. call.admin.username \in Usernames /\ call.admin.password \in Passwords
    BY DEF SetupAdmin, WizardInv, CallOK, Admin
<1>2. HasAccount'
    BY <1>1, WizardAssumption DEF SetupAdmin, HasAccount, WizardInv
<1>3. UNCHANGED <<setup, document, lastId>> /\ DOMAIN accounts' = Usernames
    BY DEF SetupAdmin, WizardInv
<1>4. \A c \in calls' : CallOK(c)'
    BY <1>2 DEF SetupAdmin, CallOK, WizardInv
<1>5. DOMAIN tab' = Browsers /\ \A b \in Browsers : TabOK(tab[b])'
    <2>1. WriteAnswered(call, "ok") /\ call.op = "setup"
        BY DEF SetupAdmin
    <2> QED BY <1>2, <1>3, <2>1, AnsweredStep
<1>6. DocumentOK'
    BY <1>3 DEF WizardInv, DocumentOK
<1> QED BY <1>2, <1>3, <1>4, <1>5, <1>6 DEF WizardInv

LEMMA SaveStep ==
    ASSUME WizardInv, NEW call \in calls, SaveSystemConfig(call) PROVE WizardInv'
<1>1. CallOK(call) /\ call.op = "save" /\ accounts' = accounts
    BY DEF SaveSystemConfig, WizardInv
<1>2. HasAccount /\ HasAccount'
    BY <1>1 DEF HasAccount, CallOK
<1>3. \A c \in calls' : CallOK(c)'
    BY <1>2 DEF SaveSystemConfig, CallOK, WizardInv
<1>4. CASE /\ SaveRefused(call) /\ WriteAnswered(call, "refused")
           /\ UNCHANGED <<setup, document, lastId>>
    <2>1. DOMAIN tab' = Browsers /\ \A b \in Browsers : TabOK(tab[b])'
        BY <1>2, <1>4, AnsweredStep
    <2> QED BY <1>1, <1>2, <1>3, <1>4, <2>1 DEF WizardInv, DocumentOK
<1>5. CASE /\ ~SaveRefused(call) /\ WriteAnswered(call, "ok") /\ setup' = TRUE
           /\ document' = [categories |-> WithIds(call.categories), rules |-> call.rules]
           /\ lastId' = lastId + Minted(call.categories)
    <2>1. DOMAIN tab' = Browsers /\ \A b \in Browsers : TabOK(tab[b])'
        BY <1>1, <1>2, <1>5, AnsweredStep
    <2>2. call.categories \in Seq(WizardRow)
        BY <1>1 DEF CallOK
    <2>3. ~(Cardinality(RowCodesOf(call.categories)) < Len(call.categories))
        BY <1>5 DEF SaveRefused
    <2>4. /\ WithIds(call.categories) \in Seq(WizardRow) /\ Distinct(WithIds(call.categories))
          /\ lastId + Minted(call.categories) \in Nat
        BY <2>2, <2>3, StoredOK DEF WizardInv
    <2>5. DocumentOK'
        BY <1>5, <2>4 DEF DocumentOK, Distinct
    <2> QED BY <1>1, <1>2, <1>3, <1>5, <2>1, <2>5 DEF WizardInv
<1> QED BY <1>4, <1>5 DEF SaveSystemConfig

-----------------------------------------------------------------------------
LEMMA InitHolds == WizardInit => WizardInv
<1>1. HeldOK(NewTab)
    BY DefaultRowsOK
       DEF HeldOK, FormOK, NewTab, EmptyForm, TabFields, FormFields, TotalSteps, Distinct
<1>2. TabOK(NewTab)
    BY <1>1 DEF TabOK, AtOK, PageOK, NewTab
<1> SUFFICES ASSUME WizardInit PROVE WizardInv
    OBVIOUS
<1>3. DocumentOK
    BY DEF WizardInit, DocumentOK, Distinct
<1>4. DOMAIN tab = Browsers /\ (\A b \in Browsers : TabOK(tab[b])) /\ DOMAIN accounts = Usernames
    BY <1>2 DEF WizardInit
<1> QED BY <1>3, <1>4 DEF WizardInit, WizardInv

LEMMA NextHolds == WizardInv /\ [WizardNext]_wizardVars => WizardInv'
<1> SUFFICES ASSUME WizardInv, [WizardNext]_wizardVars PROVE WizardInv'
    OBVIOUS
<1>1. ASSUME NEW b \in Browsers, Browse(b) PROVE WizardInv'
    BY <1>1, BootStep, ReloadStep, PrefillStep, TurnStep, FinalizeStep, AnswerStep, CallFailsStep,
       SessionStep, PrincipalStep, ConfigStep DEF Browse
<1>2. ASSUME NEW b \in Browsers, EditForm(b) PROVE WizardInv'
    BY <1>2, EditFormStep
<1>3. CASE Serve
    BY <1>3, AdmitStep, SetupAdminStep, SaveStep DEF Serve
<1>4. CASE UNCHANGED wizardVars
    <2>1. UNCHANGED <<setup, document, lastId, accounts, tab, calls>>
        BY <1>4 DEF wizardVars
    <2>2. HasAccount' <=> HasAccount
        BY <2>1 DEF HasAccount
    <2> QED BY <2>1, <2>2 DEF WizardInv, TabOK, HeldOK, AtOK, PageOK, CallOK, DocumentOK
<1> QED BY <1>1, <1>2, <1>3, <1>4 DEF WizardNext

LEMMA WizardsHold == WizardSpec => []WizardInv
BY InitHolds, NextHolds, PTL DEF WizardSpec

(* A store whose setup is complete always has an account to sign in with:  *)
(* no failed call, late write, reload or second wizard leaves it without   *)
(* (finalize, SetupInitialAdminUseCase and the guards of the two writes).  *)
THEOREM SetupLeavesAnAccount == WizardSpec => []NobodyIsLockedOut
<1>1. WizardInv => NobodyIsLockedOut
    BY DEF WizardInv, NobodyIsLockedOut, HasAccount
<1> QED BY WizardsHold, <1>1, PTL

-----------------------------------------------------------------------------
(* What the invariant says of the pages and of the categories.             *)

LEMMA NoneIsBounced == WizardInv => EndsInside
BY DEF WizardInv, TabOK, HeldOK, EndsInside

LEMMA PagesSettle == WizardInv => GuardsSettle
<1> SUFFICES ASSUME WizardInv, NEW b \in Browsers, tab[b].page # "boot"
             PROVE  Redirected(tab[b].page, tab[b].config, tab[b].user) = tab[b].page
    BY DEF GuardsSettle
<1> DEFINE page1 == tab[b].page
           config == tab[b].config
           user == tab[b].user
<1>1. /\ page1 \in {"wizard", "login", "home"} /\ config \in BOOLEAN
      /\ config <=> page1 # "wizard"
      /\ page1 = "home" => user # Absent
    BY TabsAreOK DEF TabOK, PageOK
<1> HIDE DEF page1, config, user
<1>2. Redirected(page1, config, user) = page1
    BY <1>1 DEF Redirected, WizardGuard, SetupGuard, RequireAuth
<1> QED BY <1>2 DEF page1, config, user

LEMMA DetoursKeep == WizardInv => DetourKeepsIds
<1> SUFFICES ASSUME WizardInv, NEW call \in calls, call.op = "save", call.standard,
                    call.read = document.categories
             PROVE  \A i \in DOMAIN call.categories, row \in ToSet(document.categories) :
                       row.code = call.categories[i].code => row.id = call.categories[i].id
    BY DEF DetourKeepsIds
<1>1. /\ call.categories = DefaultCategoriesWithIds(document.categories)
      /\ document.categories \in Seq(WizardRow) /\ Distinct(document.categories)
    BY DEF WizardInv, CallOK, DocumentOK
<1> QED BY <1>1, PoolIds DEF ToSet

(* Nobody ends outside: in any number of browsers, a wizard whose calls    *)
(* all came through lands on the dashboard, signed in; no page redirects   *)
(* for ever; and a detour over own categories saves the standard ones with *)
(* the ids that the wizard read (WizardPage, App and the guards).          *)
THEOREM SetupEndsWell == WizardSpec => [](EndsInside /\ GuardsSettle /\ DetourKeepsIds)
BY WizardsHold, NoneIsBounced, PagesSettle, DetoursKeep, PTL

(* The same of the whole admin application, whichever part of it runs.     *)
THEOREM SetupStaysInside == AdminSpec => []SetupEndsInside
<1>1. AdminInit => WizardInv
    BY InitHolds DEF AdminInit
<1>2. [AdminNext]_adminVars => [WizardNext]_wizardVars
    <2>1. WizardsNext => WizardNext
        BY AloneAssumption DEF WizardsNext, WizardNext, Races
    <2> QED BY <2>1 DEF AdminNext, adminVars
<1>3. WizardInv => SetupEndsInside
    BY NoneIsBounced, PagesSettle, DetoursKeep DEF SetupEndsInside
<1> QED BY <1>1, <1>2, <1>3, NextHolds, PTL DEF AdminSpec
-----------------------------------------------------------------------------
(* The reports.                                                            *)

(* What a request has read so far are the statements of one instant, this  *)
(* one, unless something disturbed it; the last request is for the range   *)
(* that is picked.                                                         *)
LoadFields == {"from", "to", "number", "at", "got"}
StatementsOf(load) == {Statement(n, Tables, load.from, load.to) : n \in 1 .. 4}
ReadSoFar(load) ==
    /\ load.got \in Seq(StatementsOf(load)) /\ Len(load.got) = load.at - 1
    /\ \A n \in 1 .. load.at - 1 : load.got[n] = Statement(n, Tables, load.from, load.to)
ReadWhole(load) ==
    \/ load.got = EmptyRange(load.from, load.to)
    \/ \A n \in 1 .. 4 : load.got[n] = Statement(n, Tables, load.from, load.to)

LoadOK(load) ==
    /\ DOMAIN load = LoadFields
    /\ load.number \in Nat /\ load.number <= asked
    /\ load.number = asked => [from |-> load.from, to |-> load.to] = range
    /\ load.at \in 1 .. 5
    /\ load.at # 1 => ~RangeIsRefused(load)
    /\ load.at = 1 => load.got = <<>>
    /\ load.at \in 2 .. 4 => ReadSoFar(load)
    /\ load.at = 5 /\ load.got # None => ReadWhole(load)

ReportsInv ==
    /\ ReportsTypeOK
    /\ asked \in Nat /\ now \in 0 .. MaxNow
    /\ DOMAIN active = Tickets /\ DOMAIN archived = Tickets /\ kept \subseteq Categories
    /\ \A load \in loads : LoadOK(load)
    /\ ViewIsOfTheRange

LEMMA TodayIsADay == ReportsInv => toDateKey(now) \in Days /\ toDateKey(now) \in Nat
BY CalendarAssumption DEF ReportsInv, toDateKey

(* A request that something disturbed begins, or ends without an answer    *)
(* whose statements belong together.                                       *)
LEMMA MixedOK ==
    ASSUME NEW load, LoadOK(load)
    PROVE  \/ Mixed(load) = load /\ load.at = 1
           \/ Mixed(load) = [load EXCEPT !.at = 5, !.got = None] /\ ~RangeIsRefused(load)
BY DEF LoadOK, Mixed

LEMMA EndsMixed ==
    ASSUME NEW load, LoadOK(load), ~RangeIsRefused(load), NEW m,
           m = [load EXCEPT !.at = 5, !.got = None]
    PROVE  LoadOK(m)
<1>1. /\ DOMAIN m = LoadFields /\ m.number = load.number /\ m.from = load.from /\ m.to = load.to
      /\ m.at = 5 /\ m.got = None
    BY DEF LoadOK, LoadFields
<1>2. ~RangeIsRefused(m)
    BY <1>1 DEF RangeIsRefused
<1> QED BY <1>1, <1>2 DEF LoadOK

LEMMA DisturbedOK ==
    ASSUME ReportsInv, loads' = Disturbed, UNCHANGED <<range, asked, reportView>>
    PROVE  (\A load \in loads : LoadOK(load))' /\ ViewIsOfTheRange'
<1>1. ViewIsOfTheRange'
    BY DEF ReportsInv, ViewIsOfTheRange
<1>2. ASSUME NEW load \in loads' PROVE LoadOK(load)'
    <2>1. PICK old \in loads : load = IF old.at = 1 THEN old ELSE Mixed(old)
        BY DEF Disturbed
    <2>2. LoadOK(old)
        BY DEF ReportsInv
    <2>3. LoadOK(load) /\ (load.at = 1 \/ (load.at = 5 /\ load.got = None))
        <3>1. CASE load = old /\ old.at = 1
            BY <2>2, <3>1
        <3>2. CASE load = [old EXCEPT !.at = 5, !.got = None] /\ ~RangeIsRefused(old)
            <4>1. LoadOK(load)
                BY <2>2, <3>2, EndsMixed
            <4> QED BY <2>2, <3>2, <4>1 DEF LoadOK, LoadFields
        <3> QED BY <2>1, <2>2, <3>1, <3>2, MixedOK
    <2> QED BY <2>3 DEF LoadOK, RangeIsRefused, daySpan
<1> QED BY <1>1, <1>2

(* What happens to a ticket, or to the categories, disturbs every request  *)
(* on its way.                                                             *)
LEMMA ChangesStep ==
    ASSUME ReportsInv, Changes, now' = now,
           DOMAIN active' = Tickets, DOMAIN archived' = Tickets, kept' \subseteq Categories,
           NEW t \in Tickets, {active'[t], archived'[t]} \subseteq Row \cup {None},
           active'[t] = None \/ archived'[t] = None,
           \A u \in Tickets \ {t} : active'[u] = active[u] /\ archived'[u] = archived[u]
    PROVE  ReportsInv'
<1>1. UNCHANGED <<range, asked, reportView>> /\ loads' = Disturbed
    BY DEF Changes
<1>2. (\A load \in loads : LoadOK(load))' /\ ViewIsOfTheRange'
    BY <1>1, DisturbedOK
<1>3. ReportsTypeOK'
    BY <1>1 DEF ReportsInv, ReportsTypeOK
<1> QED BY <1>1, <1>2, <1>3 DEF ReportsInv

LEMMA TicketStep ==
    ASSUME ReportsInv, NEW t \in Tickets,
           \/ \E category \in kept : Issue(t, category)
           \/ \E k \in Counters : Call(t, k)
           \/ \E serving \in BOOLEAN : Complete(t, serving)
           \/ Purge(t)
    PROVE  ReportsInv'
<1>1. /\ active[t] \in Row \cup {None} /\ archived[t] \in Row \cup {None}
      /\ active[t] = None \/ archived[t] = None
      /\ DOMAIN active = Tickets /\ DOMAIN archived = Tickets /\ kept \subseteq Categories
      /\ now \in Nat
    BY DEF ReportsInv, ReportsTypeOK
<1>2. ASSUME NEW category \in kept, Issue(t, category) PROVE ReportsInv'
    <2> DEFINE row == [category |-> category, counter |-> None, created |-> now,
                       called |-> None, served |-> None, completed |-> None]
    <2>1. row \in Row
        BY <1>1 DEF Row
    <2>2. active' = [active EXCEPT ![t] = row] /\ UNCHANGED <<archived, kept, now>> /\ archived[t] = None
        BY <1>2 DEF Issue
    <2> HIDE DEF row
    <2> QED BY <1>1, <1>2, <2>1, <2>2, ChangesStep DEF Issue
<1>3. ASSUME NEW k \in Counters, Call(t, k) PROVE ReportsInv'
    <2> DEFINE row == [active[t] EXCEPT !.called = now, !.counter = k]
    <2>1. row \in Row /\ active[t] # None
        BY <1>1, <1>3 DEF Row, Call
    <2>2. active' = [active EXCEPT ![t] = row] /\ UNCHANGED <<archived, kept, now>>
        BY <1>1, <1>3 DEF Call
    <2> HIDE DEF row
    <2>3. /\ DOMAIN active' = Tickets /\ DOMAIN archived' = Tickets /\ kept' \subseteq Categories
          /\ {active'[t], archived'[t]} \subseteq Row \cup {None} /\ archived'[t] = None
          /\ \A u \in Tickets \ {t} : active'[u] = active[u] /\ archived'[u] = archived[u]
        BY <1>1, <2>1, <2>2
    <2> QED BY <1>3, <2>1, <2>2, <2>3, ChangesStep DEF Call
<1>4. ASSUME NEW serving \in BOOLEAN, Complete(t, serving) PROVE ReportsInv'
    <2> DEFINE served == IF serving THEN active[t].called ELSE None
               row == [active[t] EXCEPT !.completed = now, !.served = served]
    <2>1. active[t] \in Row /\ active[t] # None
        BY <1>1, <1>4 DEF Complete
    <2>2. served \in Nat \cup {None}
        BY <2>1 DEF Row
    <2>3. active' = [active EXCEPT ![t] = row] /\ UNCHANGED <<archived, kept, now>>
        BY <1>1, <1>4 DEF Complete
    <2> HIDE DEF served
    <2>4. row \in Row
        BY <1>1, <2>1, <2>2 DEF Row
    <2> HIDE DEF row
    <2>5. /\ DOMAIN active' = Tickets /\ DOMAIN archived' = Tickets /\ kept' \subseteq Categories
          /\ {active'[t], archived'[t]} \subseteq Row \cup {None} /\ archived'[t] = None
          /\ \A u \in Tickets \ {t} : active'[u] = active[u] /\ archived'[u] = archived[u]
        BY <1>1, <2>1, <2>3, <2>4
    <2> QED BY <1>4, <2>1, <2>3, <2>4, <2>5, ChangesStep DEF Complete
<1>5. CASE Purge(t)
    BY <1>1, <1>5, ChangesStep DEF Purge
<1> QED BY <1>2, <1>3, <1>4, <1>5

LEMMA CategoryStep ==
    ASSUME ReportsInv, NEW category, RemoveCategory(category) PROVE ReportsInv'
<1>1. UNCHANGED <<active, archived, now, range, asked, reportView>> /\ loads' = Disturbed
    BY DEF RemoveCategory, Changes
<1>2. (\A load \in loads : LoadOK(load))' /\ ViewIsOfTheRange'
    BY <1>1, DisturbedOK
<1>3. ReportsTypeOK' /\ kept' \subseteq Categories
    BY <1>1 DEF ReportsInv, ReportsTypeOK, RemoveCategory
<1> QED BY <1>1, <1>2, <1>3 DEF ReportsInv

(* The clock and a reset, which statements do not see: a row is in one of  *)
(* the two tables, whichever it is.                                        *)
LEMMA UnseenStep ==
    ASSUME ReportsInv, Archive \/ Tick PROVE ReportsInv'
<1>1. UNCHANGED <<kept, range, loads, asked, reportView>> /\ now' \in 0 .. MaxNow
    BY CalendarAssumption DEF Archive, Tick, pageVars, ReportsInv
<1>2. /\ DOMAIN active' = Tickets /\ DOMAIN archived' = Tickets
      /\ \A t \in Tickets : Stored(t)' = Stored(t)
      /\ \A t \in Tickets : {active'[t], archived'[t]} \subseteq Row \cup {None}
      /\ \A t \in Tickets : active'[t] = None \/ archived'[t] = None
    <2>1. CASE Tick
        BY <2>1 DEF Tick, ReportsInv, ReportsTypeOK, Stored
    <2>2. CASE Archive
        <3> DEFINE old == {t \in Tickets : active[t] # None
                                             /\ active[t].created < DayStart[toDateKey(now)]}
        <3>1. /\ archived' = [t \in Tickets |-> IF t \in old THEN active[t] ELSE archived[t]]
              /\ active' = [t \in Tickets |-> IF t \in old THEN None ELSE active[t]]
              /\ \A t \in old : active[t] # None
            BY <2>2 DEF Archive
        <3> HIDE DEF old
        <3> QED BY <3>1 DEF ReportsInv, ReportsTypeOK, Stored
    <2> QED BY <2>1, <2>2
<1>3. Tables' = Tables
    BY <1>1, <1>2 DEF Tables
<1>4. ASSUME NEW load \in loads PROVE LoadOK(load)'
    <2>1. LoadOK(load)
        BY DEF ReportsInv
    <2>2. StatementsOf(load)' = StatementsOf(load)
        BY <1>3 DEF StatementsOf
    <2>3. (ReadSoFar(load)' <=> ReadSoFar(load)) /\ (ReadWhole(load)' <=> ReadWhole(load))
        BY <1>3, <2>2 DEF ReadSoFar, ReadWhole
    <2> QED BY <1>1, <2>1, <2>3 DEF LoadOK
<1>5. ViewIsOfTheRange'
    BY <1>1 DEF ReportsInv, ViewIsOfTheRange
<1>6. ReportsTypeOK'
    BY <1>1, <1>2 DEF ReportsInv, ReportsTypeOK
<1> QED BY <1>1, <1>2, <1>4, <1>5, <1>6 DEF ReportsInv

(* Another range: nothing that is on its way is for it.                    *)
LEMMA RangeStep ==
    ASSUME ReportsInv, NEW from \in Days, NEW to \in Days, from <= to, ShowRange(from, to),
           UNCHANGED queueVars
    PROVE  ReportsInv'
<1> PICK new : new = RangeLoad(from, to, asked + 1)
    OBVIOUS
<1>1. /\ UNCHANGED <<active, archived, kept, now>> /\ asked' = asked + 1 /\ asked \in Nat
      /\ range' = [from |-> from, to |-> to] /\ reportView' = ReportLoading
      /\ loads' = {Mixed(load) : load \in loads} \cup {new}
    BY DEF ShowRange, queueVars, ReportsInv
<1>2. ReportsTypeOK'
    BY <1>1 DEF ReportsInv, ReportsTypeOK
<1>3. ViewIsOfTheRange'
    BY <1>1 DEF ViewIsOfTheRange, ReportLoading
<1>4. LoadOK(new)'
    BY <1>1 DEF LoadOK, LoadFields, RangeLoad
<1>5. ASSUME NEW load \in loads, NEW m, m = Mixed(load) PROVE LoadOK(m)'
    <2>1. LoadOK(load)
        BY DEF ReportsInv
    <2>2. LoadOK(m) /\ (m.at = 1 \/ (m.at = 5 /\ m.got = None)) /\ m.number = load.number
        <3>1. CASE m = load /\ load.at = 1
            BY <2>1, <3>1
        <3>2. CASE m = [load EXCEPT !.at = 5, !.got = None] /\ ~RangeIsRefused(load)
            <4>1. LoadOK(m)
                BY <2>1, <3>2, EndsMixed
            <4> QED BY <2>1, <3>2, <4>1 DEF LoadOK, LoadFields
        <3> QED BY <1>5, <2>1, <3>1, <3>2, MixedOK
    <2>3. m.number # asked' /\ m.number <= asked'
        BY <1>1, <2>1, <2>2 DEF LoadOK
    <2> QED BY <2>2, <2>3 DEF LoadOK
<1>6. \A m \in loads' : LoadOK(m)'
    BY <1>1, <1>4, <1>5
<1> QED BY <1>1, <1>2, <1>3, <1>6 DEF ReportsInv

LEMMA PickStep ==
    ASSUME ReportsInv,
           \/ \E days \in Presets : selectRelative(days)
           \/ \E first, second \in Days : onSelect(first, second)
    PROVE  ReportsInv'
<1>1. ASSUME NEW days \in Presets, selectRelative(days) PROVE ReportsInv'
    <2>1. /\ toDateKey(now) \in Days /\ toDateKey(now) - days + 1 \in Days
          /\ toDateKey(now) - days + 1 <= toDateKey(now)
        BY <1>1, TodayIsADay, CalendarAssumption DEF selectRelative
    <2> QED BY <1>1, <2>1, RangeStep DEF selectRelative
<1>2. ASSUME NEW first \in Days, NEW second \in Days, onSelect(first, second) PROVE ReportsInv'
    <2> DEFINE low == Min({first, second})
               high == Max({first, second})
    <2>1. first \in Nat /\ second \in Nat
        BY CalendarAssumption
    <2>2. low \in {first, second} /\ low <= first /\ low <= second
        <3>1. \E x \in {first, second} : \A y \in {first, second} : x <= y
            BY <2>1
        <3> QED BY <3>1 DEF Min
    <2>3. high \in {first, second} /\ high >= first /\ high >= second
        <3>1. \E x \in {first, second} : \A y \in {first, second} : x >= y
            BY <2>1
        <3> QED BY <3>1 DEF Max
    <2>4. low \in Days /\ high \in Days /\ low <= high /\ ShowRange(low, high) /\ UNCHANGED queueVars
        BY <1>2, <2>1, <2>2, <2>3 DEF onSelect
    <2> HIDE DEF low, high
    <2> QED BY <2>4, RangeStep
<1> QED BY <1>1, <1>2

(* The next statement is of the same instant as those before it.           *)
LEMMA QueryStep ==
    ASSUME ReportsInv, NEW load \in loads, Query(load) PROVE ReportsInv'
<1>1. UNCHANGED <<active, archived, kept, now, range, asked, reportView>>
    BY DEF Query, queueVars
<1>2. Tables' = Tables /\ \A t : Stored(t)' = Stored(t)
    BY <1>1 DEF Tables, Stored
<1>3. LoadOK(load) /\ load.at \in 1 .. 4 /\ ~RangeIsRefused(load)
    BY DEF ReportsInv, Query
<1>4. PICK result : result = Statement(load.at, Tables, load.from, load.to)
    OBVIOUS
<1>5. PICK next : /\ \/ next = [load EXCEPT !.at = 5, !.got = EmptyRange(load.from, load.to)]
                     \/ next = [load EXCEPT !.at = @ + 1, !.got = Append(@, result)]
                  /\ loads' = (loads \ {load}) \cup {next}
    BY <1>4 DEF Query, AfterStatement
<1>6. /\ DOMAIN next = LoadFields /\ next.from = load.from /\ next.to = load.to
      /\ next.number = load.number
      /\ \/ next.at = 5 /\ next.got = EmptyRange(load.from, load.to)
         \/ next.at = load.at + 1 /\ next.got = Append(load.got, result)
    BY <1>3, <1>5 DEF LoadOK, LoadFields
<1>7. LoadOK(next)
    <2>1. ~RangeIsRefused(next)
        BY <1>3, <1>6 DEF RangeIsRefused
    <2>2. CASE next.at = 5 /\ next.got = EmptyRange(load.from, load.to)
        BY <1>3, <1>6, <2>1, <2>2 DEF LoadOK, ReadWhole
    <2>3. CASE next.at = load.at + 1 /\ next.got = Append(load.got, result)
        <3>1. StatementsOf(next) = StatementsOf(load) /\ result \in StatementsOf(load)
            BY <1>3, <1>4, <1>6 DEF StatementsOf
        <3>2. /\ load.got \in Seq(StatementsOf(load)) /\ Len(load.got) = load.at - 1
              /\ \A n \in 1 .. load.at - 1 :
                    load.got[n] = Statement(n, Tables, load.from, load.to)
            <4>1. CASE load.at = 1
                <5>1. load.got = <<>>
                    BY <1>3, <4>1 DEF LoadOK
                <5>2. load.got \in Seq(StatementsOf(load)) /\ Len(load.got) = 0
                    BY <5>1
                <5> QED BY <4>1, <5>2
            <4>2. CASE load.at \in 2 .. 4
                BY <1>3, <4>2 DEF LoadOK, ReadSoFar
            <4> QED BY <1>3, <4>1, <4>2
        <3>3. /\ next.got \in Seq(StatementsOf(next)) /\ Len(next.got) = load.at
              /\ \A n \in 1 .. load.at : next.got[n] = Statement(n, Tables, next.from, next.to)
            BY <1>3, <1>4, <1>6, <2>3, <3>1, <3>2
        <3>4. ReadSoFar(next)
            BY <1>3, <2>3, <3>3 DEF ReadSoFar
        <3>5. next.at = 5 => ReadWhole(next)
            BY <1>3, <2>3, <3>3 DEF ReadWhole
        <3> QED BY <1>3, <1>6, <2>1, <2>3, <3>4, <3>5 DEF LoadOK
    <2> QED BY <1>6, <2>2, <2>3
<1>8. \A l : LoadOK(l)' <=> LoadOK(l)
    BY <1>1, <1>2 DEF LoadOK, ReadSoFar, ReadWhole, StatementsOf
<1>9. (\A l \in loads : LoadOK(l))'
    BY <1>5, <1>7, <1>8 DEF ReportsInv
<1>10. ReportsTypeOK' /\ ViewIsOfTheRange'
    BY <1>1 DEF ReportsInv, ReportsTypeOK, ViewIsOfTheRange
<1> QED BY <1>1, <1>9, <1>10 DEF ReportsInv

LEMMA AnswerToPageStep ==
    ASSUME ReportsInv, NEW load \in loads, NEW shown, Answered(load, shown),
           shown.status = "ready" => shown.from = load.from /\ shown.to = load.to
    PROVE  ReportsInv'
<1>1. /\ UNCHANGED <<active, archived, kept, now, range, asked>> /\ loads' \subseteq loads
      /\ reportView' = IF Current(load) THEN shown ELSE reportView
    BY DEF Answered, queueVars
<1>2. Tables' = Tables
    BY <1>1 DEF Tables, Stored
<1>3. \A l : LoadOK(l)' <=> LoadOK(l)
    BY <1>1, <1>2 DEF LoadOK, ReadSoFar, ReadWhole, StatementsOf
<1>4. (\A l \in loads : LoadOK(l))'
    BY <1>1, <1>3 DEF ReportsInv
<1>5. ViewIsOfTheRange'
    BY <1>1 DEF ReportsInv, LoadOK, Current, ViewIsOfTheRange
<1>6. ReportsTypeOK'
    BY <1>1 DEF ReportsInv, ReportsTypeOK
<1> QED BY <1>1, <1>4, <1>5, <1>6 DEF ReportsInv

LEMMA ArriveStep ==
    ASSUME ReportsInv, NEW load \in loads, Arrive(load) \/ Lose(load) PROVE ReportsInv'
<1>1. \/ Answered(load, ReportReady(load)) \/ Answered(load, ReportFailed)
    BY DEF Arrive, Lose
<1>2. /\ ReportReady(load).from = load.from /\ ReportReady(load).to = load.to
      /\ ReportFailed.status # "ready"
    BY DEF ReportReady, ReportFailed
<1> QED BY <1>1, <1>2, AnswerToPageStep

LEMMA ReportsHold == ReportsSpec => []ReportsInv
<1>1. ReportsInit => ReportsInv
    <2> SUFFICES ASSUME ReportsInit PROVE ReportsInv
        OBVIOUS
    <2>1. LoadOK(RangeLoad(0, 0, 1))
        BY DEF ReportsInit, LoadOK, LoadFields, RangeLoad
    <2> QED BY <2>1, CalendarAssumption
           DEF ReportsInit, ReportsInv, ReportsTypeOK, ViewIsOfTheRange, ReportLoading
<1>2. ReportsInv /\ [ReportsNext]_reportsVars => ReportsInv'
    <2> SUFFICES ASSUME ReportsInv, [ReportsNext]_reportsVars PROVE ReportsInv'
        OBVIOUS
    <2>1. CASE ReportsNext
        BY <2>1, TicketStep, CategoryStep, UnseenStep, PickStep, QueryStep, ArriveStep DEF ReportsNext
    <2>2. CASE UNCHANGED reportsVars
        <3>1. UNCHANGED <<active, archived, kept, now, range, loads, asked, reportView>>
            BY <2>2 DEF reportsVars
        <3>2. Tables' = Tables
            BY <3>1 DEF Tables, Stored
        <3>3. \A l : LoadOK(l)' <=> LoadOK(l)
            BY <3>1, <3>2 DEF LoadOK, ReadSoFar, ReadWhole, StatementsOf
        <3> QED BY <3>1, <3>3 DEF ReportsInv, ReportsTypeOK, ViewIsOfTheRange
    <2> QED BY <2>1, <2>2
<1> QED BY <1>1, <1>2, PTL DEF ReportsSpec

(* A report that no change of the queue disturbed is the report of one     *)
(* instant, though resets moved its tickets to the archive between its     *)
(* statements; that of one day is the report of the day; and the page      *)
(* shows the range that is picked, whichever answers come late             *)
(* (PostgresReportQueryRepository.rangeReport, AnalyticsPage).             *)
THEOREM ReportsAreOfOneInstant ==
    ReportsSpec => [](ReportsTypeOK /\ ResetsAreNotNoticed /\ OneDayAgrees /\ ViewIsOfTheRange)
<1>1. ReportsInv => ResetsAreNotNoticed /\ OneDayAgrees
    <2> SUFFICES ASSUME ReportsInv, NEW load \in loads, load.at = 5, load.got # None,
                        load.got[1].total > 0
                 PROVE  /\ \A n \in 1 .. 4 : load.got[n] = RangeReport(load.from, load.to)[n]
                        /\ load.from = load.to =>
                             /\ DailyReport(load.from) = <<load.got[1], load.got[3]>>
                             /\ \A k \in DOMAIN load.got[4] :
                                   CounterPerformance(k, load.from) = load.got[4][k]
        BY DEF ResetsAreNotNoticed, OneDayAgrees
    <2>1. \A n \in 1 .. 4 : load.got[n] = Statement(n, Tables, load.from, load.to)
        <3>1. LoadOK(load) /\ ReadWhole(load)
            BY DEF ReportsInv, LoadOK
        <3>2. load.got # EmptyRange(load.from, load.to)
            BY DEF EmptyRange, NoMetrics
        <3> QED BY <3>1, <3>2 DEF ReadWhole
    <2>2. /\ load.got[1] = Totals(Tables, load.from, load.to)
          /\ load.got[3] = PerCategory(Tables, load.from, load.to)
          /\ load.got[4] = PerCounter(Tables, load.from, load.to)
        BY <2>1 DEF Statement
    <2>3. \A k \in DOMAIN load.got[4] : load.got[4][k] = OfCounter(Tables, k, load.from, load.to)
        BY <2>2 DEF PerCounter
    <2> QED BY <2>1, <2>2, <2>3 DEF RangeReport, DailyReport, CounterPerformance
<1>2. ReportsInv => ReportsTypeOK /\ ViewIsOfTheRange
    BY DEF ReportsInv
<1> QED BY ReportsHold, <1>1, <1>2, PTL

-----------------------------------------------------------------------------
(* The configuration pages.  Forms(n) and DocOK: what a form and a stored  *)
(* document may be when n ids were minted.                                 *)
Marked == Numbering \cup {0}
RowsOf(n) == [id : 0 .. n, code : Marked]
RuleRows == [counter : Nat \ {0}, codes : SUBSET Marked]
Forms(n) == [fields : [Fields -> Values], categories : Seq(RowsOf(n)), routing : Seq(RuleRows)]

RowIds(draft) == {draft.categories[i].id : i \in DOMAIN draft.categories}
CountersDiffer(draft) ==
    \A i, j \in DOMAIN draft.routing : draft.routing[i].counter = draft.routing[j].counter => i = j
CodesDiffer(draft) ==
    /\ \A i \in DOMAIN draft.categories : draft.categories[i].code # 0
    /\ \A i, j \in DOMAIN draft.categories :
          draft.categories[i].code = draft.categories[j].code => i = j

DraftOK(draft, n) == draft \in Forms(n) /\ CountersDiffer(draft)
PayloadOK(draft, n) == DraftOK(draft, n) /\ CodesDiffer(draft)

DocOK(d, n) ==
    /\ d.fields \in [Fields -> Values]
    /\ d.categories \subseteq [id : 1 .. n, code : Numbering]
    /\ \A b, c \in d.categories : b.code = c.code => b = c
    /\ Bounded(CodesIn(d.categories))
    /\ DOMAIN d.rules \subseteq Nat \ {0} /\ Bounded(DOMAIN d.rules)
    /\ \A k \in DOMAIN d.rules : d.rules[k] \subseteq Known(d)

(* Ids are only ever added.                                                *)
LEMMA IdsGrow ==
    ASSUME NEW n \in Nat, NEW m \in Nat, n <= m
    PROVE  /\ \A draft : DraftOK(draft, n) => DraftOK(draft, m)
           /\ \A draft : PayloadOK(draft, n) => PayloadOK(draft, m)
           /\ \A d : DocOK(d, n) => DocOK(d, m)
<1>1. 0 .. n \subseteq 0 .. m /\ 1 .. n \subseteq 1 .. m
    OBVIOUS
<1>2. RowsOf(n) \subseteq RowsOf(m)
    BY <1>1 DEF RowsOf
<1>3. Forms(n) \subseteq Forms(m)
  <2>1. Seq(RowsOf(n)) \subseteq Seq(RowsOf(m))
      BY <1>2
  <2> QED BY <2>1 DEF Forms
<1>4. [id : 1 .. n, code : Numbering] \subseteq [id : 1 .. m, code : Numbering]
    BY <1>1
<1>5. \A draft : DraftOK(draft, n) => DraftOK(draft, m)
    BY <1>3 DEF DraftOK
<1>6. \A draft : PayloadOK(draft, n) => PayloadOK(draft, m)
    BY <1>5 DEF PayloadOK
<1>7. \A d : DocOK(d, n) => DocOK(d, m)
    BY <1>4, Zenon DEF DocOK
<1> QED BY <1>5, <1>6, <1>7

(* InOrder is a walk over all the numbers.                                 *)
LEMMA InOrderWalks ==
    ASSUME NEW S \in SUBSET (Nat \ {0}), Bounded(S)
    PROVE  \E k \in Nat :
              /\ InOrder(S) \in [1 .. k -> S]
              /\ \A i, j \in 1 .. k : InOrder(S)[i] = InOrder(S)[j] => i = j
              /\ \A x \in S : \E i \in 1 .. k : InOrder(S)[i] = x
<1>1. InOrder(S) \in Ascending(S)
    BY WalksReachAll DEF InOrder
<1> QED BY <1>1, WalksReachAll

(* The form shows every category of the document under the id it has.      *)
LEMMA RowsShowCategories ==
    ASSUME NEW n \in Nat, NEW d, DocOK(d, n)
    PROVE  \E k \in Nat :
              /\ CategoryRows(d) \in [1 .. k -> d.categories]
              /\ \A i, j \in 1 .. k : CategoryRows(d)[i].code = CategoryRows(d)[j].code => i = j
              /\ \A c \in d.categories : \E i \in 1 .. k : CategoryRows(d)[i] = c
<1> DEFINE S == CodesIn(d.categories)
<1>1. /\ d.categories \subseteq [id : 1 .. n, code : Numbering] /\ Bounded(S)
      /\ \A b, c \in d.categories : b.code = c.code => b = c
    BY DEF DocOK
<1>2. S \in SUBSET (Nat \ {0})
    BY <1>1, PanelAssumption DEF CodesIn
<1>3. PICK k \in Nat : /\ InOrder(S) \in [1 .. k -> S]
                       /\ \A i, j \in 1 .. k : InOrder(S)[i] = InOrder(S)[j] => i = j
                       /\ \A x \in S : \E i \in 1 .. k : InOrder(S)[i] = x
    BY <1>1, <1>2, InOrderWalks
<1> DEFINE rowOf(i) == CHOOSE c \in d.categories : c.code = InOrder(S)[i]
<1>4. ASSUME NEW i \in 1 .. k
      PROVE  rowOf(i) \in d.categories /\ rowOf(i).code = InOrder(S)[i]
  <2>1. InOrder(S)[i] \in S
      BY <1>3
  <2>2. \E c \in d.categories : c.code = InOrder(S)[i]
      BY <2>1 DEF CodesIn
  <2> QED BY <2>2
<1>5. DOMAIN InOrder(S) = 1 .. k
    BY <1>3
<1>6. CategoryRows(d) = [i \in 1 .. k |-> rowOf(i)]
    BY <1>5 DEF CategoryRows
<1> HIDE DEF rowOf
<1>7. CategoryRows(d) \in [1 .. k -> d.categories]
    BY <1>4, <1>6
<1>8. \A i \in 1 .. k : CategoryRows(d)[i] = rowOf(i) /\ rowOf(i).code = InOrder(S)[i]
    BY <1>4, <1>6
<1>9. \A i, j \in 1 .. k : CategoryRows(d)[i].code = CategoryRows(d)[j].code => i = j
    BY <1>3, <1>8
<1>10. ASSUME NEW c \in d.categories PROVE \E i \in 1 .. k : CategoryRows(d)[i] = c
  <2>1. c.code \in S
      BY DEF CodesIn
  <2>2. PICK i \in 1 .. k : InOrder(S)[i] = c.code
      BY <1>3, <2>1
  <2>3. rowOf(i) \in d.categories /\ rowOf(i).code = c.code
      BY <1>4, <2>2
  <2> QED BY <1>1, <1>8, <2>3
<1> QED BY <1>7, <1>9, <1>10

LEMMA RowsShowRules ==
    ASSUME NEW n \in Nat, NEW d, DocOK(d, n)
    PROVE  /\ RoutingRows(d) \in Seq(RuleRows)
           /\ \A i, j \in DOMAIN RoutingRows(d) :
                 RoutingRows(d)[i].counter = RoutingRows(d)[j].counter => i = j
<1> DEFINE S == DOMAIN d.rules
<1>1. S \in SUBSET (Nat \ {0}) /\ Bounded(S) /\ d.categories \subseteq [id : 1 .. n, code : Numbering]
    BY DEF DocOK
<1>2. PICK k \in Nat : /\ InOrder(S) \in [1 .. k -> S]
                       /\ \A i, j \in 1 .. k : InOrder(S)[i] = InOrder(S)[j] => i = j
    BY <1>1, InOrderWalks
<1> DEFINE marks(i) == {CodeOf(d, id) : id \in d.rules[InOrder(S)[i]] \cap Known(d)}
<1>3. ASSUME NEW id \in Known(d) PROVE CodeOf(d, id) \in Marked
  <2>1. \E c \in d.categories : c.id = id
      BY DEF Known
  <2>2. (CHOOSE c \in d.categories : c.id = id) \in d.categories
      BY <2>1
  <2> QED BY <1>1, <2>2 DEF CodeOf, Marked
<1>4. \A i \in 1 .. k : marks(i) \in SUBSET Marked
    BY <1>3
<1>5. DOMAIN InOrder(S) = 1 .. k
    BY <1>2
<1>6. RoutingRows(d) = [i \in 1 .. k |-> [counter |-> InOrder(S)[i], codes |-> marks(i)]]
    BY <1>5 DEF RoutingRows
<1> HIDE DEF marks
<1>7. \A i \in 1 .. k : [counter |-> InOrder(S)[i], codes |-> marks(i)] \in RuleRows
    BY <1>1, <1>2, <1>4 DEF RuleRows
<1> QED BY <1>2, <1>6, <1>7

LEMMA FormsAreSound ==
    ASSUME NEW n \in Nat, NEW d, DocOK(d, n)
    PROVE  /\ PayloadOK(FormOf(d), n) /\ FormOf(d).fields = d.fields
           /\ Known(d) \subseteq RowIds(FormOf(d))
<1> DEFINE rows == FormOf(d).categories
           rules == FormOf(d).routing
<1>1. PICK k \in Nat :
              /\ CategoryRows(d) \in [1 .. k -> d.categories]
              /\ \A i, j \in 1 .. k : CategoryRows(d)[i].code = CategoryRows(d)[j].code => i = j
              /\ \A c \in d.categories : \E i \in 1 .. k : CategoryRows(d)[i] = c
    BY RowsShowCategories
<1>2. d.fields \in [Fields -> Values] /\ d.categories \subseteq [id : 1 .. n, code : Numbering]
    BY DEF DocOK
<1>3. /\ FormOf(d) = [fields |-> d.fields, categories |-> rows, routing |-> rules]
      /\ rows = IF d.categories = {} THEN <<DefaultCategory>> ELSE CategoryRows(d)
      /\ rules = IF DOMAIN d.rules = {} THEN <<[counter |-> 1, codes |-> {}]>> ELSE RoutingRows(d)
    BY DEF FormOf
<1> HIDE DEF rows, rules
<1>4. /\ rows \in Seq(RowsOf(n)) /\ \A i \in DOMAIN rows : rows[i].code # 0
      /\ \A i, j \in DOMAIN rows : rows[i].code = rows[j].code => i = j
      /\ Known(d) \subseteq {rows[i].id : i \in DOMAIN rows}
  <2>1. CASE d.categories = {}
    <3>1. rows = <<DefaultCategory>> /\ DefaultCategory \in RowsOf(n) /\ DefaultCategory.code = 1
        BY <1>3, <2>1, PanelAssumption DEF DefaultCategory, RowsOf, Marked, Unnamed
    <3>2. Known(d) = {}
        BY <2>1 DEF Known
    <3>3. rows \in Seq(RowsOf(n)) /\ DOMAIN rows = {1} /\ rows[1] = DefaultCategory
        BY <3>1
    <3> QED BY <3>1, <3>2, <3>3
  <2>2. CASE d.categories # {}
    <3>1. rows = CategoryRows(d)
        BY <1>3, <2>2
    <3>2. d.categories \subseteq RowsOf(n) /\ \A c \in d.categories : c.code # 0
        BY <1>2, PanelAssumption DEF RowsOf, Marked
    <3>3. rows \in [1 .. k -> RowsOf(n)] /\ DOMAIN rows = 1 .. k /\ \A i \in 1 .. k : rows[i].code # 0
        BY <1>1, <3>1, <3>2
    <3>4. rows \in Seq(RowsOf(n))
        BY <3>3
    <3>5. Known(d) \subseteq {rows[i].id : i \in DOMAIN rows}
        BY <1>1, <3>1, <3>3 DEF Known
    <3> QED BY <1>1, <3>1, <3>3, <3>4, <3>5
  <2> QED BY <2>1, <2>2
<1>5. /\ rules \in Seq(RuleRows)
      /\ \A i, j \in DOMAIN rules : rules[i].counter = rules[j].counter => i = j
  <2>1. CASE DOMAIN d.rules = {}
    <3>1. rules = <<[counter |-> 1, codes |-> {}]>> /\ [counter |-> 1, codes |-> {}] \in RuleRows
        BY <1>3, <2>1 DEF RuleRows
    <3> QED BY <3>1
  <2>2. CASE DOMAIN d.rules # {}
      BY <1>3, <2>2, RowsShowRules
  <2> QED BY <2>1, <2>2
<1>6. FormOf(d) \in Forms(n)
    BY <1>2, <1>3, <1>4, <1>5 DEF Forms
<1>7. /\ FormOf(d).fields = d.fields /\ FormOf(d).categories = rows /\ FormOf(d).routing = rules
    BY <1>3
<1> QED BY <1>4, <1>5, <1>6, <1>7 DEF PayloadOK, DraftOK, CodesDiffer, CountersDiffer, RowIds

-----------------------------------------------------------------------------
(* What the server stores of a form it accepts: a row keeps its id, and a  *)
(* row without one takes the next.                                         *)
LEMMA NewIdsAreNumbered ==
    ASSUME NEW draft, categoryIds \in Nat, DraftOK(draft, categoryIds)
    PROVE  /\ NewIds(draft) \in Nat
           /\ \A i \in DOMAIN draft.categories :
                 /\ IdOfRow(draft, i) \in 1 .. categoryIds + NewIds(draft)
                 /\ draft.categories[i].id # Unnamed => IdOfRow(draft, i) = draft.categories[i].id
<1> DEFINE rows == draft.categories
           blank == {i \in DOMAIN rows : rows[i].id = Unnamed}
<1>1. rows \in Seq(RowsOf(categoryIds))
    BY DEF DraftOK, Forms
<1>2. PICK len \in Nat : DOMAIN rows = 1 .. len
    BY <1>1
<1>3. IsFiniteSet(1 .. len)
  <2>1. 1 \in Int /\ len \in Int
      OBVIOUS
  <2> QED BY <2>1, FS_Interval, Zenon
<1>4. blank \in SUBSET (1 .. len)
    BY <1>2
<1>5. IsFiniteSet(blank) /\ Cardinality(blank) \in Nat
    BY <1>3, <1>4, FS_Subset, FS_CardinalityType
<1>6. NewIds(draft) = Cardinality(blank)
    BY DEF NewIds
<1>7. ASSUME NEW i \in DOMAIN rows
      PROVE  /\ IdOfRow(draft, i) \in 1 .. categoryIds + NewIds(draft)
             /\ rows[i].id # Unnamed => IdOfRow(draft, i) = rows[i].id
  <2>0. rows[i] \in RowsOf(categoryIds)
      BY <1>1
  <2>1. rows[i].id \in 0 .. categoryIds
      BY <2>0 DEF RowsOf
  <2>2. CASE rows[i].id # Unnamed
    <3>1. IdOfRow(draft, i) = rows[i].id
        BY <2>2 DEF IdOfRow
    <3>2. rows[i].id \in 1 .. categoryIds
        BY <2>1, <2>2 DEF Unnamed
    <3> QED BY <1>5, <1>6, <3>1, <3>2
  <2>3. CASE rows[i].id = Unnamed
    <3> DEFINE before == {j \in 1 .. i : rows[j].id = Unnamed}
    <3>1. i \in 1 .. len /\ 1 .. i \subseteq 1 .. len
        BY <1>2
    <3>2. before \in SUBSET blank /\ i \in before
        BY <1>2, <2>3, <3>1
    <3>3. IsFiniteSet(before) /\ Cardinality(before) \in Nat /\ Cardinality(before) <= Cardinality(blank)
        BY <1>5, <3>2, FS_Subset, FS_CardinalityType
    <3>4. Cardinality(before) # 0
        BY <3>2, <3>3, FS_EmptySet
    <3>5. IdOfRow(draft, i) = categoryIds + Cardinality(before)
        BY <2>3 DEF IdOfRow
    <3> HIDE DEF before, blank
    <3>6. IdOfRow(draft, i) \in 1 .. categoryIds + NewIds(draft)
        BY <1>5, <1>6, <3>3, <3>4, <3>5
    <3> QED BY <2>3, <3>6
  <2> QED BY <2>2, <2>3
<1> QED BY <1>5, <1>6, <1>7

LEMMA WrittenIsSound ==
    ASSUME NEW draft, categoryIds \in Nat, DraftOK(draft, categoryIds), ~SaveIsRefused(draft)
    PROVE  /\ NewIds(draft) \in Nat
           /\ DocOK(Written(draft), categoryIds + NewIds(draft))
           /\ Written(draft).fields = draft.fields
           /\ RowIds(draft) \ {Unnamed} \subseteq Known(Written(draft))
<1> DEFINE rows == draft.categories
           rules == draft.routing
           rowOf(code) == CHOOSE i \in DOMAIN rows : rows[i].code = code
           ruleOf(k) == rules[CHOOSE i \in DOMAIN rules : rules[i].counter = k]
           top == categoryIds + NewIds(draft)
           id == [code \in RowCodes(draft) |-> IdOfRow(draft, rowOf(code))]
           named == {[id |-> id[code], code |-> code] : code \in RowCodes(draft)}
           counters == {rules[i].counter : i \in DOMAIN rules}
           served == [k \in counters |-> {id[code] : code \in ruleOf(k).codes}]
<1>1. /\ NewIds(draft) \in Nat
      /\ \A i \in DOMAIN rows :
            /\ IdOfRow(draft, i) \in 1 .. top
            /\ rows[i].id # Unnamed => IdOfRow(draft, i) = rows[i].id
    BY NewIdsAreNumbered
<1>2. /\ draft.fields \in [Fields -> Values]
      /\ rows \in Seq(RowsOf(categoryIds)) /\ rules \in Seq(RuleRows)
    BY DEF DraftOK, Forms
<1>3. /\ \A i \in DOMAIN rows : rows[i].code # 0
      /\ \A i, j \in DOMAIN rows : rows[i].code = rows[j].code => i = j
      /\ \A i \in DOMAIN rules : rules[i].codes \subseteq RowCodes(draft)
    BY DEF SaveIsRefused, NamesUnknownCode
<1>4. Written(draft) = [fields |-> draft.fields, categories |-> named, rules |-> served]
    BY DEF Written
<1>5. ASSUME NEW i \in DOMAIN rows
      PROVE  rows[i].code \in RowCodes(draft) /\ rowOf(rows[i].code) = i
    BY <1>3 DEF RowCodes
<1>6. ASSUME NEW code \in RowCodes(draft)
      PROVE  /\ code \in Numbering /\ id[code] \in 1 .. top
             /\ \E i \in DOMAIN rows : rows[i].code = code
  <2>1. PICK i \in DOMAIN rows : rows[i].code = code
      BY DEF RowCodes
  <2>2. rows[i].code \in Marked
    <3>1. rows[i] \in RowsOf(categoryIds)
        BY <1>2
    <3> QED BY <3>1 DEF RowsOf
  <2>3. rowOf(code) = i
      BY <1>5, <2>1
  <2> HIDE DEF rowOf, top
  <2> QED BY <1>1, <1>3, <2>1, <2>2, <2>3 DEF Marked
<1>7. CodesIn(named) = RowCodes(draft)
  <2> HIDE DEF id
  <2>1. ASSUME NEW code \in RowCodes(draft) PROVE \E row \in named : row.code = code
    <3> PICK row : row = [id |-> id[code], code |-> code]
        OBVIOUS
    <3>1. row \in named /\ row.code = code
        OBVIOUS
    <3> HIDE DEF named
    <3> QED BY <3>1
  <2>2. \A row \in named : row.code \in RowCodes(draft)
      OBVIOUS
  <2> HIDE DEF named
  <2> QED BY <2>1, <2>2 DEF CodesIn
<1>8. Bounded(RowCodes(draft))
  <2>1. PICK len \in Nat : DOMAIN rows = 1 .. len
      BY <1>2
  <2> DEFINE codeAt == [i \in 1 .. len |-> rows[i].code]
  <2>2. \A i \in 1 .. len : rows[i].code \in Nat
    <3>1. \A i \in 1 .. len : rows[i] \in RowsOf(categoryIds)
        BY <1>2, <2>1
    <3>2. \A i \in 1 .. len : rows[i].code \in Marked
        BY <3>1 DEF RowsOf
    <3>3. Marked \subseteq Nat
        BY PanelAssumption DEF Marked
    <3> QED BY <3>2, <3>3
  <2>3. codeAt \in [1 .. len -> Nat]
      BY <2>2
  <2>4. RowCodes(draft) = {codeAt[i] : i \in 1 .. len}
      BY <2>1 DEF RowCodes
  <2> HIDE DEF codeAt
  <2> QED BY <2>3, <2>4, SequencesAreBounded
<1>9. counters \subseteq Nat \ {0} /\ Bounded(counters)
  <2>1. PICK len \in Nat : DOMAIN rules = 1 .. len
      BY <1>2
  <2> DEFINE counterAt == [i \in 1 .. len |-> rules[i].counter]
  <2>2. \A i \in 1 .. len : rules[i].counter \in Nat \ {0}
    <3>1. \A i \in 1 .. len : rules[i] \in RuleRows
        BY <1>2, <2>1
    <3> QED BY <3>1 DEF RuleRows
  <2>3. counterAt \in [1 .. len -> Nat]
      BY <2>2
  <2>4. counters = {counterAt[i] : i \in 1 .. len}
      BY <2>1
  <2>5. counters \subseteq Nat \ {0}
      BY <2>1, <2>2
  <2> HIDE DEF counterAt, counters
  <2> QED BY <2>3, <2>4, <2>5, SequencesAreBounded
<1>10. ASSUME NEW k \in counters PROVE served[k] \subseteq {id[code] : code \in RowCodes(draft)}
  <2>1. \E i \in DOMAIN rules : rules[i].counter = k
      OBVIOUS
  <2>2. ruleOf(k).codes \subseteq RowCodes(draft)
      BY <1>3, <2>1
  <2> HIDE DEF ruleOf, id
  <2> QED BY <2>2
<1>11. {category.id : category \in named} = {id[code] : code \in RowCodes(draft)}
  <2> HIDE DEF id
  <2>1. \A code \in RowCodes(draft) : [id |-> id[code], code |-> code].id = id[code]
      OBVIOUS
  <2> QED BY <2>1, Zenon
<1>12. RowIds(draft) \ {Unnamed} \subseteq {id[code] : code \in RowCodes(draft)}
  <2> SUFFICES ASSUME NEW i \in DOMAIN rows, rows[i].id # Unnamed
               PROVE  \E code \in RowCodes(draft) : id[code] = rows[i].id
      BY DEF RowIds
  <2>1. id[rows[i].code] = IdOfRow(draft, i)
      BY <1>5
  <2> HIDE DEF id
  <2> QED BY <1>1, <1>5, <2>1
<1>13. /\ named \subseteq [id : 1 .. top, code : Numbering]
       /\ \A b, c \in named : b.code = c.code => b = c
  <2> HIDE DEF id, top
  <2> QED BY <1>6
<1> HIDE DEF id, top, named, counters, served, rowOf, ruleOf
<1>14. /\ Written(draft).fields = draft.fields /\ Written(draft).categories = named
       /\ Written(draft).rules = served
    BY <1>4
<1>15. DOMAIN served = counters
    BY DEF served
<1>16. Known(Written(draft)) = {id[code] : code \in RowCodes(draft)}
    BY <1>11, <1>14 DEF Known
<1>17. DocOK(Written(draft), top)
    BY <1>2, <1>7, <1>8, <1>9, <1>10, <1>13, <1>14, <1>15, <1>16 DEF DocOK
<1> QED BY <1>1, <1>12, <1>14, <1>16, <1>17 DEF top

(* A new counter is numbered above every other.                            *)
LEMMA NextCounterIsNew ==
    ASSUME NEW rules \in Seq(RuleRows)
    PROVE  /\ NextCounter(rules) \in Nat \ {0}
           /\ \A i \in DOMAIN rules : rules[i].counter # NextCounter(rules)
<1>1. PICK len \in Nat : DOMAIN rules = 1 .. len
    OBVIOUS
<1>2. \A i \in 1 .. len : rules[i].counter \in Nat \ {0}
  <2>1. \A i \in 1 .. len : rules[i] \in RuleRows
      BY <1>1
  <2> QED BY <2>1 DEF RuleRows
<1>3. CASE rules = <<>>
    BY <1>3 DEF NextCounter
<1>4. CASE rules # <<>>
  <2> DEFINE S == {rules[i].counter : i \in DOMAIN rules}
             counterAt == [i \in 1 .. len |-> rules[i].counter]
  <2>1. counterAt \in [1 .. len -> Nat]
      BY <1>2
  <2>2. S = {counterAt[i] : i \in 1 .. len} /\ S \subseteq Nat
      BY <1>1, <1>2
  <2>3. 1 \in 1 .. len
      BY <1>1, <1>4
  <2>4. rules[1].counter \in S
      BY <1>1, <2>3
  <2> HIDE DEF counterAt
  <2>5. PICK m \in Nat : \A k \in S : k <= m
    <3>1. Bounded({counterAt[i] : i \in 1 .. len})
        BY <2>1, SequencesAreBounded
    <3>2. {counterAt[i] : i \in 1 .. len} = S
        BY <2>2
    <3> HIDE DEF S
    <3>3. Bounded(S)
        BY <3>1, <3>2
    <3> QED BY <3>3 DEF Bounded
  <2> HIDE DEF S
  <2>6. \E k \in S : \A x \in S : k >= x
    <3> DEFINE above == {m - k : k \in S}
    <3>1. above \in SUBSET Nat /\ above # {}
      <4>1. \A k \in S : m - k \in Nat
          BY <2>2, <2>5
      <4> QED BY <2>4, <4>1
    <3>2. PICK d \in above : \A x \in above : d <= x
      <4> HIDE DEF above
      <4> QED BY <3>1, LeastMember
    <3>3. PICK k \in S : d = m - k
        BY <3>2
    <3>4. \A x \in S : m - x \in above
        OBVIOUS
    <3>5. \A x \in S : m - k <= m - x
        BY <3>2, <3>3, <3>4
    <3> QED BY <2>2, <2>5, <3>5
  <2>7. Max(S) \in S /\ \A x \in S : Max(S) >= x
      BY <2>6 DEF Max
  <2>8. NextCounter(rules) = 1 + Max(S)
      BY <1>4 DEF NextCounter, S
  <2>9. \A i \in DOMAIN rules : rules[i].counter \in S
      BY DEF S
  <2>10. Max(S) \in Nat /\ \A i \in DOMAIN rules : rules[i].counter \in Nat /\ Max(S) >= rules[i].counter
      BY <2>2, <2>7, <2>9
  <2> HIDE DEF S
  <2> QED BY <2>8, <2>10
<1> QED BY <1>3, <1>4

-----------------------------------------------------------------------------
(* The edits of the panel: what each keeps of the draft.                   *)
Keeps(edited, draft, ids) ==
    /\ \A f \in Fields \ {"panel"} : edited.fields[f] = draft.fields[f]
    /\ RowIds(draft) \ ids \subseteq RowIds(edited)

LEMMA SettingEdited ==
    ASSUME NEW n \in Nat, NEW draft, DraftOK(draft, n), NEW value \in Values, NEW field \in Fields
    PROVE  LET edited == [draft EXCEPT !.fields[field] = value]
           IN  /\ DraftOK(edited, n) /\ edited.fields[field] = value
               /\ \A f \in Fields \ {field} : edited.fields[f] = draft.fields[f]
               /\ edited.categories = draft.categories /\ edited.routing = draft.routing
<1> PICK edited : edited = [draft EXCEPT !.fields[field] = value]
    OBVIOUS
<1>1. draft \in Forms(n)
    BY DEF DraftOK
<1>2. edited = [draft EXCEPT !.fields = [draft.fields EXCEPT ![field] = value]]
    BY <1>1 DEF Forms
<1>3. /\ edited \in Forms(n) /\ edited.fields = [draft.fields EXCEPT ![field] = value]
      /\ edited.categories = draft.categories /\ edited.routing = draft.routing
    BY <1>1, <1>2 DEF Forms
<1>4. draft.fields \in [Fields -> Values]
    BY <1>1 DEF Forms
<1>5. edited.fields[field] = value /\ \A f \in Fields \ {field} : edited.fields[f] = draft.fields[f]
    BY <1>3, <1>4
<1> QED BY <1>3, <1>5 DEF DraftOK, CountersDiffer

(* Other rows of categories; other rules.                                  *)
LEMMA RowsEdited ==
    ASSUME NEW n \in Nat, NEW draft, DraftOK(draft, n), NEW rows \in Seq(RowsOf(n))
    PROVE  LET edited == [draft EXCEPT !.categories = rows]
           IN  /\ DraftOK(edited, n) /\ edited.categories = rows
               /\ edited.fields = draft.fields
BY DEF DraftOK, Forms, CountersDiffer

LEMMA RulesEdited ==
    ASSUME NEW n \in Nat, NEW draft, DraftOK(draft, n), NEW rules \in Seq(RuleRows),
           \A i, j \in DOMAIN rules : rules[i].counter = rules[j].counter => i = j
    PROVE  LET edited == [draft EXCEPT !.routing = rules]
           IN  DraftOK(edited, n) /\ Keeps(edited, draft, {})
BY DEF DraftOK, Forms, CountersDiffer, Keeps, RowIds

LEMMA CodeEdited ==
    ASSUME NEW n \in Nat, NEW draft, DraftOK(draft, n), NEW i \in DOMAIN draft.categories,
           NEW code \in Numbering
    PROVE  LET edited == [draft EXCEPT !.categories[i].code = code]
           IN  DraftOK(edited, n) /\ Keeps(edited, draft, {})
<1> DEFINE rows == [draft.categories EXCEPT ![i].code = code]
<1>1. draft \in Forms(n) /\ draft.categories \in Seq(RowsOf(n))
    BY DEF DraftOK, Forms
<1>2. draft.categories[i] \in RowsOf(n)
    BY <1>1
<1>3. /\ [draft.categories[i] EXCEPT !.code = code] \in RowsOf(n)
      /\ [draft.categories[i] EXCEPT !.code = code].id = draft.categories[i].id
    BY <1>2 DEF RowsOf, Marked
<1>4. rows \in Seq(RowsOf(n)) /\ DOMAIN rows = DOMAIN draft.categories
    BY <1>1, <1>3
<1>5. \A j \in DOMAIN rows : rows[j].id = draft.categories[j].id
    BY <1>1, <1>3
<1>6. [draft EXCEPT !.categories[i].code = code] = [draft EXCEPT !.categories = rows]
    BY <1>1 DEF Forms
<1> HIDE DEF rows
<1> PICK edited : edited = [draft EXCEPT !.categories = rows]
    OBVIOUS
<1>7. DraftOK(edited, n) /\ edited.categories = rows /\ edited.fields = draft.fields
    BY <1>4, RowsEdited
<1>8. RowIds(draft) \subseteq RowIds(edited)
    BY <1>4, <1>5, <1>7 DEF RowIds
<1> QED BY <1>6, <1>7, <1>8 DEF Keeps

LEMMA CategoryAdded ==
    ASSUME NEW n \in Nat, NEW draft, DraftOK(draft, n)
    PROVE  LET edited == [draft EXCEPT !.categories = Append(@, NewCategory)]
           IN  DraftOK(edited, n) /\ Keeps(edited, draft, {})
<1> DEFINE rows == Append(draft.categories, NewCategory)
<1>1. draft \in Forms(n) /\ draft.categories \in Seq(RowsOf(n))
    BY DEF DraftOK, Forms
<1>2. NewCategory \in RowsOf(n)
    BY DEF NewCategory, RowsOf, Marked, Unnamed
<1>3. /\ rows \in Seq(RowsOf(n))
      /\ \A j \in DOMAIN draft.categories : j \in DOMAIN rows /\ rows[j] = draft.categories[j]
    BY <1>1, <1>2
<1> HIDE DEF rows
<1> PICK edited : edited = [draft EXCEPT !.categories = rows]
    OBVIOUS
<1>4. edited = [draft EXCEPT !.categories = Append(@, NewCategory)]
    BY <1>1 DEF rows, Forms
<1>5. DraftOK(edited, n) /\ edited.categories = rows /\ edited.fields = draft.fields
    BY <1>3, RowsEdited
<1>6. RowIds(draft) \subseteq RowIds(edited)
    BY <1>3, <1>5 DEF RowIds
<1> QED BY <1>4, <1>5, <1>6 DEF Keeps

LEMMA CategoryRemoved ==
    ASSUME NEW n \in Nat, NEW draft, DraftOK(draft, n), NEW i \in DOMAIN draft.categories
    PROVE  LET edited == [draft EXCEPT !.categories = RemoveAt(@, i)]
           IN  DraftOK(edited, n) /\ Keeps(edited, draft, {draft.categories[i].id})
<1> DEFINE rows == RemoveAt(draft.categories, i)
<1>1. draft \in Forms(n) /\ draft.categories \in Seq(RowsOf(n))
    BY DEF DraftOK, Forms
<1>2. /\ rows \in Seq(RowsOf(n))
      /\ \A j \in DOMAIN draft.categories : j # i => \E k \in DOMAIN rows : rows[k] = draft.categories[j]
    BY <1>1, RemovalKeepsTheRest
<1> HIDE DEF rows
<1> PICK edited : edited = [draft EXCEPT !.categories = rows]
    OBVIOUS
<1>3. edited = [draft EXCEPT !.categories = RemoveAt(@, i)]
    BY <1>1 DEF rows, Forms
<1>4. DraftOK(edited, n) /\ edited.categories = rows /\ edited.fields = draft.fields
    BY <1>2, RowsEdited
<1>5. RowIds(draft) \ {draft.categories[i].id} \subseteq RowIds(edited)
    BY <1>2, <1>4 DEF RowIds
<1> QED BY <1>3, <1>4, <1>5 DEF Keeps

LEMMA CounterAdded ==
    ASSUME NEW n \in Nat, NEW draft, DraftOK(draft, n)
    PROVE  LET edited == [draft EXCEPT !.routing =
                            Append(@, [counter |-> NextCounter(draft.routing), codes |-> {}])]
           IN  DraftOK(edited, n) /\ Keeps(edited, draft, {})
<1>1. /\ draft \in Forms(n) /\ draft.routing \in Seq(RuleRows)
      /\ \A i, j \in DOMAIN draft.routing : draft.routing[i].counter = draft.routing[j].counter => i = j
    BY DEF DraftOK, Forms, CountersDiffer
<1> PICK row : row = [counter |-> NextCounter(draft.routing), codes |-> {}]
    OBVIOUS
<1>2. row \in RuleRows /\ \A i \in DOMAIN draft.routing : draft.routing[i].counter # row.counter
    BY <1>1, NextCounterIsNew DEF RuleRows
<1> PICK rules : rules = Append(draft.routing, row)
    OBVIOUS
<1>3. PICK len \in Nat : len = Len(draft.routing) /\ DOMAIN draft.routing = 1 .. len
    BY <1>1
<1>4. /\ rules \in Seq(RuleRows) /\ DOMAIN rules = 1 .. len + 1 /\ rules[len + 1] = row
      /\ \A i \in 1 .. len : rules[i] = draft.routing[i]
    BY <1>1, <1>2, <1>3
<1>5. ASSUME NEW i \in DOMAIN rules, NEW j \in DOMAIN rules, rules[i].counter = rules[j].counter
      PROVE  i = j
  <2>1. i \in 1 .. len \/ i = len + 1
      BY <1>4
  <2>2. j \in 1 .. len \/ j = len + 1
      BY <1>4
  <2> QED BY <1>1, <1>2, <1>3, <1>4, <1>5, <2>1, <2>2
<1>6. [draft EXCEPT !.routing = rules] =
      [draft EXCEPT !.routing = Append(@, [counter |-> NextCounter(draft.routing), codes |-> {}])]
    BY <1>1 DEF Forms
<1> QED BY <1>4, <1>5, <1>6, RulesEdited

LEMMA CounterRemoved ==
    ASSUME NEW n \in Nat, NEW draft, DraftOK(draft, n), NEW i \in DOMAIN draft.routing
    PROVE  LET edited == [draft EXCEPT !.routing = RemoveAt(@, i)]
           IN  DraftOK(edited, n) /\ Keeps(edited, draft, {})
<1> DEFINE rules == RemoveAt(draft.routing, i)
<1>1. /\ draft \in Forms(n) /\ draft.routing \in Seq(RuleRows)
      /\ \A k, l \in DOMAIN draft.routing : draft.routing[k].counter = draft.routing[l].counter => k = l
    BY DEF DraftOK, Forms, CountersDiffer
<1>2. rules \in Seq(RuleRows) /\ FromPlaces(rules, draft.routing)
    BY <1>1, RemovalKeepsTheRest
<1>3. [draft EXCEPT !.routing = rules] = [draft EXCEPT !.routing = RemoveAt(@, i)]
    BY <1>1 DEF Forms
<1> HIDE DEF rules
<1>4. \A k, l \in DOMAIN rules : rules[k].counter = rules[l].counter => k = l
    BY <1>1, <1>2 DEF FromPlaces
<1> QED BY <1>2, <1>3, <1>4, RulesEdited

LEMMA RuleEdited ==
    ASSUME NEW n \in Nat, NEW draft, DraftOK(draft, n), NEW i \in DOMAIN draft.routing,
           NEW marks \in SUBSET Marked
    PROVE  LET edited == [draft EXCEPT !.routing[i].codes = marks]
           IN  DraftOK(edited, n) /\ Keeps(edited, draft, {})
<1> DEFINE rules == [draft.routing EXCEPT ![i].codes = marks]
<1>1. /\ draft \in Forms(n) /\ draft.routing \in Seq(RuleRows)
      /\ \A k, l \in DOMAIN draft.routing : draft.routing[k].counter = draft.routing[l].counter => k = l
    BY DEF DraftOK, Forms, CountersDiffer
<1>2. draft.routing[i] \in RuleRows
    BY <1>1
<1>3. /\ [draft.routing[i] EXCEPT !.codes = marks] \in RuleRows
      /\ [draft.routing[i] EXCEPT !.codes = marks].counter = draft.routing[i].counter
    BY <1>2 DEF RuleRows
<1>4. /\ rules \in Seq(RuleRows) /\ DOMAIN rules = DOMAIN draft.routing
      /\ \A j \in DOMAIN rules : rules[j].counter = draft.routing[j].counter
    BY <1>1, <1>3
<1>5. [draft EXCEPT !.routing[i].codes = marks] = [draft EXCEPT !.routing = rules]
    BY <1>1 DEF Forms
<1> HIDE DEF rules
<1>6. \A k, l \in DOMAIN rules : rules[k].counter = rules[l].counter => k = l
    BY <1>1, <1>4
<1> QED BY <1>4, <1>5, <1>6, RulesEdited

-----------------------------------------------------------------------------
(* The invariant: the shape of the state; the shared copy, which is fresh  *)
(* or about to be read again; and what holds as long as all is calm.       *)
CountsOK ==
    /\ categoryIds \in Nat /\ generation \in Nat \ {0} /\ faults \in Nat /\ calm \in BOOLEAN
    /\ everStored \subseteq 1 .. categoryIds
DocsOK ==
    /\ DocOK(doc, categoryIds)
    /\ snapshot # Nothing => DocOK(snapshot, categoryIds)

ReadOK(read) ==
    /\ read = [for |-> read.for, number |-> read.number, answer |-> read.answer]
    /\ read.for \in {"shared", "panel"} /\ read.number \in 0 .. generation
    /\ read.answer # Nothing => DocOK(read.answer, categoryIds)
ReadsOK == \A read \in reads : ReadOK(read)

DraftOfPanel == panel = PanelReady(panel.form) /\ DraftOK(panel.form, categoryIds)
PanelOK == panel = PanelLoading \/ panel = PanelFailed \/ DraftOfPanel

FocusOK ==
    /\ page \in Fields \cup {"dashboard"}
    /\ fieldDraft \in Values \cup {Nothing}
    /\ modal = Nothing \/ modal \in [index : Nat, codes : SUBSET Marked]
    /\ page # "panel" => panel = PanelLoading /\ \A read \in reads : read.for # "panel"

Excusable(draft) == NamesUnknownCode(draft) \/ OverTheCap(draft) \/ LeavesUnserved(draft)
PutOK(put) ==
    /\ put = [by |-> put.by, mounted |-> put.mounted, phase |-> put.phase, payload |-> put.payload,
              answer |-> put.answer, read |-> put.read, number |-> put.number]
    /\ put.by \in Fields /\ put.mounted \in BOOLEAN
    /\ put.phase \in {"put", "refused", "stored", "reread", "refresh"}
    /\ PayloadOK(put.payload, categoryIds)
    /\ put.answer # Nothing => DocOK(put.answer, categoryIds)
    /\ put.phase = "reread" => put.by = "panel"
    /\ put.phase \in {"put", "stored"} => put.answer = Nothing
    /\ put.mounted => put.by = page
    /\ put.phase = "refused" => Excusable(put.payload)
PutsOK == \A put \in puts : PutOK(put)

ShapeOK == CountsOK /\ DocsOK /\ ReadsOK /\ PanelOK /\ FocusOK /\ PutsOK

Shared(read) == read.for = "shared"
NumbersDiffer ==
    \A r, s \in reads : Shared(r) /\ Shared(s) /\ r.number = s.number => r = s
FirstReadOK ==
    snapshot = Nothing =>
        puts = {} /\ page = "dashboard" /\ \A read \in reads : Shared(read) => read.number = generation
RefreshesOK ==
    snapshot # Nothing =>
        \A read \in reads : Shared(read) =>
            \E put \in puts : put.phase = "refresh" /\ put.read = read.number

Unsettled(put) == put.phase \in {"stored", "reread"}
Latest(read) == Shared(read) /\ read.number = generation
Fresh ==
    \/ \E put \in puts : Unsettled(put)
    \/ \E read \in reads : Latest(read) /\ read.answer \in {Nothing, doc}
    \/ snapshot = doc /\ \A read \in reads : ~Latest(read)
CopyOK == NumbersDiffer /\ FirstReadOK /\ RefreshesOK /\ (faults = 0 => Fresh)

Agrees(draft, by) ==
    /\ \A f \in Fields \ {by} : draft.fields[f] = doc.fields[f]
    /\ everStored \ dropped \subseteq RowIds(draft)
CalmStore == faults = 0 /\ doc.fields = intended /\ everStored \ dropped \subseteq Known(doc)
CalmPanel ==
    /\ panel.status # "error"
    /\ page = "panel" /\ panel.status = "loading" => puts = {}
    /\ \A r, s \in reads : r.for = "panel" /\ s.for = "panel" => r = s
    /\ \A read \in reads : read.for = "panel" =>
          panel.status = "loading" /\ read.answer \in {Nothing, doc}
    /\ panel.status = "ready" /\ (\A put \in puts : ~Unsettled(put)) => Agrees(panel.form, "panel")
CalmPuts ==
    /\ \A p, q \in puts : p = q
    /\ \A put \in puts :
          /\ put.by = page /\ put.mounted
          /\ put.phase = "put" => Agrees(put.payload, put.by)
          /\ put.phase = "reread" => put.answer \in {Nothing, doc}
CalmOK == calm => CalmStore /\ CalmPanel /\ CalmPuts

PagesInv == ShapeOK /\ CopyOK /\ CalmOK

LEMMA PanelStates ==
    /\ PanelLoading.status = "loading" /\ PanelFailed.status = "error"
    /\ \A draft : PanelReady(draft).status = "ready" /\ PanelReady(draft).form = draft
BY DEF PanelLoading, PanelFailed, PanelReady

LEMMA ReadyPanel ==
    ASSUME ShapeOK, panel.status = "ready"
    PROVE  DraftOK(panel.form, categoryIds) /\ page = "panel"
BY PanelStates DEF ShapeOK, PanelOK, DraftOfPanel, FocusOK

LEMMA ReadMade ==
    ASSUME NEW asker, NEW number
    PROVE  LET read == Read(asker, number)
           IN  /\ read.for = asker /\ read.number = number /\ read.answer = Nothing
               /\ read = [for |-> read.for, number |-> read.number, answer |-> read.answer]
BY DEF Read

LEMMA PagesBegin == PagesInit => PagesInv
<1> SUFFICES ASSUME PagesInit PROVE PagesInv
    OBVIOUS
<1>1. PICK value \in Values :
          doc = [fields |-> [field \in Fields |-> value], categories |-> {[id |-> 1, code |-> 1]},
                 rules |-> [k \in {1, 2} |-> {1}]]
    BY DEF PagesInit
<1>2. Known(doc) = {1} /\ CodesIn(doc.categories) = {1}
    BY <1>1 DEF Known, CodesIn
<1>3. Bounded({1}) /\ Bounded({1, 2})
    BY DEF Bounded
<1>4. DocOK(doc, 1)
  <2>1. doc.fields \in [Fields -> Values] /\ doc.categories = {[id |-> 1, code |-> 1]}
      BY <1>1
  <2>2. doc.categories \subseteq [id : 1 .. 1, code : Numbering]
      BY <2>1, PanelAssumption
  <2>3. \A b, c \in doc.categories : b.code = c.code => b = c
      BY <2>1
  <2>4. DOMAIN doc.rules = {1, 2} /\ \A k \in {1, 2} : doc.rules[k] = {1}
      BY <1>1
  <2> QED BY <1>2, <1>3, <2>1, <2>2, <2>3, <2>4 DEF DocOK
<1>5. /\ reads = {Read("shared", 1)} /\ puts = {} /\ categoryIds = 1 /\ generation = 1
      /\ snapshot = Nothing /\ page = "dashboard" /\ panel = PanelLoading /\ modal = Nothing
      /\ fieldDraft = Nothing /\ faults = 0 /\ calm = TRUE /\ intended = doc.fields
      /\ everStored = {1} /\ dropped = {}
    BY DEF PagesInit
<1>6. \A read \in reads : /\ read.for = "shared" /\ read.number = 1 /\ read.answer = Nothing
                          /\ read = [for |-> read.for, number |-> read.number, answer |-> read.answer]
    BY <1>5, ReadMade
<1>7. ShapeOK
  <2>1. CountsOK
      BY <1>5 DEF CountsOK
  <2>2. DocsOK
      BY <1>4, <1>5 DEF DocsOK
  <2>3. ReadsOK
      BY <1>5, <1>6 DEF ReadsOK, ReadOK
  <2>4. PanelOK /\ FocusOK /\ PutsOK
      BY <1>5, <1>6 DEF PanelOK, FocusOK, PutsOK
  <2> QED BY <2>1, <2>2, <2>3, <2>4 DEF ShapeOK
<1>8. CopyOK
    BY <1>5, <1>6 DEF CopyOK, NumbersDiffer, FirstReadOK, RefreshesOK, Fresh, Latest, Shared
<1>9. CalmOK
    BY <1>2, <1>5, <1>6, PanelStates DEF CalmOK, CalmStore, CalmPanel, CalmPuts
<1> QED BY <1>7, <1>8, <1>9 DEF PagesInv

(* The server answers a read.                                              *)
LEMMA ServerReadsStep ==
    ASSUME PagesInv, NEW read \in reads, ServerReads(read)
    PROVE  PagesInv'
<1> PICK told : told = [read EXCEPT !.answer = doc]
    OBVIOUS
<1>1. /\ read.answer = Nothing /\ reads' = (reads \ {read}) \cup {told}
      /\ doc' = doc /\ categoryIds' = categoryIds /\ snapshot' = snapshot /\ generation' = generation
      /\ page' = page /\ panel' = panel /\ modal' = modal /\ fieldDraft' = fieldDraft
      /\ puts' = puts /\ faults' = faults /\ calm' = calm /\ intended' = intended
      /\ everStored' = everStored /\ dropped' = dropped
    BY DEF ServerReads, budget, history
<1>2. ShapeOK /\ CopyOK /\ CalmOK
    BY DEF PagesInv
<1>3. ReadOK(read)
    BY <1>2 DEF ShapeOK, ReadsOK
<1>4. /\ told.for = read.for /\ told.number = read.number /\ told.answer = doc
      /\ told = [for |-> told.for, number |-> told.number, answer |-> told.answer]
    BY <1>3 DEF ReadOK
<1>5. ShapeOK'
  <2>1. ReadOK(told)
      BY <1>2, <1>3, <1>4 DEF ReadOK, ShapeOK, DocsOK
  <2>2. ReadsOK'
      BY <1>1, <1>2, <2>1 DEF ReadsOK, ReadOK, ShapeOK
  <2>3. FocusOK'
      BY <1>1, <1>2, <1>4 DEF FocusOK, ShapeOK
  <2>4. CountsOK' /\ DocsOK' /\ PanelOK' /\ PutsOK'
      BY <1>1, <1>2 DEF ShapeOK, CountsOK, DocsOK, PanelOK, DraftOfPanel, PutsOK, PutOK
  <2> QED BY <2>2, <2>3, <2>4 DEF ShapeOK
<1>6. CopyOK'
  <2>0. \A r \in reads' : \E s \in reads :
            /\ r.for = s.for /\ r.number = s.number
            /\ (r = s /\ s # read) \/ (r = told /\ s = read)
      BY <1>1, <1>4
  <2>1. NumbersDiffer'
    <3>1. NumbersDiffer
        BY <1>2 DEF CopyOK
    <3> QED BY <2>0, <3>1 DEF NumbersDiffer, Shared
  <2>2. FirstReadOK' /\ RefreshesOK'
    <3>1. FirstReadOK /\ RefreshesOK
        BY <1>2 DEF CopyOK
    <3> QED BY <1>1, <2>0, <3>1 DEF FirstReadOK, RefreshesOK, Shared
  <2>3. Fresh => Fresh'
      BY <1>1, <1>4 DEF Fresh, Latest, Shared
  <2> QED BY <1>1, <1>2, <2>1, <2>2, <2>3 DEF CopyOK
<1>7. CalmOK'
  <2> SUFFICES ASSUME calm PROVE CalmStore' /\ CalmPanel' /\ CalmPuts'
      BY <1>1 DEF CalmOK
  <2>1. CalmStore /\ CalmPanel /\ CalmPuts
      BY <1>2 DEF CalmOK
  <2>2. CalmStore'
      BY <1>1, <2>1 DEF CalmStore
  <2>3. CalmPuts'
      BY <1>1, <2>1 DEF CalmPuts, Agrees
  <2>4. CalmPanel'
    <3>1. \A r \in reads' : \E s \in reads :
              /\ r.for = s.for
              /\ (r = s /\ s # read) \/ (r = told /\ s = read)
        BY <1>1, <1>4
    <3> QED BY <1>1, <1>4, <2>1, <3>1 DEF CalmPanel, Agrees
  <2> QED BY <2>2, <2>3, <2>4
<1> QED BY <1>5, <1>6, <1>7 DEF PagesInv

(* A read comes back or fails: for the shared copy, and for the panel.     *)
HeardOrLost(came) ==
    \/ came = TRUE /\ faults' = faults /\ calm' = calm
    \/ came = FALSE /\ faults' = faults + 1 /\ calm' = FALSE

LEMMA SharedAnsweredStep ==
    ASSUME PagesInv, NEW read \in reads, NEW came, SharedAnswered(read, came), HeardOrLost(came)
    PROVE  PagesInv'
<1> DEFINE takes == came /\ read.number = generation
<1>1. /\ Shared(read) /\ came \in BOOLEAN /\ (came => read.answer # Nothing)
      /\ reads' = reads \ {read}
      /\ puts' = {put \in puts : ~(put.phase = "refresh" /\ put.read = read.number)}
      /\ doc' = doc /\ categoryIds' = categoryIds /\ generation' = generation
      /\ page' = page /\ panel' = panel /\ modal' = modal /\ intended' = intended
      /\ everStored' = everStored /\ dropped' = dropped
    BY DEF SharedAnswered, HeardOrLost, history, Shared
<1>3. /\ takes => /\ snapshot' = read.answer
                  /\ fieldDraft' = IF page \in Fields \ {"panel"} THEN read.answer.fields[page]
                                   ELSE fieldDraft
      /\ ~takes => snapshot' = snapshot /\ fieldDraft' = fieldDraft
    BY DEF SharedAnswered
<1>4. (~came => faults' = faults + 1 /\ calm' = FALSE) /\ (came => faults' = faults /\ calm' = calm)
    BY DEF HeardOrLost
<1>5. ShapeOK /\ CopyOK /\ CalmOK
    BY DEF PagesInv
<1>6. ReadOK(read)
    BY <1>5 DEF ShapeOK, ReadsOK
<1>7. takes => read.answer # Nothing /\ DocOK(read.answer, categoryIds)
    BY <1>1, <1>6 DEF ReadOK
<1>8. ShapeOK'
  <2>1. CountsOK'
    <3>1. faults \in Nat /\ calm \in BOOLEAN
        BY <1>5 DEF ShapeOK, CountsOK
    <3>2. faults' \in Nat /\ calm' \in BOOLEAN
      <4>1. CASE came = TRUE
          BY <1>4, <3>1, <4>1
      <4>2. CASE came = FALSE
        <5>1. faults' = faults + 1 /\ calm' = FALSE
            BY <1>4, <4>2
        <5>2. calm' \in BOOLEAN
            BY <5>1, Zenon
        <5> QED BY <3>1, <5>1, <5>2
      <4> QED BY <4>1, <4>2 DEF HeardOrLost
    <3> QED BY <1>1, <1>5, <3>2 DEF ShapeOK, CountsOK
  <2>2. DocsOK'
      BY <1>1, <1>3, <1>5, <1>7 DEF ShapeOK, DocsOK
  <2>3. fieldDraft' \in Values \cup {Nothing}
    <3>1. fieldDraft \in Values \cup {Nothing}
        BY <1>5 DEF ShapeOK, FocusOK
    <3>2. takes /\ page \in Fields => read.answer.fields[page] \in Values
        BY <1>7 DEF DocOK
    <3> HIDE DEF takes
    <3> QED BY <1>3, <3>1, <3>2
  <2>4. FocusOK'
      BY <1>1, <1>5, <2>3 DEF ShapeOK, FocusOK
  <2>5. ReadsOK' /\ PanelOK' /\ PutsOK'
      BY <1>1, <1>5 DEF ShapeOK, ReadsOK, ReadOK, PanelOK, DraftOfPanel, PutsOK, PutOK
  <2> QED BY <2>1, <2>2, <2>4, <2>5 DEF ShapeOK
<1>9. CopyOK'
  <2>1. NumbersDiffer /\ FirstReadOK /\ RefreshesOK /\ (faults = 0 => Fresh)
      BY <1>5 DEF CopyOK
  <2>2. \A r \in reads : Shared(r) /\ r.number = read.number => r = read
      BY <1>1, <2>1 DEF NumbersDiffer
  <2>3. NumbersDiffer'
      BY <1>1, <2>1 DEF NumbersDiffer, Shared
  <2>4. FirstReadOK'
    <3> SUFFICES ASSUME snapshot' = Nothing
                 PROVE  puts' = {} /\ page = "dashboard"
                        /\ \A r \in reads' : Shared(r) => r.number = generation
        BY <1>1 DEF FirstReadOK, Shared
    <3>1. snapshot = Nothing
        BY <1>3, <1>7
    <3> QED BY <1>1, <2>1, <3>1 DEF FirstReadOK
  <2>5. RefreshesOK'
    <3> SUFFICES ASSUME snapshot' # Nothing, NEW r \in reads', Shared(r)
                 PROVE  \E put \in puts' : put.phase = "refresh" /\ put.read = r.number
        BY DEF RefreshesOK, Shared
    <3>1. r \in reads /\ r.number # read.number
        BY <1>1, <2>2
    <3>2. snapshot # Nothing
      <4> SUFFICES ASSUME snapshot = Nothing PROVE FALSE
          OBVIOUS
      <4>1. r.number = generation /\ read.number = generation
          BY <1>1, <2>1, <3>1 DEF FirstReadOK
      <4> QED BY <3>1, <4>1
    <3>3. PICK put \in puts : put.phase = "refresh" /\ put.read = r.number
        BY <2>1, <3>1, <3>2 DEF RefreshesOK
    <3> QED BY <1>1, <3>1, <3>3
  <2>6. ASSUME faults' = 0 PROVE Fresh'
    <3>1. came /\ faults = 0
      <4>1. faults \in Nat
          BY <1>5 DEF ShapeOK, CountsOK
      <4> QED BY <1>1, <1>4, <2>6, <4>1
    <3>2. CASE \E put \in puts : Unsettled(put)
      <4>1. PICK put \in puts : Unsettled(put)
          BY <3>2
      <4>2. put \in puts'
          BY <1>1, <4>1 DEF Unsettled
      <4> QED BY <4>1, <4>2 DEF Fresh, Unsettled
    <3>3. CASE \E r \in reads : Latest(r) /\ r.answer \in {Nothing, doc}
      <4>1. PICK r \in reads : Latest(r) /\ r.answer \in {Nothing, doc}
          BY <3>3
      <4>2. CASE r = read
        <5>1. takes /\ snapshot' = doc
            BY <1>1, <1>3, <3>1, <4>1, <4>2 DEF Latest
        <5>2. \A s \in reads' : ~(Shared(s) /\ s.number = generation)
            BY <1>1, <2>2, <5>1
        <5> QED BY <1>1, <5>1, <5>2 DEF Fresh, Latest, Shared
      <4>3. CASE r # read
          BY <1>1, <4>1, <4>3 DEF Fresh, Latest, Shared
      <4> QED BY <4>2, <4>3
    <3>4. CASE snapshot = doc /\ \A r \in reads : ~Latest(r)
      <4>1. ~takes
          BY <1>1, <3>4 DEF Latest
      <4>2. snapshot' = doc
          BY <1>3, <3>4, <4>1
      <4> QED BY <1>1, <3>4, <4>2 DEF Fresh, Latest, Shared
    <3> QED BY <2>1, <3>1, <3>2, <3>3, <3>4 DEF Fresh
  <2> QED BY <2>3, <2>4, <2>5, <2>6 DEF CopyOK
<1>10. CalmOK'
  <2> SUFFICES ASSUME calm' PROVE CalmStore' /\ CalmPanel' /\ CalmPuts'
      BY DEF CalmOK
  <2>1. faults' = faults /\ CalmStore /\ CalmPanel /\ CalmPuts
      BY <1>1, <1>4, <1>5 DEF CalmOK
  <2>2. CalmStore'
      BY <1>1, <2>1 DEF CalmStore
  <2>3. CalmPuts'
      BY <1>1, <2>1 DEF CalmPuts, Agrees
  <2>4. (\A put \in puts' : ~Unsettled(put)) => \A put \in puts : ~Unsettled(put)
      BY <1>1 DEF Unsettled
  <2>5. CalmPanel'
    <3>1. /\ panel.status # "error"
          /\ page = "panel" /\ panel.status = "loading" => puts' = {}
          /\ panel.status = "ready" /\ (\A put \in puts' : ~Unsettled(put)) => Agrees(panel.form, "panel")
        BY <1>1, <2>1, <2>4 DEF CalmPanel
    <3>2. /\ \A r, s \in reads' : r.for = "panel" /\ s.for = "panel" => r = s
          /\ \A r \in reads' : r.for = "panel" =>
                panel.status = "loading" /\ r.answer \in {Nothing, doc}
        BY <1>1, <2>1 DEF CalmPanel
    <3> QED BY <1>1, <3>1, <3>2 DEF CalmPanel, Agrees, Unsettled
  <2> QED BY <2>2, <2>3, <2>5
<1> QED BY <1>8, <1>9, <1>10 DEF PagesInv

(* A form made of the stored document agrees with it.                      *)
LEMMA FormAgrees ==
    ASSUME ShapeOK, CalmStore, NEW by
    PROVE  Agrees(FormOf(doc), by)
<1>1. categoryIds \in Nat /\ DocOK(doc, categoryIds)
    BY DEF ShapeOK, CountsOK, DocsOK
<1>2. FormOf(doc).fields = doc.fields /\ Known(doc) \subseteq RowIds(FormOf(doc))
    BY <1>1, FormsAreSound
<1> QED BY <1>2 DEF Agrees, CalmStore

LEMMA PanelAnsweredStep ==
    ASSUME PagesInv, NEW read \in reads, NEW came, PanelAnswered(read, came), HeardOrLost(came)
    PROVE  PagesInv'
<1>1. /\ read.for = "panel" /\ came \in BOOLEAN /\ (came => read.answer # Nothing)
      /\ reads' = reads \ {read}
      /\ panel' = IF came THEN PanelReady(FormOf(read.answer)) ELSE PanelFailed
      /\ puts' = puts /\ snapshot' = snapshot /\ fieldDraft' = fieldDraft
      /\ doc' = doc /\ categoryIds' = categoryIds /\ generation' = generation
      /\ page' = page /\ modal' = modal /\ intended' = intended
      /\ everStored' = everStored /\ dropped' = dropped
    BY DEF PanelAnswered, HeardOrLost, history
<1>2. (~came => faults' = faults + 1 /\ calm' = FALSE) /\ (came => faults' = faults /\ calm' = calm)
    BY DEF HeardOrLost
<1>3. ShapeOK /\ CopyOK /\ CalmOK
    BY DEF PagesInv
<1>4. ReadOK(read) /\ page = "panel"
    BY <1>1, <1>3 DEF ShapeOK, ReadsOK, FocusOK
<1>5. came => DocOK(read.answer, categoryIds)
    BY <1>1, <1>4 DEF ReadOK
<1>6. ShapeOK'
  <2>1. CountsOK'
    <3>1. faults \in Nat /\ calm \in BOOLEAN
        BY <1>3 DEF ShapeOK, CountsOK
    <3>2. faults' \in Nat /\ calm' \in BOOLEAN
      <4>1. CASE came = TRUE
          BY <1>2, <3>1, <4>1
      <4>2. CASE came = FALSE
        <5>1. faults' = faults + 1 /\ calm' = FALSE
            BY <1>2, <4>2
        <5>2. calm' \in BOOLEAN
            BY <5>1, Zenon
        <5> QED BY <3>1, <5>1, <5>2
      <4> QED BY <4>1, <4>2 DEF HeardOrLost
    <3> QED BY <1>1, <1>3, <3>2 DEF ShapeOK, CountsOK
  <2>2. PanelOK'
    <3>1. CASE came
      <4>1. DraftOK(FormOf(read.answer), categoryIds)
          BY <1>3, <1>5, <3>1, FormsAreSound DEF ShapeOK, CountsOK, PayloadOK
      <4>2. panel' = PanelReady(FormOf(read.answer)) /\ panel'.form = FormOf(read.answer)
          BY <1>1, <3>1, PanelStates
      <4> QED BY <1>1, <4>1, <4>2 DEF PanelOK, DraftOfPanel
    <3>2. CASE ~came
        BY <1>1, <3>2 DEF PanelOK
    <3> QED BY <3>1, <3>2
  <2>3. FocusOK'
      BY <1>1, <1>3, <1>4 DEF ShapeOK, FocusOK
  <2>4. DocsOK' /\ ReadsOK' /\ PutsOK'
      BY <1>1, <1>3 DEF ShapeOK, DocsOK, ReadsOK, ReadOK, PutsOK, PutOK
  <2> QED BY <2>1, <2>2, <2>3, <2>4 DEF ShapeOK
<1>7. CopyOK'
  <2>1. NumbersDiffer' /\ FirstReadOK' /\ RefreshesOK'
      BY <1>1, <1>3 DEF CopyOK, NumbersDiffer, FirstReadOK, RefreshesOK, Shared
  <2>2. Fresh => Fresh'
    <3>1. \A r \in reads : Latest(r) => r \in reads'
        BY <1>1 DEF Latest, Shared
    <3> QED BY <1>1, <3>1 DEF Fresh, Latest, Shared
  <2>3. faults' = 0 => faults = 0
    <3>1. faults \in Nat
        BY <1>3 DEF ShapeOK, CountsOK
    <3> QED BY <1>1, <1>2, <3>1
  <2> QED BY <1>3, <2>1, <2>2, <2>3 DEF CopyOK
<1>8. CalmOK'
  <2> SUFFICES ASSUME calm' PROVE CalmStore' /\ CalmPanel' /\ CalmPuts'
      BY DEF CalmOK
  <2>1. came /\ faults' = faults /\ CalmStore /\ CalmPanel /\ CalmPuts
      BY <1>1, <1>2, <1>3 DEF CalmOK
  <2>2. CalmStore'
      BY <1>1, <2>1 DEF CalmStore
  <2>3. CalmPuts'
      BY <1>1, <2>1 DEF CalmPuts, Agrees
  <2>4. panel' = PanelReady(FormOf(doc))
      BY <1>1, <2>1 DEF CalmPanel
  <2>5. panel'.status = "ready" /\ panel'.form = FormOf(doc)
      BY <2>4, PanelStates
  <2>6. \A r \in reads' : r.for # "panel"
      BY <1>1, <2>1 DEF CalmPanel
  <2>7. Agrees(FormOf(doc), "panel")
      BY <1>3, <2>1, FormAgrees
  <2>8. CalmPanel'
      BY <1>1, <2>5, <2>6, <2>7 DEF CalmPanel, Agrees
  <2> QED BY <2>2, <2>3, <2>8
<1> QED BY <1>6, <1>7, <1>8 DEF PagesInv

-----------------------------------------------------------------------------
(* Pages and edits.                                                        *)
ModalOK(m) == m = Nothing \/ m \in [index : Nat, codes : SUBSET Marked]

LEMMA OpenPageStep ==
    ASSUME PagesInv, NEW target \in Fields, OpenPage(target)
    PROVE  PagesInv'
<1>1. /\ snapshot # Nothing /\ page # target /\ page' = target /\ modal' = Nothing
      /\ calm' = (calm /\ puts = {}) /\ panel' = PanelLoading
      /\ reads' = {read \in reads : read.for # "panel"}
                    \cup (IF target = "panel" THEN {Read("panel", 0)} ELSE {})
      /\ fieldDraft' = IF target = "panel" THEN Nothing ELSE snapshot.fields[target]
      /\ puts' = {[put EXCEPT !.mounted = FALSE] : put \in puts}
      /\ doc' = doc /\ categoryIds' = categoryIds /\ snapshot' = snapshot /\ generation' = generation
      /\ faults' = faults /\ intended' = intended /\ everStored' = everStored /\ dropped' = dropped
    BY DEF OpenPage, budget, history
<1>2. ShapeOK /\ CopyOK /\ CalmOK
    BY DEF PagesInv
<1>3. \A read \in reads' :
         \/ read \in reads /\ read.for # "panel"
         \/ /\ target = "panel" /\ read.for = "panel" /\ read.number = 0 /\ read.answer = Nothing
            /\ read = [for |-> read.for, number |-> read.number, answer |-> read.answer]
            /\ read = Read("panel", 0)
    BY <1>1, ReadMade
<1>4. \A put \in puts' : \E q \in puts : put = [q EXCEPT !.mounted = FALSE]
    BY <1>1
<1>5. ASSUME NEW q \in puts
      PROVE  LET put == [q EXCEPT !.mounted = FALSE]
             IN  /\ put.mounted = FALSE /\ put.by = q.by /\ put.phase = q.phase
                 /\ put.payload = q.payload /\ put.answer = q.answer /\ put.read = q.read
                 /\ put = [by |-> put.by, mounted |-> put.mounted, phase |-> put.phase,
                           payload |-> put.payload, answer |-> put.answer, read |-> put.read,
                           number |-> put.number]
  <2>1. q = [by |-> q.by, mounted |-> q.mounted, phase |-> q.phase, payload |-> q.payload,
             answer |-> q.answer, read |-> q.read, number |-> q.number]
      BY <1>2 DEF ShapeOK, PutsOK, PutOK
  <2>2. [q EXCEPT !.mounted = FALSE] =
            [by |-> q.by, mounted |-> FALSE, phase |-> q.phase, payload |-> q.payload,
             answer |-> q.answer, read |-> q.read, number |-> q.number]
    <3>1. \A no : [q EXCEPT !.mounted = no] =
                      [by |-> q.by, mounted |-> no, phase |-> q.phase, payload |-> q.payload,
                       answer |-> q.answer, read |-> q.read, number |-> q.number]
        BY <2>1
    <3> QED BY <3>1
  <2> QED BY <2>2
<1>6. ShapeOK'
  <2>1. CountsOK' /\ DocsOK' /\ PanelOK'
    <3>1. calm' \in BOOLEAN
        BY <1>1
    <3> QED BY <1>1, <1>2, <3>1 DEF ShapeOK, CountsOK, DocsOK, PanelOK
  <2>2. ReadsOK'
    <3>1. 0 \in 0 .. generation
        BY <1>2 DEF ShapeOK, CountsOK
    <3> QED BY <1>1, <1>2, <1>3, <3>1 DEF ShapeOK, ReadsOK, ReadOK
  <2>3. FocusOK'
    <3>1. DocOK(snapshot, categoryIds)
        BY <1>1, <1>2 DEF ShapeOK, DocsOK
    <3>2. snapshot.fields[target] \in Values
        BY <3>1 DEF DocOK
    <3> QED BY <1>1, <1>3, <3>2 DEF FocusOK
  <2>4. PutsOK'
    <3> SUFFICES ASSUME NEW put \in puts' PROVE PutOK(put)'
        BY DEF PutsOK
    <3>1. PICK q \in puts : put = [q EXCEPT !.mounted = FALSE]
        BY <1>4
    <3>2. PutOK(q)
        BY <1>2 DEF ShapeOK, PutsOK
    <3>3. /\ put.mounted = FALSE /\ put.by = q.by /\ put.phase = q.phase
          /\ put.payload = q.payload /\ put.answer = q.answer /\ put.read = q.read
          /\ put = [by |-> put.by, mounted |-> put.mounted, phase |-> put.phase,
                    payload |-> put.payload, answer |-> put.answer, read |-> put.read,
                    number |-> put.number]
        BY <1>5, <3>1
    <3> QED BY <1>1, <3>2, <3>3 DEF PutOK
  <2> QED BY <2>1, <2>2, <2>3, <2>4 DEF ShapeOK
<1>7. CopyOK'
  <2>1. NumbersDiffer /\ FirstReadOK /\ RefreshesOK /\ (faults = 0 => Fresh)
      BY <1>2 DEF CopyOK
  <2>2. \A read \in reads' : Shared(read) => read \in reads
      BY <1>3 DEF Shared
  <2>3. \A read \in reads : Shared(read) => read \in reads'
      BY <1>1 DEF Shared
  <2>4. \A q \in puts : \E put \in puts' : put.phase = q.phase /\ put.read = q.read
    <3> SUFFICES ASSUME NEW q \in puts
                 PROVE  \E put \in puts' : put.phase = q.phase /\ put.read = q.read
        OBVIOUS
    <3> PICK put : put = [q EXCEPT !.mounted = FALSE]
        OBVIOUS
    <3>1. put \in puts' /\ put.phase = q.phase /\ put.read = q.read
        BY <1>1, <1>5
    <3> QED BY <3>1
  <2>5. NumbersDiffer' /\ FirstReadOK'
      BY <1>1, <2>1, <2>2 DEF NumbersDiffer, FirstReadOK, Shared
  <2>6. RefreshesOK'
    <3> SUFFICES ASSUME NEW read \in reads', Shared(read)
                 PROVE  \E put \in puts' : put.phase = "refresh" /\ put.read = read.number
        BY DEF RefreshesOK, Shared
    <3>1. read \in reads
        BY <2>2
    <3>2. PICK q \in puts : q.phase = "refresh" /\ q.read = read.number
        BY <1>1, <2>1, <3>1 DEF RefreshesOK
    <3> QED BY <2>4, <3>2
  <2>7. Fresh => Fresh'
      BY <1>1, <2>2, <2>3, <2>4 DEF Fresh, Unsettled, Latest, Shared
  <2> QED BY <1>1, <2>1, <2>5, <2>6, <2>7 DEF CopyOK
<1>8. CalmOK'
  <2> SUFFICES ASSUME calm' PROVE CalmStore' /\ CalmPanel' /\ CalmPuts'
      BY DEF CalmOK
  <2>1. puts' = {} /\ CalmStore
      BY <1>1, <1>2 DEF CalmOK
  <2>2. CalmStore' /\ CalmPuts'
      BY <1>1, <2>1 DEF CalmStore, CalmPuts
  <2>3. \A read \in reads' : read.for = "panel" => read = Read("panel", 0) /\ read.answer = Nothing
      BY <1>3
  <2>4. CalmPanel'
      BY <1>1, <2>1, <2>3, PanelStates DEF CalmPanel
  <2> QED BY <2>2, <2>4
<1> QED BY <1>6, <1>7, <1>8 DEF PagesInv

LEMMA RetryStep == ASSUME PagesInv, Retry PROVE PagesInv'
<1>1. /\ doc' = doc /\ categoryIds' = categoryIds /\ snapshot' = snapshot /\ page' = page
      /\ modal' = modal /\ fieldDraft' = fieldDraft /\ puts' = puts /\ faults' = faults
      /\ calm' = calm /\ intended' = intended /\ everStored' = everStored /\ dropped' = dropped
    BY DEF Retry, budget, history
<1>2. ShapeOK /\ CopyOK /\ CalmOK /\ CountsOK
    BY DEF PagesInv, ShapeOK
<1>3. generation \in Nat \ {0}
    BY <1>2 DEF CountsOK
<1>4. CASE /\ panel.status = "error" /\ page = "panel" /\ panel' = PanelLoading
           /\ reads' = reads \cup {Read("panel", 0)} /\ generation' = generation
  <2> PICK new : new = Read("panel", 0)
      OBVIOUS
  <2>1. /\ new.for = "panel" /\ new.number = 0 /\ new.answer = Nothing
        /\ new = [for |-> new.for, number |-> new.number, answer |-> new.answer]
      BY ReadMade
  <2>2. reads' = reads \cup {new} /\ ~Shared(new)
      BY <1>4, <2>1 DEF Shared
  <2>3. ShapeOK'
    <3>1. ReadOK(new)'
        BY <1>3, <1>4, <2>1 DEF ReadOK
    <3>2. ReadsOK'
        BY <1>1, <1>2, <1>4, <2>2, <3>1 DEF ShapeOK, ReadsOK, ReadOK
    <3>3. CountsOK' /\ DocsOK' /\ PanelOK' /\ FocusOK' /\ PutsOK'
        BY <1>1, <1>2, <1>4 DEF ShapeOK, CountsOK, DocsOK, PanelOK, FocusOK, PutsOK, PutOK
    <3> QED BY <3>2, <3>3 DEF ShapeOK
  <2>4. CopyOK'
    <3>1. NumbersDiffer' /\ FirstReadOK' /\ RefreshesOK'
        BY <1>1, <1>2, <1>4, <2>2 DEF CopyOK, NumbersDiffer, FirstReadOK, RefreshesOK, Shared
    <3>2. Fresh => Fresh'
        BY <1>1, <1>4, <2>2 DEF Fresh, Latest, Shared
    <3> QED BY <1>1, <1>2, <3>1, <3>2 DEF CopyOK
  <2>5. ~calm
      BY <1>2, <1>4 DEF CalmOK, CalmPanel
  <2> QED BY <1>1, <2>3, <2>4, <2>5 DEF PagesInv, CalmOK
<1>5. CASE /\ snapshot = Nothing /\ (\A read \in reads : read.for # "shared")
           /\ generation' = generation + 1 /\ reads' = reads \cup {Read("shared", generation + 1)}
           /\ panel' = panel
  <2> PICK new : new = Read("shared", generation + 1)
      OBVIOUS
  <2>1. /\ new.for = "shared" /\ new.number = generation + 1 /\ new.answer = Nothing
        /\ new = [for |-> new.for, number |-> new.number, answer |-> new.answer]
      BY ReadMade
  <2>2. /\ reads' = reads \cup {new} /\ Shared(new) /\ \A read \in reads' : Shared(read) => read = new
        /\ generation' \in Nat \ {0} /\ generation <= generation' /\ generation' = new.number
      BY <1>3, <1>5, <2>1 DEF Shared
  <2>3. page = "dashboard" /\ puts = {}
      BY <1>2, <1>5 DEF CopyOK, FirstReadOK
  <2>4. ShapeOK'
    <3>1. ReadOK(new)'
        BY <2>1, <2>2 DEF ReadOK
    <3>2. ReadsOK'
      <4> SUFFICES ASSUME NEW read \in reads PROVE ReadOK(read)'
          BY <2>2, <3>1 DEF ReadsOK
      <4>1. ReadOK(read)
          BY <1>2 DEF ShapeOK, ReadsOK
      <4>2. 0 .. generation \subseteq 0 .. generation'
          BY <1>3, <2>2
      <4> QED BY <1>1, <4>1, <4>2 DEF ReadOK
    <3>3. FocusOK'
        BY <1>1, <1>2, <1>5, <2>1, <2>2 DEF ShapeOK, FocusOK
    <3>4. CountsOK' /\ DocsOK' /\ PanelOK' /\ PutsOK'
        BY <1>1, <1>2, <1>5, <2>2 DEF ShapeOK, CountsOK, DocsOK, PanelOK, DraftOfPanel, PutsOK, PutOK
    <3> QED BY <3>2, <3>3, <3>4 DEF ShapeOK
  <2>5. CopyOK'
    <3>1. NumbersDiffer' /\ FirstReadOK' /\ RefreshesOK'
        BY <1>1, <1>5, <2>2, <2>3 DEF NumbersDiffer, FirstReadOK, RefreshesOK, Shared
    <3>2. Fresh'
        BY <2>1, <2>2 DEF Fresh, Latest, Shared
    <3> QED BY <3>1, <3>2 DEF CopyOK
  <2>6. CalmOK'
    <3>1. CalmStore => CalmStore'
        BY <1>1 DEF CalmStore
    <3>2. CalmPuts'
        BY <1>1, <2>3 DEF CalmPuts
    <3>3. CalmPanel => CalmPanel'
        BY <1>1, <1>5, <2>1, <2>2 DEF CalmPanel, Agrees
    <3> QED BY <1>1, <1>2, <3>1, <3>2, <3>3 DEF CalmOK
  <2> QED BY <2>4, <2>5, <2>6 DEF PagesInv
<1> QED BY <1>4, <1>5 DEF Retry

(* What changes nothing but the modal and the draft of a field.            *)
LEMMA FocusStep ==
    ASSUME PagesInv, ModalOK(modal'), fieldDraft' \in Values \cup {Nothing},
           calm' \in BOOLEAN, calm' => calm,
           UNCHANGED <<doc, categoryIds, snapshot, generation, reads, page, panel, puts, faults, history>>
    PROVE  PagesInv'
<1>1. /\ doc' = doc /\ categoryIds' = categoryIds /\ snapshot' = snapshot /\ page' = page
      /\ generation' = generation /\ reads' = reads /\ panel' = panel
      /\ puts' = puts /\ faults' = faults
      /\ intended' = intended /\ everStored' = everStored /\ dropped' = dropped
    BY DEF history
<1>2. ShapeOK /\ CopyOK /\ CalmOK
    BY DEF PagesInv
<1>3. ShapeOK'
  <2>1. CountsOK' /\ DocsOK' /\ PanelOK' /\ PutsOK' /\ ReadsOK'
      BY <1>1, <1>2 DEF ShapeOK, CountsOK, DocsOK, PanelOK, DraftOfPanel, PutsOK, PutOK, ReadsOK, ReadOK
  <2>2. FocusOK'
      BY <1>1, <1>2 DEF ShapeOK, FocusOK, ModalOK
  <2> QED BY <2>1, <2>2 DEF ShapeOK
<1>4. CopyOK'
    BY <1>1, <1>2 DEF CopyOK, NumbersDiffer, FirstReadOK, RefreshesOK, Fresh, Latest, Shared, Unsettled
<1>5. CalmOK'
    BY <1>1, <1>2 DEF CalmOK, CalmStore, CalmPanel, CalmPuts, Agrees, Unsettled
<1> QED BY <1>3, <1>4, <1>5 DEF PagesInv

(* An edit of the panel's draft, once the draft it makes is known.         *)
LEMMA DraftStep ==
    ASSUME PagesInv, page = "panel", panel.status = "ready",
           NEW edited, DraftOK(edited, categoryIds), panel' = PanelReady(edited),
           NEW ids, Keeps(edited, panel.form, ids),
           dropped \subseteq dropped', \A id \in ids : id = Unnamed \/ id \in dropped',
           ModalOK(modal'), calm' = (calm /\ puts = {}), fieldDraft' = fieldDraft,
           UNCHANGED <<doc, categoryIds, snapshot, generation, reads, page, puts, faults,
                       intended, everStored>>
    PROVE  PagesInv'
<1>1. /\ doc' = doc /\ categoryIds' = categoryIds /\ snapshot' = snapshot /\ page' = page
      /\ generation' = generation /\ reads' = reads
      /\ puts' = puts /\ faults' = faults
      /\ intended' = intended /\ everStored' = everStored
    OBVIOUS
<1>2. ShapeOK /\ CopyOK /\ CalmOK
    BY DEF PagesInv
<1>3. panel'.status = "ready" /\ panel'.form = edited
    BY PanelStates
<1>4. ShapeOK'
  <2>1. calm' \in BOOLEAN
      OBVIOUS
  <2>2. CountsOK' /\ DocsOK' /\ PutsOK' /\ ReadsOK'
      BY <1>1, <1>2, <2>1 DEF ShapeOK, CountsOK, DocsOK, PutsOK, PutOK, ReadsOK, ReadOK
  <2>3. PanelOK'
      BY <1>1, <1>3 DEF PanelOK, DraftOfPanel
  <2>4. FocusOK'
      BY <1>1, <1>2 DEF ShapeOK, FocusOK, ModalOK
  <2> QED BY <2>2, <2>3, <2>4 DEF ShapeOK
<1>5. CopyOK'
    BY <1>1, <1>2 DEF CopyOK, NumbersDiffer, FirstReadOK, RefreshesOK, Fresh, Latest, Shared, Unsettled
<1>6. CalmOK'
  <2> SUFFICES ASSUME calm' PROVE CalmStore' /\ CalmPanel' /\ CalmPuts'
      BY DEF CalmOK
  <2>1. puts = {} /\ CalmStore /\ CalmPanel
      BY <1>2 DEF CalmOK
  <2>2. Agrees(panel.form, "panel")
      BY <2>1 DEF CalmPanel
  <2>3. everStored \ dropped' \subseteq RowIds(edited)
    <3> SUFFICES ASSUME NEW id \in everStored, id \notin dropped' PROVE id \in RowIds(edited)
        OBVIOUS
    <3>1. id \in RowIds(panel.form)
        BY <2>2 DEF Agrees
    <3>2. id # Unnamed
        BY <1>2 DEF ShapeOK, CountsOK, Unnamed
    <3> QED BY <3>1, <3>2 DEF Keeps
  <2>4. \A f \in Fields \ {"panel"} : edited.fields[f] = doc.fields[f]
      BY <2>2 DEF Agrees, Keeps
  <2>5. Agrees(panel.form, "panel")'
      BY <1>1, <1>3, <2>3, <2>4 DEF Agrees
  <2>6. CalmStore' /\ CalmPuts'
      BY <1>1, <2>1 DEF CalmStore, CalmPuts
  <2>7. CalmPanel'
      BY <1>1, <1>3, <2>1, <2>5 DEF CalmPanel
  <2> QED BY <2>6, <2>7
<1> QED BY <1>4, <1>5, <1>6 DEF PagesInv

LEMMA EditDraftStep ==
    ASSUME PagesInv, OnPanel, NEW edited, EditPanel(edited), DraftOK(edited, categoryIds),
           NEW ids, Keeps(edited, panel.form, ids),
           dropped \subseteq dropped', \A id \in ids : id = Unnamed \/ id \in dropped'
    PROVE  PagesInv'
<1>1. /\ page = "panel" /\ panel.status = "ready" /\ modal' = Nothing
      /\ panel' = PanelReady(edited) /\ fieldDraft' = fieldDraft /\ calm' = (calm /\ puts = {})
      /\ UNCHANGED <<doc, categoryIds, snapshot, generation, reads, page, puts, faults,
                     intended, everStored>>
    BY DEF OnPanel, EditPanel, CountEdit, Reseated
<1> QED BY <1>1, DraftStep DEF ModalOK

LEMMA EditSettingStep ==
    ASSUME PagesInv, NEW value \in Values, EditSetting(value)
    PROVE  PagesInv'
<1> PICK edited : edited = [panel.form EXCEPT !.fields["panel"] = value]
    OBVIOUS
<1>1. OnPanel /\ EditPanel(edited) /\ dropped' = dropped
    BY DEF EditSetting
<1>2. categoryIds \in Nat /\ DraftOK(panel.form, categoryIds)
    BY <1>1, ReadyPanel DEF PagesInv, ShapeOK, CountsOK, OnPanel
<1>3. /\ DraftOK(edited, categoryIds) /\ edited.categories = panel.form.categories
      /\ \A f \in Fields \ {"panel"} : edited.fields[f] = panel.form.fields[f]
    BY <1>2, PanelAssumption, SettingEdited
<1>4. Keeps(edited, panel.form, {})
    BY <1>3 DEF Keeps, RowIds
<1> QED BY <1>1, <1>3, <1>4, EditDraftStep

LEMMA UpdateCategoryStep ==
    ASSUME PagesInv, NEW i, NEW code \in Numbering, updateCategory(i, code)
    PROVE  PagesInv'
<1> PICK edited : edited = [panel.form EXCEPT !.categories[i].code = code]
    OBVIOUS
<1>1. OnPanel /\ i \in DOMAIN panel.form.categories /\ EditPanel(edited) /\ dropped' = dropped
    BY DEF updateCategory
<1>2. categoryIds \in Nat /\ DraftOK(panel.form, categoryIds)
    BY <1>1, ReadyPanel DEF PagesInv, ShapeOK, CountsOK, OnPanel
<1>3. DraftOK(edited, categoryIds) /\ Keeps(edited, panel.form, {})
    BY <1>1, <1>2, CodeEdited
<1> QED BY <1>1, <1>3, EditDraftStep

LEMMA AddCategoryStep == ASSUME PagesInv, addCategory PROVE PagesInv'
<1> PICK edited : edited = [panel.form EXCEPT !.categories = Append(@, NewCategory)]
    OBVIOUS
<1>1. OnPanel /\ EditPanel(edited) /\ dropped' = dropped
    BY DEF addCategory
<1>2. categoryIds \in Nat /\ DraftOK(panel.form, categoryIds)
    BY <1>1, ReadyPanel DEF PagesInv, ShapeOK, CountsOK, OnPanel
<1>3. DraftOK(edited, categoryIds) /\ Keeps(edited, panel.form, {})
    BY <1>2, CategoryAdded
<1> QED BY <1>1, <1>3, EditDraftStep

LEMMA RemoveCategoryStep == ASSUME PagesInv, NEW i, removeCategory(i) PROVE PagesInv'
<1> PICK edited : edited = [panel.form EXCEPT !.categories = RemoveAt(@, i)]
    OBVIOUS
<1> PICK gone : gone = panel.form.categories[i].id
    OBVIOUS
<1>1. /\ OnPanel /\ i \in DOMAIN panel.form.categories /\ EditPanel(edited)
      /\ dropped' = dropped \cup ({gone} \ {Unnamed})
    BY DEF removeCategory
<1>2. categoryIds \in Nat /\ DraftOK(panel.form, categoryIds)
    BY <1>1, ReadyPanel DEF PagesInv, ShapeOK, CountsOK, OnPanel
<1>3. DraftOK(edited, categoryIds) /\ Keeps(edited, panel.form, {gone})
    BY <1>1, <1>2, CategoryRemoved
<1>4. dropped \subseteq dropped' /\ \A id \in {gone} : id = Unnamed \/ id \in dropped'
    BY <1>1
<1> QED BY <1>1, <1>3, <1>4, EditDraftStep

LEMMA AddRoutingStep == ASSUME PagesInv, addRouting PROVE PagesInv'
<1> PICK edited : edited = [panel.form EXCEPT !.routing =
                    Append(@, [counter |-> NextCounter(panel.form.routing), codes |-> {}])]
    OBVIOUS
<1>1. OnPanel /\ EditPanel(edited) /\ dropped' = dropped
    BY DEF addRouting
<1>2. categoryIds \in Nat /\ DraftOK(panel.form, categoryIds)
    BY <1>1, ReadyPanel DEF PagesInv, ShapeOK, CountsOK, OnPanel
<1>3. DraftOK(edited, categoryIds) /\ Keeps(edited, panel.form, {})
    BY <1>2, CounterAdded
<1> QED BY <1>1, <1>3, EditDraftStep

LEMMA RemoveRoutingStep == ASSUME PagesInv, NEW i, removeRouting(i) PROVE PagesInv'
<1> PICK edited : edited = [panel.form EXCEPT !.routing = RemoveAt(@, i)]
    OBVIOUS
<1>1. OnPanel /\ i \in DOMAIN panel.form.routing /\ EditPanel(edited) /\ dropped' = dropped
    BY DEF removeRouting
<1>2. categoryIds \in Nat /\ DraftOK(panel.form, categoryIds)
    BY <1>1, ReadyPanel DEF PagesInv, ShapeOK, CountsOK, OnPanel
<1>3. DraftOK(edited, categoryIds) /\ Keeps(edited, panel.form, {})
    BY <1>1, <1>2, CounterRemoved
<1> QED BY <1>1, <1>3, EditDraftStep

LEMMA UpdateRoutingStep == ASSUME PagesInv, updateRouting PROVE PagesInv'
<1> PICK edited : edited = [panel.form EXCEPT !.routing[modal.index].codes = modal.codes]
    OBVIOUS
<1>1. /\ page = "panel" /\ panel.status = "ready" /\ modal # Nothing
      /\ modal.index \in DOMAIN panel.form.routing
      /\ panel' = PanelReady(edited) /\ modal' = Nothing /\ calm' = (calm /\ puts = {})
      /\ fieldDraft' = fieldDraft /\ dropped' = dropped
      /\ UNCHANGED <<doc, categoryIds, snapshot, generation, reads, page, puts, faults,
                     intended, everStored>>
    BY DEF updateRouting, ModalShown, budget, history
<1>2. categoryIds \in Nat /\ DraftOK(panel.form, categoryIds)
    BY <1>1, ReadyPanel DEF PagesInv, ShapeOK, CountsOK
<1>3. modal.codes \in SUBSET Marked
    BY <1>1 DEF PagesInv, ShapeOK, FocusOK
<1>4. DraftOK(edited, categoryIds) /\ Keeps(edited, panel.form, {})
    BY <1>1, <1>2, <1>3, RuleEdited
<1> QED BY <1>1, <1>4, DraftStep DEF ModalOK

(* The modal and the page of one setting.                                  *)
LEMMA ModalsStep ==
    ASSUME PagesInv,
           \/ \E i \in 1 .. MaxCounters + 1 : OpenModal(i)
           \/ CloseModal
           \/ \E code \in Marked : Toggle(code)
           \/ \E value \in Values : EditField(value)
    PROVE  PagesInv'
<1>1. ShapeOK /\ calm \in BOOLEAN /\ fieldDraft \in Values \cup {Nothing} /\ ModalOK(modal)
    BY DEF PagesInv, ShapeOK, CountsOK, FocusOK, ModalOK
<1>2. ASSUME NEW i, OpenModal(i) PROVE PagesInv'
  <2>1. /\ panel.status = "ready" /\ i \in DOMAIN panel.form.routing
        /\ modal' = [index |-> i, codes |-> panel.form.routing[i].codes]
        /\ calm' = calm /\ fieldDraft' = fieldDraft
        /\ UNCHANGED <<doc, categoryIds, snapshot, generation, reads, page, panel, puts, faults, history>>
      BY <1>2 DEF OpenModal, OnPanel, budget
  <2>2. panel.form.routing \in Seq(RuleRows)
      BY <1>1, <2>1, ReadyPanel DEF DraftOK, Forms
  <2>3. i \in Nat /\ panel.form.routing[i] \in RuleRows
      BY <2>1, <2>2
  <2>4. ModalOK(modal')
      BY <2>1, <2>3 DEF ModalOK, RuleRows
  <2> QED BY <1>1, <2>1, <2>4, FocusStep
<1>3. ASSUME CloseModal PROVE PagesInv'
  <2>1. /\ modal' = Nothing /\ calm' = calm /\ fieldDraft' = fieldDraft
        /\ UNCHANGED <<doc, categoryIds, snapshot, generation, reads, page, panel, puts, faults, history>>
      BY <1>3 DEF CloseModal, budget
  <2> QED BY <1>1, <2>1, FocusStep DEF ModalOK
<1>4. ASSUME NEW code \in Marked, Toggle(code) PROVE PagesInv'
  <2>1. /\ modal # Nothing /\ modal' = [modal EXCEPT !.codes = SymDiff(@, {code})]
        /\ calm' = (calm /\ puts = {}) /\ fieldDraft' = fieldDraft
        /\ UNCHANGED <<doc, categoryIds, snapshot, generation, reads, page, panel, puts, faults, history>>
      BY <1>4 DEF Toggle, ModalShown, CountEdit, history
  <2>2. modal \in [index : Nat, codes : SUBSET Marked]
      BY <1>1, <2>1 DEF ModalOK
  <2>3. SymDiff(modal.codes, {code}) \in SUBSET Marked
      BY <2>2 DEF SymDiff
  <2>4. ModalOK(modal')
      BY <2>1, <2>2, <2>3 DEF ModalOK
  <2>5. calm' \in BOOLEAN /\ (calm' => calm)
      BY <2>1
  <2> QED BY <1>1, <2>1, <2>4, <2>5, FocusStep
<1>5. ASSUME NEW value \in Values, EditField(value) PROVE PagesInv'
  <2>1. /\ fieldDraft' = value /\ modal' = modal /\ calm' = (calm /\ puts = {})
        /\ UNCHANGED <<doc, categoryIds, snapshot, generation, reads, page, panel, puts, faults, history>>
      BY <1>5 DEF EditField, CountEdit, history
  <2>2. calm' \in BOOLEAN /\ (calm' => calm)
      BY <2>1
  <2>3. ModalOK(modal')
      BY <1>1, <2>1
  <2> QED BY <2>1, <2>2, <2>3, FocusStep
<1> QED BY <1>2, <1>3, <1>4, <1>5

-----------------------------------------------------------------------------
(* Saves.                                                                  *)
LEMMA SendPutStep ==
    ASSUME PagesInv, NEW payload, Send(payload), PayloadOK(payload, categoryIds),
           page \in Fields, page = "panel" => panel.status = "ready",
           calm /\ puts = {} => Agrees(payload, page)
    PROVE  PagesInv'
<1> PICK new : new = Put(payload)
    OBVIOUS
<1>1. /\ doc' = doc /\ categoryIds' = categoryIds /\ snapshot' = snapshot /\ page' = page
      /\ generation' = generation /\ reads' = reads /\ panel' = panel /\ modal' = modal
      /\ fieldDraft' = fieldDraft /\ puts' = puts \cup {new} /\ faults' = faults
      /\ calm' = (calm /\ puts = {})
      /\ intended' = intended /\ everStored' = everStored /\ dropped' = dropped
    BY DEF Send, history
<1>2. ShapeOK /\ CopyOK /\ CalmOK
    BY DEF PagesInv
<1>3. /\ new.by = page /\ new.mounted = TRUE /\ new.phase = "put" /\ new.payload = payload
      /\ new.answer = Nothing /\ new.read = 0
      /\ new = [by |-> new.by, mounted |-> new.mounted, phase |-> new.phase,
                payload |-> new.payload, answer |-> new.answer, read |-> new.read,
                number |-> new.number]
    BY DEF Put
<1>4. snapshot # Nothing
    BY <1>2, PanelAssumption DEF CopyOK, FirstReadOK
<1>5. ShapeOK'
  <2>1. PutOK(new)'
      BY <1>1, <1>3 DEF PutOK
  <2>2. PutsOK'
      BY <1>1, <1>2, <2>1 DEF ShapeOK, PutsOK, PutOK
  <2>3. calm' \in BOOLEAN
      BY <1>1
  <2>4. CountsOK' /\ DocsOK' /\ ReadsOK' /\ PanelOK' /\ FocusOK'
      BY <1>1, <1>2, <2>3
      DEF ShapeOK, CountsOK, DocsOK, ReadsOK, ReadOK, PanelOK, DraftOfPanel, FocusOK
  <2> QED BY <2>2, <2>4 DEF ShapeOK
<1>6. CopyOK'
    BY <1>1, <1>2, <1>4
    DEF CopyOK, NumbersDiffer, FirstReadOK, RefreshesOK, Fresh, Latest, Shared, Unsettled
<1>7. CalmOK'
  <2> SUFFICES ASSUME calm' PROVE CalmStore' /\ CalmPanel' /\ CalmPuts'
      BY DEF CalmOK
  <2>1. puts = {} /\ puts' = {new} /\ CalmStore /\ CalmPanel /\ Agrees(payload, page)
      BY <1>1, <1>2 DEF CalmOK
  <2>2. CalmStore'
      BY <1>1, <2>1 DEF CalmStore
  <2>3. CalmPuts'
      BY <1>1, <1>3, <2>1 DEF CalmPuts, Agrees
  <2>4. CalmPanel'
      BY <1>1, <2>1 DEF CalmPanel, Agrees
  <2> QED BY <2>2, <2>3, <2>4
<1> QED BY <1>5, <1>6, <1>7 DEF PagesInv

LEMMA SavePanelStep == ASSUME PagesInv, SavePanel PROVE PagesInv'
<1>1. /\ page = "panel" /\ panel.status = "ready" /\ FormIsSavable(panel.form) /\ Send(panel.form)
    BY DEF SavePanel, OnPanel
<1>2. DraftOK(panel.form, categoryIds)
    BY <1>1, ReadyPanel DEF PagesInv
<1>3. PayloadOK(panel.form, categoryIds)
    BY <1>1, <1>2 DEF PayloadOK, CodesDiffer, FormIsSavable
<1>4. calm /\ puts = {} => Agrees(panel.form, page)
    BY <1>1 DEF PagesInv, CalmOK, CalmPanel
<1> PICK payload : payload = panel.form
    OBVIOUS
<1>5. page \in Fields
    BY <1>1, PanelAssumption
<1> QED BY <1>1, <1>3, <1>4, <1>5, SendPutStep

LEMMA SaveFieldStep == ASSUME PagesInv, SaveField PROVE PagesInv'
<1> PICK payload : payload = [FormOf(snapshot) EXCEPT !.fields[page] = fieldDraft]
    OBVIOUS
<1>1. page \in Fields \ {"panel"} /\ fieldDraft # Nothing /\ Send(payload)
    BY DEF SaveField
<1>2. ShapeOK /\ CopyOK /\ CalmOK /\ categoryIds \in Nat /\ fieldDraft \in Values
    BY <1>1 DEF PagesInv, ShapeOK, FocusOK, CountsOK
<1>3. snapshot # Nothing
    BY <1>1, <1>2, PanelAssumption DEF CopyOK, FirstReadOK
<1>4. DocOK(snapshot, categoryIds)
    BY <1>2, <1>3 DEF ShapeOK, DocsOK
<1>5. /\ PayloadOK(FormOf(snapshot), categoryIds) /\ FormOf(snapshot).fields = snapshot.fields
      /\ Known(snapshot) \subseteq RowIds(FormOf(snapshot))
    BY <1>2, <1>4, FormsAreSound
<1>6. /\ DraftOK(payload, categoryIds)
      /\ \A f \in Fields \ {page} : payload.fields[f] = FormOf(snapshot).fields[f]
      /\ payload.categories = FormOf(snapshot).categories
    BY <1>1, <1>2, <1>5, SettingEdited DEF PayloadOK
<1>7. PayloadOK(payload, categoryIds)
    BY <1>5, <1>6 DEF PayloadOK, CodesDiffer
<1>8. ASSUME calm, puts = {} PROVE Agrees(payload, page)
  <2>1. CalmStore /\ Fresh
      BY <1>2, <1>8 DEF CalmOK, CalmStore, CopyOK
  <2>2. \A read \in reads : ~Latest(read)
      BY <1>2, <1>3, <1>8 DEF CopyOK, RefreshesOK, Latest
  <2>3. snapshot = doc
      BY <1>8, <2>1, <2>2 DEF Fresh
  <2>4. RowIds(payload) = RowIds(FormOf(snapshot))
      BY <1>6 DEF RowIds
  <2> QED BY <1>5, <1>6, <2>1, <2>3, <2>4 DEF Agrees, CalmStore
<1>9. page \in Fields /\ page # "panel"
    BY <1>1
<1> QED BY <1>1, <1>7, <1>8, <1>9, SendPutStep

(* A save moves on: what changes of it, and what its successor is.         *)
Whole(put) ==
    put = [by |-> put.by, mounted |-> put.mounted, phase |-> put.phase, payload |-> put.payload,
           answer |-> put.answer, read |-> put.read, number |-> put.number]

LEMMA PutChanges ==
    ASSUME NEW put, Whole(put)
    PROVE  /\ \A phase : [put EXCEPT !.phase = phase] =
                  [by |-> put.by, mounted |-> put.mounted, phase |-> phase, payload |-> put.payload,
                   answer |-> put.answer, read |-> put.read, number |-> put.number]
           /\ \A answer : [put EXCEPT !.answer = answer] =
                  [by |-> put.by, mounted |-> put.mounted, phase |-> put.phase, payload |-> put.payload,
                   answer |-> answer, read |-> put.read, number |-> put.number]
           /\ \A read : [put EXCEPT !.read = read] =
                  [by |-> put.by, mounted |-> put.mounted, phase |-> put.phase, payload |-> put.payload,
                   answer |-> put.answer, read |-> read, number |-> put.number]
BY DEF Whole

LEMMA MadeWhole ==
    ASSUME NEW put, NEW read, NEW moved,
           moved = [by |-> put.by, mounted |-> put.mounted, phase |-> "refresh",
                    payload |-> put.payload, answer |-> put.answer, read |-> read,
                    number |-> put.number]
    PROVE  /\ moved.by = put.by /\ moved.mounted = put.mounted /\ moved.phase = "refresh"
           /\ moved.payload = put.payload /\ moved.answer = put.answer /\ moved.read = read
           /\ moved.number = put.number /\ Whole(moved)
BY DEF Whole

Refreshed(put, read) == [put EXCEPT !.phase = "refresh", !.read = read]

LEMMA PutRefreshes ==
    ASSUME NEW put, Whole(put), NEW read, NEW moved,
           moved = Refreshed(put, read)
    PROVE  /\ moved.by = put.by /\ moved.mounted = put.mounted /\ moved.phase = "refresh"
           /\ moved.payload = put.payload /\ moved.answer = put.answer /\ moved.read = read
           /\ moved.number = put.number /\ Whole(moved)
<1> DEFINE half == [by |-> put.by, mounted |-> put.mounted, phase |-> "refresh",
                    payload |-> put.payload, answer |-> put.answer, read |-> put.read,
                    number |-> put.number]
<1>1. [put EXCEPT !.phase = "refresh"] = half
    BY PutChanges
<1>2. [put EXCEPT !.phase = "refresh", !.read = read] = [half EXCEPT !.read = read]
    BY <1>1
<1>3. /\ half.by = put.by /\ half.mounted = put.mounted /\ half.phase = "refresh"
      /\ half.payload = put.payload /\ half.answer = put.answer /\ half.number = put.number
    OBVIOUS
<1>4. Whole(half)
    BY DEF Whole
<1> HIDE DEF half
<1>5. [half EXCEPT !.read = read] =
          [by |-> put.by, mounted |-> put.mounted, phase |-> "refresh", payload |-> put.payload,
           answer |-> put.answer, read |-> read, number |-> put.number]
    BY <1>3, <1>4, PutChanges
<1>6. moved =
          [by |-> put.by, mounted |-> put.mounted, phase |-> "refresh", payload |-> put.payload,
           answer |-> put.answer, read |-> read, number |-> put.number]
    BY <1>2, <1>5 DEF Refreshed
<1> QED BY <1>6, MadeWhole

(* A save that is over, without the shared copy being read again.          *)
LEMMA DropStep ==
    ASSUME PagesInv, NEW put \in puts, puts' = puts \ {put},
           \/ put.phase = "refused" /\ faults' = faults /\ calm' = calm
           \/ put.phase # "refresh" /\ faults' = faults + 1 /\ calm' = FALSE,
           UNCHANGED <<doc, categoryIds, snapshot, generation, reads, page, panel, modal,
                       fieldDraft, history>>
    PROVE  PagesInv'
<1>1. /\ doc' = doc /\ categoryIds' = categoryIds /\ snapshot' = snapshot /\ page' = page
      /\ generation' = generation /\ reads' = reads /\ panel' = panel /\ modal' = modal
      /\ fieldDraft' = fieldDraft
      /\ intended' = intended /\ everStored' = everStored /\ dropped' = dropped
    BY DEF history
<1>2. ShapeOK /\ CopyOK /\ CalmOK /\ faults \in Nat /\ calm \in BOOLEAN
    BY DEF PagesInv, ShapeOK, CountsOK
<1>3. ShapeOK'
  <2>1. faults' \in Nat
      BY <1>2
  <2>2. calm' \in BOOLEAN
      BY <1>2, Zenon
  <2>3. CountsOK' /\ DocsOK' /\ ReadsOK' /\ PanelOK' /\ FocusOK' /\ PutsOK'
      BY <1>1, <1>2, <2>1, <2>2
      DEF ShapeOK, CountsOK, DocsOK, ReadsOK, ReadOK, PanelOK, DraftOfPanel, FocusOK, PutsOK, PutOK
  <2> QED BY <2>3 DEF ShapeOK
<1>4. CopyOK'
  <2>1. put.phase # "refresh"
      OBVIOUS
  <2>2. NumbersDiffer' /\ FirstReadOK' /\ RefreshesOK'
      BY <1>1, <1>2, <2>1 DEF CopyOK, NumbersDiffer, FirstReadOK, RefreshesOK, Shared
  <2>3. ASSUME faults' = 0 PROVE Fresh'
    <3>1. put.phase = "refused" /\ faults = 0
        BY <1>2, <2>3
    <3>2. \A q \in puts : Unsettled(q) => q \in puts'
        BY <3>1 DEF Unsettled
    <3> QED BY <1>1, <1>2, <3>1, <3>2 DEF CopyOK, Fresh, Latest, Shared, Unsettled
  <2> QED BY <2>2, <2>3 DEF CopyOK
<1>5. CalmOK'
  <2> SUFFICES ASSUME calm' PROVE CalmStore' /\ CalmPanel' /\ CalmPuts'
      BY DEF CalmOK
  <2>1. put.phase = "refused" /\ faults' = faults /\ CalmStore /\ CalmPanel /\ CalmPuts
      BY <1>2 DEF CalmOK
  <2>2. \A q \in puts : Unsettled(q) => q \in puts'
      BY <2>1 DEF Unsettled
  <2>3. CalmStore' /\ CalmPuts'
      BY <1>1, <2>1 DEF CalmStore, CalmPuts, Agrees
  <2>4. CalmPanel'
      BY <1>1, <2>1, <2>2 DEF CalmPanel, Agrees, Unsettled
  <2> QED BY <2>3, <2>4
<1> QED BY <1>3, <1>4, <1>5 DEF PagesInv

(* A save moves on, and the document stays as it is.                       *)
LEMMA MoveStep ==
    ASSUME PagesInv, NEW put \in puts, NEW moved, Follow(put, moved), PutOK(moved),
           moved.by = put.by, moved.mounted = put.mounted, moved.payload = put.payload,
           moved.phase \notin {"put", "refresh"}, put.phase # "refresh",
           moved.phase = "reread" => moved.answer \in {Nothing, doc},
           Unsettled(put) => Unsettled(moved),
           UNCHANGED <<doc, categoryIds, snapshot, generation, reads, page, panel, modal,
                       fieldDraft, faults, calm, history>>
    PROVE  PagesInv'
<1>1. /\ doc' = doc /\ categoryIds' = categoryIds /\ snapshot' = snapshot /\ page' = page
      /\ generation' = generation /\ reads' = reads /\ panel' = panel /\ modal' = modal
      /\ fieldDraft' = fieldDraft /\ faults' = faults /\ calm' = calm
      /\ intended' = intended /\ everStored' = everStored /\ dropped' = dropped
      /\ puts' = (puts \ {put}) \cup {moved}
    BY DEF history, Follow
<1>2. ShapeOK /\ CopyOK /\ CalmOK
    BY DEF PagesInv
<1>3. ShapeOK'
  <2>1. PutsOK'
      BY <1>1, <1>2 DEF ShapeOK, PutsOK, PutOK
  <2>2. CountsOK' /\ DocsOK' /\ ReadsOK' /\ PanelOK' /\ FocusOK'
      BY <1>1, <1>2
      DEF ShapeOK, CountsOK, DocsOK, ReadsOK, ReadOK, PanelOK, DraftOfPanel, FocusOK
  <2> QED BY <2>1, <2>2 DEF ShapeOK
<1>4. CopyOK'
  <2>1. NumbersDiffer' /\ FirstReadOK' /\ RefreshesOK'
      BY <1>1, <1>2 DEF CopyOK, NumbersDiffer, FirstReadOK, RefreshesOK, Shared
  <2>2. (\E q \in puts : Unsettled(q)) => \E q \in puts' : Unsettled(q)
      BY <1>1
  <2>3. Fresh => Fresh'
      BY <1>1, <2>2 DEF Fresh, Latest, Shared, Unsettled
  <2> QED BY <1>1, <1>2, <2>1, <2>3 DEF CopyOK
<1>5. CalmOK'
  <2> SUFFICES ASSUME calm PROVE CalmStore' /\ CalmPanel' /\ CalmPuts'
      BY <1>1 DEF CalmOK
  <2>1. CalmStore /\ CalmPanel /\ CalmPuts
      BY <1>2 DEF CalmOK
  <2>2. CalmStore'
      BY <1>1, <2>1 DEF CalmStore
  <2>3. puts' = {moved}
      BY <1>1, <2>1 DEF CalmPuts
  <2>4. CalmPuts'
      BY <1>1, <2>1, <2>3 DEF CalmPuts
  <2>5. (\A q \in puts' : ~Unsettled(q)) => \A q \in puts : ~Unsettled(q)
      BY <1>1
  <2>6. CalmPanel'
      BY <1>1, <2>1, <2>3, <2>5 DEF CalmPanel, Agrees, Unsettled
  <2> QED BY <2>2, <2>4, <2>6
<1> QED BY <1>3, <1>4, <1>5 DEF PagesInv

(* The server writes the document.                                         *)
LEMMA StoreStep ==
    ASSUME PagesInv, NEW put \in puts, ServerSaves(put), ~SaveIsRefused(put.payload)
    PROVE  PagesInv'
<1> PICK moved : moved = [put EXCEPT !.phase = "stored"]
    OBVIOUS
<1> PICK payload : payload = put.payload
    OBVIOUS
<1>1. /\ put.phase = "put" /\ puts' = (puts \ {put}) \cup {moved}
      /\ doc' = Written(payload) /\ categoryIds' = categoryIds + NewIds(payload)
      /\ intended' = [intended EXCEPT ![put.by] = payload.fields[put.by]]
      /\ everStored' = everStored \cup Known(doc')
      /\ snapshot' = snapshot /\ page' = page
      /\ generation' = generation /\ reads' = reads /\ panel' = panel /\ modal' = modal
      /\ fieldDraft' = fieldDraft /\ faults' = faults /\ calm' = calm /\ dropped' = dropped
    BY DEF ServerSaves, Follow, budget
<1>2. ShapeOK /\ CopyOK /\ CalmOK /\ categoryIds \in Nat /\ PutOK(put)
    BY DEF PagesInv, ShapeOK, CountsOK, PutsOK
<1>3. /\ moved.by = put.by /\ moved.mounted = put.mounted /\ moved.phase = "stored"
      /\ moved.payload = payload /\ moved.answer = put.answer /\ moved.read = put.read
      /\ moved.number = put.number /\ Whole(moved)
    BY <1>2, PutChanges DEF PutOK, Whole
<1>4. PayloadOK(payload, categoryIds) /\ DraftOK(payload, categoryIds)
    BY <1>2 DEF PutOK, PayloadOK
<1>5. /\ NewIds(payload) \in Nat
      /\ DocOK(Written(payload), categoryIds + NewIds(payload))
      /\ Written(payload).fields = payload.fields
      /\ RowIds(payload) \ {Unnamed} \subseteq Known(Written(payload))
    BY <1>2, <1>4, WrittenIsSound
<1> PICK n : n = categoryIds + NewIds(payload)
    OBVIOUS
<1>6. n \in Nat /\ categoryIds <= n /\ categoryIds' = n
    BY <1>1, <1>2, <1>5
<1>7. /\ DocOK(doc', n) /\ doc'.fields = payload.fields
      /\ RowIds(payload) \ {Unnamed} \subseteq Known(doc')
    BY <1>1, <1>5 DEF Known
<1>8. /\ \A draft : DraftOK(draft, categoryIds) => DraftOK(draft, n)
      /\ \A draft : PayloadOK(draft, categoryIds) => PayloadOK(draft, n)
      /\ \A d : DocOK(d, categoryIds) => DocOK(d, n)
    BY <1>2, <1>6, IdsGrow
<1>9. snapshot # Nothing
    BY <1>2 DEF CopyOK, FirstReadOK
<1>10. ShapeOK'
  <2>1. CountsOK'
    <3>1. Known(doc') \subseteq 1 .. n
        BY <1>7 DEF DocOK, Known
    <3>2. 1 .. categoryIds \subseteq 1 .. n
        BY <1>2, <1>6
    <3> QED BY <1>1, <1>2, <1>6, <3>1, <3>2 DEF ShapeOK, CountsOK
  <2>2. DocsOK' /\ ReadsOK'
      BY <1>1, <1>2, <1>6, <1>7, <1>8 DEF ShapeOK, DocsOK, ReadsOK, ReadOK
  <2>3. PanelOK' /\ FocusOK'
      BY <1>1, <1>2, <1>6, <1>8 DEF ShapeOK, PanelOK, DraftOfPanel, FocusOK
  <2>4. \A q \in puts : PutOK(q)'
      BY <1>1, <1>2, <1>6, <1>8 DEF ShapeOK, PutsOK, PutOK
  <2>5. PutOK(moved)'
      BY <1>1, <1>2, <1>3, <1>6, <1>8 DEF PutOK, Whole
  <2>6. PutsOK'
      BY <1>1, <2>4, <2>5 DEF PutsOK
  <2> QED BY <2>1, <2>2, <2>3, <2>6 DEF ShapeOK
<1>11. CopyOK'
  <2>1. moved \in puts' /\ Unsettled(moved)
      BY <1>1, <1>3 DEF Unsettled
  <2>2. NumbersDiffer' /\ FirstReadOK' /\ RefreshesOK'
      BY <1>1, <1>2, <1>9 DEF CopyOK, NumbersDiffer, FirstReadOK, RefreshesOK, Shared
  <2>3. Fresh'
      BY <2>1 DEF Fresh, Unsettled
  <2> QED BY <2>2, <2>3 DEF CopyOK
<1>12. CalmOK'
  <2> SUFFICES ASSUME calm PROVE CalmStore' /\ CalmPanel' /\ CalmPuts'
      BY <1>1 DEF CalmOK
  <2>1. CalmStore /\ CalmPanel /\ CalmPuts
      BY <1>2 DEF CalmOK
  <2>2. puts' = {moved}
      BY <1>1, <2>1 DEF CalmPuts
  <2>3. Agrees(payload, put.by) /\ put.by = page /\ put.mounted /\ put.by \in Fields
      BY <1>1, <1>2, <2>1 DEF CalmPuts, PutOK
  <2>4. doc'.fields = intended'
    <3>1. intended \in [Fields -> Values] /\ payload.fields \in [Fields -> Values]
        BY <1>2, <1>4, <2>1 DEF CalmStore, ShapeOK, DocsOK, DocOK, DraftOK, Forms
    <3>2. \A f \in Fields \ {put.by} : payload.fields[f] = intended[f]
        BY <2>1, <2>3 DEF Agrees, CalmStore
    <3> QED BY <1>1, <1>7, <2>3, <3>1, <3>2
  <2>5. everStored' \ dropped \subseteq Known(doc')
    <3>1. everStored \subseteq 1 .. categoryIds
        BY <1>2 DEF ShapeOK, CountsOK
    <3>2. Unnamed \notin everStored
        BY <1>2, <3>1 DEF Unnamed
    <3>3. everStored \ dropped \subseteq RowIds(payload)
        BY <2>3 DEF Agrees
    <3> QED BY <1>1, <1>7, <3>2, <3>3
  <2>6. CalmStore'
      BY <1>1, <2>1, <2>4, <2>5 DEF CalmStore, Known
  <2>7. CalmPuts'
      BY <1>1, <1>3, <2>2, <2>3 DEF CalmPuts
  <2>8. \A read \in reads : read.for # "panel"
      BY <1>2, <2>1 DEF CalmPanel, ShapeOK, FocusOK
  <2>9. CalmPanel'
    <3>1. moved \in puts' /\ Unsettled(moved)
        BY <1>1, <1>3 DEF Unsettled
    <3>2. page = "panel" => panel.status # "loading"
        BY <2>1 DEF CalmPanel
    <3> QED BY <1>1, <2>1, <2>8, <3>1, <3>2 DEF CalmPanel, Unsettled
  <2> QED BY <2>6, <2>7, <2>9
<1> QED BY <1>10, <1>11, <1>12 DEF PagesInv

LEMMA ServerSavesStep == ASSUME PagesInv, NEW put \in puts, ServerSaves(put) PROVE PagesInv'
<1>1. CASE SaveIsRefused(put.payload)
  <2> PICK moved : moved = [put EXCEPT !.phase = "refused"]
      OBVIOUS
  <2>1. PutOK(put) /\ put.phase = "put"
      BY DEF PagesInv, ShapeOK, PutsOK, ServerSaves
  <2>2. /\ moved.by = put.by /\ moved.mounted = put.mounted /\ moved.phase = "refused"
        /\ moved.payload = put.payload /\ moved.answer = put.answer /\ moved.read = put.read
        /\ moved.number = put.number /\ Whole(moved)
      BY <2>1, PutChanges DEF PutOK, Whole
  <2>3. Excusable(put.payload)
      BY <1>1, <2>1
      DEF PutOK, PayloadOK, DraftOK, CountersDiffer, CodesDiffer, SaveIsRefused, Excusable
  <2>4. PutOK(moved)
      BY <2>1, <2>2, <2>3 DEF PutOK, Whole
  <2>5. /\ Follow(put, moved)
        /\ UNCHANGED <<doc, categoryIds, snapshot, generation, reads, page, panel, modal,
                       fieldDraft, faults, calm, history>>
      BY <1>1 DEF ServerSaves, budget, history
  <2>6. /\ moved.phase \notin {"put", "refresh"} /\ put.phase # "refresh"
        /\ moved.phase # "reread" /\ ~Unsettled(put)
      BY <2>1, <2>2 DEF Unsettled
  <2> QED BY <2>2, <2>4, <2>5, <2>6, MoveStep
<1>2. CASE ~SaveIsRefused(put.payload)
    BY <1>2, StoreStep
<1> QED BY <1>1, <1>2

(* After a save the shared copy is read again; the panel's draft, if it is *)
(* still there, was made anew of the document.                             *)
LEMMA RefreshStep ==
    ASSUME PagesInv, NEW put \in puts, Unsettled(put), Refresh(put), ModalOK(modal'),
           \/ put.by # "panel" /\ panel' = panel
           \/ put.phase = "reread" /\ ~put.mounted /\ panel' = panel
           \/ /\ put.phase = "reread" /\ put.mounted /\ put.answer # Nothing
              /\ panel' = PanelReady(FormOf(put.answer)),
           UNCHANGED <<doc, categoryIds, snapshot, page, fieldDraft, faults, calm, history>>
    PROVE  PagesInv'
<1> PICK next : next = generation + 1
    OBVIOUS
<1> PICK read : read = Read("shared", next)
    OBVIOUS
<1> PICK moved : moved = Refreshed(put, next)
    OBVIOUS
<1>1. /\ generation' = next /\ reads' = reads \cup {read} /\ puts' = (puts \ {put}) \cup {moved}
      /\ doc' = doc /\ categoryIds' = categoryIds /\ snapshot' = snapshot /\ page' = page
      /\ fieldDraft' = fieldDraft /\ faults' = faults /\ calm' = calm
      /\ intended' = intended /\ everStored' = everStored /\ dropped' = dropped
    BY DEF Refresh, Refreshed, Follow, history
<1>2. ShapeOK /\ CopyOK /\ CalmOK /\ categoryIds \in Nat /\ PutOK(put)
    BY DEF PagesInv, ShapeOK, CountsOK, PutsOK
<1>3. generation \in Nat /\ next \in Nat /\ next # 0 /\ generation < next
    BY <1>2 DEF ShapeOK, CountsOK
<1>4. /\ read.for = "shared" /\ read.number = next /\ read.answer = Nothing
      /\ read = [for |-> read.for, number |-> read.number, answer |-> read.answer]
    BY ReadMade
<1>5. /\ moved.by = put.by /\ moved.mounted = put.mounted /\ moved.phase = "refresh"
      /\ moved.payload = put.payload /\ moved.answer = put.answer /\ moved.read = next
      /\ moved.number = put.number /\ Whole(moved)
  <2>1. Whole(put)
      BY <1>2 DEF PutOK, Whole
  <2> QED BY <2>1, PutRefreshes
<1>6. \A r \in reads : Shared(r) => r.number \in 0 .. generation
    BY <1>2 DEF ShapeOK, ReadsOK, ReadOK
<1>7. \A r \in reads : Shared(r) => r.number # next
    BY <1>3, <1>6
<1>8. snapshot # Nothing
    BY <1>2 DEF CopyOK, FirstReadOK
<1>9. \/ panel' = panel
      \/ /\ page = "panel" /\ put.answer # Nothing
         /\ panel' = PanelReady(FormOf(put.answer))
         /\ panel'.status = "ready" /\ panel'.form = FormOf(put.answer)
    BY <1>2, PanelStates DEF PutOK
<1>10. ShapeOK'
  <2>1. CountsOK'
      BY <1>1, <1>2, <1>3 DEF ShapeOK, CountsOK
  <2>2. DocsOK'
      BY <1>1, <1>2 DEF ShapeOK, DocsOK
  <2>3. ReadsOK'
    <3>1. 0 .. generation \subseteq 0 .. next /\ next \in 0 .. next
        BY <1>3
    <3> QED BY <1>1, <1>2, <1>4, <3>1 DEF ShapeOK, ReadsOK, ReadOK
  <2>4. PanelOK'
    <3>1. CASE panel' = panel
        BY <1>1, <1>2, <3>1 DEF ShapeOK, PanelOK, DraftOfPanel
    <3>2. CASE /\ put.answer # Nothing
               /\ panel' = PanelReady(FormOf(put.answer)) /\ panel'.form = FormOf(put.answer)
      <4>1. DocOK(put.answer, categoryIds)
          BY <1>2, <3>2 DEF PutOK
      <4>2. DraftOK(FormOf(put.answer), categoryIds)
          BY <1>2, <4>1, FormsAreSound DEF PayloadOK
      <4> QED BY <1>1, <3>2, <4>2 DEF PanelOK, DraftOfPanel
    <3> QED BY <1>9, <3>1, <3>2
  <2>5. FocusOK'
    <3>1. \A r \in reads' : r.for = "panel" => r \in reads
        BY <1>1, <1>4
    <3> QED BY <1>1, <1>2, <1>9, <3>1 DEF ShapeOK, FocusOK, ModalOK
  <2>6. PutOK(moved)'
      BY <1>1, <1>2, <1>5 DEF PutOK, Whole
  <2>7. \A q \in puts : PutOK(q)'
      BY <1>1, <1>2 DEF ShapeOK, PutsOK, PutOK
  <2>8. PutsOK'
      BY <1>1, <2>6, <2>7 DEF PutsOK
  <2> QED BY <2>1, <2>2, <2>3, <2>4, <2>5, <2>8 DEF ShapeOK
<1>11. CopyOK'
  <2>1. NumbersDiffer /\ RefreshesOK
      BY <1>2 DEF CopyOK
  <2>2. NumbersDiffer'
      BY <1>1, <1>4, <1>7, <2>1 DEF NumbersDiffer, Shared
  <2>3. FirstReadOK'
      BY <1>1, <1>8 DEF FirstReadOK
  <2>4. RefreshesOK'
    <3> SUFFICES ASSUME NEW r \in reads', Shared(r)
                 PROVE  \E q \in puts' : q.phase = "refresh" /\ q.read = r.number
        BY DEF RefreshesOK, Shared
    <3>1. CASE r \in reads
      <4>1. PICK q \in puts : q.phase = "refresh" /\ q.read = r.number
          BY <1>8, <2>1, <3>1 DEF RefreshesOK
      <4>2. q \in puts'
          BY <1>1, <4>1 DEF Unsettled
      <4> QED BY <4>1, <4>2
    <3>2. CASE r = read
        BY <1>1, <1>4, <1>5, <3>2
    <3> QED BY <1>1, <3>1, <3>2
  <2>5. Fresh'
    <3>1. read \in reads' /\ Shared(read) /\ read.number = generation' /\ read.answer = Nothing
        BY <1>1, <1>4 DEF Shared
    <3> QED BY <3>1 DEF Fresh, Latest, Shared
  <2> QED BY <2>2, <2>3, <2>4, <2>5 DEF CopyOK
<1>12. CalmOK'
  <2> SUFFICES ASSUME calm PROVE CalmStore' /\ CalmPanel' /\ CalmPuts'
      BY <1>1 DEF CalmOK
  <2>1. CalmStore /\ CalmPanel /\ CalmPuts
      BY <1>2 DEF CalmOK
  <2>2. CalmStore'
      BY <1>1, <2>1 DEF CalmStore
  <2>3. puts' = {moved}
      BY <1>1, <2>1 DEF CalmPuts
  <2>4. put.by = page /\ put.mounted
      BY <2>1 DEF CalmPuts
  <2>5. CalmPuts'
      BY <1>1, <1>5, <2>3, <2>4 DEF CalmPuts
  <2>6. \A r \in reads' : r.for # "panel"
    <3>1. \A r \in reads : r.for # "panel"
        BY <1>2, <2>1 DEF CalmPanel, ShapeOK, FocusOK
    <3> QED BY <1>1, <1>4, <3>1
  <2>7. CASE page = "panel"
    <3>1. put.phase = "reread" /\ put.answer = doc /\ panel' = PanelReady(FormOf(doc))
        BY <2>1, <2>4, <2>7 DEF CalmPuts
    <3>2. panel'.status = "ready" /\ panel'.form = FormOf(doc)
        BY <3>1, PanelStates
    <3>3. Agrees(FormOf(doc), "panel")
        BY <1>2, <2>1, FormAgrees
    <3>4. CalmPanel'
        BY <1>1, <2>6, <3>2, <3>3 DEF CalmPanel, Agrees
    <3> QED BY <2>2, <2>5, <3>4
  <2>8. CASE page # "panel"
    <3>1. panel = PanelLoading /\ panel' = panel
        BY <1>2, <1>9, <2>8 DEF ShapeOK, FocusOK
    <3>2. panel'.status = "loading"
        BY <3>1, PanelStates
    <3>3. CalmPanel'
        BY <1>1, <2>6, <2>8, <3>2 DEF CalmPanel
    <3> QED BY <2>2, <2>5, <3>3
  <2> QED BY <2>7, <2>8
<1> QED BY <1>10, <1>11, <1>12 DEF PagesInv

(* The browser hears how its save went.                                    *)
LEMMA SaveAnsweredStep == ASSUME PagesInv, NEW put \in puts, SaveAnswered(put) PROVE PagesInv'
<1>1. /\ UNCHANGED <<doc, categoryIds, snapshot, page, panel, modal, fieldDraft, history>>
      /\ faults' = faults /\ calm' = calm /\ panel' = panel
    BY DEF SaveAnswered, budget
<1>2. PutOK(put) /\ ModalOK(modal)
    BY DEF PagesInv, ShapeOK, PutsOK, FocusOK, ModalOK
<1>3. CASE put.phase = "refused" /\ puts' = puts \ {put} /\ UNCHANGED <<generation, reads>>
  <2>1. UNCHANGED <<doc, categoryIds, snapshot, generation, reads, page, panel, modal, fieldDraft, history>>
      BY <1>1, <1>3
  <2> QED BY <1>1, <1>3, <2>1, DropStep
<1>4. CASE put.phase = "stored" /\ put.by # "panel" /\ Refresh(put)
  <2>1. Unsettled(put)
      BY <1>4 DEF Unsettled
  <2>2. ModalOK(modal')
      BY <1>1, <1>2
  <2>3. UNCHANGED <<doc, categoryIds, snapshot, page, fieldDraft, faults, calm, history>>
      BY <1>1
  <2>4. Refresh(put) /\ put.by # "panel" /\ panel' = panel
      BY <1>1, <1>4
  <2> QED BY <2>1, <2>2, <2>3, <2>4, RefreshStep
<1>5. CASE /\ put.phase = "stored" /\ put.by = "panel"
           /\ Follow(put, [put EXCEPT !.phase = "reread"]) /\ UNCHANGED <<generation, reads>>
  <2> PICK moved : moved = [put EXCEPT !.phase = "reread"]
      OBVIOUS
  <2>1. /\ moved.by = put.by /\ moved.mounted = put.mounted /\ moved.phase = "reread"
        /\ moved.payload = put.payload /\ moved.answer = put.answer /\ moved.read = put.read
        /\ moved.number = put.number /\ Whole(moved)
      BY <1>2, PutChanges DEF PutOK, Whole
  <2>2. PutOK(moved) /\ moved.answer = Nothing
      BY <1>2, <1>5, <2>1 DEF PutOK, Whole
  <2>3. /\ Follow(put, moved)
        /\ UNCHANGED <<doc, categoryIds, snapshot, generation, reads, page, panel, modal,
                       fieldDraft, faults, calm, history>>
      BY <1>1, <1>5
  <2>4. /\ moved.phase \notin {"put", "refresh"} /\ put.phase # "refresh"
        /\ moved.answer \in {Nothing, doc} /\ Unsettled(moved)
      BY <1>5, <2>1, <2>2 DEF Unsettled
  <2> QED BY <2>1, <2>2, <2>3, <2>4, MoveStep
<1> QED BY <1>3, <1>4, <1>5 DEF SaveAnswered

LEMMA SaveFailsStep ==
    ASSUME PagesInv, NEW put \in puts, SaveLost(put) \/ RereadFails(put)
    PROVE  PagesInv'
<1>1. /\ puts' = puts \ {put} /\ put.phase # "refresh" /\ faults' = faults + 1 /\ calm' = FALSE
      /\ UNCHANGED <<doc, categoryIds, snapshot, generation, reads, page, panel, modal, fieldDraft, history>>
    BY DEF SaveLost, RereadFails
<1> QED BY <1>1, DropStep

(* The panel reads the document again after its save.                      *)
LEMMA ServerRereadsStep == ASSUME PagesInv, NEW put \in puts, ServerRereads(put) PROVE PagesInv'
<1> PICK moved : moved = [put EXCEPT !.answer = doc]
    OBVIOUS
<1>1. PutOK(put) /\ put.phase = "reread" /\ DocOK(doc, categoryIds)
    BY DEF PagesInv, ShapeOK, PutsOK, DocsOK, ServerRereads
<1>2. /\ moved.by = put.by /\ moved.mounted = put.mounted /\ moved.phase = put.phase
      /\ moved.payload = put.payload /\ moved.answer = doc /\ moved.read = put.read
      /\ moved.number = put.number /\ Whole(moved)
    BY <1>1, PutChanges DEF PutOK, Whole
<1>3. PutOK(moved)
    BY <1>1, <1>2 DEF PutOK, Whole
<1>4. /\ Follow(put, moved)
      /\ UNCHANGED <<doc, categoryIds, snapshot, generation, reads, page, panel, modal,
                     fieldDraft, faults, calm, history>>
    BY DEF ServerRereads, budget, history
<1>5. /\ moved.phase \notin {"put", "refresh"} /\ put.phase # "refresh"
      /\ moved.answer \in {Nothing, doc} /\ Unsettled(moved)
    BY <1>1, <1>2 DEF Unsettled
<1> QED BY <1>2, <1>3, <1>4, <1>5, MoveStep

LEMMA RereadsStep == ASSUME PagesInv, NEW put \in puts, Rereads(put) PROVE PagesInv'
<1> PICK anew : anew = FormOf(put.answer)
    OBVIOUS
<1>1. /\ put.phase = "reread" /\ put.answer # Nothing /\ Refresh(put)
      /\ panel' = IF put.mounted THEN PanelReady(anew) ELSE panel
      /\ modal' = IF put.mounted THEN Reseated(anew.routing) ELSE modal
      /\ UNCHANGED <<doc, categoryIds, snapshot, page, fieldDraft, faults, calm, history>>
    BY DEF Rereads, budget
<1>2. PutOK(put) /\ ModalOK(modal) /\ categoryIds \in Nat
    BY DEF PagesInv, ShapeOK, PutsOK, FocusOK, ModalOK, CountsOK
<1>3. DraftOK(anew, categoryIds)
    BY <1>1, <1>2, FormsAreSound DEF PutOK, PayloadOK
<1>4. anew.routing \in Seq(RuleRows)
    BY <1>3 DEF DraftOK, Forms
<1>5. ModalOK(Reseated(anew.routing))
  <2>1. CASE modal # Nothing /\ modal.index \in DOMAIN anew.routing
    <3>1. anew.routing[modal.index] \in RuleRows
        BY <1>4, <2>1
    <3>2. anew.routing[modal.index].codes \in SUBSET Marked
        BY <3>1 DEF RuleRows
    <3> QED BY <1>2, <3>2 DEF ModalOK, Reseated
  <2>2. CASE modal = Nothing \/ modal.index \notin DOMAIN anew.routing
      BY <1>2, <2>2 DEF Reseated
  <2> QED BY <2>1, <2>2
<1>6. ModalOK(modal')
    BY <1>1, <1>2, <1>5
<1>7. Unsettled(put)
    BY <1>1 DEF Unsettled
<1>8. \/ put.phase = "reread" /\ ~put.mounted /\ panel' = panel
      \/ /\ put.phase = "reread" /\ put.mounted /\ put.answer # Nothing
         /\ panel' = PanelReady(FormOf(put.answer))
    BY <1>1
<1>9. Refresh(put) /\ UNCHANGED <<doc, categoryIds, snapshot, page, fieldDraft, faults, calm, history>>
    BY <1>1
<1> QED BY <1>6, <1>7, <1>8, <1>9, RefreshStep

LEMMA PagesStep == ASSUME PagesInv, PagesNext PROVE PagesInv'
<1>1. ASSUME NEW read \in reads, ServerReads(read) \/ ReadAnswered(read) \/ ReadFails(read)
      PROVE  PagesInv'
  <2>1. CASE ServerReads(read)
      BY <2>1, ServerReadsStep
  <2>2. CASE ReadAnswered(read)
    <3> PICK came : came = TRUE
        OBVIOUS
    <3>1. (SharedAnswered(read, came) \/ PanelAnswered(read, came)) /\ HeardOrLost(came)
        BY <2>2 DEF ReadAnswered, HeardOrLost
    <3> QED BY <3>1, SharedAnsweredStep, PanelAnsweredStep
  <2>3. CASE ReadFails(read)
    <3> PICK came : came = FALSE
        OBVIOUS
    <3>1. (SharedAnswered(read, came) \/ PanelAnswered(read, came)) /\ HeardOrLost(came)
        BY <2>3 DEF ReadFails, HeardOrLost
    <3> QED BY <3>1, SharedAnsweredStep, PanelAnsweredStep
  <2> QED BY <1>1, <2>1, <2>2, <2>3
<1>2. ASSUME NEW target \in Pages, OpenPage(target) PROVE PagesInv'
    BY <1>2, OpenPageStep DEF Pages
<1>3. CASE Retry
    BY <1>3, RetryStep
<1>4. ASSUME NEW value \in Values, EditSetting(value) \/ EditField(value) PROVE PagesInv'
    BY <1>4, EditSettingStep, ModalsStep
<1>5. ASSUME NEW i \in 1 .. MaxCounters, NEW code \in Numbering, updateCategory(i, code)
      PROVE  PagesInv'
    BY <1>5, UpdateCategoryStep
<1>6. ASSUME NEW i \in 1 .. MaxCounters + 1, removeCategory(i) \/ removeRouting(i) \/ OpenModal(i)
      PROVE  PagesInv'
    BY <1>6, RemoveCategoryStep, RemoveRoutingStep, ModalsStep
<1>7. CASE addCategory \/ addRouting
    BY <1>7, AddCategoryStep, AddRoutingStep
<1>8. ASSUME NEW code \in Numbering \cup {0}, Toggle(code) PROVE PagesInv'
    BY <1>8, ModalsStep DEF Marked
<1>9. CASE updateRouting \/ CloseModal
    BY <1>9, UpdateRoutingStep, ModalsStep
<1>10. CASE SavePanel \/ SaveField
    BY <1>10, SavePanelStep, SaveFieldStep
<1>11. ASSUME NEW put \in puts,
              \/ ServerSaves(put) \/ SaveAnswered(put) \/ SaveLost(put)
              \/ ServerRereads(put) \/ Rereads(put) \/ RereadFails(put)
       PROVE  PagesInv'
    BY <1>11, ServerSavesStep, SaveAnsweredStep, SaveFailsStep, ServerRereadsStep, RereadsStep
<1> QED
    BY <1>1, <1>2, <1>3, <1>4, <1>5, <1>6, <1>7, <1>8, <1>9, <1>10, <1>11 DEF PagesNext

LEMMA PagesStay == ASSUME PagesInv, UNCHANGED pagesVars PROVE PagesInv'
<1>1. /\ doc' = doc /\ categoryIds' = categoryIds /\ snapshot' = snapshot /\ page' = page
      /\ generation' = generation /\ reads' = reads /\ panel' = panel /\ modal' = modal
      /\ fieldDraft' = fieldDraft /\ faults' = faults /\ calm' = calm /\ puts' = puts
      /\ intended' = intended /\ everStored' = everStored /\ dropped' = dropped
    BY DEF pagesVars
<1>2. ShapeOK /\ CopyOK /\ CalmOK
    BY DEF PagesInv
<1>3. CountsOK' /\ DocsOK' /\ ReadsOK' /\ PanelOK' /\ FocusOK' /\ PutsOK'
    BY <1>1, <1>2
    DEF ShapeOK, CountsOK, DocsOK, ReadsOK, ReadOK, PanelOK, DraftOfPanel, FocusOK, PutsOK, PutOK
<1>4. CopyOK'
    BY <1>1, <1>2
    DEF CopyOK, NumbersDiffer, FirstReadOK, RefreshesOK, Fresh, Latest, Shared, Unsettled
<1>5. CalmOK'
    BY <1>1, <1>2 DEF CalmOK, CalmStore, CalmPanel, CalmPuts, Agrees, Unsettled
<1> QED BY <1>3, <1>4, <1>5 DEF PagesInv, ShapeOK

LEMMA PagesSurvive == PagesInv => SettingsSurvive /\ CategoriesSurvive
<1> SUFFICES ASSUME PagesInv PROVE SettingsSurvive /\ CategoriesSurvive
    OBVIOUS
<1>1. ShapeOK /\ CopyOK /\ CalmOK
    BY DEF PagesInv
<1>2. PagesTypeOK
  <2>1. DocOK(doc, categoryIds)
      BY <1>1 DEF ShapeOK, DocsOK
  <2>2. doc.fields \in [Fields -> Values]
      BY <2>1 DEF DocOK
  <2>3. \A category \in doc.categories : category.id \in 1 .. categoryIds /\ category.code \in Numbering
      BY <2>1 DEF DocOK
  <2>4. UNION {doc.rules[counter] : counter \in DOMAIN doc.rules} \subseteq Known(doc)
      BY <2>1 DEF DocOK
  <2>5. panel.status \in {"loading", "ready", "error"}
      BY <1>1, PanelStates DEF ShapeOK, PanelOK, DraftOfPanel
  <2>6. /\ page \in Pages \cup {"dashboard"} /\ fieldDraft \in Values \cup {Nothing}
        /\ \A put \in puts : put.phase \in {"put", "refused", "stored", "reread", "refresh"}
      BY <1>1 DEF ShapeOK, FocusOK, PutsOK, PutOK, Pages
  <2> QED BY <2>2, <2>3, <2>4, <2>5, <2>6 DEF PagesTypeOK
<1>3. NothingIsReverted /\ IdsSurvive
    BY <1>1 DEF CalmOK, CalmStore, NothingIsReverted, IdsSurvive
<1>4. QuietSnapshotIsCurrent
    BY <1>1 DEF CopyOK, Fresh, QuietSnapshotIsCurrent
<1>5. OnlyStaleCodesAreRefused
    BY <1>1 DEF ShapeOK, PutsOK, PutOK, Excusable, OnlyStaleCodesAreRefused
<1> QED BY <1>2, <1>3, <1>4, <1>5 DEF SettingsSurvive, CategoriesSurvive

(* The configuration pages, whatever the order in which the server and the *)
(* browser take their turns: a save puts back no setting of another page   *)
(* and mints no new id for a category that has one, the shared copy ends   *)
(* as the stored document, and what the form lets through is accepted but  *)
(* for a counter too many, an empty one, or a code that no row has.        *)
THEOREM SettingsAndIdsSurvive == AdminSpec => []DocumentSurvives
<1>1. AdminInit => PagesInv
    BY PagesBegin DEF AdminInit
<1>2. PagesInv /\ [AdminNext]_adminVars => PagesInv'
  <2> SUFFICES ASSUME PagesInv, [AdminNext]_adminVars PROVE PagesInv'
      OBVIOUS
  <2>1. PagesNext \/ UNCHANGED pagesVars
      BY DEF AdminNext, adminVars
  <2> QED BY <2>1, PagesStep, PagesStay
<1>3. PagesInv => DocumentSurvives
    BY PagesSurvive DEF DocumentSurvives
<1> QED BY <1>1, <1>2, <1>3, PTL DEF AdminSpec

-----------------------------------------------------------------------------
(* The editor of the flow.  What a form is: everything keyed by a status   *)
(* is keyed by one of its own, and the default mode has the default graph. *)
FlowEdge ==
    [from : StatusNames, to : StatusNames, named : BOOLEAN, policy : Policies,
     route : {"absent", "plain", "corner"}]

IsFlowForm(f) ==
    /\ f \in [mode : {"default", "custom"}, states : Seq(StatusNames), transitions : Seq(FlowEdge),
              positions : {f.positions}, nodeActions : {f.nodeActions},
              descriptions : SUBSET StatusNames, marks : [Marks -> MarkStates],
              sources : [Marks -> SUBSET StatusNames]]
    /\ ByStatus(f.positions, Spots) /\ ByStatus(f.nodeActions, Seq(StatusNames))

EndsAmong(transitions, names) ==
    \A i \in DOMAIN transitions : transitions[i].from \in names /\ transitions[i].to \in names

Anchored(f) ==
    /\ EndsAmong(f.transitions, Names(f.states))
    /\ DOMAIN f.positions \subseteq Names(f.states)
    /\ DOMAIN f.nodeActions \subseteq Names(f.states)
    /\ f.descriptions \subseteq Names(f.states)
    /\ \A k \in Marks : f.sources[k] \subseteq Names(f.states)

FlowFormOK(f) == IsFlowForm(f) /\ Anchored(f) /\ (f.mode = "default" => IsDefaultGraph(f))

(* On the canvas no name is another's, and the actions lead to statuses.   *)
NoTwins(seq) == \A i, j \in DOMAIN seq : seq[i] = seq[j] => i = j
PairsDiffer(links) ==
    \A i, j \in DOMAIN links : links[i].from = links[j].from /\ links[i].to = links[j].to => i = j
ActionsAlive(f) ==
    \A s \in DOMAIN f.nodeActions : \A i \in DOMAIN f.nodeActions[s] :
        f.nodeActions[s][i] \in Names(f.states)

Drawable(f) == FlowFormOK(f) /\ NoTwins(f.states) /\ PairsDiffer(f.transitions) /\ ActionsAlive(f)

(* What is on the canvas: the ids of the links that were built from a form *)
(* name their ends, the others were counted up to minted.                  *)
FlowNode == [name : StatusNames, at : Spots]
LinkId(m) ==
    [from : StatusNames, to : StatusNames, n : Nat]
        \cup {id \in [from : {"sm-edge"}, to : {"sm-edge"}, n : Nat] : id.n < m}
FlowLink(m) ==
    [id : LinkId(m), from : StatusNames, to : StatusNames, named : BOOLEAN, policy : Policies,
     route : {"plain", "corner"}]

Fits(nodes, links, m) ==
    /\ nodes \in Seq(FlowNode) /\ links \in Seq(FlowLink(m))
    /\ \A i, j \in DOMAIN nodes : nodes[i].name = nodes[j].name => i = j
    /\ \A i, j \in DOMAIN links : links[i].id = links[j].id => i = j
    /\ PairsDiffer(links)
    /\ EndsAmong(links, {nodes[i].name : i \in DOMAIN nodes})

-----------------------------------------------------------------------------
LEMMA UniqueIs ==
    ASSUME NEW S, NEW seq \in Seq(S)
    PROVE  Unique(seq) <=> NoTwins(seq)
<1> DEFINE T == ToSet(seq)
<1>1. Len(seq) \in Nat /\ seq \in [1 .. Len(seq) -> S]
    OBVIOUS
<1>2. seq \in Surjection(1 .. Len(seq), T)
    BY <1>1 DEF Surjection, ToSet
<1>3. IsFiniteSet(1 .. Len(seq)) /\ Cardinality(1 .. Len(seq)) = Len(seq)
  <2>1. 1 \in Int /\ Len(seq) \in Int
      BY <1>1
  <2>2. /\ IsFiniteSet(1 .. Len(seq))
        /\ Cardinality(1 .. Len(seq)) = IF 1 > Len(seq) THEN 0 ELSE Len(seq) - 1 + 1
      BY <2>1, FS_Interval, Zenon
  <2> QED BY <1>1, <2>2
<1>4. Cardinality(T) = Cardinality(1 .. Len(seq)) <=> seq \in Injection(1 .. Len(seq), T)
    BY <1>2, <1>3, FS_Surjection, Zenon
<1>5. seq \in Injection(1 .. Len(seq), T) <=> NoTwins(seq)
    BY <1>1, <1>2 DEF Injection, Surjection, IsInjective, NoTwins
<1> QED BY <1>3, <1>4, <1>5 DEF Unique

LEMMA PairsUnique ==
    ASSUME NEW transitions \in Seq(FlowEdge)
    PROVE  Unique(Pairs(transitions)) <=> PairsDiffer(transitions)
<1>1. ASSUME NEW i \in DOMAIN transitions
      PROVE  transitions[i].from \in StatusNames /\ transitions[i].to \in StatusNames
  <2>1. transitions[i] \in FlowEdge
      OBVIOUS
  <2> QED BY <2>1 DEF FlowEdge
<1>2. /\ Pairs(transitions) \in Seq(StatusNames \X StatusNames)
      /\ DOMAIN Pairs(transitions) = DOMAIN transitions
    BY <1>1 DEF Pairs
<1>3. Unique(Pairs(transitions)) <=> NoTwins(Pairs(transitions))
    BY <1>2, UniqueIs
<1>4. \A i \in DOMAIN transitions : Pairs(transitions)[i] = <<transitions[i].from, transitions[i].to>>
    BY DEF Pairs
<1>5. NoTwins(Pairs(transitions)) <=> PairsDiffer(transitions)
  <2> HIDE DEF Pairs
  <2>1. \A i, j \in DOMAIN transitions :
            Pairs(transitions)[i] = Pairs(transitions)[j]
                <=> transitions[i].from = transitions[j].from /\ transitions[i].to = transitions[j].to
      BY <1>4
  <2> QED BY <1>2, <2>1 DEF NoTwins, PairsDiffer
<1> QED BY <1>3, <1>5

LEMMA FlowFormTypes ==
    ASSUME NEW f, IsFlowForm(f)
    PROVE  /\ f.mode \in {"default", "custom"} /\ f.states \in Seq(StatusNames)
           /\ f.transitions \in Seq(FlowEdge) /\ f.descriptions \subseteq StatusNames
           /\ f.marks \in [Marks -> MarkStates] /\ f.sources \in [Marks -> SUBSET StatusNames]
           /\ DOMAIN f.states = 1 .. Len(f.states) /\ Len(f.states) \in Nat
           /\ DOMAIN f.transitions = 1 .. Len(f.transitions) /\ Len(f.transitions) \in Nat
           /\ \A i \in DOMAIN f.states : f.states[i] \in StatusNames /\ f.states[i] \in Names(f.states)
           /\ f = [mode |-> f.mode, states |-> f.states, transitions |-> f.transitions,
                   positions |-> f.positions, nodeActions |-> f.nodeActions,
                   descriptions |-> f.descriptions, marks |-> f.marks, sources |-> f.sources]
<1>1. /\ f.mode \in {"default", "custom"} /\ f.states \in Seq(StatusNames)
      /\ f.transitions \in Seq(FlowEdge) /\ f.descriptions \subseteq StatusNames
      /\ f.marks \in [Marks -> MarkStates] /\ f.sources \in [Marks -> SUBSET StatusNames]
      /\ f = [mode |-> f.mode, states |-> f.states, transitions |-> f.transitions,
              positions |-> f.positions, nodeActions |-> f.nodeActions,
              descriptions |-> f.descriptions, marks |-> f.marks, sources |-> f.sources]
    BY DEF IsFlowForm
<1>2. \A i \in DOMAIN f.states : f.states[i] \in StatusNames /\ f.states[i] \in Names(f.states)
    BY <1>1 DEF Names, ToSet
<1> QED BY <1>1, <1>2

LEMMA FlowEdgeTypes ==
    ASSUME NEW t \in FlowEdge
    PROVE  /\ t.from \in StatusNames /\ t.to \in StatusNames /\ t.named \in BOOLEAN
           /\ t.policy \in Policies /\ t.route \in {"absent", "plain", "corner"}
           /\ Drawn(t) \in {"plain", "corner"} /\ Side(t) \in {"plain", "corner"}
           /\ t.from # t.to => Drawn(t) = Side(t)
<1>1. /\ t.from \in StatusNames /\ t.to \in StatusNames /\ t.named \in BOOLEAN
      /\ t.policy \in Policies /\ t.route \in {"absent", "plain", "corner"}
    BY DEF FlowEdge
<1> QED BY <1>1 DEF Drawn, Side, DefaultRoute

(* What is drawn of a form shows it and fits.                              *)
LEMMA FlowDrawn ==
    ASSUME NEW f, Drawable(f), NEW old \in Seq(FlowNode), NEW m \in Nat,
           NEW drawn, drawn = FormToFlow(f, old)
    PROVE  Fits(drawn.nodes, drawn.links, m) /\ Shows(drawn, f)
<1>1. /\ drawn.nodes = [i \in DOMAIN f.states |->
                           [name |-> f.states[i], at |-> PlaceOf(f, old, f.states[i])]]
      /\ drawn.links = [i \in DOMAIN f.transitions |->
                           LinkOf(IndexId(f.transitions[i], i), f.transitions[i])]
      /\ drawn.marks = MarkersOf(f) /\ drawn.arrows = ArrowsOf(f)
    BY DEF FormToFlow
<1>2. /\ IsFlowForm(f) /\ NoTwins(f.states) /\ PairsDiffer(f.transitions)
      /\ EndsAmong(f.transitions, Names(f.states)) /\ ByStatus(f.positions, Spots)
    BY DEF Drawable, FlowFormOK, Anchored, IsFlowForm
<1>3. /\ f.states \in Seq(StatusNames) /\ f.transitions \in Seq(FlowEdge)
      /\ DOMAIN f.states = 1 .. Len(f.states) /\ Len(f.states) \in Nat
      /\ DOMAIN f.transitions = 1 .. Len(f.transitions) /\ Len(f.transitions) \in Nat
      /\ \A i \in DOMAIN f.states : f.states[i] \in StatusNames /\ f.states[i] \in Names(f.states)
    BY <1>2, FlowFormTypes
<1>4. ASSUME NEW name PROVE PlaceOf(f, old, name) \in Spots
  <2>1. CASE name \in DOMAIN f.positions
      BY <1>2, <2>1 DEF ByStatus, PlaceOf
  <2>2. CASE name \notin DOMAIN f.positions /\ \E n \in ToSet(old) : n.name = name
    <3>1. ToSet(old) \subseteq FlowNode
        BY DEF ToSet
    <3>2. (CHOOSE n \in ToSet(old) : n.name = name) \in FlowNode
        BY <2>2, <3>1
    <3>3. (CHOOSE n \in ToSet(old) : n.name = name).at \in Spots
        BY <3>2 DEF FlowNode
    <3> QED BY <2>2, <3>3 DEF PlaceOf
  <2>3. CASE name \notin DOMAIN f.positions /\ ~\E n \in ToSet(old) : n.name = name
      BY <2>3 DEF PlaceOf, Spots
  <2> QED BY <2>1, <2>2, <2>3
<1>5. /\ DOMAIN drawn.nodes = 1 .. Len(f.states) /\ drawn.nodes \in Seq(FlowNode)
      /\ \A i \in 1 .. Len(f.states) :
            drawn.nodes[i].name = f.states[i] /\ drawn.nodes[i].at = PlaceOf(f, old, f.states[i])
  <2>1. \A i \in 1 .. Len(f.states) :
            [name |-> f.states[i], at |-> PlaceOf(f, old, f.states[i])] \in FlowNode
      BY <1>3, <1>4 DEF FlowNode
  <2> QED BY <1>1, <1>3, <2>1
<1>6. ASSUME NEW i \in 1 .. Len(f.transitions)
      PROVE  /\ drawn.links[i].id = IndexId(f.transitions[i], i)
             /\ drawn.links[i].from = f.transitions[i].from /\ drawn.links[i].to = f.transitions[i].to
             /\ drawn.links[i].named = f.transitions[i].named
             /\ drawn.links[i].policy = f.transitions[i].policy
             /\ drawn.links[i].route = Drawn(f.transitions[i])
             /\ drawn.links[i] \in FlowLink(m)
  <2> DEFINE t == f.transitions[i]
  <2>1. t \in FlowEdge
      BY <1>3
  <2>2. drawn.links[i] = LinkOf(IndexId(t, i), t)
      BY <1>1, <1>3
  <2>3. /\ t.from \in StatusNames /\ t.to \in StatusNames /\ t.named \in BOOLEAN
        /\ t.policy \in Policies /\ Drawn(t) \in {"plain", "corner"}
      BY <2>1, FlowEdgeTypes
  <2>4. i \in Nat
      BY <1>3
  <2> HIDE DEF t
  <2>5. IndexId(t, i) \in LinkId(m)
      BY <2>3, <2>4 DEF IndexId, LinkId
  <2>6. LinkOf(IndexId(t, i), t) \in FlowLink(m)
      BY <2>3, <2>5 DEF LinkOf, FlowLink
  <2>7. /\ LinkOf(IndexId(t, i), t).id = IndexId(t, i)
        /\ LinkOf(IndexId(t, i), t).from = t.from /\ LinkOf(IndexId(t, i), t).to = t.to
        /\ LinkOf(IndexId(t, i), t).named = t.named /\ LinkOf(IndexId(t, i), t).policy = t.policy
        /\ LinkOf(IndexId(t, i), t).route = Drawn(t)
      BY DEF LinkOf
  <2> QED BY <2>2, <2>6, <2>7 DEF t
<1>7. DOMAIN drawn.links = 1 .. Len(f.transitions) /\ drawn.links \in Seq(FlowLink(m))
  <2>1. DOMAIN drawn.links = 1 .. Len(f.transitions)
      BY <1>1, <1>3
  <2>2. \A i \in 1 .. Len(f.transitions) : drawn.links[i] \in FlowLink(m)
      BY <1>6
  <2>3. drawn.links = [i \in 1 .. Len(f.transitions) |-> drawn.links[i]]
      BY <1>1, <1>3
  <2> QED BY <1>3, <2>1, <2>2, <2>3
<1>8. Fits(drawn.nodes, drawn.links, m)
  <2>1. \A i, j \in 1 .. Len(f.states) : drawn.nodes[i].name = drawn.nodes[j].name => i = j
      BY <1>2, <1>3, <1>5 DEF NoTwins
  <2>2. \A i, j \in 1 .. Len(f.transitions) : drawn.links[i].id = drawn.links[j].id => i = j
    <3>1. ASSUME NEW i \in 1 .. Len(f.transitions) PROVE drawn.links[i].id.n = i
      <4>1. drawn.links[i].id = IndexId(f.transitions[i], i)
          BY <1>6
      <4>2. IndexId(f.transitions[i], i).n = i
          BY DEF IndexId
      <4> QED BY <4>1, <4>2
    <3> QED BY <3>1
  <2>3. PairsDiffer(drawn.links)
      BY <1>2, <1>3, <1>6, <1>7 DEF PairsDiffer
  <2>4. Names(f.states) = {drawn.nodes[i].name : i \in DOMAIN drawn.nodes}
      BY <1>3, <1>5 DEF Names, ToSet
  <2>5. EndsAmong(drawn.links, {drawn.nodes[i].name : i \in DOMAIN drawn.nodes})
      BY <1>2, <1>3, <1>6, <1>7, <2>4 DEF EndsAmong
  <2> QED BY <1>5, <1>7, <2>1, <2>2, <2>3, <2>5 DEF Fits
<1>9. Shows(drawn, f)
  <2>1. [i \in DOMAIN drawn.nodes |-> drawn.nodes[i].name] = f.states
    <3>1. f.states = [i \in 1 .. Len(f.states) |-> f.states[i]]
        BY <1>3
    <3> QED BY <1>5, <3>1
  <2>2. \A i \in DOMAIN drawn.nodes :
            f.states[i] \in DOMAIN f.positions => drawn.nodes[i].at = f.positions[f.states[i]]
      BY <1>5 DEF PlaceOf
  <2>3. Len(drawn.links) = Len(f.transitions)
      BY <1>3, <1>7
  <2>4. \A i \in DOMAIN drawn.links :
            /\ Wired(drawn.links[i]) = Wired(f.transitions[i])
            /\ drawn.links[i].route = Drawn(f.transitions[i])
      BY <1>6, <1>7 DEF Wired
  <2> QED BY <1>1, <2>1, <2>2, <2>3, <2>4 DEF Shows
<1> QED BY <1>8, <1>9

(* A canvas that shows a form shows every other with its signature.        *)
LEMMA SignatureDecides ==
    ASSUME NEW f, FlowFormOK(f), NEW g, FlowFormOK(g), Signature(f) = Signature(g),
           NEW drawn, Shows(drawn, f), DOMAIN drawn.links = 1 .. Len(drawn.links)
    PROVE  Shows(drawn, g)
<1>1. /\ f.states = g.states /\ Routes(f.transitions) = Routes(g.transitions)
      /\ f.positions = g.positions /\ f.marks = g.marks /\ f.sources = g.sources
  <2>1. /\ Signature(f).s = Signature(g).s /\ Signature(f).t = Signature(g).t
        /\ Signature(f).p = Signature(g).p /\ Signature(f).tn = Signature(g).tn
        /\ Signature(f).e = Signature(g).e
      OBVIOUS
  <2> QED BY <2>1 DEF Signature
<1>2. /\ f.transitions \in Seq(FlowEdge) /\ g.transitions \in Seq(FlowEdge)
      /\ DOMAIN f.transitions = 1 .. Len(f.transitions) /\ Len(f.transitions) \in Nat
      /\ DOMAIN g.transitions = 1 .. Len(g.transitions) /\ Len(g.transitions) \in Nat
    BY FlowFormTypes DEF FlowFormOK
<1>3. Len(f.transitions) = Len(g.transitions)
  <2>1. DOMAIN Routes(f.transitions) = DOMAIN f.transitions /\ DOMAIN Routes(g.transitions) = DOMAIN g.transitions
      BY DEF Routes
  <2> QED BY <1>1, <1>2, <2>1
<1>4. ASSUME NEW i \in 1 .. Len(f.transitions)
      PROVE  /\ Wired(f.transitions[i]) = Wired(g.transitions[i])
             /\ Side(f.transitions[i]) = Side(g.transitions[i])
             /\ f.transitions[i].from = g.transitions[i].from
             /\ f.transitions[i].to = g.transitions[i].to
  <2> DEFINE t == f.transitions[i]
             u == g.transitions[i]
  <2>1. Routed(t, Side(t)) = Routed(u, Side(u))
    <3>1. Routes(f.transitions)[i] = Routed(t, Side(t)) /\ Routes(g.transitions)[i] = Routed(u, Side(u))
        BY <1>2, <1>3 DEF Routes
    <3> QED BY <1>1, <3>1
  <2> HIDE DEF t, u
  <2>2. t.from = u.from /\ t.to = u.to /\ t.named = u.named /\ t.policy = u.policy /\ Side(t) = Side(u)
    <3>1. /\ Routed(t, Side(t)).from = Routed(u, Side(u)).from
          /\ Routed(t, Side(t)).to = Routed(u, Side(u)).to
          /\ Routed(t, Side(t)).named = Routed(u, Side(u)).named
          /\ Routed(t, Side(t)).policy = Routed(u, Side(u)).policy
          /\ Routed(t, Side(t)).route = Routed(u, Side(u)).route
        BY <2>1
    <3> HIDE DEF Side
    <3> QED BY <3>1 DEF Routed
  <2> QED BY <2>2 DEF Wired, t, u
<1>5. ASSUME NEW i \in DOMAIN drawn.links, drawn.links[i].from # drawn.links[i].to
      PROVE  drawn.links[i].route = Drawn(g.transitions[i])
  <2>1. i \in 1 .. Len(f.transitions)
      BY DEF Shows
  <2>2. f.transitions[i] \in FlowEdge /\ g.transitions[i] \in FlowEdge
      BY <1>2, <1>3, <2>1
  <2>3. Wired(drawn.links[i]) = Wired(f.transitions[i])
      BY DEF Shows
  <2>4. f.transitions[i].from # f.transitions[i].to
    <3>1. /\ Wired(drawn.links[i]).from = drawn.links[i].from /\ Wired(drawn.links[i]).to = drawn.links[i].to
          /\ Wired(f.transitions[i]).from = f.transitions[i].from
          /\ Wired(f.transitions[i]).to = f.transitions[i].to
        BY DEF Wired
    <3> QED BY <1>5, <2>3, <3>1
  <2>5. Drawn(f.transitions[i]) = Side(f.transitions[i]) /\ Drawn(g.transitions[i]) = Side(g.transitions[i])
      BY <1>4, <2>1, <2>2, <2>4, FlowEdgeTypes
  <2>6. drawn.links[i].route = Drawn(f.transitions[i])
      BY <1>5 DEF Shows
  <2> QED BY <1>4, <2>1, <2>5, <2>6
<1>6. MarkersOf(f) = MarkersOf(g) /\ ArrowsOf(f) = ArrowsOf(g)
    BY <1>1 DEF MarkersOf, ArrowsOf, Linked
<1>7. \A i \in DOMAIN drawn.links : Wired(drawn.links[i]) = Wired(g.transitions[i])
  <2>1. \A i \in DOMAIN drawn.links : i \in 1 .. Len(f.transitions) /\ Wired(drawn.links[i]) = Wired(f.transitions[i])
      BY DEF Shows
  <2> QED BY <1>4, <2>1
<1> QED BY <1>1, <1>3, <1>5, <1>6, <1>7 DEF Shows

-----------------------------------------------------------------------------
(* What the core API stores is a document that can be drawn.               *)
FlowDocOK(d) ==
    /\ IsDocument(d) /\ Anchored(d) /\ ActionsAlive(d)
    /\ NoTwins(d.states) /\ PairsDiffer(d.transitions)

LEMMA FlowDocTypes ==
    ASSUME NEW d, IsDocument(d)
    PROVE  /\ d.states \in Seq(StatusNames) /\ d.transitions \in Seq(Rule)
           /\ d.descriptions \subseteq StatusNames /\ d.marks \in [Marks -> MarkStates]
           /\ d.sources \in [Marks -> SUBSET StatusNames]
           /\ ByStatus(d.positions, Spots) /\ ByStatus(d.nodeActions, Seq(StatusNames))
           /\ d = [states |-> d.states, transitions |-> d.transitions, descriptions |-> d.descriptions,
                   layout |-> d.layout, positions |-> d.positions, nodeActions |-> d.nodeActions,
                   marks |-> d.marks, sources |-> d.sources]
BY DEF IsDocument

LEMMA RuleTypes ==
    ASSUME NEW t \in Rule, NEW route \in {"absent", "plain", "corner"}
    PROVE  /\ t.from \in StatusNames /\ t.to \in StatusNames
           /\ Routed(t, route) \in FlowEdge
           /\ Routed(t, route).from = t.from /\ Routed(t, route).to = t.to
           /\ Routed(t, route).named = t.named /\ Routed(t, route).policy = t.policy
           /\ Routed(t, route).route = route
           /\ Wired(Routed(t, route)) = Wired(t)
<1>1. t.from \in StatusNames /\ t.to \in StatusNames /\ t.named \in BOOLEAN /\ t.policy \in Policies
    BY DEF Rule
<1>2. Routed(t, route) \in FlowEdge
    BY <1>1 DEF Routed, FlowEdge
<1>3. /\ Routed(t, route).from = t.from /\ Routed(t, route).to = t.to
      /\ Routed(t, route).named = t.named /\ Routed(t, route).policy = t.policy
      /\ Routed(t, route).route = route
    BY DEF Routed
<1>4. Wired(Routed(t, route)) = Wired(t)
    BY <1>3 DEF Wired
<1> QED BY <1>1, <1>2, <1>3, <1>4

(* A form is drawn or not by all but its mode.                             *)
LEMMA ModeIsNotDrawn ==
    ASSUME NEW f, IsFlowForm(f), Anchored(f), NoTwins(f.states), PairsDiffer(f.transitions),
           ActionsAlive(f), NEW mode \in {"default", "custom"}, mode = "default" => IsDefaultGraph(f),
           NEW g, g = [f EXCEPT !.mode = mode]
    PROVE  Drawable(g) /\ g.mode = mode
<1>1. f = [mode |-> f.mode, states |-> f.states, transitions |-> f.transitions,
           positions |-> f.positions, nodeActions |-> f.nodeActions,
           descriptions |-> f.descriptions, marks |-> f.marks, sources |-> f.sources]
    BY FlowFormTypes
<1>2. /\ g.mode = mode /\ g.states = f.states /\ g.transitions = f.transitions
      /\ g.positions = f.positions /\ g.nodeActions = f.nodeActions
      /\ g.descriptions = f.descriptions /\ g.marks = f.marks /\ g.sources = f.sources
      /\ g = [mode |-> g.mode, states |-> g.states, transitions |-> g.transitions,
              positions |-> g.positions, nodeActions |-> g.nodeActions,
              descriptions |-> g.descriptions, marks |-> g.marks, sources |-> g.sources]
    BY <1>1
<1>3. IsFlowForm(g)
    BY <1>2 DEF IsFlowForm
<1>4. Anchored(g) /\ ActionsAlive(g) /\ (IsDefaultGraph(f) => IsDefaultGraph(g))
    BY <1>2 DEF Anchored, ActionsAlive, IsDefaultGraph
<1> QED BY <1>2, <1>3, <1>4 DEF Drawable, FlowFormOK

LEMMA ToFormDrawn ==
    ASSUME NEW d, FlowDocOK(d)
    PROVE  Drawable(ToForm(d))
<1> DEFINE f == [mode |-> "custom", states |-> d.states, transitions |-> Merged(d),
                 positions |-> d.positions, nodeActions |-> d.nodeActions,
                 descriptions |-> d.descriptions, marks |-> d.marks, sources |-> d.sources]
<1>1. /\ d.states \in Seq(StatusNames) /\ d.transitions \in Seq(Rule)
      /\ d.descriptions \subseteq StatusNames /\ d.marks \in [Marks -> MarkStates]
      /\ d.sources \in [Marks -> SUBSET StatusNames]
      /\ ByStatus(d.positions, Spots) /\ ByStatus(d.nodeActions, Seq(StatusNames))
      /\ Anchored(d) /\ ActionsAlive(d) /\ NoTwins(d.states) /\ PairsDiffer(d.transitions)
    BY FlowDocTypes DEF FlowDocOK
<1>2. DOMAIN d.transitions = 1 .. Len(d.transitions) /\ Len(d.transitions) \in Nat
    BY <1>1
<1>3. ASSUME NEW i \in 1 .. Len(d.transitions)
      PROVE  /\ Merged(d)[i] \in FlowEdge
             /\ Merged(d)[i].from = d.transitions[i].from /\ Merged(d)[i].to = d.transitions[i].to
  <2>1. d.transitions[i] \in Rule
      BY <1>1, <1>2
  <2>2. SidesOf(d.layout, d.transitions[i]) \in {"absent", "plain", "corner"}
      BY DEF SidesOf
  <2>3. Merged(d)[i] = Routed(d.transitions[i], SidesOf(d.layout, d.transitions[i]))
      BY <1>2 DEF Merged
  <2> QED BY <2>1, <2>2, <2>3, RuleTypes
<1>4. DOMAIN Merged(d) = 1 .. Len(d.transitions)
    BY <1>2 DEF Merged
<1>5. Merged(d) \in Seq(FlowEdge)
  <2>1. Merged(d) = [i \in 1 .. Len(d.transitions) |-> Merged(d)[i]]
      BY <1>2 DEF Merged
  <2> QED BY <1>2, <1>3, <2>1
<1>6. /\ f.mode = "custom" /\ f.states = d.states /\ f.transitions = Merged(d)
      /\ f.positions = d.positions /\ f.nodeActions = d.nodeActions
      /\ f.descriptions = d.descriptions /\ f.marks = d.marks /\ f.sources = d.sources
    OBVIOUS
<1>7. IsFlowForm(f)
    BY <1>1, <1>5 DEF IsFlowForm
<1>8. ToForm(d) = IF IsDefaultGraph(f) THEN [f EXCEPT !.mode = "default"] ELSE f
    BY DEF ToForm
<1> HIDE DEF f
<1>9. Anchored(f) /\ ActionsAlive(f) /\ NoTwins(f.states) /\ PairsDiffer(f.transitions)
  <2>1. EndsAmong(Merged(d), Names(d.states)) /\ PairsDiffer(Merged(d))
      BY <1>1, <1>2, <1>3, <1>4 DEF EndsAmong, PairsDiffer, Anchored
  <2> QED BY <1>1, <1>6, <2>1 DEF Anchored, ActionsAlive
<1>10. CASE IsDefaultGraph(f)
  <2>1. PICK g : g = [f EXCEPT !.mode = "default"]
      OBVIOUS
  <2>2. Drawable(g)
      BY <1>7, <1>9, <1>10, <2>1, ModeIsNotDrawn
  <2> QED BY <1>8, <1>10, <2>1, <2>2
<1>11. CASE ~IsDefaultGraph(f)
    BY <1>6, <1>7, <1>8, <1>9, <1>11 DEF Drawable, FlowFormOK
<1> QED BY <1>10, <1>11

LEMMA DefaultDrawn == Drawable(DefaultForm) /\ DefaultForm.mode = "default"
<1> DEFINE ts == [i \in DOMAIN DefaultPairs |-> Bare(DefaultPairs[i])]
<1>1. /\ DefaultForm.mode = "default" /\ DefaultForm.states = DefaultStates
      /\ DefaultForm.transitions = ts /\ DefaultForm.positions = <<>>
      /\ DefaultForm.nodeActions = <<>> /\ DefaultForm.descriptions = {}
      /\ DefaultForm.marks = [k \in Marks |-> "auto"] /\ DefaultForm.sources = [k \in Marks |-> {}]
      /\ DefaultForm = [mode |-> "default", states |-> DefaultStates, transitions |-> ts,
                        positions |-> <<>>, nodeActions |-> <<>>, descriptions |-> {},
                        marks |-> [k \in Marks |-> "auto"], sources |-> [k \in Marks |-> {}]]
    BY DEF DefaultForm
<1>2. /\ DefaultStates \in Seq(StatusNames) /\ DefaultPairs \in Seq(StatusNames \X StatusNames)
      /\ WellFormed(DefaultStates, ts)
    BY <1>1, EditorAssumption
<1>3. DOMAIN DefaultPairs = 1 .. Len(DefaultPairs) /\ Len(DefaultPairs) \in Nat
    BY <1>2
<1>4. ASSUME NEW i \in 1 .. Len(DefaultPairs)
      PROVE  /\ ts[i] \in FlowEdge /\ ts[i].from = DefaultPairs[i][1] /\ ts[i].to = DefaultPairs[i][2]
             /\ ts[i].named = TRUE /\ ts[i].policy = "KEEP" /\ ts[i].route = "absent"
             /\ <<ts[i].from, ts[i].to>> = DefaultPairs[i]
  <2>1. DefaultPairs[i] \in StatusNames \X StatusNames
      BY <1>2, <1>3
  <2>2. /\ ts[i].from = DefaultPairs[i][1] /\ ts[i].to = DefaultPairs[i][2]
        /\ ts[i].named = TRUE /\ ts[i].policy = "KEEP" /\ ts[i].route = "absent"
      BY <1>3 DEF Bare
  <2>3. ts[i] \in FlowEdge
      BY <1>3, <2>1 DEF Bare, FlowEdge, Policies
  <2>4. <<ts[i].from, ts[i].to>> = DefaultPairs[i]
      BY <2>1, <2>2
  <2> QED BY <2>2, <2>3, <2>4
<1>5. ts \in Seq(FlowEdge) /\ DOMAIN ts = 1 .. Len(DefaultPairs)
  <2>1. ts = [i \in 1 .. Len(DefaultPairs) |-> ts[i]]
      BY <1>3
  <2>2. \A i \in 1 .. Len(DefaultPairs) : ts[i] \in FlowEdge
      BY <1>4
  <2> HIDE DEF ts
  <2> QED BY <1>3, <2>1, <2>2
<1> HIDE DEF ts
<1>6. IsFlowForm(DefaultForm)
  <2>1. ByStatus(<<>>, Spots) /\ ByStatus(<<>>, Seq(StatusNames))
      BY DEF ByStatus
  <2>2. [k \in Marks |-> "auto"] \in [Marks -> MarkStates]
      BY DEF MarkStates
  <2>3. [k \in Marks |-> {}] \in [Marks -> SUBSET StatusNames]
      OBVIOUS
  <2> QED BY <1>1, <1>2, <1>5, <2>1, <2>2, <2>3 DEF IsFlowForm
<1>7. NoTwins(DefaultStates) /\ PairsDiffer(ts)
  <2>1. Unique(DefaultStates) /\ Unique(Pairs(ts))
      BY <1>2, Zenon DEF WellFormed
  <2> QED BY <1>2, <1>5, <2>1, UniqueIs, PairsUnique
<1>8. EndsAmong(ts, Names(DefaultStates))
  <2>1. \A t \in ToSet(ts) : {t.from, t.to} \subseteq Names(DefaultStates)
      BY <1>2, Zenon DEF WellFormed
  <2> QED BY <2>1 DEF EndsAmong, ToSet
<1>9. Anchored(DefaultForm) /\ ActionsAlive(DefaultForm)
    BY <1>1, <1>8 DEF Anchored, ActionsAlive
<1>10. IsDefaultGraph(DefaultForm)
  <2>1. Pairs(ts) = DefaultPairs
    <3>1. DefaultPairs = [i \in 1 .. Len(DefaultPairs) |-> DefaultPairs[i]]
        BY <1>2
    <3> QED BY <1>4, <1>5, <3>1 DEF Pairs
  <2>2. \A t \in ToSet(ts) : t.named /\ t.policy = "KEEP" /\ Side(t) = "plain"
    <3>1. SUFFICES ASSUME NEW i \in 1 .. Len(DefaultPairs)
                   PROVE  ts[i].named /\ ts[i].policy = "KEEP" /\ Side(ts[i]) = "plain"
        BY <1>5, Zenon DEF ToSet
    <3>2. Side(ts[i]) = "plain"
        BY <1>4 DEF Side
    <3> QED BY <1>4, <3>2, Zenon
  <2>3. \A k \in Marks : DefaultForm.marks[k] = "auto" /\ DefaultForm.sources[k] = {}
      BY <1>1
  <2> QED BY <1>1, <2>1, <2>2, <2>3, Zenon DEF IsDefaultGraph
<1> QED BY <1>1, <1>6, <1>7, <1>9, <1>10 DEF Drawable, FlowFormOK

-----------------------------------------------------------------------------
(* What a commit captures of nodes and links that fit is a form that can   *)
(* be drawn, and they show it.                                             *)
CanvasWith(nodes, links, f) == [nodes |-> nodes, links |-> links, marks |-> MarkersOf(f), arrows |-> ArrowsOf(f)]

LEMMA CapturedDrawn ==
    ASSUME FlowFormOK(form), form.mode = "custom",
           NEW nodes, NEW links, NEW m \in Nat, Fits(nodes, links, m),
           NEW marks \in [Marks -> MarkStates \cup {"absent"}],
           NEW rename, rename.to \in StatusNames,
           NEW f, f = Captured(nodes, links, marks, rename)
    PROVE  /\ Drawable(f) /\ Shows(CanvasWith(nodes, links, f), f) /\ f.mode = "custom"
           /\ \A k \in Marks : f.marks[k] = Capture(marks[k], form.marks[k])
<1> DEFINE states == [i \in DOMAIN nodes |-> nodes[i].name]
           live == Names(states)
           ts == [i \in DOMAIN links |-> Routed(links[i], links[i].route)]
           r == Reconcile(form, live, rename)
           placed == [s \in live |-> (CHOOSE n \in ToSet(nodes) : n.name = s).at]
           stay == [k \in Marks |-> Capture(marks[k], form.marks[k])]
<1>1. /\ f.mode = form.mode /\ f.states = states /\ f.transitions = ts /\ f.positions = placed
      /\ f.nodeActions = r.nodeActions /\ f.descriptions = r.descriptions
      /\ f.marks = stay /\ f.sources = r.sources
      /\ f = [mode |-> f.mode, states |-> f.states, transitions |-> f.transitions,
              positions |-> f.positions, nodeActions |-> f.nodeActions,
              descriptions |-> f.descriptions, marks |-> f.marks, sources |-> f.sources]
    BY DEF Captured
<1>2. /\ nodes \in Seq(FlowNode) /\ links \in Seq(FlowLink(m))
      /\ \A i, j \in DOMAIN nodes : nodes[i].name = nodes[j].name => i = j
      /\ PairsDiffer(links) /\ EndsAmong(links, {nodes[i].name : i \in DOMAIN nodes})
      /\ DOMAIN nodes = 1 .. Len(nodes) /\ Len(nodes) \in Nat
      /\ DOMAIN links = 1 .. Len(links) /\ Len(links) \in Nat
    BY DEF Fits
<1>3. ASSUME NEW i \in 1 .. Len(nodes)
      PROVE  /\ nodes[i].name \in StatusNames /\ nodes[i].at \in Spots
             /\ states[i] = nodes[i].name /\ nodes[i].name \in live /\ nodes[i] \in ToSet(nodes)
  <2>1. nodes[i] \in FlowNode
      BY <1>2
  <2> QED BY <1>2, <2>1 DEF FlowNode, Names, ToSet
<1>4. /\ states \in Seq(StatusNames) /\ DOMAIN states = 1 .. Len(nodes)
      /\ live = {nodes[i].name : i \in DOMAIN nodes} /\ live \subseteq StatusNames
    BY <1>2, <1>3 DEF Names, ToSet
<1>5. ASSUME NEW i \in 1 .. Len(links)
      PROVE  /\ ts[i] \in FlowEdge /\ ts[i].from = links[i].from /\ ts[i].to = links[i].to
             /\ ts[i].route = links[i].route /\ links[i].route \in {"plain", "corner"}
             /\ Wired(ts[i]) = Wired(links[i])
  <2>1. links[i] \in FlowLink(m)
      BY <1>2
  <2>2. /\ links[i].from \in StatusNames /\ links[i].to \in StatusNames
        /\ links[i].named \in BOOLEAN /\ links[i].policy \in Policies
        /\ links[i].route \in {"plain", "corner"}
      BY <2>1 DEF FlowLink
  <2>3. ts[i] = Routed(links[i], links[i].route)
      BY <1>2
  <2>4. /\ Routed(links[i], links[i].route) \in FlowEdge
        /\ Routed(links[i], links[i].route).from = links[i].from
        /\ Routed(links[i], links[i].route).to = links[i].to
        /\ Routed(links[i], links[i].route).named = links[i].named
        /\ Routed(links[i], links[i].route).policy = links[i].policy
        /\ Routed(links[i], links[i].route).route = links[i].route
      BY <2>2 DEF Routed, FlowEdge
  <2> QED BY <2>2, <2>3, <2>4 DEF Wired
<1>6. ts \in Seq(FlowEdge) /\ DOMAIN ts = 1 .. Len(links) /\ Len(ts) = Len(links)
  <2>1. ts = [i \in 1 .. Len(links) |-> ts[i]]
      BY <1>2
  <2>2. \A i \in 1 .. Len(links) : ts[i] \in FlowEdge
      BY <1>5
  <2> HIDE DEF ts
  <2> QED BY <1>2, <2>1, <2>2
<1>7. ASSUME NEW i \in 1 .. Len(nodes) PROVE placed[nodes[i].name] = nodes[i].at
  <2> DEFINE n == CHOOSE n \in ToSet(nodes) : n.name = nodes[i].name
  <2>1. n \in ToSet(nodes) /\ n.name = nodes[i].name
      BY <1>3
  <2>2. PICK j \in 1 .. Len(nodes) : n = nodes[j]
      BY <1>2, <2>1 DEF ToSet
  <2>3. j = i
      BY <1>2, <2>1, <2>2
  <2> QED BY <1>3, <2>2, <2>3
<1>8. DOMAIN placed = live /\ \A s \in live : placed[s] \in Spots
  <2>1. ASSUME NEW s \in live PROVE placed[s] \in Spots
    <3>1. PICK i \in 1 .. Len(nodes) : s = nodes[i].name
        BY <1>2, <1>4
    <3> QED BY <1>3, <1>7, <3>1
  <2> QED BY <2>1
<1>9. /\ DOMAIN r.nodeActions \subseteq live
      /\ \A s \in DOMAIN r.nodeActions :
            r.nodeActions[s] \in Seq(StatusNames)
                /\ \A i \in DOMAIN r.nodeActions[s] : r.nodeActions[s][i] \in live
  <2> DEFINE owners == {s \in DOMAIN form.nodeActions : MapName(s, rename) \in live}
             Owner(s) == CHOOSE o \in owners : MapName(o, rename) = s
             Moved(s) == [i \in DOMAIN form.nodeActions[Owner(s)] |->
                             MapName(form.nodeActions[Owner(s)][i], rename)]
  <2>1. r.nodeActions = [s \in {MapName(o, rename) : o \in owners} |-> LiveValues(Moved(s), live)]
      BY DEF Reconcile
  <2>2. {MapName(o, rename) : o \in owners} \subseteq live
      OBVIOUS
  <2>3. ASSUME NEW s \in {MapName(o, rename) : o \in owners}
        PROVE  /\ LiveValues(Moved(s), live) \in Seq(StatusNames)
               /\ \A i \in DOMAIN LiveValues(Moved(s), live) : LiveValues(Moved(s), live)[i] \in live
    <3>1. Owner(s) \in DOMAIN form.nodeActions
        BY <2>3
    <3>2. form.nodeActions[Owner(s)] \in Seq(StatusNames)
        BY <3>1 DEF FlowFormOK, IsFlowForm, ByStatus
    <3> DEFINE was == form.nodeActions[Owner(s)]
    <3> HIDE DEF Owner
    <3>3. Moved(s) \in Seq(StatusNames)
      <4>1. was \in Seq(StatusNames) /\ DOMAIN was = 1 .. Len(was) /\ Len(was) \in Nat
          BY <3>2
      <4>2. \A i \in 1 .. Len(was) : MapName(was[i], rename) \in StatusNames
          BY <4>1 DEF MapName
      <4>3. Moved(s) = [i \in 1 .. Len(was) |-> MapName(was[i], rename)]
          BY <4>1
      <4> QED BY <4>1, <4>2, <4>3
    <3> HIDE DEF Moved
    <3>4. Kept(Moved(s), live) \in Seq(StatusNames \cap live)
        BY <3>3, KeptIsPart
    <3>5. Kept(Moved(s), live) \in Seq(StatusNames)
        BY <3>4
    <3>6. \A i \in DOMAIN Kept(Moved(s), live) : Kept(Moved(s), live)[i] \in live
        BY <3>4
    <3> HIDE DEF live
    <3> QED BY <3>5, <3>6 DEF LiveValues
  <2> HIDE DEF r, live, Moved
  <2> QED BY <2>1, <2>2, <2>3
<1>10. r.descriptions \subseteq live /\ r.sources \in [Marks -> SUBSET live]
    BY DEF Reconcile
<1>11. stay \in [Marks -> MarkStates]
  <2>1. form.marks \in [Marks -> MarkStates]
      BY FlowFormTypes DEF FlowFormOK
  <2> QED BY <2>1 DEF Capture
<1> HIDE DEF states, live, ts, r, placed, stay
<1>12. IsFlowForm(f)
  <2>1. ByStatus(placed, Spots)
      BY <1>4, <1>8 DEF ByStatus
  <2>2. ByStatus(r.nodeActions, Seq(StatusNames))
      BY <1>4, <1>9 DEF ByStatus
  <2>3. r.descriptions \subseteq StatusNames /\ r.sources \in [Marks -> SUBSET StatusNames]
      BY <1>4, <1>10
  <2> QED BY <1>1, <1>4, <1>6, <1>11, <2>1, <2>2, <2>3 DEF IsFlowForm
<1>13. Anchored(f) /\ ActionsAlive(f)
  <2>1. EndsAmong(ts, live)
      BY <1>2, <1>4, <1>5, <1>6 DEF EndsAmong
  <2>2. \A k \in Marks : f.sources[k] \subseteq live
      BY <1>1, <1>10
  <2>3. Names(f.states) = live
      BY <1>1 DEF live
  <2> QED BY <1>1, <1>8, <1>9, <1>10, <2>1, <2>2, <2>3 DEF Anchored, ActionsAlive
<1>14. NoTwins(states) /\ PairsDiffer(ts)
    BY <1>2, <1>3, <1>4, <1>5, <1>6 DEF NoTwins, PairsDiffer
<1>15. Shows(CanvasWith(nodes, links, f), f)
  <2> DEFINE c == CanvasWith(nodes, links, f)
  <2>1. c.nodes = nodes /\ c.links = links /\ c.marks = MarkersOf(f) /\ c.arrows = ArrowsOf(f)
      BY DEF CanvasWith
  <2> HIDE DEF c
  <2>2. [i \in DOMAIN nodes |-> nodes[i].name] = f.states
      BY <1>1 DEF states
  <2>3. \A i \in DOMAIN nodes : nodes[i].at = f.positions[f.states[i]]
      BY <1>1, <1>2, <1>3, <1>7
  <2>4. \A i \in DOMAIN links :
            Wired(links[i]) = Wired(f.transitions[i]) /\ links[i].route = Drawn(f.transitions[i])
      BY <1>1, <1>2, <1>5 DEF Drawn
  <2>5. Len(links) = Len(f.transitions)
      BY <1>1, <1>6
  <2> QED BY <2>1, <2>2, <2>3, <2>4, <2>5 DEF Shows, c
<1>16. f.mode = "custom" /\ \A k \in Marks : f.marks[k] = Capture(marks[k], form.marks[k])
    BY <1>1 DEF stay
<1>17. FlowFormOK(f)
    BY <1>12, <1>13, <1>16 DEF FlowFormOK
<1> QED BY <1>1, <1>13, <1>14, <1>15, <1>16, <1>17 DEF Drawable

-----------------------------------------------------------------------------
(* The invariant: the canvas fits and shows the form whenever it is        *)
(* mounted, and the form can be drawn as soon as the rows are left.        *)
OnRows == view \in {"form", "left"}

CanvasOK ==
    IF view = "diagram"
    THEN Fits(canvas.nodes, canvas.links, minted) /\ Shows(canvas, form) /\ emitted = Signature(form)
    ELSE canvas = NoCanvas

FlowInv ==
    /\ FlowFormOK(form) /\ (OnRows \/ Drawable(form)) /\ FlowDocOK(stored)
    /\ minted \in Nat /\ CanvasOK

(* What is drawn of a form is in step with it.                             *)
LEMMA DrawnIsInStep ==
    ASSUME NEW f, Drawable(f), NEW old \in Seq(FlowNode), FlowDocOK(stored'), minted' \in Nat,
           form' = f, view' = "diagram", canvas' = FormToFlow(f, old), emitted' = Signature(f)
    PROVE  FlowInv'
<1>1. PICK drawn : drawn = FormToFlow(f, old)
    OBVIOUS
<1>2. Fits(drawn.nodes, drawn.links, minted') /\ Shows(drawn, f)
    BY <1>1, FlowDrawn
<1>3. Fits(canvas'.nodes, canvas'.links, minted') /\ Shows(canvas', form')
    BY <1>1, <1>2
<1>4. emitted' = Signature(form')
    OBVIOUS
<1>5. CanvasOK'
    BY <1>3, <1>4 DEF CanvasOK
<1>6. FlowFormOK(form') /\ Drawable(form')
    BY DEF Drawable
<1> QED BY <1>5, <1>6 DEF FlowInv

LEMMA ResetKeeps ==
    ASSUME FlowInv, ~OnRows, NEW f, Drawable(f), Reset(f), FlowDocOK(stored'), minted' = minted
    PROVE  FlowInv' /\ ~OnRows'
<1>1. form' = f /\ minted' \in Nat /\ FlowFormOK(f) /\ FlowFormOK(form)
    BY DEF Reset, FlowInv, Drawable
<1>2. CASE view = "diagram" /\ Signature(f) # emitted /\ ~Throws(f)
  <2>1. canvas' = FormToFlow(f, canvas.nodes) /\ emitted' = Signature(f) /\ view' = "diagram"
      BY <1>2 DEF Reset
  <2>2. canvas.nodes \in Seq(FlowNode)
      BY <1>2 DEF FlowInv, CanvasOK, Fits
  <2>3. FlowInv'
      BY <1>1, <2>1, <2>2, DrawnIsInStep
  <2> QED BY <2>1, <2>3 DEF OnRows
<1>3. CASE view = "diagram" /\ Signature(f) # emitted /\ Throws(f)
  <2>1. canvas' = NoCanvas /\ view' = "crashed"
      BY <1>3 DEF Reset
  <2>2. CanvasOK'
      BY <2>1 DEF CanvasOK
  <2> QED BY <1>1, <2>1, <2>2 DEF FlowInv, OnRows
<1>4. CASE view = "diagram" /\ Signature(f) = emitted
  <2>1. canvas' = canvas /\ emitted' = emitted /\ view' = view
      BY <1>4 DEF Reset
  <2>2. Fits(canvas.nodes, canvas.links, minted) /\ Shows(canvas, form) /\ emitted = Signature(form)
      BY <1>4 DEF FlowInv, CanvasOK
  <2>3. DOMAIN canvas.links = 1 .. Len(canvas.links)
      BY <2>2 DEF Fits
  <2>4. Shows(canvas, f)
      BY <1>1, <1>4, <2>2, <2>3, SignatureDecides
  <2>5. CanvasOK'
      BY <1>1, <1>4, <2>1, <2>2, <2>4 DEF CanvasOK
  <2> QED BY <1>1, <2>1, <2>5 DEF FlowInv, OnRows
<1>5. CASE view # "diagram"
  <2>1. canvas' = canvas /\ view' = view
      BY <1>5 DEF Reset
  <2>2. CanvasOK'
      BY <1>5, <2>1 DEF FlowInv, CanvasOK
  <2> QED BY <1>1, <2>1, <2>2 DEF FlowInv, OnRows
<1> QED BY <1>2, <1>3, <1>4, <1>5

LEMMA CommitKeeps ==
    ASSUME FlowInv, view = "diagram", form.mode = "custom", view' = view, stored' = stored,
           minted' \in Nat, NEW nodes, NEW links, Fits(nodes, links, minted'),
           NEW marks \in [Marks -> MarkStates \cup {"absent"}], NEW rename, rename.to \in StatusNames,
           CommitWith(nodes, links, marks, rename)
    PROVE  FlowInv' /\ ~OnRows'
<1>1. PICK f : f = Captured(nodes, links, marks, rename)
    OBVIOUS
<1>2. Drawable(f) /\ Shows(CanvasWith(nodes, links, f), f)
    BY <1>1, CapturedDrawn DEF FlowInv
<1>3. form' = f /\ canvas' = CanvasWith(nodes, links, f) /\ emitted' = Signature(f)
    BY <1>1 DEF CommitWith, CanvasWith
<1>4. canvas'.nodes = nodes /\ canvas'.links = links
    BY <1>3 DEF CanvasWith
<1>5. CanvasOK'
    BY <1>2, <1>3, <1>4 DEF CanvasOK
<1>6. FlowFormOK(form') /\ Drawable(form') /\ FlowDocOK(stored')
    BY <1>2, <1>3 DEF Drawable, FlowInv
<1> QED BY <1>5, <1>6 DEF FlowInv, OnRows

LEMMA LiftKeeps ==
    ASSUME FlowInv, view = "diagram", view' = view, stored' = stored, minted' = minted,
           NEW f, Drawable(f), Lift(f),
           f.states = form.states, f.transitions = form.transitions, f.positions = form.positions,
           f.marks = form.marks, f.sources = form.sources
    PROVE  FlowInv' /\ ~OnRows'
<1>1. form' = f /\ canvas' = canvas /\ emitted' = Signature(f)
    BY DEF Lift
<1>2. Fits(canvas.nodes, canvas.links, minted) /\ Shows(canvas, form)
    BY DEF FlowInv, CanvasOK
<1>3. MarkersOf(f) = MarkersOf(form) /\ ArrowsOf(f) = ArrowsOf(form)
    BY DEF MarkersOf, ArrowsOf, Linked
<1>4. Shows(canvas, f)
    BY <1>2, <1>3 DEF Shows
<1>5. CanvasOK'
    BY <1>1, <1>2, <1>4 DEF CanvasOK
<1> QED BY <1>1, <1>5 DEF FlowInv, Drawable, OnRows

(* What an edit on the canvas may rely on.                                 *)
LEMMA CanvasTypes ==
    ASSUME FlowInv, view = "diagram"
    PROVE  /\ Fits(canvas.nodes, canvas.links, minted) /\ Shows(canvas, form) /\ Drawable(form)
           /\ canvas.nodes \in Seq(FlowNode) /\ canvas.links \in Seq(FlowLink(minted))
           /\ DOMAIN canvas.nodes = 1 .. Len(canvas.nodes) /\ Len(canvas.nodes) \in Nat
           /\ DOMAIN canvas.links = 1 .. Len(canvas.links) /\ Len(canvas.links) \in Nat
           /\ Names(form.states) = {canvas.nodes[i].name : i \in DOMAIN canvas.nodes}
           /\ Names(form.states) \subseteq StatusNames
           /\ canvas.marks \in [Marks -> MarkStates \cup {"absent"}]
           /\ canvas.marks = MarkersOf(form) /\ minted \in Nat
<1>1. /\ Fits(canvas.nodes, canvas.links, minted) /\ Shows(canvas, form)
      /\ FlowFormOK(form) /\ Drawable(form) /\ minted \in Nat
    BY DEF FlowInv, CanvasOK, OnRows
<1>2. canvas.nodes \in Seq(FlowNode) /\ canvas.links \in Seq(FlowLink(minted))
    BY <1>1 DEF Fits
<1>3. form.states \in Seq(StatusNames) /\ form.marks \in [Marks -> MarkStates]
    BY <1>1, FlowFormTypes DEF FlowFormOK
<1>4. /\ [i \in DOMAIN canvas.nodes |-> canvas.nodes[i].name] = form.states
      /\ canvas.marks = MarkersOf(form)
    BY <1>1 DEF Shows
<1>5. Names(form.states) = {canvas.nodes[i].name : i \in DOMAIN canvas.nodes}
    BY <1>4 DEF Names, ToSet
<1>6. Names(form.states) \subseteq StatusNames
    BY <1>3 DEF Names, ToSet
<1>7. MarkersOf(form) \in [Marks -> MarkStates \cup {"absent"}]
    BY <1>3 DEF MarkersOf
<1> QED BY <1>1, <1>2, <1>4, <1>5, <1>6, <1>7

-----------------------------------------------------------------------------
LEMMA ListedIsSeq ==
    ASSUME NEW T, NEW n \in Nat, NEW seq, seq = [j \in 1 .. n |-> seq[j]],
           \A j \in 1 .. n : seq[j] \in T
    PROVE  seq \in Seq(T) /\ DOMAIN seq = 1 .. n /\ Len(seq) = n
<1>1. \E g : g = [j \in 1 .. n |-> seq[j]] /\ g \in Seq(T) /\ DOMAIN g = 1 .. n /\ Len(g) = n
    OBVIOUS
<1> QED BY <1>1

-----------------------------------------------------------------------------
(* What a filter leaves out is what fails the test, and nothing else.      *)
LEMMA KeptReaches ==
    ASSUME NEW T, NEW S, NEW seq \in Seq(T)
    PROVE  /\ Kept(seq, S) \in Seq(T) /\ \A j \in DOMAIN Kept(seq, S) : Kept(seq, S)[j] \in S
           /\ FromPlaces(Kept(seq, S), seq)
           /\ \A i \in DOMAIN seq : seq[i] \in S => \E j \in DOMAIN Kept(seq, S) : Kept(seq, S)[j] = seq[i]
<1> DEFINE places == Places(seq, S)
           n == Cardinality(places)
           walk == CHOOSE walk \in Ascending(places) : TRUE
<1>1. DOMAIN seq = 1 .. Len(seq) /\ Len(seq) \in Nat
    OBVIOUS
<1>2. places \in SUBSET (Nat \ {0}) /\ places \subseteq DOMAIN seq
    BY <1>1 DEF Places
<1>3. Bounded(places)
  <2>1. \A x \in places : x <= Len(seq)
      BY <1>1, <1>2
  <2> HIDE DEF places
  <2> QED BY <1>1, <2>1 DEF Bounded
<1> HIDE DEF places
<1>4. Ascending(places) # {}
    BY <1>2, <1>3, WalksReachAll
<1>5. walk \in Ascending(places)
    BY <1>4
<1>6. /\ n \in Nat /\ walk \in [1 .. n -> places]
      /\ \A x \in places : \E i \in 1 .. n : walk[i] = x
  <2> HIDE DEF walk
  <2> QED BY <1>2, <1>3, <1>5, WalksReachAll
<1>7. Kept(seq, S) = [i \in 1 .. n |-> seq[walk[i]]]
    BY DEF Kept, places
<1>8. ASSUME NEW i \in DOMAIN seq, seq[i] \in S
      PROVE  \E j \in DOMAIN Kept(seq, S) : Kept(seq, S)[j] = seq[i]
  <2>1. i \in places
      BY <1>8 DEF places, Places
  <2>2. PICK j \in 1 .. n : walk[j] = i
      BY <1>6, <2>1
  <2> HIDE DEF n, walk
  <2> QED BY <1>7, <2>2
<1>9. Kept(seq, S) \in Seq(T \cap S) /\ IsPart(Kept(seq, S), seq)
    BY KeptIsPart
<1> DEFINE some == Kept(seq, S)
<1> HIDE DEF some, n, walk
<1>10. FromPlaces(some, seq)
  <2>1. PICK steps \in [DOMAIN some -> DOMAIN seq] :
            IsInjective(steps) /\ \A i \in DOMAIN some : some[i] = seq[steps[i]]
      BY <1>9 DEF IsPart, some
  <2> QED BY <2>1 DEF FromPlaces, IsInjective
<1>11. some \in Seq(T) /\ \A j \in DOMAIN some : some[j] \in S
    BY <1>9 DEF some
<1> QED BY <1>8, <1>10, <1>11 DEF some

LEMMA RenamesTyped == NoRename.to \in StatusNames
BY DEF NoRename, StatusNames

-----------------------------------------------------------------------------
(* The work beside the graph: it is finite, it is not less where it goes   *)
(* along with a renaming, and a piece of it is counted as one.             *)
LEMMA ImageIsFinite ==
    ASSUME NEW S, IsFiniteSet(S), NEW g
    PROVE  IsFiniteSet({g[x] : x \in S})
<1>1. PICK h : h = [x \in S |-> g[x]]
    OBVIOUS
<1>2. h \in Surjection(S, {g[x] : x \in S})
    BY <1>1 DEF Surjection
<1> QED BY <1>2, FS_Surjection, Zenon

LEMMA PlacesAreFinite == ASSUME NEW n \in Nat PROVE IsFiniteSet(1 .. n)
<1>1. 1 \in Int /\ n \in Int
    OBVIOUS
<1> QED BY <1>1, FS_Interval, Zenon

LEMMA NamesAreFinite ==
    ASSUME NEW states \in Seq(StatusNames)
    PROVE  IsFiniteSet(Names(states))
<1>1. Len(states) \in Nat /\ DOMAIN states = 1 .. Len(states)
    OBVIOUS
<1>2. Names(states) = {states[i] : i \in 1 .. Len(states)}
    BY <1>1 DEF Names, ToSet
<1> QED BY <1>1, <1>2, PlacesAreFinite, ImageIsFinite

Describing(f) == {<<"description", s>> : s \in f.descriptions}
ActingOn(f, s) == {<<"action", s, i>> : i \in DOMAIN f.nodeActions[s]}
Acting(f) == UNION {ActingOn(f, s) : s \in DOMAIN f.nodeActions}
Linking(f, k) == {<<k, s>> : s \in f.sources[k]}

LEMMA WorkParts ==
    ASSUME NEW f
    PROVE  Work(f) = Describing(f) \union Acting(f) \union (UNION {Linking(f, k) : k \in Marks})
BY Zenon DEF Work, Describing, ActingOn, Acting, Linking

LEMMA WorkIsFinite == ASSUME NEW f, FlowFormOK(f) PROVE IsFiniteSet(Work(f))
<1>1. /\ IsFlowForm(f) /\ Anchored(f) /\ f.states \in Seq(StatusNames)
      /\ ByStatus(f.nodeActions, Seq(StatusNames))
    BY FlowFormTypes DEF FlowFormOK, IsFlowForm
<1>2. IsFiniteSet(Names(f.states))
    BY <1>1, NamesAreFinite
<1>3. ASSUME NEW S \in SUBSET Names(f.states) PROVE IsFiniteSet(S)
    BY <1>2, FS_Subset
<1>4. IsFiniteSet(Describing(f))
  <2>1. f.descriptions \in SUBSET Names(f.states)
      BY <1>1 DEF Anchored
  <2>2. PICK g : g = [s \in f.descriptions |-> <<"description", s>>]
      OBVIOUS
  <2>3. Describing(f) = {g[s] : s \in f.descriptions}
      BY <2>2 DEF Describing
  <2>4. IsFiniteSet(f.descriptions)
      BY <1>3, <2>1
  <2> QED BY <2>3, <2>4, ImageIsFinite
<1>5. IsFiniteSet(Acting(f))
  <2>1. DOMAIN f.nodeActions \in SUBSET Names(f.states)
      BY <1>1 DEF Anchored
  <2>2. PICK g : g = [s \in DOMAIN f.nodeActions |-> ActingOn(f, s)]
      OBVIOUS
  <2>3. {ActingOn(f, s) : s \in DOMAIN f.nodeActions} = {g[s] : s \in DOMAIN f.nodeActions}
      BY <2>2
  <2>4. IsFiniteSet({ActingOn(f, s) : s \in DOMAIN f.nodeActions})
    <3>1. IsFiniteSet(DOMAIN f.nodeActions)
        BY <1>3, <2>1
    <3> QED BY <2>3, <3>1, ImageIsFinite
  <2>5. ASSUME NEW s \in DOMAIN f.nodeActions PROVE IsFiniteSet(ActingOn(f, s))
    <3>1. f.nodeActions[s] \in Seq(StatusNames)
        BY <1>1 DEF ByStatus
    <3>2. PICK n \in Nat : DOMAIN f.nodeActions[s] = 1 .. n
        BY <3>1
    <3>3. IsFiniteSet(DOMAIN f.nodeActions[s])
        BY <3>2, PlacesAreFinite
    <3>4. PICK h : h = [i \in DOMAIN f.nodeActions[s] |-> <<"action", s, i>>]
        OBVIOUS
    <3>5. ActingOn(f, s) = {h[i] : i \in DOMAIN f.nodeActions[s]}
        BY <3>4 DEF ActingOn
    <3> QED BY <3>3, <3>5, ImageIsFinite
  <2>6. \A T \in {ActingOn(f, s) : s \in DOMAIN f.nodeActions} : IsFiniteSet(T)
      BY <2>5
  <2> QED BY <2>4, <2>6, FS_UNION, Zenon DEF Acting
<1>6. ASSUME NEW k \in Marks PROVE IsFiniteSet(Linking(f, k))
  <2>1. f.sources[k] \in SUBSET Names(f.states)
      BY <1>1 DEF Anchored
  <2>2. PICK g : g = [s \in f.sources[k] |-> <<k, s>>]
      OBVIOUS
  <2>3. Linking(f, k) = {g[s] : s \in f.sources[k]}
      BY <2>2 DEF Linking
  <2>4. IsFiniteSet(f.sources[k])
      BY <1>3, <2>1
  <2> QED BY <2>3, <2>4, ImageIsFinite
<1>7. UNION {Linking(f, k) : k \in Marks} = Linking(f, "start") \union Linking(f, "end")
    BY DEF Marks
<1>8. IsFiniteSet(Linking(f, "start")) /\ IsFiniteSet(Linking(f, "end"))
    BY <1>6 DEF Marks
<1>9. IsFiniteSet(UNION {Linking(f, k) : k \in Marks})
    BY <1>7, <1>8, FS_Union
<1>10. IsFiniteSet(Describing(f) \union Acting(f))
    BY <1>4, <1>5, FS_Union
<1> QED BY <1>9, <1>10, FS_Union, WorkParts

Follows(f, g, rename) ==
    /\ \A s \in f.descriptions : MapName(s, rename) \in g.descriptions
    /\ \A s \in DOMAIN f.nodeActions :
          /\ MapName(s, rename) \in DOMAIN g.nodeActions
          /\ DOMAIN f.nodeActions[s] \subseteq DOMAIN g.nodeActions[MapName(s, rename)]
    /\ \A k \in Marks : \A s \in f.sources[k] : MapName(s, rename) \in g.sources[k]

Apart(names, rename) ==
    \A a, b \in names : MapName(a, rename) = MapName(b, rename) => a = b

LEMMA WorkItems ==
    ASSUME NEW f, NEW w
    PROVE  w \in Work(f) <=>
              \/ \E s \in f.descriptions : w = <<"description", s>>
              \/ \E s \in DOMAIN f.nodeActions : \E i \in DOMAIN f.nodeActions[s] : w = <<"action", s, i>>
              \/ \E k \in Marks : \E s \in f.sources[k] : w = <<k, s>>
BY WorkParts DEF Describing, Acting, ActingOn, Linking

LEMMA WorkFollows ==
    ASSUME NEW f, FlowFormOK(f), NEW g, FlowFormOK(g), NEW rename,
           Follows(f, g, rename), Apart(Names(f.states), rename)
    PROVE  Cardinality(Work(g)) >= Cardinality(Work(f))
<1> DEFINE To(w) == IF w[1] = "action" THEN <<w[1], MapName(w[2], rename), w[3]>>
                    ELSE <<w[1], MapName(w[2], rename)>>
<1>1. ASSUME NEW w \in Work(f)
      PROVE  /\ To(w) \in Work(g) /\ w[2] \in Names(f.states)
             /\ IF w[1] = "action" THEN w = <<w[1], w[2], w[3]>> ELSE w = <<w[1], w[2]>>
  <2>1. CASE \E s \in f.descriptions : w = <<"description", s>>
    <3>1. PICK s \in f.descriptions : w = <<"description", s>>
        BY <2>1
    <3>2. w[1] = "description" /\ w[2] = s
        BY <3>1
    <3>3. To(w) = <<"description", MapName(s, rename)>>
        BY <3>2
    <3>4. To(w) \in Work(g)
        BY <3>3, WorkItems DEF Follows
    <3>5. s \in Names(f.states)
        BY DEF FlowFormOK, Anchored
    <3> QED BY <3>1, <3>2, <3>4, <3>5
  <2>2. CASE \E s \in DOMAIN f.nodeActions : \E i \in DOMAIN f.nodeActions[s] : w = <<"action", s, i>>
    <3> PICK s \in DOMAIN f.nodeActions : \E i \in DOMAIN f.nodeActions[s] : w = <<"action", s, i>>
        BY <2>2
    <3>1. PICK i \in DOMAIN f.nodeActions[s] : w = <<"action", s, i>>
        OBVIOUS
    <3>2. w[1] = "action" /\ w[2] = s /\ w[3] = i
        BY <3>1
    <3>3. To(w) = <<"action", MapName(s, rename), i>>
        BY <3>2
    <3>4. To(w) \in Work(g)
        BY <3>3, WorkItems DEF Follows
    <3>5. s \in Names(f.states)
        BY DEF FlowFormOK, Anchored
    <3> QED BY <3>1, <3>2, <3>4, <3>5
  <2>3. CASE \E k \in Marks : \E s \in f.sources[k] : w = <<k, s>>
    <3> PICK k \in Marks : \E s \in f.sources[k] : w = <<k, s>>
        BY <2>3
    <3>1. PICK s \in f.sources[k] : w = <<k, s>>
        OBVIOUS
    <3>2. w[1] = k /\ w[2] = s /\ k # "action"
        BY <3>1 DEF Marks
    <3>3. To(w) = <<k, MapName(s, rename)>>
        BY <3>2
    <3>4. To(w) \in Work(g)
        BY <3>3, WorkItems DEF Follows
    <3>5. s \in Names(f.states)
        BY DEF FlowFormOK, Anchored
    <3> QED BY <3>1, <3>2, <3>4, <3>5
  <2> QED BY <2>1, <2>2, <2>3, WorkItems
<1>2. ASSUME NEW v \in Work(f), NEW w \in Work(f), To(v) = To(w) PROVE v = w
  <2>1. v[1] = w[1] /\ MapName(v[2], rename) = MapName(w[2], rename)
    <3>1. To(v)[1] = v[1] /\ To(v)[2] = MapName(v[2], rename)
        OBVIOUS
    <3>2. To(w)[1] = w[1] /\ To(w)[2] = MapName(w[2], rename)
        OBVIOUS
    <3> QED BY <1>2, <3>1, <3>2
  <2>2. v[2] = w[2]
      BY <1>1, <2>1 DEF Apart
  <2>3. CASE v[1] = "action"
    <3>1. To(v)[3] = v[3] /\ To(w)[3] = w[3]
        BY <2>1, <2>3
    <3> QED BY <1>1, <1>2, <2>1, <2>2, <2>3, <3>1
  <2>4. CASE v[1] # "action"
      BY <1>1, <2>1, <2>2, <2>4
  <2> QED BY <2>3, <2>4
<1> HIDE DEF To
<1>3. PICK walk : walk = [w \in Work(f) |-> To(w)]
    OBVIOUS
<1>4. walk \in Injection(Work(f), Work(g))
    BY <1>1, <1>2, <1>3 DEF Injection, IsInjective
<1>5. IsFiniteSet(Work(g)) /\ IsFiniteSet(Work(f))
    BY WorkIsFinite
<1>6. Cardinality(Work(f)) <= Cardinality(Work(g))
    BY <1>4, <1>5, FS_Injection, Zenon
<1>7. Cardinality(Work(f)) \in Nat /\ Cardinality(Work(g)) \in Nat
    BY <1>5, FS_CardinalityType, Zenon
<1> QED BY <1>6, <1>7

LEMMA PieceLost ==
    ASSUME NEW some, NEW x, some \subseteq {x}
    PROVE  Cardinality(some) <= 1
<1>1. IsFiniteSet({x}) /\ Cardinality({x}) = 1
    BY FS_Singleton, Zenon
<1>2. some \in SUBSET {x}
    OBVIOUS
<1> QED BY <1>1, <1>2, FS_Subset

-----------------------------------------------------------------------------
(* What an edit may do to the work beside the graph and to the markers.    *)
WorkKept(f, g) ==
    \/ ~Unique(g.states)
    \/ Cardinality(Work(g)) >= Cardinality(Work(f))
    \/ Len(g.states) < Len(f.states)
    \/ g.states = f.states /\ Cardinality(Work(f) \ Work(g)) <= 1

MarksKept(f, g) ==
    g.marks = f.marks \/ (g.states = f.states /\ Pairs(g.transitions) = Pairs(f.transitions))

Edited(f, g) == WorkKept(f, g) /\ MarksKept(f, g)

LEMMA NotRenamed == ASSUME NEW name PROVE MapName(name, NoRename) = name
<1>1. PICK blank : blank = ""
    OBVIOUS
<1>2. NoRename = [from |-> blank, to |-> blank]
    BY <1>1 DEF NoRename
<1>3. NoRename.from = blank /\ NoRename.to = blank
    BY ONLY <1>2
<1> QED BY ONLY <1>3 DEF MapName

LEMMA NamesStayApart == ASSUME NEW names PROVE Apart(names, NoRename)
BY NotRenamed DEF Apart

(* Nothing is lost where all of it is still there.                         *)
LEMMA NothingLost ==
    ASSUME NEW f, FlowFormOK(f), NEW g, FlowFormOK(g),
           f.descriptions \subseteq g.descriptions,
           \A s \in DOMAIN f.nodeActions :
              s \in DOMAIN g.nodeActions /\ DOMAIN f.nodeActions[s] \subseteq DOMAIN g.nodeActions[s],
           \A k \in Marks : f.sources[k] \subseteq g.sources[k]
    PROVE  WorkKept(f, g)
<1>1. Follows(f, g, NoRename)
  <2> HIDE DEF NoRename, MapName
  <2> QED BY NotRenamed DEF Follows
<1>2. Cardinality(Work(g)) >= Cardinality(Work(f))
    BY <1>1, NamesStayApart, WorkFollows
<1> QED BY <1>2 DEF WorkKept

LEMMA KeptWhole ==
    ASSUME NEW T, NEW S, NEW seq \in Seq(T), \A i \in DOMAIN seq : seq[i] \in S
    PROVE  DOMAIN Kept(seq, S) = DOMAIN seq
<1>1. DOMAIN seq = 1 .. Len(seq) /\ Len(seq) \in Nat
    OBVIOUS
<1>2. Places(seq, S) = 1 .. Len(seq)
    BY <1>1 DEF Places
<1>3. Cardinality(1 .. Len(seq)) = Len(seq)
  <2>1. 1 \in Int /\ Len(seq) \in Int
      BY <1>1
  <2>2. Cardinality(1 .. Len(seq)) = IF 1 > Len(seq) THEN 0 ELSE Len(seq) - 1 + 1
      BY <2>1, FS_Interval, Zenon
  <2> QED BY <1>1, <2>2
<1> HIDE DEF Places
<1>4. DOMAIN Kept(seq, S) = 1 .. Cardinality(Places(seq, S))
    BY DEF Kept
<1> QED BY <1>1, <1>2, <1>3, <1>4

(* A commit, and what it carries along.                                    *)
LEMMA CommitEdits ==
    ASSUME FlowInv, view = "diagram", form.mode = "custom", NEW nodes, NEW links, NEW m \in Nat,
           Fits(nodes, links, m), NEW marks \in [Marks -> MarkStates \cup {"absent"}],
           NEW rename, rename.to \in StatusNames, CommitWith(nodes, links, marks, rename)
    PROVE  /\ Drawable(form') /\ (marks = canvas.marks => form'.marks = form.marks)
           /\ form' = Captured(nodes, links, marks, rename)
           /\ form'.states = [i \in DOMAIN nodes |-> nodes[i].name]
           /\ Names(form'.states) = {nodes[i].name : i \in DOMAIN nodes}
<1>1. /\ Drawable(form) /\ canvas.marks = MarkersOf(form)
    BY CanvasTypes
<1>2. FlowFormOK(form) /\ IsFlowForm(form)
    BY <1>1 DEF Drawable, FlowFormOK
<1>3. PICK f : f = Captured(nodes, links, marks, rename)
    OBVIOUS
<1>4. form' = f
    BY <1>3 DEF CommitWith
<1>5. /\ Drawable(f) /\ \A k \in Marks : f.marks[k] = Capture(marks[k], form.marks[k])
    BY <1>1, <1>2, <1>3, CapturedDrawn
<1>6. f.states = [i \in DOMAIN nodes |-> nodes[i].name]
    BY <1>3 DEF Captured
<1>7. Names(f.states) = {nodes[i].name : i \in DOMAIN nodes}
    BY <1>6 DEF Names, ToSet
<1>8. ASSUME marks = canvas.marks PROVE f.marks = form.marks
  <2>1. f.marks \in [Marks -> MarkStates] /\ form.marks \in [Marks -> MarkStates]
      BY <1>2, <1>5, FlowFormTypes DEF Drawable, FlowFormOK
  <2>2. ASSUME NEW k \in Marks PROVE f.marks[k] = form.marks[k]
    <3>1. canvas.marks[k] = IF form.marks[k] = "hidden" THEN "absent" ELSE form.marks[k]
        BY <1>1 DEF MarkersOf
    <3>2. form.marks[k] # "absent"
        BY <2>1 DEF MarkStates
    <3> QED BY <1>5, <1>8, <3>1, <3>2 DEF Capture
  <2> QED BY <2>1, <2>2
<1> QED BY <1>3, <1>4, <1>5, <1>6, <1>7, <1>8

LEMMA ReconcileFollows ==
    ASSUME NEW f, FlowFormOK(f), ActionsAlive(f), NEW rename, NEW live,
           \A s \in Names(f.states) : MapName(s, rename) \in live, Apart(Names(f.states), rename),
           NEW r, r = Reconcile(f, live, rename)
    PROVE  Follows(f, r, rename)
<1> DEFINE owners == {s \in DOMAIN f.nodeActions : MapName(s, rename) \in live}
           Owner(s) == CHOOSE o \in owners : MapName(o, rename) = s
           Moved(o) == [i \in DOMAIN f.nodeActions[o] |-> MapName(f.nodeActions[o][i], rename)]
<1>1. /\ r.nodeActions = [s \in {MapName(o, rename) : o \in owners} |->
                            LiveValues(Moved(Owner(s)), live)]
      /\ r.descriptions = {MapName(s, rename) : s \in f.descriptions} \cap live
      /\ r.sources = [k \in Marks |-> {MapName(s, rename) : s \in f.sources[k]} \cap live]
    BY DEF Reconcile
<1>2. /\ DOMAIN f.nodeActions \subseteq Names(f.states) /\ f.descriptions \subseteq Names(f.states)
      /\ \A k \in Marks : f.sources[k] \subseteq Names(f.states)
      /\ ByStatus(f.nodeActions, Seq(StatusNames))
    BY DEF FlowFormOK, Anchored, IsFlowForm
<1>3. \A s \in f.descriptions : MapName(s, rename) \in r.descriptions
    BY <1>1, <1>2
<1>4. \A k \in Marks : \A s \in f.sources[k] : MapName(s, rename) \in r.sources[k]
    BY <1>1, <1>2
<1>5. ASSUME NEW s \in DOMAIN f.nodeActions
      PROVE  /\ MapName(s, rename) \in DOMAIN r.nodeActions
             /\ DOMAIN f.nodeActions[s] \subseteq DOMAIN r.nodeActions[MapName(s, rename)]
  <2>1. s \in owners
      BY <1>2
  <2>2. Owner(MapName(s, rename)) = s
    <3> DEFINE o == Owner(MapName(s, rename))
    <3>1. o \in owners /\ MapName(o, rename) = MapName(s, rename)
        BY <2>1
    <3>2. o \in Names(f.states) /\ s \in Names(f.states)
        BY <1>2, <3>1
    <3> QED BY <3>1, <3>2 DEF Apart
  <2> PICK acts : acts = f.nodeActions[s]
      OBVIOUS
  <2>3. acts \in Seq(StatusNames) /\ \A i \in DOMAIN acts : acts[i] \in Names(f.states)
      BY <1>2 DEF ByStatus, ActionsAlive
  <2>4. PICK moved : moved = [i \in DOMAIN acts |-> MapName(acts[i], rename)]
      OBVIOUS
  <2>5. \A i \in DOMAIN moved : moved[i] \in live
      BY <2>3, <2>4
  <2>6. moved \in Seq(live) /\ DOMAIN moved = DOMAIN acts
    <3>1. DOMAIN acts = 1 .. Len(acts) /\ Len(acts) \in Nat
        BY <2>3
    <3>2. moved = [i \in 1 .. Len(acts) |-> moved[i]]
        BY <2>4, <3>1
    <3>3. \A i \in 1 .. Len(acts) : moved[i] \in live
        BY <2>4, <2>5, <3>1
    <3> QED BY <3>1, <3>2, <3>3, ListedIsSeq
  <2>7. DOMAIN Kept(moved, live) = DOMAIN acts
      BY <2>5, <2>6, KeptWhole
  <2>8. MapName(s, rename) \in DOMAIN r.nodeActions
      BY <1>1, <2>1
  <2>9. r.nodeActions[MapName(s, rename)] = LiveValues(Moved(Owner(MapName(s, rename))), live)
    <3> HIDE DEF Owner, Moved
    <3> QED BY <1>1, <2>1
  <2>10. Moved(Owner(MapName(s, rename))) = moved
    <3>1. Moved(s) = moved
        BY <2>4
    <3>2. PICK o : o = Owner(MapName(s, rename))
        OBVIOUS
    <3>3. o = s
        BY <2>2, <3>2
    <3> HIDE DEF Owner, Moved
    <3> QED BY <3>1, <3>2, <3>3
  <2> HIDE DEF Owner, Moved, owners
  <2> QED BY <2>7, <2>8, <2>9, <2>10 DEF LiveValues
<1> HIDE DEF owners, Owner, Moved
<1> QED BY <1>3, <1>4, <1>5 DEF Follows

LEMMA CommitFollows ==
    ASSUME FlowInv, view = "diagram", form.mode = "custom", NEW nodes, NEW links, NEW m \in Nat,
           Fits(nodes, links, m), NEW marks \in [Marks -> MarkStates \cup {"absent"}],
           NEW rename, rename.to \in StatusNames, CommitWith(nodes, links, marks, rename),
           \A s \in Names(form.states) : MapName(s, rename) \in {nodes[i].name : i \in DOMAIN nodes},
           Apart(Names(form.states), rename)
    PROVE  WorkKept(form, form')
<1>1. /\ Drawable(form') /\ form' = Captured(nodes, links, marks, rename)
      /\ Names(form'.states) = {nodes[i].name : i \in DOMAIN nodes}
      /\ form'.states = [i \in DOMAIN nodes |-> nodes[i].name]
    BY CommitEdits
<1>2. FlowFormOK(form) /\ ActionsAlive(form) /\ FlowFormOK(form')
    BY <1>1, CanvasTypes DEF Drawable
<1>3. PICK live : live = Names(form'.states)
    OBVIOUS
<1>4. PICK r : r = Reconcile(form, live, rename)
    OBVIOUS
<1>5. Follows(form, r, rename)
    BY <1>1, <1>2, <1>3, <1>4, ReconcileFollows
<1>6. /\ form'.nodeActions = r.nodeActions /\ form'.descriptions = r.descriptions
      /\ form'.sources = r.sources
    BY <1>1, <1>3, <1>4 DEF Captured
<1>7. Follows(form, form', rename)
    BY <1>5, <1>6 DEF Follows
<1>8. Cardinality(Work(form')) >= Cardinality(Work(form))
  <2>1. PICK g : g = form'
      OBVIOUS
  <2>2. FlowFormOK(g) /\ Follows(form, g, rename)
      BY <1>2, <1>7, <2>1
  <2>3. Cardinality(Work(g)) >= Cardinality(Work(form))
      BY <1>2, <2>2, WorkFollows
  <2> QED BY <2>1, <2>3
<1> QED BY <1>8 DEF WorkKept

(* What a step of the editor does: the invariant stays, and so do the work *)
(* and the markers.                                                        *)
EditKept == form' = form \/ Loaded \/ Edited(form, form')
WellEdited == FlowInv' /\ ~OnRows' /\ EditKept

LEMMA CommitCarries ==
    ASSUME FlowInv, view = "diagram", form.mode = "custom", view' = view, stored' = stored,
           minted' \in Nat, NEW nodes, NEW links, Fits(nodes, links, minted'),
           NEW rename, rename.to \in StatusNames, CommitWith(nodes, links, canvas.marks, rename),
           \A s \in Names(form.states) : MapName(s, rename) \in {nodes[i].name : i \in DOMAIN nodes},
           Apart(Names(form.states), rename)
    PROVE  WellEdited
<1>1. canvas.marks \in [Marks -> MarkStates \cup {"absent"}]
    BY CanvasTypes
<1>2. FlowInv' /\ ~OnRows'
    BY <1>1, CommitKeeps
<1>3. WorkKept(form, form')
    BY <1>1, CommitFollows
<1>4. form'.marks = form.marks
    BY <1>1, CommitEdits
<1>5. MarksKept(form, form')
    BY ONLY <1>4 DEF MarksKept
<1> QED BY <1>2, <1>3, <1>5 DEF WellEdited, EditKept, Edited

(* An edit that leaves every status its name.                              *)
LEMMA CanvasCommit ==
    ASSUME FlowInv, view = "diagram", form.mode = "custom", view' = view, stored' = stored,
           minted' \in Nat, NEW nodes, NEW links, Fits(nodes, links, minted'), Commit(nodes, links),
           {canvas.nodes[i].name : i \in DOMAIN canvas.nodes} \subseteq {nodes[i].name : i \in DOMAIN nodes}
    PROVE  WellEdited
<1>1. CommitWith(nodes, links, canvas.marks, NoRename)
    BY DEF Commit
<1>2. Names(form.states) = {canvas.nodes[i].name : i \in DOMAIN canvas.nodes}
    BY CanvasTypes
<1>3. \A s \in Names(form.states) : MapName(s, NoRename) \in {nodes[i].name : i \in DOMAIN nodes}
    BY <1>2, NotRenamed
<1> QED BY <1>1, <1>3, NamesStayApart, RenamesTyped, CommitCarries

(* One piece of the work, and no more, is gone.                            *)
Loses(f, g, x) ==
    /\ \A s \in f.descriptions : s \in g.descriptions \/ x = <<"description", s>>
    /\ \A s \in DOMAIN f.nodeActions : \A i \in DOMAIN f.nodeActions[s] :
          (s \in DOMAIN g.nodeActions /\ i \in DOMAIN g.nodeActions[s]) \/ x = <<"action", s, i>>
    /\ \A k \in Marks : \A s \in f.sources[k] : s \in g.sources[k] \/ x = <<k, s>>

LEMMA LosesOne ==
    ASSUME NEW f, NEW g, NEW x, Loses(f, g, x), g.states = f.states, g.transitions = f.transitions
    PROVE  Edited(f, g)
<1>1. Work(f) \ Work(g) \subseteq {x}
  <2> SUFFICES ASSUME NEW w, w \in Work(f), w \notin Work(g) PROVE w = x
      OBVIOUS
  <2> QED BY WorkItems DEF Loses
<1>2. Cardinality(Work(f) \ Work(g)) <= 1
    BY <1>1, PieceLost
<1>3. Pairs(g.transitions) = Pairs(f.transitions)
    OBVIOUS
<1> QED BY <1>2, <1>3 DEF Edited, WorkKept, MarksKept

LEMMA LinksFewer ==
    ASSUME NEW m \in Nat, NEW nodes, NEW links, Fits(nodes, links, m),
           NEW some \in Seq(FlowLink(m)), FromPlaces(some, links)
    PROVE  Fits(nodes, some, m)
<1>1. ASSUME NEW i \in DOMAIN some, NEW j \in DOMAIN some,
             some[i].id = some[j].id \/ (some[i].from = some[j].from /\ some[i].to = some[j].to)
      PROVE  i = j
  <2>1. PICK p \in DOMAIN links, q \in DOMAIN links :
            some[i] = links[p] /\ some[j] = links[q] /\ (p = q => i = j)
      BY DEF FromPlaces
  <2> QED BY <1>1, <2>1 DEF Fits, PairsDiffer
<1>2. EndsAmong(some, {nodes[i].name : i \in DOMAIN nodes})
  <2> SUFFICES ASSUME NEW i \in DOMAIN some
               PROVE  /\ some[i].from \in {nodes[k].name : k \in DOMAIN nodes}
                      /\ some[i].to \in {nodes[k].name : k \in DOMAIN nodes}
      BY DEF EndsAmong
  <2>1. PICK p \in DOMAIN links : some[i] = links[p]
      BY DEF FromPlaces
  <2> QED BY <2>1 DEF Fits, EndsAmong
<1> QED BY <1>1, <1>2 DEF Fits, PairsDiffer

(* A link in the place of another.                                         *)
LEMMA LinkReplaced ==
    ASSUME NEW m \in Nat, NEW nodes, NEW links, Fits(nodes, links, m), NEW i \in DOMAIN links,
           NEW l \in FlowLink(m), l.id = links[i].id,
           {l.from, l.to} \subseteq {nodes[k].name : k \in DOMAIN nodes},
           \A j \in DOMAIN links : links[j].from = l.from /\ links[j].to = l.to => j = i
    PROVE  Fits(nodes, [links EXCEPT ![i] = l], m)
<1> DEFINE new == [links EXCEPT ![i] = l]
<1>1. /\ links \in Seq(FlowLink(m)) /\ DOMAIN links = 1 .. Len(links) /\ Len(links) \in Nat
      /\ \A j, k \in DOMAIN links : links[j].id = links[k].id => j = k
      /\ PairsDiffer(links) /\ EndsAmong(links, {nodes[k].name : k \in DOMAIN nodes})
    BY DEF Fits
<1>2. /\ new \in Seq(FlowLink(m)) /\ DOMAIN new = DOMAIN links
      /\ \A j \in DOMAIN links : new[j] = IF j = i THEN l ELSE links[j]
    BY <1>1
<1> HIDE DEF new
<1>3. \A j, k \in DOMAIN new : new[j].id = new[k].id => j = k
    BY <1>1, <1>2
<1>4. PairsDiffer(new)
    BY <1>1, <1>2 DEF PairsDiffer
<1>5. EndsAmong(new, {nodes[k].name : k \in DOMAIN nodes})
    BY <1>1, <1>2 DEF EndsAmong
<1>6. Fits(nodes, new, m)
    BY <1>2, <1>3, <1>4, <1>5 DEF Fits
<1> QED BY <1>6 DEF new

LEMMA FlowLinkTypes ==
    ASSUME NEW m \in Nat, NEW l \in FlowLink(m)
    PROVE  /\ l.id \in LinkId(m) /\ l.from \in StatusNames /\ l.to \in StatusNames
           /\ l.named \in BOOLEAN /\ l.policy \in Policies /\ l.route \in {"plain", "corner"}
           /\ l = [id |-> l.id, from |-> l.from, to |-> l.to, named |-> l.named,
                   policy |-> l.policy, route |-> l.route]
BY DEF FlowLink

LEMMA RelabelledLink ==
    ASSUME NEW m \in Nat, NEW l \in FlowLink(m), NEW k, k = Relabelled(l)
    PROVE  k \in FlowLink(m) /\ k.id = l.id /\ k.from = l.from /\ k.to = l.to
<1>1. /\ l.id \in LinkId(m) /\ l.from \in StatusNames /\ l.to \in StatusNames
      /\ l.named \in BOOLEAN /\ l.policy \in Policies /\ l.route \in {"plain", "corner"}
      /\ l = [id |-> l.id, from |-> l.from, to |-> l.to, named |-> l.named,
              policy |-> l.policy, route |-> l.route]
    BY FlowLinkTypes
<1>2. PICK b : b = ~l.named
    OBVIOUS
<1>3. b \in BOOLEAN
    BY <1>2, Zenon
<1>4. k = [l EXCEPT !.named = b]
    BY <1>2, Zenon DEF Relabelled
<1>5. /\ k.id = l.id /\ k.from = l.from /\ k.to = l.to
      /\ k = [id |-> l.id, from |-> l.from, to |-> l.to, named |-> b,
              policy |-> l.policy, route |-> l.route]
    BY <1>1, <1>4
<1>6. k \in FlowLink(m)
    BY <1>1, <1>3, <1>5 DEF FlowLink
<1> QED BY <1>5, <1>6

-----------------------------------------------------------------------------
(* The edits of the canvas, one lemma each.                                *)
LEMMA DragStateStep ==
    ASSUME FlowInv, NEW i \in DOMAIN canvas.nodes, DragState(i)
    PROVE  WellEdited
<1> DEFINE nodes == [canvas.nodes EXCEPT ![i].at = "moved"]
<1>1. /\ view = "diagram" /\ form.mode = "custom" /\ view' = view /\ stored' = stored /\ minted' = minted
      /\ Commit(nodes, canvas.links)
    BY DEF DragState, Editing, Quiet
<1>2. /\ Fits(canvas.nodes, canvas.links, minted) /\ minted \in Nat
      /\ canvas.nodes \in Seq(FlowNode)
      /\ DOMAIN canvas.nodes = 1 .. Len(canvas.nodes) /\ Len(canvas.nodes) \in Nat
      /\ canvas.marks \in [Marks -> MarkStates \cup {"absent"}]
    BY <1>1, CanvasTypes
<1>3. ASSUME NEW j \in 1 .. Len(canvas.nodes)
      PROVE  nodes[j] \in FlowNode /\ nodes[j].name = canvas.nodes[j].name
  <2>1. canvas.nodes[j] \in FlowNode
      BY <1>2
  <2>2. nodes[j] = IF j = i THEN [canvas.nodes[j] EXCEPT !.at = "moved"] ELSE canvas.nodes[j]
      BY <1>2
  <2> QED BY <2>1, <2>2 DEF FlowNode, Spots
<1>4. DOMAIN nodes = 1 .. Len(canvas.nodes) /\ nodes \in Seq(FlowNode)
  <2>1. nodes = [j \in 1 .. Len(canvas.nodes) |-> nodes[j]]
      BY <1>2
  <2>2. \A j \in 1 .. Len(canvas.nodes) : nodes[j] \in FlowNode
      BY <1>3
  <2> HIDE DEF nodes
  <2> QED BY <1>2, <2>1, <2>2, ListedIsSeq
<1> HIDE DEF nodes
<1>5. Fits(nodes, canvas.links, minted)
  <2>1. {nodes[j].name : j \in DOMAIN nodes} = {canvas.nodes[j].name : j \in DOMAIN canvas.nodes}
      BY <1>2, <1>3, <1>4
  <2>2. \A j, k \in DOMAIN nodes : nodes[j].name = nodes[k].name => j = k
      BY <1>2, <1>3, <1>4 DEF Fits
  <2> QED BY <1>2, <1>4, <2>1, <2>2 DEF Fits
<1>6. {canvas.nodes[j].name : j \in DOMAIN canvas.nodes} \subseteq {nodes[j].name : j \in DOMAIN nodes}
    BY <1>2, <1>3, <1>4
<1>7. Fits(nodes, canvas.links, minted') /\ minted' \in Nat
    BY <1>1, <1>2, <1>5
<1> QED BY <1>1, <1>6, <1>7, CanvasCommit

LEMMA LinkEditStep ==
    ASSUME FlowInv, NEW i \in DOMAIN canvas.links, LinkEdit(i)
    PROVE  WellEdited
<1> DEFINE l == canvas.links[i]
<1>1. /\ view = "diagram" /\ form.mode = "custom" /\ view' = view /\ stored' = stored /\ minted' = minted
    BY DEF LinkEdit, EditLabel, DeleteTransition, EditPolicy, Editing, Quiet
<1>2. /\ Fits(canvas.nodes, canvas.links, minted) /\ minted \in Nat
      /\ canvas.links \in Seq(FlowLink(minted)) /\ l \in FlowLink(minted)
      /\ canvas.marks \in [Marks -> MarkStates \cup {"absent"}]
    BY <1>1, CanvasTypes
<1>3. /\ l.id \in LinkId(minted) /\ l.from \in StatusNames /\ l.to \in StatusNames
      /\ l.named \in BOOLEAN /\ l.policy \in Policies /\ l.route \in {"plain", "corner"}
    BY <1>2, FlowLinkTypes
<1>4. /\ {l.from, l.to} \subseteq {canvas.nodes[k].name : k \in DOMAIN canvas.nodes}
      /\ \A j \in DOMAIN canvas.links : canvas.links[j].from = l.from /\ canvas.links[j].to = l.to => j = i
    BY <1>2 DEF Fits, EndsAmong, PairsDiffer
<1>5. ASSUME NEW links, Fits(canvas.nodes, links, minted), Commit(canvas.nodes, links)
      PROVE  WellEdited
  <2>1. Fits(canvas.nodes, links, minted') /\ minted' \in Nat
      BY <1>1, <1>2, <1>5
  <2> QED BY <1>1, <1>5, <2>1, CanvasCommit
<1>6. CASE EditLabel(i)
  <2>1. PICK k : k = Relabelled(l)
      OBVIOUS
  <2>2. k \in FlowLink(minted) /\ k.id = l.id /\ k.from = l.from /\ k.to = l.to
      BY <1>2, <2>1, RelabelledLink
  <2>3. Fits(canvas.nodes, [canvas.links EXCEPT ![i] = k], minted)
    <3> HIDE DEF l
    <3> QED BY <1>2, <1>4, <2>2, LinkReplaced DEF l
  <2>4. Commit(canvas.nodes, [canvas.links EXCEPT ![i] = k])
      BY <1>6, <2>1 DEF EditLabel
  <2> QED BY <1>5, <2>3, <2>4
<1>7. ASSUME NEW policy \in {"KEEP", "TO_BACK"}, EditPolicy(i, policy)
      PROVE  WellEdited
  <2>1. PICK k : k = [l EXCEPT !.policy = policy]
      OBVIOUS
  <2>2. /\ k.id = l.id /\ k.from = l.from /\ k.to = l.to
        /\ k = [id |-> l.id, from |-> l.from, to |-> l.to, named |-> l.named,
                policy |-> policy, route |-> l.route]
    <3>1. l = [id |-> l.id, from |-> l.from, to |-> l.to, named |-> l.named,
               policy |-> l.policy, route |-> l.route]
        BY <1>2, FlowLinkTypes
    <3> QED BY <2>1, <3>1
  <2>3. k \in FlowLink(minted)
      BY <1>3, <2>2 DEF FlowLink, Policies
  <2>4. [canvas.links EXCEPT ![i].policy = policy] = [canvas.links EXCEPT ![i] = k]
      BY <2>1
  <2>5. Fits(canvas.nodes, [canvas.links EXCEPT ![i] = k], minted)
    <3> HIDE DEF l
    <3> QED BY <1>2, <1>4, <2>2, <2>3, LinkReplaced DEF l
  <2>6. Commit(canvas.nodes, [canvas.links EXCEPT ![i] = k])
      BY <1>7, <2>4 DEF EditPolicy
  <2> QED BY <1>5, <2>5, <2>6
<1>8. CASE DeleteTransition(i)
  <2>1. /\ RemoveAt(canvas.links, i) \in Seq(FlowLink(minted))
        /\ FromPlaces(RemoveAt(canvas.links, i), canvas.links)
      BY <1>2, RemovalKeepsTheRest
  <2>2. Fits(canvas.nodes, RemoveAt(canvas.links, i), minted)
      BY <1>2, <2>1, LinksFewer
  <2> QED BY <1>5, <1>8, <2>2 DEF DeleteTransition
<1> QED BY <1>6, <1>7, <1>8 DEF LinkEdit

-----------------------------------------------------------------------------
LEMMA NodeAdded ==
    ASSUME NEW m \in Nat, NEW nodes, NEW links, Fits(nodes, links, m), NEW n \in FlowNode,
           \A j \in DOMAIN nodes : nodes[j].name # n.name
    PROVE  /\ Fits(Append(nodes, n), links, m)
           /\ {nodes[i].name : i \in DOMAIN nodes}
                  \subseteq {Append(nodes, n)[i].name : i \in DOMAIN Append(nodes, n)}
<1> DEFINE more == Append(nodes, n)
<1>1. /\ nodes \in Seq(FlowNode) /\ DOMAIN nodes = 1 .. Len(nodes) /\ Len(nodes) \in Nat
      /\ links \in Seq(FlowLink(m)) /\ PairsDiffer(links)
      /\ \A i, j \in DOMAIN nodes : nodes[i].name = nodes[j].name => i = j
      /\ \A i, j \in DOMAIN links : links[i].id = links[j].id => i = j
      /\ EndsAmong(links, {nodes[i].name : i \in DOMAIN nodes})
    BY DEF Fits
<1>2. /\ more \in Seq(FlowNode) /\ DOMAIN more = 1 .. Len(nodes) + 1
      /\ \A j \in 1 .. Len(nodes) : more[j] = nodes[j]
      /\ more[Len(nodes) + 1] = n
    BY <1>1
<1> HIDE DEF more
<1>3. \A i, j \in DOMAIN more : more[i].name = more[j].name => i = j
    BY <1>1, <1>2
<1>4. {nodes[i].name : i \in DOMAIN nodes} \subseteq {more[i].name : i \in DOMAIN more}
  <2> SUFFICES ASSUME NEW i \in DOMAIN nodes PROVE nodes[i].name \in {more[j].name : j \in DOMAIN more}
      OBVIOUS
  <2>1. i \in DOMAIN more /\ more[i] = nodes[i]
      BY <1>1, <1>2
  <2> QED BY <2>1
<1>5. EndsAmong(links, {more[i].name : i \in DOMAIN more})
    BY <1>1, <1>4 DEF EndsAmong
<1>6. Fits(more, links, m)
    BY <1>1, <1>2, <1>3, <1>5 DEF Fits
<1> QED BY <1>4, <1>6 DEF more

LEMMA AddStateStep ==
    ASSUME FlowInv, AddState
    PROVE  WellEdited
<1> DEFINE free == Kept(FreshNames, Names(FreshNames) \ (Names(form.states) \union Names(DefaultStates)))
           n == [name |-> Head(free), at |-> "moved"]
<1>1. /\ view = "diagram" /\ form.mode = "custom" /\ view' = view /\ stored' = stored /\ minted' = minted
      /\ free # <<>> /\ Commit(Append(canvas.nodes, n), canvas.links)
    BY DEF AddState, Editing, Quiet
<1>2. /\ Fits(canvas.nodes, canvas.links, minted) /\ minted \in Nat
      /\ Names(form.states) = {canvas.nodes[i].name : i \in DOMAIN canvas.nodes}
    BY <1>1, CanvasTypes
<1>3. FreshNames \in Seq(StatusNames)
    BY EditorAssumption
<1>4. /\ free \in Seq(StatusNames)
      /\ \A j \in DOMAIN free : free[j] \in Names(FreshNames) \ (Names(form.states) \union Names(DefaultStates))
    BY <1>3, KeptReaches
<1>5. Head(free) \in StatusNames /\ Head(free) \notin Names(form.states)
  <2> HIDE DEF free
  <2>1. 1 \in DOMAIN free /\ Head(free) = free[1] /\ free[1] \in StatusNames
      BY <1>1, <1>4
  <2> QED BY <1>4, <2>1
<1> HIDE DEF free
<1>6. n \in FlowNode /\ n.name = Head(free)
    BY <1>5 DEF FlowNode, Spots
<1> HIDE DEF n
<1>7. \A j \in DOMAIN canvas.nodes : canvas.nodes[j].name # n.name
    BY <1>2, <1>5, <1>6
<1>8. PICK nodes : nodes = Append(canvas.nodes, n)
    OBVIOUS
<1>9. /\ Fits(nodes, canvas.links, minted)
      /\ {canvas.nodes[i].name : i \in DOMAIN canvas.nodes} \subseteq {nodes[i].name : i \in DOMAIN nodes}
    BY <1>2, <1>6, <1>7, <1>8, NodeAdded
<1>10. Fits(nodes, canvas.links, minted') /\ minted' \in Nat /\ Commit(nodes, canvas.links)
    BY <1>1, <1>2, <1>8, <1>9
<1> QED BY <1>1, <1>9, <1>10, CanvasCommit

-----------------------------------------------------------------------------
RenamedNode(n, old, new) == IF n.name = old THEN [n EXCEPT !.name = new] ELSE n
RenamedNodes(nodes, old, new) == [i \in DOMAIN nodes |-> RenamedNode(nodes[i], old, new)]
Repointed(l, from, to) == [l EXCEPT !.from = from, !.to = to]

LEMMA NodeRenamed ==
    ASSUME NEW n \in FlowNode, NEW old, NEW new \in StatusNames,
           NEW k, k = RenamedNode(n, old, new)
    PROVE  k \in FlowNode /\ k.name = IF n.name = old THEN new ELSE n.name
<1>1. n = [name |-> n.name, at |-> n.at] /\ n.name \in StatusNames /\ n.at \in Spots
    BY DEF FlowNode
<1>2. k = [name |-> IF n.name = old THEN new ELSE n.name, at |-> n.at]
    BY <1>1 DEF RenamedNode
<1> QED BY <1>1, <1>2 DEF FlowNode

LEMMA LinkRetargeted ==
    ASSUME NEW m \in Nat, NEW l \in FlowLink(m), NEW from \in StatusNames, NEW to \in StatusNames,
           NEW k, k = Repointed(l, from, to)
    PROVE  k \in FlowLink(m) /\ k.id = l.id /\ k.from = from /\ k.to = to
<1>1. /\ l.id \in LinkId(m) /\ l.named \in BOOLEAN /\ l.policy \in Policies
      /\ l.route \in {"plain", "corner"}
      /\ l = [id |-> l.id, from |-> l.from, to |-> l.to, named |-> l.named,
              policy |-> l.policy, route |-> l.route]
    BY FlowLinkTypes
<1>2. PICK b \in BOOLEAN : b = l.named
    BY <1>1
<1>3. k = [id |-> l.id, from |-> from, to |-> to, named |-> b, policy |-> l.policy, route |-> l.route]
    BY <1>1, <1>2 DEF Repointed
<1> QED BY <1>1, <1>3 DEF FlowLink

LEMMA CanvasRenamed ==
    ASSUME NEW m \in Nat, NEW nodes, NEW links, Fits(nodes, links, m), NEW old, NEW new \in StatusNames,
           \A j \in DOMAIN nodes : nodes[j].name # new
    PROVE  Fits(RenamedNodes(nodes, old, new), Retargeted(links, old, new), m)
<1> DEFINE To(name) == IF name = old THEN new ELSE name
           names == {nodes[i].name : i \in DOMAIN nodes}
           nodes2 == RenamedNodes(nodes, old, new)
           links2 == Retargeted(links, old, new)
<1> HIDE DEF nodes2, links2
<1>1. /\ nodes \in Seq(FlowNode) /\ DOMAIN nodes = 1 .. Len(nodes) /\ Len(nodes) \in Nat
      /\ links \in Seq(FlowLink(m)) /\ DOMAIN links = 1 .. Len(links) /\ Len(links) \in Nat
      /\ PairsDiffer(links)
      /\ \A i, j \in DOMAIN nodes : nodes[i].name = nodes[j].name => i = j
      /\ \A i, j \in DOMAIN links : links[i].id = links[j].id => i = j
      /\ EndsAmong(links, names)
    BY DEF Fits
<1>2. ASSUME NEW i \in 1 .. Len(nodes)
      PROVE  nodes2[i] \in FlowNode /\ nodes2[i].name = To(nodes[i].name)
  <2>1. PICK n \in FlowNode : n = nodes[i]
      BY <1>1
  <2>2. PICK k : k = nodes2[i]
      OBVIOUS
  <2>3. k = RenamedNode(n, old, new)
      BY <1>1, <2>1, <2>2 DEF nodes2, RenamedNodes
  <2>4. k \in FlowNode /\ k.name = IF n.name = old THEN new ELSE n.name
      BY <2>1, <2>3, NodeRenamed
  <2> QED BY <2>1, <2>2, <2>4
<1>3. nodes2 \in Seq(FlowNode) /\ DOMAIN nodes2 = 1 .. Len(nodes)
  <2>1. nodes2 = [i \in 1 .. Len(nodes) |-> nodes2[i]]
      BY <1>1 DEF nodes2, RenamedNodes
  <2>2. \A i \in 1 .. Len(nodes) : nodes2[i] \in FlowNode
      BY <1>2
  <2> QED BY <1>1, <2>1, <2>2, ListedIsSeq
<1>4. ASSUME NEW i \in 1 .. Len(links)
      PROVE  /\ links2[i] \in FlowLink(m) /\ links2[i].id = links[i].id
             /\ links2[i].from = To(links[i].from) /\ links2[i].to = To(links[i].to)
             /\ links[i].from \in names /\ links[i].to \in names
  <2>1. PICK l \in FlowLink(m) : l = links[i]
      BY <1>1
  <2>2. PICK from, to : from = To(l.from) /\ to = To(l.to)
      OBVIOUS
  <2>3. PICK k : k = links2[i] /\ k = Repointed(l, from, to)
      BY <1>1, <2>1, <2>2 DEF links2, Retargeted, Repointed
  <2>4. from \in StatusNames /\ to \in StatusNames
      BY <2>2, FlowLinkTypes
  <2>5. k \in FlowLink(m) /\ k.id = l.id /\ k.from = from /\ k.to = to
    <3> HIDE DEF To, names
    <3> QED BY <2>3, <2>4, LinkRetargeted
  <2>6. links[i].from \in names /\ links[i].to \in names
      BY <1>1 DEF EndsAmong
  <2> QED BY <2>1, <2>2, <2>3, <2>5, <2>6
<1>5. links2 \in Seq(FlowLink(m)) /\ DOMAIN links2 = 1 .. Len(links)
  <2>1. links2 = [i \in 1 .. Len(links) |-> links2[i]]
      BY <1>1 DEF links2, Retargeted
  <2>2. \A i \in 1 .. Len(links) : links2[i] \in FlowLink(m)
      BY <1>4
  <2> QED BY <1>1, <2>1, <2>2, ListedIsSeq
<1>6. ASSUME NEW a \in names, NEW b \in names, To(a) = To(b) PROVE a = b
  <2>1. a # new /\ b # new
      OBVIOUS
  <2> QED BY <1>6, <2>1
<1>7. ASSUME NEW name \in names PROVE To(name) \in {nodes2[i].name : i \in DOMAIN nodes2}
  <2>1. PICK i \in 1 .. Len(nodes) : name = nodes[i].name
      BY <1>1
  <2>2. nodes2[i].name = To(name) /\ i \in DOMAIN nodes2
      BY <1>2, <1>3, <2>1
  <2> QED BY <2>2
<1>8. \A i, j \in DOMAIN nodes2 : nodes2[i].name = nodes2[j].name => i = j
  <2> HIDE DEF To
  <2> SUFFICES ASSUME NEW i \in DOMAIN nodes2, NEW j \in DOMAIN nodes2, nodes2[i].name = nodes2[j].name
               PROVE  i = j
      OBVIOUS
  <2>1. To(nodes[i].name) = To(nodes[j].name) /\ nodes[i].name \in names /\ nodes[j].name \in names
      BY <1>1, <1>2, <1>3
  <2> QED BY <1>1, <1>3, <1>6, <2>1
<1> HIDE DEF To, names
<1>9. PairsDiffer(links2)
  <2> SUFFICES ASSUME NEW i \in DOMAIN links2, NEW j \in DOMAIN links2,
                      links2[i].from = links2[j].from /\ links2[i].to = links2[j].to
               PROVE  i = j
      BY DEF PairsDiffer
  <2>1. links[i].from = links[j].from /\ links[i].to = links[j].to
      BY <1>4, <1>5, <1>6
  <2> QED BY <1>1, <1>5, <2>1 DEF PairsDiffer
<1>10. \A i, j \in DOMAIN links2 : links2[i].id = links2[j].id => i = j
    BY <1>1, <1>4, <1>5
<1>11. EndsAmong(links2, {nodes2[i].name : i \in DOMAIN nodes2})
    BY <1>4, <1>5, <1>7 DEF EndsAmong
<1>12. Fits(nodes2, links2, m)
    BY <1>3, <1>5, <1>8, <1>9, <1>10, <1>11 DEF Fits
<1> QED BY <1>12 DEF nodes2, links2

LEMMA RenameStateStep ==
    ASSUME FlowInv, NEW old, NEW new \in TypedNames, RenameState(old, new)
    PROVE  WellEdited
<1>1. PICK nodes : nodes = RenamedNodes(canvas.nodes, old, new)
    OBVIOUS
<1>2. PICK links : links = Retargeted(canvas.links, old, new)
    OBVIOUS
<1>3. /\ view = "diagram" /\ form.mode = "custom" /\ view' = view /\ stored' = stored /\ minted' = minted
      /\ ~InUse(new) /\ CommitWith(nodes, links, canvas.marks, [from |-> old, to |-> new])
    BY <1>1, <1>2 DEF RenameState, Editing, Quiet, RenamedNodes, RenamedNode, Retargeted
<1>4. /\ Fits(canvas.nodes, canvas.links, minted) /\ minted \in Nat
      /\ canvas.marks \in [Marks -> MarkStates \cup {"absent"}]
    BY <1>3, CanvasTypes
<1>5. new \in StatusNames
    BY DEF StatusNames
<1>6. \A j \in DOMAIN canvas.nodes : canvas.nodes[j].name # new
    BY <1>3 DEF InUse, ToSet
<1>7. Fits(nodes, links, minted)
    BY <1>1, <1>2, <1>4, <1>5, <1>6, CanvasRenamed
<1>8. Fits(nodes, links, minted') /\ minted' \in Nat
    BY <1>3, <1>4, <1>7
<1>9. PICK rename : rename = [from |-> old, to |-> new]
    OBVIOUS
<1>10. rename.to \in StatusNames /\ CommitWith(nodes, links, canvas.marks, rename)
    BY <1>3, <1>5, <1>9
<1>11. rename.from = old /\ rename.to = new
    BY <1>9
<1>12. Names(form.states) = {canvas.nodes[j].name : j \in DOMAIN canvas.nodes} /\ new \notin Names(form.states)
    BY <1>3, <1>6, CanvasTypes
<1>13. Apart(Names(form.states), rename)
    BY <1>11, <1>12 DEF Apart, MapName
<1>14. ASSUME NEW s \in Names(form.states)
       PROVE  MapName(s, rename) \in {nodes[j].name : j \in DOMAIN nodes}
  <2>1. PICK j \in DOMAIN canvas.nodes : canvas.nodes[j].name = s
      BY <1>12
  <2>2. PICK n \in FlowNode : n = canvas.nodes[j]
      BY <1>3, CanvasTypes
  <2>3. PICK k : k = RenamedNode(n, old, new)
      OBVIOUS
  <2>4. k.name = MapName(s, rename)
    <3>1. k.name = IF n.name = old THEN new ELSE n.name
        BY <1>5, <2>3, NodeRenamed
    <3> QED BY <1>11, <2>1, <2>2, <3>1 DEF MapName
  <2>5. j \in DOMAIN nodes /\ nodes[j] = k
      BY <1>1, <2>2, <2>3 DEF RenamedNodes
  <2> QED BY <2>4, <2>5
<1> QED BY <1>3, <1>8, <1>10, <1>13, <1>14, CommitCarries

-----------------------------------------------------------------------------
LEMMA CanvasWithout ==
    ASSUME NEW m \in Nat, NEW nodes, NEW links, Fits(nodes, links, m), NEW s,
           NEW nodeSet, nodeSet = {n \in ToSet(nodes) : n.name # s},
           NEW linkSet, linkSet = {l \in ToSet(links) : s \notin {l.from, l.to}}
    PROVE  /\ Fits(Kept(nodes, nodeSet), Kept(links, linkSet), m)
           /\ {Kept(nodes, nodeSet)[i].name : i \in DOMAIN Kept(nodes, nodeSet)}
                  \subseteq {nodes[i].name : i \in DOMAIN nodes} \ {s}
<1> DEFINE nodes2 == Kept(nodes, nodeSet)
           links2 == Kept(links, linkSet)
<1>1. /\ nodes \in Seq(FlowNode) /\ links \in Seq(FlowLink(m)) /\ PairsDiffer(links)
      /\ \A i, j \in DOMAIN nodes : nodes[i].name = nodes[j].name => i = j
      /\ \A i, j \in DOMAIN links : links[i].id = links[j].id => i = j
      /\ EndsAmong(links, {nodes[i].name : i \in DOMAIN nodes})
    BY DEF Fits
<1>2. /\ nodes2 \in Seq(FlowNode) /\ FromPlaces(nodes2, nodes)
      /\ \A i \in DOMAIN nodes : nodes[i] \in nodeSet => \E j \in DOMAIN nodes2 : nodes2[j] = nodes[i]
      /\ \A j \in DOMAIN nodes2 : nodes2[j] \in nodeSet
  <2>1. nodes \in Seq(FlowNode)
      BY <1>1
  <2> QED BY ONLY <2>1, KeptReaches
<1>3. /\ links2 \in Seq(FlowLink(m)) /\ FromPlaces(links2, links)
      /\ \A j \in DOMAIN links2 : links2[j] \in linkSet
  <2>1. links \in Seq(FlowLink(m))
      BY <1>1
  <2> QED BY ONLY <2>1, KeptReaches
<1> HIDE DEF nodes2, links2
<1>4. \A i, j \in DOMAIN nodes2 : nodes2[i].name = nodes2[j].name => i = j
  <2> SUFFICES ASSUME NEW i \in DOMAIN nodes2, NEW j \in DOMAIN nodes2, nodes2[i].name = nodes2[j].name
               PROVE  i = j
      OBVIOUS
  <2>1. PICK p \in DOMAIN nodes, q \in DOMAIN nodes :
            nodes2[i] = nodes[p] /\ nodes2[j] = nodes[q] /\ (p = q => i = j)
      BY <1>2 DEF FromPlaces
  <2> QED BY <1>1, <2>1
<1>5. Fits(nodes, links2, m)
    BY <1>3, LinksFewer
<1>6. EndsAmong(links2, {nodes2[i].name : i \in DOMAIN nodes2})
  <2> SUFFICES ASSUME NEW j \in DOMAIN links2, NEW end \in {links2[j].from, links2[j].to}
               PROVE  end \in {nodes2[i].name : i \in DOMAIN nodes2}
      BY DEF EndsAmong
  <2>1. end # s
      BY <1>3
  <2>2. PICK i \in DOMAIN nodes : nodes[i].name = end
      BY <1>5 DEF Fits, EndsAmong
  <2>3. nodes[i] \in ToSet(nodes)
      BY DEF ToSet
  <2>4. PICK k \in DOMAIN nodes2 : nodes2[k] = nodes[i]
      BY <1>2, <2>1, <2>2, <2>3
  <2> QED BY <2>2, <2>4
<1>7. /\ PairsDiffer(links2) /\ \A i, j \in DOMAIN links2 : links2[i].id = links2[j].id => i = j
    BY <1>5 DEF Fits
<1>8. Fits(nodes2, links2, m)
    BY <1>2, <1>3, <1>4, <1>6, <1>7 DEF Fits
<1>9. {nodes2[i].name : i \in DOMAIN nodes2} \subseteq {nodes[i].name : i \in DOMAIN nodes} \ {s}
    BY <1>2 DEF ToSet
<1> QED BY <1>8, <1>9 DEF nodes2, links2

LEMMA FewerNames ==
    ASSUME NEW f, Drawable(f), NEW g, Drawable(g), NEW s \in Names(f.states),
           Names(g.states) \subseteq Names(f.states) \ {s}
    PROVE  Len(g.states) < Len(f.states)
<1>1. /\ f.states \in Seq(StatusNames) /\ g.states \in Seq(StatusNames)
      /\ NoTwins(f.states) /\ NoTwins(g.states)
    BY FlowFormTypes DEF Drawable, FlowFormOK
<1>2. Len(f.states) = Cardinality(Names(f.states)) /\ Len(g.states) = Cardinality(Names(g.states))
    BY <1>1, UniqueIs DEF Unique, Names
<1>3. IsFiniteSet(Names(f.states))
    BY <1>1, NamesAreFinite
<1>4. /\ IsFiniteSet(Names(f.states) \ {s})
      /\ Cardinality(Names(f.states) \ {s}) = Cardinality(Names(f.states)) - 1
    BY <1>3, FS_RemoveElement
<1>5. Cardinality(Names(g.states)) <= Cardinality(Names(f.states) \ {s})
    BY <1>4, FS_Subset
<1>6. Len(f.states) \in Nat /\ Len(g.states) \in Nat
    BY <1>1
<1> QED BY <1>2, <1>4, <1>5, <1>6

LEMMA DeleteStateStep ==
    ASSUME FlowInv, NEW s \in Names(form.states), DeleteState(s)
    PROVE  WellEdited
<1>1. PICK nodeSet : nodeSet = {n \in ToSet(canvas.nodes) : n.name # s}
    OBVIOUS
<1>2. PICK linkSet : linkSet = {l \in ToSet(canvas.links) : s \notin {l.from, l.to}}
    OBVIOUS
<1> DEFINE nodes == Kept(canvas.nodes, nodeSet)
           links == Kept(canvas.links, linkSet)
<1>3. /\ view = "diagram" /\ form.mode = "custom" /\ view' = view /\ stored' = stored /\ minted' = minted
      /\ Commit(nodes, links)
    BY <1>1, <1>2 DEF DeleteState, Editing, Quiet
<1>4. Fits(canvas.nodes, canvas.links, minted) /\ minted \in Nat
    BY <1>3, CanvasTypes
<1>5. /\ Fits(nodes, links, minted)
      /\ {nodes[i].name : i \in DOMAIN nodes} \subseteq {canvas.nodes[i].name : i \in DOMAIN canvas.nodes} \ {s}
    BY <1>1, <1>2, <1>4, CanvasWithout
<1> HIDE DEF nodes, links
<1>6. Fits(nodes, links, minted') /\ minted' \in Nat
    BY <1>3, <1>4, <1>5
<1>7. CommitWith(nodes, links, canvas.marks, NoRename)
    BY <1>3 DEF Commit
<1>8. canvas.marks \in [Marks -> MarkStates \cup {"absent"}] /\ Drawable(form)
      /\ Names(form.states) = {canvas.nodes[i].name : i \in DOMAIN canvas.nodes}
    BY <1>3, CanvasTypes
<1>9. FlowInv' /\ ~OnRows'
    BY <1>3, <1>6, <1>7, <1>8, CommitKeeps, RenamesTyped
<1>10. /\ Drawable(form') /\ form'.marks = form.marks
       /\ Names(form'.states) = {nodes[i].name : i \in DOMAIN nodes}
    BY <1>3, <1>6, <1>7, <1>8, CommitEdits, RenamesTyped
<1>11. Len(form'.states) < Len(form.states)
    BY <1>5, <1>8, <1>10, FewerNames
<1>12. MarksKept(form, form')
    BY ONLY <1>10 DEF MarksKept
<1> QED BY <1>9, <1>11, <1>12 DEF WellEdited, EditKept, Edited, WorkKept

-----------------------------------------------------------------------------
LEMMA LinkAdded ==
    ASSUME NEW m \in Nat, NEW nodes, NEW links, Fits(nodes, links, m),
           NEW l \in FlowLink(m + 1), l.id.from = "sm-edge", l.id.n = m,
           {l.from, l.to} \subseteq {nodes[k].name : k \in DOMAIN nodes},
           \A j \in DOMAIN links : ~(links[j].from = l.from /\ links[j].to = l.to)
    PROVE  Fits(nodes, Append(links, l), m + 1)
<1> DEFINE more == Append(links, l)
<1>1. /\ nodes \in Seq(FlowNode)
      /\ \A i, j \in DOMAIN nodes : nodes[i].name = nodes[j].name => i = j
      /\ links \in Seq(FlowLink(m)) /\ DOMAIN links = 1 .. Len(links) /\ Len(links) \in Nat
      /\ \A j, k \in DOMAIN links : links[j].id = links[k].id => j = k
      /\ PairsDiffer(links) /\ EndsAmong(links, {nodes[k].name : k \in DOMAIN nodes})
    BY DEF Fits
<1>2. ASSUME NEW id \in LinkId(m) PROVE id \in LinkId(m + 1) /\ ~(id.from = "sm-edge" /\ id.n = m)
  <2>1. "sm-edge" \notin StatusNames
      BY EditorAssumption
  <2>2. CASE id \in [from : StatusNames, to : StatusNames, n : Nat]
      BY <2>1, <2>2 DEF LinkId
  <2>3. CASE id \in [from : {"sm-edge"}, to : {"sm-edge"}, n : Nat] /\ id.n < m
      BY <2>3 DEF LinkId
  <2> QED BY <2>2, <2>3 DEF LinkId
<1>3. ASSUME NEW k \in FlowLink(m)
      PROVE  k \in FlowLink(m + 1) /\ k.id # l.id
  <2>1. /\ k.id \in LinkId(m) /\ k.from \in StatusNames /\ k.to \in StatusNames
        /\ k.named \in BOOLEAN /\ k.policy \in Policies /\ k.route \in {"plain", "corner"}
        /\ k = [id |-> k.id, from |-> k.from, to |-> k.to, named |-> k.named,
                policy |-> k.policy, route |-> k.route]
      BY FlowLinkTypes
  <2>2. k.id \in LinkId(m + 1) /\ k.id # l.id
      BY <1>2, <2>1
  <2>3. k \in FlowLink(m + 1)
      BY <2>1, <2>2 DEF FlowLink
  <2> QED BY <2>2, <2>3
<1>4. links \in Seq(FlowLink(m + 1))
    BY <1>1, <1>3
<1>5. /\ more \in Seq(FlowLink(m + 1)) /\ DOMAIN more = 1 .. Len(links) + 1
      /\ \A j \in 1 .. Len(links) : more[j] = links[j]
      /\ more[Len(links) + 1] = l
    BY <1>1, <1>4
<1> HIDE DEF more
<1>6. ASSUME NEW j \in 1 .. Len(links)
      PROVE  more[j].id # l.id /\ ~(more[j].from = l.from /\ more[j].to = l.to)
  <2>1. links[j] \in FlowLink(m) /\ more[j] = links[j] /\ j \in DOMAIN links
      BY <1>1, <1>5
  <2> QED BY <1>3, <2>1
<1>7. \A j, k \in DOMAIN more : more[j].id = more[k].id => j = k
  <2> SUFFICES ASSUME NEW j \in DOMAIN more, NEW k \in DOMAIN more, more[j].id = more[k].id
               PROVE  j = k
      OBVIOUS
  <2>1. CASE j \in 1 .. Len(links) /\ k \in 1 .. Len(links)
      BY <1>1, <1>5, <2>1
  <2>2. CASE j \notin 1 .. Len(links) \/ k \notin 1 .. Len(links)
      BY <1>1, <1>5, <1>6, <2>2
  <2> QED BY <2>1, <2>2
<1>8. PairsDiffer(more)
  <2> SUFFICES ASSUME NEW j \in DOMAIN more, NEW k \in DOMAIN more,
                      more[j].from = more[k].from, more[j].to = more[k].to
               PROVE  j = k
      BY DEF PairsDiffer
  <2>1. CASE j \in 1 .. Len(links) /\ k \in 1 .. Len(links)
      BY <1>1, <1>5, <2>1 DEF PairsDiffer
  <2>2. CASE j \notin 1 .. Len(links) \/ k \notin 1 .. Len(links)
      BY <1>1, <1>5, <1>6, <2>2
  <2> QED BY <2>1, <2>2
<1>9. EndsAmong(more, {nodes[k].name : k \in DOMAIN nodes})
  <2> SUFFICES ASSUME NEW j \in DOMAIN more
               PROVE  /\ more[j].from \in {nodes[k].name : k \in DOMAIN nodes}
                      /\ more[j].to \in {nodes[k].name : k \in DOMAIN nodes}
      BY DEF EndsAmong
  <2>1. CASE j \in 1 .. Len(links)
      BY <1>1, <1>5, <2>1 DEF EndsAmong
  <2>2. CASE j = Len(links) + 1
      BY <1>5, <2>2
  <2> QED BY <1>1, <1>5, <2>1, <2>2
<1>10. Fits(nodes, more, m + 1)
    BY <1>1, <1>5, <1>7, <1>8, <1>9 DEF Fits
<1> QED BY <1>10 DEF more

LEMMA DrawStep ==
    ASSUME FlowInv, NEW from, NEW to, {from, to} \subseteq Names(form.states),
           NEW route \in {"plain", "corner"}, ~IsDuplicate(from, to), Draw(NewLink(from, to, route))
    PROVE  WellEdited
<1>1. PICK l : l = NewLink(from, to, route)
    OBVIOUS
<1>2. /\ view = "diagram" /\ form.mode = "custom" /\ view' = view /\ stored' = stored
      /\ minted' = minted + 1 /\ Commit(canvas.nodes, Append(canvas.links, l))
    BY <1>1 DEF Draw, Editing
<1>3. /\ Fits(canvas.nodes, canvas.links, minted) /\ minted \in Nat
      /\ Names(form.states) = {canvas.nodes[i].name : i \in DOMAIN canvas.nodes}
      /\ Names(form.states) \subseteq StatusNames
    BY <1>2, CanvasTypes
<1>4. /\ l.id = MintId(from, to, minted) /\ l.from = from /\ l.to = to
      /\ l = [id |-> l.id, from |-> from, to |-> to, named |-> FALSE, policy |-> "KEEP", route |-> route]
    BY <1>1 DEF NewLink
<1>5. MintId(from, to, minted) \in LinkId(minted + 1) /\ l.id.from = "sm-edge" /\ l.id.n = minted
    BY <1>3, <1>4 DEF MintId, LinkId
<1>6. l \in FlowLink(minted + 1)
  <2>1. l.id \in LinkId(minted + 1) /\ from \in StatusNames /\ to \in StatusNames
      BY <1>3, <1>4, <1>5
  <2>2. PICK b \in BOOLEAN : b = FALSE
      OBVIOUS
  <2>3. l = [id |-> l.id, from |-> from, to |-> to, named |-> b, policy |-> "KEEP", route |-> route]
      BY <1>4, <2>2
  <2> QED BY <2>1, <2>3 DEF FlowLink, Policies
<1>7. \A j \in DOMAIN canvas.links : ~(canvas.links[j].from = l.from /\ canvas.links[j].to = l.to)
    BY <1>4 DEF IsDuplicate, ToSet
<1>8. {l.from, l.to} \subseteq {canvas.nodes[k].name : k \in DOMAIN canvas.nodes}
    BY <1>3, <1>4
<1>9. Fits(canvas.nodes, Append(canvas.links, l), minted + 1)
    BY <1>3, <1>5, <1>6, <1>7, <1>8, LinkAdded
<1>10. Fits(canvas.nodes, Append(canvas.links, l), minted') /\ minted' \in Nat
    BY <1>2, <1>3, <1>9
<1> QED BY <1>2, <1>10, CanvasCommit

LEMMA AddTransitionStep ==
    ASSUME FlowInv, NEW s \in Names(form.states), AddTransitionFrom(s)
    PROVE  WellEdited
<1> DEFINE goals == {t \in Names(form.states) : ~IsDuplicate(s, t)}
           free == Kept(form.states, goals)
<1>1. form.states \in Seq(StatusNames)
    BY FlowFormTypes DEF FlowInv, FlowFormOK
<1>2. free \in Seq(StatusNames) /\ \A j \in DOMAIN free : free[j] \in goals
  <2> HIDE DEF goals
  <2> QED BY <1>1, KeptReaches
<1>3. free # <<>> /\ Draw(NewLink(s, Head(free), DefaultRoute(s, Head(free))))
    BY DEF AddTransitionFrom
<1> HIDE DEF free
<1>4. Head(free) \in goals
  <2>1. 1 \in DOMAIN free /\ Head(free) = free[1]
      BY <1>2, <1>3
  <2> QED BY <1>2, <2>1
<1>5. Head(free) \in Names(form.states) /\ ~IsDuplicate(s, Head(free))
    BY <1>4
<1> HIDE DEF goals
<1>6. PICK to, route : to = Head(free) /\ route = DefaultRoute(s, Head(free))
    OBVIOUS
<1>7. route \in {"plain", "corner"}
    BY <1>6 DEF DefaultRoute
<1> QED BY <1>3, <1>5, <1>6, <1>7, DrawStep

Redrawn(l, from, to, route) == [l EXCEPT !.from = from, !.to = to, !.route = route]

LEMMA LinkRerouted ==
    ASSUME NEW m \in Nat, NEW l \in FlowLink(m), NEW from \in StatusNames, NEW to \in StatusNames,
           NEW route \in {"plain", "corner"},
           NEW k, k = Redrawn(l, from, to, route)
    PROVE  k \in FlowLink(m) /\ k.id = l.id /\ k.from = from /\ k.to = to
<1>1. /\ l.id \in LinkId(m) /\ l.named \in BOOLEAN /\ l.policy \in Policies
      /\ l = [id |-> l.id, from |-> l.from, to |-> l.to, named |-> l.named,
              policy |-> l.policy, route |-> l.route]
    BY FlowLinkTypes
<1>2. PICK b \in BOOLEAN : b = l.named
    BY <1>1
<1>3. k = [id |-> l.id, from |-> from, to |-> to, named |-> b, policy |-> l.policy, route |-> route]
    BY <1>1, <1>2 DEF Redrawn
<1> QED BY <1>1, <1>3 DEF FlowLink

LEMMA RerouteStep ==
    ASSUME FlowInv, NEW i \in DOMAIN canvas.links, NEW from \in Names(form.states),
           NEW to \in Names(form.states), RerouteTransition(i, from, to)
    PROVE  WellEdited
<1>1. PICK l, route : l = canvas.links[i] /\ route = RouteAfter(canvas.links[i], from, to)
    OBVIOUS
<1>2. PICK k : k = Redrawn(l, from, to, route)
    OBVIOUS
<1>3. /\ view = "diagram" /\ form.mode = "custom" /\ view' = view /\ stored' = stored /\ minted' = minted
      /\ ~IsDuplicate(from, to) /\ Commit(canvas.nodes, [canvas.links EXCEPT ![i] = k])
    BY <1>1, <1>2 DEF RerouteTransition, Editing, Quiet, Taken, Redrawn
<1>4. /\ Fits(canvas.nodes, canvas.links, minted) /\ minted \in Nat
      /\ canvas.links \in Seq(FlowLink(minted)) /\ l \in FlowLink(minted)
      /\ Names(form.states) = {canvas.nodes[j].name : j \in DOMAIN canvas.nodes}
      /\ Names(form.states) \subseteq StatusNames
    BY <1>1, <1>3, CanvasTypes
<1>5. route \in {"plain", "corner"}
  <2>1. l.route \in {"plain", "corner"}
      BY <1>4, FlowLinkTypes
  <2> QED BY <1>1, <2>1 DEF RouteAfter, DefaultRoute
<1>6. k \in FlowLink(minted) /\ k.id = l.id /\ k.from = from /\ k.to = to
  <2>1. from \in StatusNames /\ to \in StatusNames
      BY <1>4
  <2>2. k = Redrawn(l, from, to, route) /\ l \in FlowLink(minted) /\ minted \in Nat
      BY <1>2, <1>4
  <2> QED BY ONLY <1>5, <2>1, <2>2, LinkRerouted
<1>7. /\ {k.from, k.to} \subseteq {canvas.nodes[j].name : j \in DOMAIN canvas.nodes}
      /\ \A j \in DOMAIN canvas.links : canvas.links[j].from = k.from /\ canvas.links[j].to = k.to => j = i
      /\ k.id = canvas.links[i].id
    BY <1>1, <1>3, <1>4, <1>6 DEF IsDuplicate, ToSet
<1>8. Fits(canvas.nodes, [canvas.links EXCEPT ![i] = k], minted)
    BY <1>4, <1>6, <1>7, LinkReplaced
<1>9. Fits(canvas.nodes, [canvas.links EXCEPT ![i] = k], minted') /\ minted' \in Nat
    BY <1>3, <1>4, <1>8
<1> QED BY <1>3, <1>9, CanvasCommit

LEMMA TransitionEditStep ==
    ASSUME FlowInv, TransitionEdit
    PROVE  WellEdited
<1>1. ASSUME NEW from \in Names(form.states), NEW to \in Names(form.states),
             NEW route \in {"plain", "corner"}, Connect(from, to, route)
      PROVE  WellEdited
  <2>1. ~IsDuplicate(from, to) /\ Draw(NewLink(from, to, route))
      BY <1>1 DEF Connect, Taken
  <2> QED BY <2>1, DrawStep
<1>2. ASSUME NEW s \in Names(form.states), DropOnSelf(s)
      PROVE  WellEdited
  <2>1. ~IsDuplicate(s, s) /\ Draw(NewLink(s, s, "corner"))
      BY <1>2 DEF DropOnSelf, WantsSelfLoop
  <2> QED BY <2>1, DrawStep
<1> QED BY <1>1, <1>2, AddTransitionStep, RerouteStep, LinkEditStep DEF TransitionEdit

LEMMA StatusEditStep ==
    ASSUME FlowInv, StatusEdit
    PROVE  WellEdited
BY AddStateStep, DeleteStateStep, RenameStateStep, DragStateStep DEF StatusEdit

-----------------------------------------------------------------------------
(* What is beside the graph may change without the graph.                  *)
Beside(f, nodeActions, descriptions, marks, sources) ==
    [mode |-> f.mode, states |-> f.states, transitions |-> f.transitions,
     positions |-> f.positions, nodeActions |-> nodeActions, descriptions |-> descriptions,
     marks |-> marks, sources |-> sources]

ActionsOK(f, nodeActions) ==
    /\ ByStatus(nodeActions, Seq(StatusNames)) /\ DOMAIN nodeActions \subseteq Names(f.states)
    /\ \A s \in DOMAIN nodeActions : \A i \in DOMAIN nodeActions[s] :
          nodeActions[s][i] \in Names(f.states)

LEMMA BesideDrawn ==
    ASSUME NEW f, Drawable(f), f.mode = "custom",
           NEW nodeActions, ActionsOK(f, nodeActions),
           NEW descriptions \in SUBSET Names(f.states), NEW marks \in [Marks -> MarkStates],
           NEW sources \in [Marks -> SUBSET Names(f.states)],
           NEW g, g = Beside(f, nodeActions, descriptions, marks, sources)
    PROVE  /\ Drawable(g) /\ g.states = f.states /\ g.transitions = f.transitions
           /\ g.positions = f.positions /\ g.marks = marks /\ g.sources = sources
           /\ g.nodeActions = nodeActions /\ g.descriptions = descriptions
<1>1. /\ IsFlowForm(f) /\ Anchored(f) /\ NoTwins(f.states) /\ PairsDiffer(f.transitions)
    BY DEF Drawable, FlowFormOK
<1>2. /\ f.states \in Seq(StatusNames) /\ f.transitions \in Seq(FlowEdge)
      /\ Names(f.states) \subseteq StatusNames /\ ByStatus(f.positions, Spots)
  <2>1. f.states \in Seq(StatusNames) /\ f.transitions \in Seq(FlowEdge)
      BY <1>1, FlowFormTypes
  <2>2. Names(f.states) \subseteq StatusNames
      BY <2>1 DEF Names, ToSet
  <2> QED BY <1>1, <2>1, <2>2 DEF IsFlowForm
<1>3. /\ g.mode = "custom" /\ g.states = f.states /\ g.transitions = f.transitions
      /\ g.positions = f.positions /\ g.nodeActions = nodeActions
      /\ g.descriptions = descriptions /\ g.marks = marks /\ g.sources = sources
      /\ g = [mode |-> g.mode, states |-> g.states, transitions |-> g.transitions,
              positions |-> g.positions, nodeActions |-> g.nodeActions,
              descriptions |-> g.descriptions, marks |-> g.marks, sources |-> g.sources]
    BY DEF Beside
<1>4. sources \in [Marks -> SUBSET StatusNames] /\ descriptions \subseteq StatusNames
    BY <1>2
<1>5. ByStatus(nodeActions, Seq(StatusNames)) /\ DOMAIN nodeActions \subseteq Names(f.states)
    BY DEF ActionsOK
<1>6. IsFlowForm(g)
    BY <1>2, <1>3, <1>4, <1>5 DEF IsFlowForm
<1>7. Anchored(g)
    BY <1>1, <1>3, <1>5 DEF Anchored
<1>8. ActionsAlive(g)
    BY <1>3 DEF ActionsAlive, ActionsOK
<1> QED BY <1>1, <1>3, <1>6, <1>7, <1>8 DEF Drawable, FlowFormOK

LEMMA BesideTypes ==
    ASSUME NEW f, Drawable(f)
    PROVE  /\ ActionsOK(f, f.nodeActions) /\ f.descriptions \subseteq Names(f.states)
           /\ f.marks \in [Marks -> MarkStates] /\ f.sources \in [Marks -> SUBSET Names(f.states)]
           /\ f = Beside(f, f.nodeActions, f.descriptions, f.marks, f.sources)
           /\ Names(f.states) \subseteq StatusNames /\ f.states \in Seq(StatusNames)
<1>1. /\ IsFlowForm(f) /\ Anchored(f) /\ ActionsAlive(f)
    BY DEF Drawable, FlowFormOK
<1>2. /\ f.marks \in [Marks -> MarkStates] /\ f.sources \in [Marks -> SUBSET StatusNames]
      /\ f.states \in Seq(StatusNames)
      /\ f = Beside(f, f.nodeActions, f.descriptions, f.marks, f.sources)
    BY <1>1, FlowFormTypes DEF Beside
<1>3. f.sources \in [Marks -> SUBSET Names(f.states)]
    BY <1>1, <1>2 DEF Anchored
<1>4. ActionsOK(f, f.nodeActions)
    BY <1>1 DEF ActionsOK, Anchored, ActionsAlive, IsFlowForm
<1>5. Names(f.states) \subseteq StatusNames
    BY <1>2 DEF Names, ToSet
<1> QED BY <1>1, <1>2, <1>3, <1>4, <1>5 DEF Anchored

LEMMA MarksReset ==
    ASSUME FlowInv, view = "diagram", form.mode = "custom", stored' = stored, minted' = minted,
           NEW marks \in [Marks -> MarkStates], NEW sources \in [Marks -> SUBSET Names(form.states)],
           Reset(Beside(form, form.nodeActions, form.descriptions, marks, sources)),
           NEW x, \A k \in Marks : \A s \in form.sources[k] : s \in sources[k] \/ x = <<k, s>>
    PROVE  WellEdited
<1>1. Drawable(form)
    BY CanvasTypes
<1>2. PICK g : g = Beside(form, form.nodeActions, form.descriptions, marks, sources)
    OBVIOUS
<1>3. /\ ActionsOK(form, form.nodeActions) /\ form.descriptions \subseteq Names(form.states)
    BY <1>1, BesideTypes
<1>4. /\ Drawable(g) /\ g.states = form.states /\ g.transitions = form.transitions
      /\ g.sources = sources /\ g.nodeActions = form.nodeActions
      /\ g.descriptions = form.descriptions
    BY <1>1, <1>2, <1>3, BesideDrawn
<1>5. ~OnRows /\ Reset(g) /\ FlowDocOK(stored')
    BY <1>2 DEF OnRows, FlowInv
<1>6. FlowInv' /\ ~OnRows'
    BY <1>4, <1>5, ResetKeeps
<1>7. Loses(form, g, x)
    BY <1>4 DEF Loses
<1>8. Edited(form, g)
    BY <1>4, <1>7, LosesOne
<1>9. form' = g
    BY <1>5 DEF Reset
<1> QED BY <1>6, <1>8, <1>9 DEF WellEdited, EditKept

LEMMA ChangeMarkStep ==
    ASSUME FlowInv, view = "diagram", form.mode = "custom", stored' = stored, minted' = minted,
           NEW k \in Marks, NEW mark \in MarkStates, ChangeMark(k, mark)
    PROVE  WellEdited
<1>1. Drawable(form)
    BY CanvasTypes
<1>2. /\ form.marks \in [Marks -> MarkStates] /\ form.sources \in [Marks -> SUBSET Names(form.states)]
      /\ form = Beside(form, form.nodeActions, form.descriptions, form.marks, form.sources)
    BY <1>1, BesideTypes
<1>3. PICK marks : marks = [form.marks EXCEPT ![k] = mark]
    OBVIOUS
<1>4. marks \in [Marks -> MarkStates]
    BY <1>2, <1>3
<1>5. [form EXCEPT !.marks[k] = mark] =
          Beside(form, form.nodeActions, form.descriptions, marks, form.sources)
    BY <1>2, <1>3 DEF Beside
<1>6. Reset(Beside(form, form.nodeActions, form.descriptions, marks, form.sources))
    BY <1>5 DEF ChangeMark
<1>7. \A l \in Marks : \A s \in form.sources[l] : s \in form.sources[l] \/ k = <<l, s>>
    OBVIOUS
<1> QED BY <1>2, <1>4, <1>6, <1>7, MarksReset

LEMMA ChangeSourcesStep ==
    ASSUME FlowInv, view = "diagram", form.mode = "custom", stored' = stored, minted' = minted,
           NEW k \in Marks, NEW names \in SUBSET Names(form.states),
           Reset([form EXCEPT !.sources[k] = names]),
           NEW x, \A s \in form.sources[k] : s \in names \/ x = <<k, s>>
    PROVE  WellEdited
<1>1. Drawable(form)
    BY CanvasTypes
<1>2. /\ form.marks \in [Marks -> MarkStates] /\ form.sources \in [Marks -> SUBSET Names(form.states)]
      /\ form = Beside(form, form.nodeActions, form.descriptions, form.marks, form.sources)
    BY <1>1, BesideTypes
<1>3. PICK sources : sources = [form.sources EXCEPT ![k] = names]
    OBVIOUS
<1>4. sources \in [Marks -> SUBSET Names(form.states)]
    BY <1>2, <1>3
<1>5. [form EXCEPT !.sources[k] = names] =
          Beside(form, form.nodeActions, form.descriptions, form.marks, sources)
    BY <1>2, <1>3 DEF Beside
<1>6. Reset(Beside(form, form.nodeActions, form.descriptions, form.marks, sources))
    BY <1>5
<1>7. \A l \in Marks : \A s \in form.sources[l] : s \in sources[l] \/ x = <<l, s>>
    BY <1>2, <1>3
<1> QED BY <1>2, <1>4, <1>6, <1>7, MarksReset

(* What is captured of the canvas as it is, is the graph of the form.      *)
LEMMA CapturedAsShown ==
    ASSUME FlowInv, view = "diagram", NEW marks, NEW rename,
           NEW f, f = Captured(canvas.nodes, canvas.links, marks, rename)
    PROVE  f.states = form.states /\ Pairs(f.transitions) = Pairs(form.transitions)
<1>1. Shows(canvas, form) /\ Drawable(form) /\ DOMAIN canvas.links = 1 .. Len(canvas.links)
    BY CanvasTypes
<1>2. /\ [i \in DOMAIN canvas.nodes |-> canvas.nodes[i].name] = form.states
      /\ Len(canvas.links) = Len(form.transitions)
      /\ \A i \in DOMAIN canvas.links : Wired(canvas.links[i]) = Wired(form.transitions[i])
    BY <1>1 DEF Shows
<1>3. /\ f.states = [i \in DOMAIN canvas.nodes |-> canvas.nodes[i].name]
      /\ f.transitions = [i \in DOMAIN canvas.links |-> Routed(canvas.links[i], canvas.links[i].route)]
    BY DEF Captured
<1>4. form.transitions \in Seq(FlowEdge)
    BY <1>1, FlowFormTypes DEF Drawable, FlowFormOK
<1>5. DOMAIN form.transitions = 1 .. Len(canvas.links)
    BY <1>2, <1>4
<1>6. ASSUME NEW i \in 1 .. Len(canvas.links)
      PROVE  /\ f.transitions[i].from = form.transitions[i].from
             /\ f.transitions[i].to = form.transitions[i].to
  <2>1. Wired(canvas.links[i]) = Wired(form.transitions[i])
      BY <1>1, <1>2
  <2>2. canvas.links[i].from = form.transitions[i].from /\ canvas.links[i].to = form.transitions[i].to
      BY <2>1 DEF Wired
  <2>3. f.transitions[i] = Routed(canvas.links[i], canvas.links[i].route)
      BY <1>1, <1>3
  <2> QED BY <2>2, <2>3 DEF Routed
<1>7. DOMAIN f.transitions = 1 .. Len(canvas.links)
    BY <1>1, <1>3
<1>8. Pairs(f.transitions) = Pairs(form.transitions)
    BY <1>5, <1>6, <1>7 DEF Pairs
<1> QED BY <1>2, <1>3, <1>8

LEMMA MarkEditStep ==
    ASSUME FlowInv, MarkEdit
    PROVE  WellEdited
<1>1. PICK k \in Marks :
        \/ ResetMark(k) \/ HideMark(k) \/ DropMark(k) \/ DragMark(k)
        \/ \E s \in Names(form.states) : LinkMark(k, s)
        \/ \E s \in form.sources[k] : UnlinkMark(k, s)
    BY DEF MarkEdit
<1>2. /\ view = "diagram" /\ form.mode = "custom" /\ stored' = stored /\ minted' = minted
    BY <1>1 DEF ResetMark, HideMark, DropMark, DragMark, LinkMark, UnlinkMark, Editing, Quiet
<1>3. Drawable(form) /\ canvas.marks \in [Marks -> MarkStates \cup {"absent"}]
      /\ Fits(canvas.nodes, canvas.links, minted) /\ minted \in Nat
    BY <1>2, CanvasTypes
<1>4. form.sources \in [Marks -> SUBSET Names(form.states)]
    BY <1>3, BesideTypes
<1>5. CASE ResetMark(k) \/ HideMark(k) \/ DropMark(k)
  <2>1. \E mark \in MarkStates : ChangeMark(k, mark)
      BY <1>5 DEF ResetMark, HideMark, DropMark, MarkStates
  <2> QED BY <1>2, <2>1, ChangeMarkStep
<1>6. CASE DragMark(k)
  <2>1. PICK marks : marks = [canvas.marks EXCEPT ![k] = "pinned"]
      OBVIOUS
  <2>2. marks \in [Marks -> MarkStates \cup {"absent"}]
      BY <1>3, <2>1 DEF MarkStates
  <2>3. CommitWith(canvas.nodes, canvas.links, marks, NoRename) /\ view' = view
      BY <1>6, <2>1 DEF DragMark, Quiet
  <2>4. Fits(canvas.nodes, canvas.links, minted') /\ minted' \in Nat
      BY <1>2, <1>3
  <2>5. FlowInv' /\ ~OnRows'
      BY <1>2, <2>2, <2>3, <2>4, CommitKeeps, RenamesTyped
  <2>6. Names(form.states) = {canvas.nodes[i].name : i \in DOMAIN canvas.nodes}
      BY <1>2, CanvasTypes
  <2>7. \A s \in Names(form.states) : MapName(s, NoRename) \in {canvas.nodes[i].name : i \in DOMAIN canvas.nodes}
      BY <2>6, NotRenamed
  <2>8. WorkKept(form, form')
      BY <1>2, <2>2, <2>3, <2>4, <2>7, NamesStayApart, RenamesTyped, CommitFollows
  <2>9. form' = Captured(canvas.nodes, canvas.links, marks, NoRename)
      BY <2>3 DEF CommitWith
  <2>10. form'.states = form.states /\ Pairs(form'.transitions) = Pairs(form.transitions)
      BY <1>2, <2>9, CapturedAsShown
  <2>11. MarksKept(form, form')
      BY ONLY <2>10 DEF MarksKept
  <2> QED BY <2>5, <2>8, <2>11 DEF WellEdited, EditKept, Edited
<1>7. ASSUME NEW s \in Names(form.states), LinkMark(k, s)
      PROVE  WellEdited
  <2>1. PICK names : names = form.sources[k] \union {s}
      OBVIOUS
  <2>2. names \subseteq Names(form.states)
      BY <1>4, <2>1
  <2>3. Reset([form EXCEPT !.sources[k] = names])
      BY <1>7, <2>1 DEF LinkMark
  <2>4. \A t \in form.sources[k] : t \in names \/ s = <<k, t>>
      BY <2>1
  <2> QED BY <1>2, <2>2, <2>3, <2>4, ChangeSourcesStep
<1>8. ASSUME NEW s \in form.sources[k], UnlinkMark(k, s)
      PROVE  WellEdited
  <2>1. PICK names : names = form.sources[k] \ {s}
      OBVIOUS
  <2>2. names \subseteq Names(form.states)
      BY <1>4, <2>1
  <2>3. Reset([form EXCEPT !.sources[k] = names])
      BY <1>8, <2>1 DEF UnlinkMark
  <2>4. PICK x : x = <<k, s>>
      OBVIOUS
  <2>5. \A t \in form.sources[k] : t \in names \/ x = <<k, t>>
      BY <2>1, <2>4
  <2> QED BY <1>2, <2>2, <2>3, <2>5, ChangeSourcesStep
<1> QED BY <1>1, <1>5, <1>6, <1>7, <1>8

-----------------------------------------------------------------------------
LEMMA LiftedBeside ==
    ASSUME FlowInv, view = "diagram", form.mode = "custom",
           view' = view, stored' = stored, minted' = minted,
           NEW nodeActions, ActionsOK(form, nodeActions),
           NEW descriptions \in SUBSET Names(form.states),
           Lift(Beside(form, nodeActions, descriptions, form.marks, form.sources)),
           NEW x, \A s \in form.descriptions : s \in descriptions \/ x = <<"description", s>>,
           \A s \in DOMAIN form.nodeActions : \A i \in DOMAIN form.nodeActions[s] :
              (s \in DOMAIN nodeActions /\ i \in DOMAIN nodeActions[s]) \/ x = <<"action", s, i>>
    PROVE  WellEdited
<1>1. Drawable(form)
    BY CanvasTypes
<1>2. /\ form.marks \in [Marks -> MarkStates] /\ form.sources \in [Marks -> SUBSET Names(form.states)]
    BY <1>1, BesideTypes
<1>3. PICK g : g = Beside(form, nodeActions, descriptions, form.marks, form.sources)
    OBVIOUS
<1>4. /\ Drawable(g) /\ g.states = form.states /\ g.transitions = form.transitions
      /\ g.positions = form.positions /\ g.marks = form.marks /\ g.sources = form.sources
      /\ g.nodeActions = nodeActions /\ g.descriptions = descriptions
    BY <1>1, <1>2, <1>3, BesideDrawn
<1>5. Lift(g)
    BY <1>3
<1>6. FlowInv' /\ ~OnRows'
    BY <1>4, <1>5, LiftKeeps
<1>7. Loses(form, g, x)
    BY <1>4 DEF Loses
<1>8. Edited(form, g)
    BY <1>4, <1>7, LosesOne
<1>9. form' = g
    BY <1>5 DEF Lift
<1> QED BY <1>6, <1>8, <1>9 DEF WellEdited, EditKept

LEMMA ActionsTyped ==
    ASSUME Drawable(form), NEW s
    PROVE  /\ ActionsOf(s) \in Seq(StatusNames)
           /\ \A i \in DOMAIN ActionsOf(s) : ActionsOf(s)[i] \in Names(form.states)
<1>1. ActionsOK(form, form.nodeActions)
    BY BesideTypes
<1>2. CASE s \in DOMAIN form.nodeActions
    BY <1>1, <1>2 DEF ActionsOK, ByStatus, ActionsOf
<1>3. CASE s \notin DOMAIN form.nodeActions
    BY <1>3 DEF ActionsOf
<1> QED BY <1>2, <1>3

LEMMA SetActionsStep ==
    ASSUME FlowInv, view = "diagram", form.mode = "custom",
           view' = view, stored' = stored, minted' = minted,
           NEW s \in Names(form.states), NEW actions \in Seq(StatusNames),
           \A i \in DOMAIN actions : actions[i] \in Names(form.states), SetActions(s, actions),
           NEW x, \A i \in DOMAIN ActionsOf(s) : i \in DOMAIN actions \/ x = <<"action", s, i>>
    PROVE  WellEdited
<1>1. Drawable(form)
    BY CanvasTypes
<1>2. /\ ActionsOK(form, form.nodeActions) /\ form.descriptions \subseteq Names(form.states)
      /\ form = Beside(form, form.nodeActions, form.descriptions, form.marks, form.sources)
      /\ Names(form.states) \subseteq StatusNames
    BY <1>1, BesideTypes
<1>3. PICK nodeActions :
          nodeActions = [o \in DOMAIN form.nodeActions \union {s} |-> IF o = s THEN actions ELSE ActionsOf(o)]
    OBVIOUS
<1>4. /\ DOMAIN nodeActions = DOMAIN form.nodeActions \union {s}
      /\ \A o \in DOMAIN nodeActions :
            /\ nodeActions[o] \in Seq(StatusNames)
            /\ \A i \in DOMAIN nodeActions[o] : nodeActions[o][i] \in Names(form.states)
  <2>1. DOMAIN nodeActions = DOMAIN form.nodeActions \union {s}
      BY <1>3
  <2>2. ASSUME NEW o \in DOMAIN nodeActions
        PROVE  /\ nodeActions[o] \in Seq(StatusNames)
               /\ \A i \in DOMAIN nodeActions[o] : nodeActions[o][i] \in Names(form.states)
    <3>1. nodeActions[o] = IF o = s THEN actions ELSE ActionsOf(o)
        BY <1>3
    <3>2. CASE o = s
        BY <3>1, <3>2
    <3>3. CASE o # s
        BY <1>1, <3>1, <3>3, ActionsTyped
    <3> QED BY <3>2, <3>3
  <2> QED BY <2>1, <2>2
<1>5. ActionsOK(form, nodeActions)
    BY <1>2, <1>4 DEF ActionsOK, ByStatus
<1>6. [form EXCEPT !.nodeActions =
             [o \in DOMAIN @ \union {s} |-> IF o = s THEN actions ELSE ActionsOf(o)]]
          = Beside(form, nodeActions, form.descriptions, form.marks, form.sources)
    BY <1>2, <1>3 DEF Beside
<1>7. Lift(Beside(form, nodeActions, form.descriptions, form.marks, form.sources))
    BY <1>6 DEF SetActions
<1>8. ASSUME NEW o \in DOMAIN form.nodeActions, NEW i \in DOMAIN form.nodeActions[o]
      PROVE  (o \in DOMAIN nodeActions /\ i \in DOMAIN nodeActions[o]) \/ x = <<"action", o, i>>
  <2>1. o \in DOMAIN nodeActions /\ nodeActions[o] = IF o = s THEN actions ELSE ActionsOf(o)
      BY <1>3
  <2>2. ActionsOf(o) = form.nodeActions[o]
      BY DEF ActionsOf
  <2> QED BY <2>1, <2>2
<1>9. \A o \in form.descriptions : o \in form.descriptions \/ x = <<"description", o>>
    OBVIOUS
<1> QED BY <1>2, <1>5, <1>7, <1>8, <1>9, LiftedBeside

LEMMA NodeEditStep ==
    ASSUME FlowInv, NodeEdit
    PROVE  WellEdited
<1>1. PICK s \in Names(form.states) :
        \/ AddNodeAction(s) \/ Describe(s) \/ ClearDescription(s)
        \/ \E i \in DOMAIN ActionsOf(s) :
              DeleteNodeAction(s, i) \/ \E value \in Names(form.states) : EditNodeAction(s, i, value)
    BY DEF NodeEdit
<1>2. /\ view = "diagram" /\ form.mode = "custom" /\ view' = view /\ stored' = stored /\ minted' = minted
    BY <1>1 DEF AddNodeAction, Describe, ClearDescription, DeleteNodeAction, EditNodeAction, Editing, Quiet
<1>3. Drawable(form)
    BY <1>2, CanvasTypes
<1>4. /\ form.descriptions \subseteq Names(form.states) /\ ActionsOK(form, form.nodeActions)
      /\ form = Beside(form, form.nodeActions, form.descriptions, form.marks, form.sources)
      /\ Names(form.states) \subseteq StatusNames /\ form.states \in Seq(StatusNames)
    BY <1>3, BesideTypes
<1>5. PICK was \in Seq(StatusNames) :
          was = ActionsOf(s) /\ \A i \in DOMAIN was : was[i] \in Names(form.states)
    BY <1>3, ActionsTyped
<1>6. CASE AddNodeAction(s)
  <2> DEFINE others == Kept(form.states, Names(form.states) \ {s})
             value == IF others = <<>> THEN s ELSE Head(others)
  <2>1. SetActions(s, Append(was, value))
      BY <1>5, <1>6 DEF AddNodeAction
  <2>2. others \in Seq(StatusNames) /\ \A j \in DOMAIN others : others[j] \in Names(form.states) \ {s}
      BY <1>4, KeptReaches
  <2>3. value \in Names(form.states)
    <3> HIDE DEF others
    <3>1. CASE others = <<>>
        BY <3>1
    <3>2. CASE others # <<>>
      <4>1. 1 \in DOMAIN others /\ Head(others) = others[1]
          BY <2>2, <3>2
      <4> QED BY <2>2, <3>2, <4>1
    <3> QED BY <3>1, <3>2
  <2> HIDE DEF value
  <2>4. PICK actions : actions = Append(was, value)
      OBVIOUS
  <2>5. /\ actions \in Seq(StatusNames) /\ \A i \in DOMAIN actions : actions[i] \in Names(form.states)
      BY <1>4, <1>5, <2>3, <2>4
  <2>6. \A i \in DOMAIN ActionsOf(s) : i \in DOMAIN actions \/ s = <<"action", s, i>>
      BY <1>5, <2>4
  <2>7. SetActions(s, actions)
      BY <2>1, <2>4
  <2> QED BY <1>2, <2>5, <2>6, <2>7, SetActionsStep
<1>7. ASSUME NEW i \in DOMAIN ActionsOf(s), NEW value \in Names(form.states), EditNodeAction(s, i, value)
      PROVE  WellEdited
  <2>1. PICK actions : actions = [was EXCEPT ![i] = value]
      OBVIOUS
  <2>2. SetActions(s, actions)
      BY <1>5, <1>7, <2>1 DEF EditNodeAction
  <2>3. /\ actions \in Seq(StatusNames) /\ \A j \in DOMAIN actions : actions[j] \in Names(form.states)
      BY <1>4, <1>5, <2>1
  <2>4. \A j \in DOMAIN ActionsOf(s) : j \in DOMAIN actions \/ s = <<"action", s, j>>
      BY <1>5, <2>1
  <2> QED BY <1>2, <2>2, <2>3, <2>4, SetActionsStep
<1>8. ASSUME NEW i \in DOMAIN ActionsOf(s), DeleteNodeAction(s, i)
      PROVE  WellEdited
  <2>1. PICK actions : actions = RemoveAt(was, i)
      OBVIOUS
  <2>2. SetActions(s, actions)
      BY <1>5, <1>8, <2>1 DEF DeleteNodeAction
  <2>3. actions \in Seq(StatusNames) /\ FromPlaces(actions, was) /\ Len(actions) = Len(was) - 1
      BY <1>5, <2>1, RemovalKeepsTheRest
  <2>4. \A j \in DOMAIN actions : actions[j] \in Names(form.states)
      BY <1>5, <2>3 DEF FromPlaces
  <2>5. PICK x : x = <<"action", s, Len(was)>>
      OBVIOUS
  <2>6. \A j \in DOMAIN ActionsOf(s) : j \in DOMAIN actions \/ x = <<"action", s, j>>
    <3> SUFFICES ASSUME NEW j \in DOMAIN was, j \notin DOMAIN actions PROVE x = <<"action", s, j>>
        BY <1>5
    <3>1. DOMAIN was = 1 .. Len(was) /\ DOMAIN actions = 1 .. Len(was) - 1 /\ Len(was) \in Nat
        BY <1>5, <2>3
    <3>2. j = Len(was)
        BY <3>1
    <3> QED BY <2>5, <3>2
  <2> QED BY <1>2, <2>2, <2>3, <2>4, <2>6, SetActionsStep
<1>9. CASE Describe(s)
  <2>1. PICK descriptions : descriptions = form.descriptions \union {s}
      OBVIOUS
  <2>2. descriptions \subseteq Names(form.states)
      BY <1>4, <2>1
  <2>3. [form EXCEPT !.descriptions = @ \union {s}]
            = Beside(form, form.nodeActions, descriptions, form.marks, form.sources)
    <3>1. [form EXCEPT !.descriptions = @ \union {s}] = [form EXCEPT !.descriptions = descriptions]
        BY <2>1, Zenon
    <3>2. [form EXCEPT !.descriptions = descriptions]
              = Beside(form, form.nodeActions, descriptions, form.marks, form.sources)
        BY <1>4 DEF Beside
    <3> QED BY <3>1, <3>2
  <2>4. Lift(Beside(form, form.nodeActions, descriptions, form.marks, form.sources))
      BY <1>9, <2>3 DEF Describe
  <2>5. \A t \in form.descriptions : t \in descriptions \/ s = <<"description", t>>
      BY <2>1
  <2>6. \A t \in DOMAIN form.nodeActions : \A i \in DOMAIN form.nodeActions[t] :
           (t \in DOMAIN form.nodeActions /\ i \in DOMAIN form.nodeActions[t]) \/ s = <<"action", t, i>>
      OBVIOUS
  <2> QED BY <1>2, <1>4, <2>2, <2>4, <2>5, <2>6, LiftedBeside
<1>10. CASE ClearDescription(s)
  <2>1. PICK descriptions : descriptions = form.descriptions \ {s}
      OBVIOUS
  <2>2. descriptions \subseteq Names(form.states)
      BY <1>4, <2>1
  <2>3. [form EXCEPT !.descriptions = @ \ {s}]
            = Beside(form, form.nodeActions, descriptions, form.marks, form.sources)
    <3>1. [form EXCEPT !.descriptions = @ \ {s}] = [form EXCEPT !.descriptions = descriptions]
        BY <2>1, Zenon
    <3>2. [form EXCEPT !.descriptions = descriptions]
              = Beside(form, form.nodeActions, descriptions, form.marks, form.sources)
        BY <1>4 DEF Beside
    <3> QED BY <3>1, <3>2
  <2>4. Lift(Beside(form, form.nodeActions, descriptions, form.marks, form.sources))
      BY <1>10, <2>3 DEF ClearDescription
  <2>5. PICK x : x = <<"description", s>>
      OBVIOUS
  <2>6. \A t \in form.descriptions : t \in descriptions \/ x = <<"description", t>>
      BY <2>1, <2>5
  <2>7. \A t \in DOMAIN form.nodeActions : \A i \in DOMAIN form.nodeActions[t] :
           (t \in DOMAIN form.nodeActions /\ i \in DOMAIN form.nodeActions[t]) \/ x = <<"action", t, i>>
      OBVIOUS
  <2> QED BY <1>2, <1>4, <2>2, <2>4, <2>6, <2>7, LiftedBeside
<1> QED BY <1>1, <1>6, <1>7, <1>8, <1>9, <1>10

-----------------------------------------------------------------------------
(* What is saved: of a form that is in order, a document that is.          *)
LEMMA RulesUnique ==
    ASSUME NEW transitions \in Seq(Rule)
    PROVE  Unique(Pairs(transitions)) <=> PairsDiffer(transitions)
<1>1. ASSUME NEW i \in DOMAIN transitions
      PROVE  transitions[i].from \in StatusNames /\ transitions[i].to \in StatusNames
  <2>1. transitions[i] \in Rule
      OBVIOUS
  <2> QED BY <2>1 DEF Rule
<1>2. /\ Pairs(transitions) \in Seq(StatusNames \X StatusNames)
      /\ DOMAIN Pairs(transitions) = DOMAIN transitions
    BY <1>1 DEF Pairs
<1>3. Unique(Pairs(transitions)) <=> NoTwins(Pairs(transitions))
    BY <1>2, UniqueIs
<1>4. \A i \in DOMAIN transitions : Pairs(transitions)[i] = <<transitions[i].from, transitions[i].to>>
    BY DEF Pairs
<1>5. NoTwins(Pairs(transitions)) <=> PairsDiffer(transitions)
  <2> HIDE DEF Pairs
  <2>1. \A i, j \in DOMAIN transitions :
            Pairs(transitions)[i] = Pairs(transitions)[j]
                <=> transitions[i].from = transitions[j].from /\ transitions[i].to = transitions[j].to
      BY <1>4
  <2> QED BY <1>2, <2>1 DEF NoTwins, PairsDiffer
<1> QED BY <1>3, <1>5

LEMMA WiredTypes ==
    ASSUME NEW t \in FlowEdge
    PROVE  /\ Wired(t) \in Rule /\ Wired(t).from = t.from /\ Wired(t).to = t.to
           /\ Wired(t).named = t.named /\ Wired(t).policy = t.policy
<1>1. /\ t.from \in StatusNames /\ t.to \in StatusNames /\ t.named \in BOOLEAN
      /\ t.policy \in Policies
    BY FlowEdgeTypes
<1>2. /\ Wired(t).from = t.from /\ Wired(t).to = t.to
      /\ Wired(t).named = t.named /\ Wired(t).policy = t.policy
    BY DEF Wired
<1>3. Wired(t) \in Rule
    BY <1>1 DEF Wired, Rule
<1> QED BY <1>2, <1>3

(* The graph that goes out is the form's, or the default one.              *)
LEMMA DtoTypes ==
    ASSUME NEW f, FlowFormOK(f), NEW d, d = Dto(f)
    PROVE  /\ IsDocument(d) /\ EndsAmong(d.transitions, Names(d.states))
           /\ \E g : /\ FlowFormOK(g) /\ g = (IF f.mode = "default" THEN DefaultForm ELSE f)
                     /\ d.states = g.states /\ d.descriptions = g.descriptions
                     /\ DOMAIN d.transitions = DOMAIN g.transitions
                     /\ \A i \in DOMAIN g.transitions :
                           d.transitions[i] = Wired(g.transitions[i]) /\ g.transitions[i] \in FlowEdge
           /\ d.layout = LayoutOf(f) /\ d.positions = f.positions /\ d.nodeActions = f.nodeActions
           /\ d.marks = f.marks /\ d.sources = f.sources
           /\ d = [states |-> d.states, transitions |-> d.transitions, descriptions |-> d.descriptions,
                   layout |-> d.layout, positions |-> d.positions, nodeActions |-> d.nodeActions,
                   marks |-> d.marks, sources |-> d.sources]
<1>1. PICK g : g = (IF f.mode = "default" THEN DefaultForm ELSE f)
    OBVIOUS
<1>2. FlowFormOK(g)
    BY <1>1, DefaultDrawn DEF Drawable
<1>3. PICK ts : ts = [i \in DOMAIN g.transitions |-> Wired(g.transitions[i])]
    OBVIOUS
<1>4. /\ d.states = g.states /\ d.transitions = ts
      /\ d.descriptions = g.descriptions /\ d.layout = LayoutOf(f)
      /\ d.positions = f.positions /\ d.nodeActions = f.nodeActions
      /\ d.marks = f.marks /\ d.sources = f.sources
      /\ d = [states |-> d.states, transitions |-> d.transitions, descriptions |-> d.descriptions,
              layout |-> d.layout, positions |-> d.positions, nodeActions |-> d.nodeActions,
              marks |-> d.marks, sources |-> d.sources]
    BY <1>1, <1>3 DEF Dto
<1>5. /\ IsFlowForm(f) /\ IsFlowForm(g) /\ EndsAmong(g.transitions, Names(g.states))
    BY <1>2 DEF FlowFormOK, Anchored
<1>6. /\ g.states \in Seq(StatusNames) /\ g.transitions \in Seq(FlowEdge) /\ g.descriptions \subseteq StatusNames
      /\ DOMAIN g.transitions = 1 .. Len(g.transitions) /\ Len(g.transitions) \in Nat
      /\ f.transitions \in Seq(FlowEdge)
      /\ f.marks \in [Marks -> MarkStates] /\ f.sources \in [Marks -> SUBSET StatusNames]
    BY <1>5, FlowFormTypes
<1>7. ByStatus(f.positions, Spots) /\ ByStatus(f.nodeActions, Seq(StatusNames))
    BY <1>5 DEF IsFlowForm
<1>8. ASSUME NEW i \in 1 .. Len(g.transitions)
      PROVE  /\ g.transitions[i] \in FlowEdge /\ ts[i] = Wired(g.transitions[i]) /\ ts[i] \in Rule
             /\ ts[i].from = g.transitions[i].from /\ ts[i].to = g.transitions[i].to
  <2>1. g.transitions[i] \in FlowEdge
      BY <1>6
  <2>2. ts[i] = Wired(g.transitions[i])
      BY <1>3, <1>6
  <2> QED BY <2>1, <2>2, WiredTypes
<1>9. ts \in Seq(Rule) /\ DOMAIN ts = 1 .. Len(g.transitions)
  <2>1. ts = [i \in 1 .. Len(g.transitions) |-> ts[i]]
      BY <1>3, <1>6
  <2>2. \A i \in 1 .. Len(g.transitions) : ts[i] \in Rule
      BY <1>8
  <2> QED BY <1>6, <2>1, <2>2, ListedIsSeq
<1>10. LayoutOf(f) \subseteq StatusNames \X StatusNames
  <2> SUFFICES ASSUME NEW t \in ToSet(f.transitions)
               PROVE  <<t.from, t.to>> \in StatusNames \X StatusNames
      BY DEF LayoutOf
  <2>1. t \in FlowEdge
      BY <1>6 DEF ToSet
  <2> QED BY <2>1, FlowEdgeTypes
<1>11. IsDocument(d)
    BY <1>4, <1>6, <1>7, <1>9, <1>10 DEF IsDocument
<1>12. EndsAmong(d.transitions, Names(d.states))
  <2>1. EndsAmong(ts, Names(g.states))
      BY <1>5, <1>6, <1>8, <1>9 DEF EndsAmong
  <2> QED BY <1>4, <2>1
<1>13. /\ DOMAIN d.transitions = DOMAIN g.transitions
       /\ \A i \in DOMAIN g.transitions :
             d.transitions[i] = Wired(g.transitions[i]) /\ g.transitions[i] \in FlowEdge
    BY <1>4, <1>6, <1>8, <1>9
<1> QED BY <1>1, <1>2, <1>4, <1>11, <1>12, <1>13

LEMMA AcceptedIsKept ==
    ASSUME NEW f, FlowFormOK(f), Accepted(Dto(f))
    PROVE  FlowDocOK(AsStored(Dto(f)))
<1>1. PICK d : d = Dto(f)
    OBVIOUS
<1>2. Accepted(d)
    BY <1>1
<1>3. /\ IsDocument(d) /\ EndsAmong(d.transitions, Names(d.states))
      /\ d = [states |-> d.states, transitions |-> d.transitions, descriptions |-> d.descriptions,
              layout |-> d.layout, positions |-> d.positions, nodeActions |-> d.nodeActions,
              marks |-> d.marks, sources |-> d.sources]
    BY <1>1, DtoTypes
<1>4. /\ d.states \in Seq(StatusNames) /\ d.transitions \in Seq(Rule)
      /\ d.descriptions \subseteq StatusNames /\ d.marks \in [Marks -> MarkStates]
      /\ ByStatus(d.positions, Spots) /\ ByStatus(d.nodeActions, Seq(StatusNames))
      /\ d.layout \subseteq StatusNames \X StatusNames
    BY <1>3 DEF IsDocument
<1>5. Names(d.states) \subseteq StatusNames
    BY <1>4 DEF Names, ToSet
<1>6. PICK sources : sources = [k \in Marks |-> {Strip(s) : s \in d.sources[k]}]
    OBVIOUS
<1>7. sources \in [Marks -> SUBSET Names(d.states)]
    BY <1>2, <1>6 DEF Accepted
<1>8. PICK e : e = AsStored(d)
    OBVIOUS
<1>9. /\ e.states = d.states /\ e.transitions = d.transitions
      /\ e.descriptions = d.descriptions /\ e.layout = d.layout /\ e.positions = d.positions
      /\ e.nodeActions = d.nodeActions /\ e.marks = d.marks /\ e.sources = sources
      /\ e = [states |-> e.states, transitions |-> e.transitions, descriptions |-> e.descriptions,
              layout |-> e.layout, positions |-> e.positions, nodeActions |-> e.nodeActions,
              marks |-> e.marks, sources |-> e.sources]
  <2>1. e = [d EXCEPT !.sources = sources]
      BY <1>6, <1>8 DEF AsStored
  <2> QED BY <1>3, <2>1
<1>10. IsDocument(e)
  <2>1. sources \in [Marks -> SUBSET StatusNames]
      BY <1>5, <1>7
  <2> QED BY <1>4, <1>9, <2>1 DEF IsDocument
<1>11. NoTwins(d.states) /\ PairsDiffer(d.transitions)
  <2>1. WellFormed(d.states, d.transitions)
      BY <1>2 DEF Accepted
  <2>2. Unique(d.states) /\ Unique(Pairs(d.transitions))
      BY <2>1, Zenon DEF WellFormed
  <2> QED BY <1>4, <2>2, UniqueIs, RulesUnique
<1>12. /\ DOMAIN d.positions \subseteq Names(d.states) /\ DOMAIN d.nodeActions \subseteq Names(d.states)
       /\ d.descriptions \subseteq Names(d.states)
       /\ \A s \in DOMAIN d.nodeActions : ToSet(d.nodeActions[s]) \subseteq Names(d.states)
    BY <1>2 DEF Accepted
<1>13. Anchored(e)
    BY <1>3, <1>7, <1>9, <1>12 DEF Anchored
<1>14. ActionsAlive(e)
    BY <1>9, <1>12 DEF ActionsAlive, ToSet
<1>15. FlowDocOK(e)
    BY <1>9, <1>10, <1>11, <1>13, <1>14 DEF FlowDocOK
<1> QED BY <1>1, <1>8, <1>15

-----------------------------------------------------------------------------
LEMMA MountKeeps ==
    ASSUME FlowDocOK(stored'), NEW f, Drawable(f), form' = f, Mount(f)
    PROVE  FlowInv' /\ ~OnRows'
<1>1. view' = "diagram" /\ canvas' = FormToFlow(f, <<>>) /\ emitted' = Signature(f) /\ minted' = 0
    BY DEF Mount
<1>2. <<>> \in Seq(FlowNode) /\ minted' \in Nat
    BY <1>1
<1>3. FlowInv'
    BY <1>1, <1>2, DrawnIsInStep
<1> QED BY <1>1, <1>3 DEF OnRows

LEMMA ReopenStep ==
    ASSUME FlowInv, Reopen
    PROVE  WellEdited
<1>1. Drawable(ToForm(stored))
    BY ToFormDrawn DEF FlowInv
<1>2. PICK f : f = ToForm(stored)
    OBVIOUS
<1>3. form' = f /\ Mount(f) /\ FlowDocOK(stored')
    BY <1>2 DEF Reopen, FlowInv
<1>4. FlowInv' /\ ~OnRows'
    BY <1>1, <1>2, <1>3, MountKeeps
<1>5. Loaded
    BY <1>2, <1>3 DEF Loaded
<1> QED BY <1>4, <1>5 DEF WellEdited, EditKept

LEMMA ModeAlone ==
    ASSUME NEW f, FlowFormOK(f), NEW g, g = [f EXCEPT !.mode = "custom"]
    PROVE  /\ g.mode = "custom" /\ g.states = f.states /\ g.transitions = f.transitions
           /\ g.positions = f.positions /\ g.nodeActions = f.nodeActions
           /\ g.descriptions = f.descriptions /\ g.marks = f.marks /\ g.sources = f.sources
           /\ g = [mode |-> g.mode, states |-> g.states, transitions |-> g.transitions,
                   positions |-> g.positions, nodeActions |-> g.nodeActions,
                   descriptions |-> g.descriptions, marks |-> g.marks, sources |-> g.sources]
<1>1. f = [mode |-> f.mode, states |-> f.states, transitions |-> f.transitions,
           positions |-> f.positions, nodeActions |-> f.nodeActions,
           descriptions |-> f.descriptions, marks |-> f.marks, sources |-> f.sources]
    BY FlowFormTypes DEF FlowFormOK
<1> QED BY <1>1

LEMMA ModeAndViewStep ==
    ASSUME FlowInv, ~OnRows,
           ChooseDefault \/ ChooseCustom \/ ShowSource \/ ShowDiagram \/ ReRead \/ ReReadFails
    PROVE  WellEdited
<1>1. FlowDocOK(stored) /\ Drawable(form) /\ FlowFormOK(form) /\ minted \in Nat
    BY DEF FlowInv
<1>2. CASE ChooseDefault
  <2>1. Reset(DefaultForm) /\ minted' = minted /\ stored' = stored
      BY <1>2 DEF ChooseDefault
  <2>2. PICK f : f = DefaultForm
      OBVIOUS
  <2>3. FlowInv' /\ ~OnRows'
      BY <1>1, <2>1, <2>2, DefaultDrawn, ResetKeeps
  <2>4. Loaded
      BY <2>1 DEF Reset, Loaded
  <2> QED BY <2>3, <2>4 DEF WellEdited, EditKept
<1>3. CASE ChooseCustom
  <2>1. PICK f : f = [form EXCEPT !.mode = "custom"]
      OBVIOUS
  <2>2. Reset(f) /\ minted' = minted /\ stored' = stored
      BY <1>3, <2>1 DEF ChooseCustom
  <2>3. Drawable(f)
      BY <1>1, <2>1, ModeIsNotDrawn DEF Drawable, FlowFormOK
  <2>4. FlowInv' /\ ~OnRows'
      BY <1>1, <2>2, <2>3, ResetKeeps
  <2>5. /\ f.states = form.states /\ f.transitions = form.transitions
        /\ f.nodeActions = form.nodeActions /\ f.descriptions = form.descriptions
        /\ f.sources = form.sources
      BY <1>1, <2>1, ModeAlone
  <2>6. Loses(form, f, f)
      BY <2>5 DEF Loses
  <2>7. Edited(form, f)
      BY <2>5, <2>6, LosesOne
  <2>8. form' = f
      BY <2>2 DEF Reset
  <2> QED BY <2>4, <2>7, <2>8 DEF WellEdited, EditKept
<1>4. CASE ShowSource
  <2>1. view' = "source" /\ canvas' = NoCanvas /\ form' = form /\ minted' = minted /\ stored' = stored
      BY <1>4 DEF ShowSource
  <2>2. CanvasOK'
      BY <2>1 DEF CanvasOK
  <2> QED BY <1>1, <2>1, <2>2 DEF FlowInv, OnRows, WellEdited, EditKept
<1>5. CASE ShowDiagram
  <2>1. Mount(form) /\ form' = form /\ stored' = stored
      BY <1>5 DEF ShowDiagram
  <2>2. FlowInv' /\ ~OnRows'
      BY <1>1, <2>1, MountKeeps
  <2> QED BY <2>1, <2>2 DEF WellEdited, EditKept
<1>6. CASE ReRead
  <2>1. PICK f : f = ToForm(stored)
      OBVIOUS
  <2>2. Reset(f) /\ minted' = minted /\ stored' = stored
      BY <1>6, <2>1 DEF ReRead
  <2>3. Drawable(f)
      BY <1>1, <2>1, ToFormDrawn
  <2>4. FlowInv' /\ ~OnRows'
      BY <1>1, <2>2, <2>3, ResetKeeps
  <2>5. Loaded
      BY <2>1, <2>2 DEF Reset, Loaded
  <2> QED BY <2>4, <2>5 DEF WellEdited, EditKept
<1>7. CASE ReReadFails
    BY <1>7 DEF ReReadFails, FlowInv, OnRows, CanvasOK, WellEdited, EditKept
<1> QED BY <1>2, <1>3, <1>4, <1>5, <1>6, <1>7

LEMMA FlowSaveStep ==
    ASSUME FlowInv, Save
    PROVE  FlowInv' /\ (OnRows' <=> OnRows) /\ EditKept
<1>1. /\ Accepted(Dto(form)) /\ stored' = AsStored(Dto(form)) /\ form' = form /\ canvas' = canvas
      /\ emitted' = emitted /\ minted' = minted /\ view' = view
    BY DEF Save
<1>2. FlowDocOK(stored')
    BY <1>1, AcceptedIsKept DEF FlowInv
<1>3. CanvasOK' /\ (OnRows' <=> OnRows)
    BY <1>1 DEF CanvasOK, FlowInv, OnRows
<1> QED BY <1>1, <1>2, <1>3 DEF FlowInv, EditKept

LEMMA EditorStep ==
    ASSUME FlowInv, ~OnRows, EditorNext
    PROVE  WellEdited
<1>1. CASE Save
    BY <1>1, FlowSaveStep DEF WellEdited
<1>2. CASE StatusEdit \/ TransitionEdit \/ MarkEdit \/ NodeEdit
    BY <1>2, StatusEditStep, TransitionEditStep, MarkEditStep, NodeEditStep
<1>3. CASE Reopen
    BY <1>3, ReopenStep
<1>4. CASE ChooseDefault \/ ChooseCustom \/ ShowSource \/ ShowDiagram \/ ReRead \/ ReReadFails
    BY <1>4, ModeAndViewStep
<1> QED BY <1>1, <1>2, <1>3, <1>4 DEF EditorNext

-----------------------------------------------------------------------------
(* The rows of the wizard's third step.                                    *)
RowsForm(states, transitions, positions, nodeActions, descriptions, marks, sources) ==
    [mode |-> "custom", states |-> states, transitions |-> transitions, positions |-> positions,
     nodeActions |-> nodeActions, descriptions |-> descriptions, marks |-> marks, sources |-> sources]

(* A map by status, each of its keys a row's.                              *)
KeyedBy(map, values, names) == ByStatus(map, values) /\ DOMAIN map \subseteq names

LEMMA FormMade ==
    ASSUME NEW states \in Seq(StatusNames), NEW transitions \in Seq(FlowEdge),
           EndsAmong(transitions, Names(states)),
           NEW positions, KeyedBy(positions, Spots, Names(states)),
           NEW nodeActions, KeyedBy(nodeActions, Seq(StatusNames), Names(states)),
           NEW descriptions \in SUBSET Names(states), NEW marks \in [Marks -> MarkStates],
           NEW sources \in [Marks -> SUBSET Names(states)],
           NEW g, g = RowsForm(states, transitions, positions, nodeActions, descriptions, marks, sources)
    PROVE  /\ FlowFormOK(g) /\ g.states = states /\ g.transitions = transitions
           /\ g.nodeActions = nodeActions /\ g.descriptions = descriptions
           /\ g.marks = marks /\ g.sources = sources
<1>1. /\ g.mode = "custom" /\ g.states = states /\ g.transitions = transitions
      /\ g.positions = positions /\ g.nodeActions = nodeActions
      /\ g.descriptions = descriptions /\ g.marks = marks /\ g.sources = sources
      /\ g = [mode |-> g.mode, states |-> g.states, transitions |-> g.transitions,
              positions |-> g.positions, nodeActions |-> g.nodeActions,
              descriptions |-> g.descriptions, marks |-> g.marks, sources |-> g.sources]
    BY DEF RowsForm
<1>2. Names(states) \subseteq StatusNames
    BY DEF Names, ToSet
<1>3. sources \in [Marks -> SUBSET StatusNames] /\ descriptions \subseteq StatusNames
    BY <1>2
<1>4. /\ ByStatus(positions, Spots) /\ DOMAIN positions \subseteq Names(states)
      /\ ByStatus(nodeActions, Seq(StatusNames)) /\ DOMAIN nodeActions \subseteq Names(states)
    BY DEF KeyedBy
<1>5. IsFlowForm(g)
    BY <1>1, <1>3, <1>4 DEF IsFlowForm
<1>6. Anchored(g)
    BY <1>1, <1>4 DEF Anchored
<1> QED BY <1>1, <1>5, <1>6 DEF FlowFormOK

LEMMA FormParts ==
    ASSUME NEW f, FlowFormOK(f), f.mode = "custom"
    PROVE  /\ f.states \in Seq(StatusNames) /\ f.transitions \in Seq(FlowEdge)
           /\ EndsAmong(f.transitions, Names(f.states)) /\ Names(f.states) \subseteq StatusNames
           /\ KeyedBy(f.positions, Spots, Names(f.states))
           /\ KeyedBy(f.nodeActions, Seq(StatusNames), Names(f.states))
           /\ f.descriptions \subseteq Names(f.states) /\ f.marks \in [Marks -> MarkStates]
           /\ f.sources \in [Marks -> SUBSET Names(f.states)]
           /\ f = RowsForm(f.states, f.transitions, f.positions, f.nodeActions, f.descriptions,
                         f.marks, f.sources)
           /\ DOMAIN f.states = 1 .. Len(f.states) /\ Len(f.states) \in Nat
           /\ DOMAIN f.transitions = 1 .. Len(f.transitions) /\ Len(f.transitions) \in Nat
<1>1. IsFlowForm(f) /\ Anchored(f)
    BY DEF FlowFormOK
<1>2. /\ f.states \in Seq(StatusNames) /\ f.transitions \in Seq(FlowEdge)
      /\ f.marks \in [Marks -> MarkStates] /\ f.sources \in [Marks -> SUBSET StatusNames]
      /\ f = RowsForm(f.states, f.transitions, f.positions, f.nodeActions, f.descriptions,
                    f.marks, f.sources)
      /\ DOMAIN f.states = 1 .. Len(f.states) /\ Len(f.states) \in Nat
      /\ DOMAIN f.transitions = 1 .. Len(f.transitions) /\ Len(f.transitions) \in Nat
    BY <1>1, FlowFormTypes DEF RowsForm
<1>3. Names(f.states) \subseteq StatusNames
    BY <1>2 DEF Names, ToSet
<1>4. f.sources \in [Marks -> SUBSET Names(f.states)]
    BY <1>1, <1>2 DEF Anchored
<1>5. /\ KeyedBy(f.positions, Spots, Names(f.states))
      /\ KeyedBy(f.nodeActions, Seq(StatusNames), Names(f.states))
    BY <1>1 DEF KeyedBy, Anchored, IsFlowForm
<1> QED BY <1>1, <1>2, <1>3, <1>4, <1>5 DEF Anchored

LEMMA NamesAre ==
    ASSUME NEW states \in Seq(StatusNames)
    PROVE  /\ \A i \in DOMAIN states : states[i] \in Names(states)
           /\ \A name \in Names(states) : \E i \in DOMAIN states : states[i] = name
BY DEF Names, ToSet

LEMMA StateAdded ==
    ASSUME NEW f, FlowFormOK(f), f.mode = "custom", NEW g, g = addState(f)
    PROVE  FlowFormOK(g) /\ g.transitions = f.transitions /\ Edited(f, g)
<1>0. PICK blank \in StatusNames : blank = ""
    BY DEF StatusNames
<1>1. PICK states : states = Append(f.states, blank)
    OBVIOUS
<1>2. /\ f.states \in Seq(StatusNames)
      /\ DOMAIN f.states = 1 .. Len(f.states) /\ Len(f.states) \in Nat
    BY FormParts
<1>3. /\ states \in Seq(StatusNames) /\ DOMAIN states = 1 .. Len(f.states) + 1
      /\ \A i \in 1 .. Len(f.states) : states[i] = f.states[i]
    BY <1>1, <1>2
<1>4. Names(f.states) \subseteq Names(states)
  <2> SUFFICES ASSUME NEW name \in Names(f.states) PROVE name \in Names(states)
      OBVIOUS
  <2>1. PICK i \in 1 .. Len(f.states) : f.states[i] = name
      BY <1>2, NamesAre
  <2>2. i \in DOMAIN states /\ states[i] = name
      BY <1>2, <1>3, <2>1
  <2> QED BY <1>3, <2>2, NamesAre
<1>5. f = RowsForm(f.states, f.transitions, f.positions, f.nodeActions, f.descriptions, f.marks, f.sources)
    BY FormParts
<1>6. g = RowsForm(states, f.transitions, f.positions, f.nodeActions, f.descriptions, f.marks, f.sources)
    BY <1>0, <1>1, <1>5 DEF RowsForm, addState
<1>7. /\ f.transitions \in Seq(FlowEdge) /\ f.marks \in [Marks -> MarkStates]
      /\ EndsAmong(f.transitions, Names(states))
      /\ KeyedBy(f.positions, Spots, Names(states))
      /\ KeyedBy(f.nodeActions, Seq(StatusNames), Names(states))
      /\ f.descriptions \subseteq Names(states) /\ f.sources \in [Marks -> SUBSET Names(states)]
  <2>1. /\ f.transitions \in Seq(FlowEdge) /\ f.marks \in [Marks -> MarkStates]
        /\ EndsAmong(f.transitions, Names(f.states))
        /\ KeyedBy(f.positions, Spots, Names(f.states))
        /\ KeyedBy(f.nodeActions, Seq(StatusNames), Names(f.states))
        /\ f.descriptions \subseteq Names(f.states) /\ f.sources \in [Marks -> SUBSET Names(f.states)]
      BY FormParts
  <2>2. f.descriptions \subseteq Names(states) /\ f.sources \in [Marks -> SUBSET Names(states)]
      BY <1>4, <2>1
  <2> QED BY <1>4, <2>1, <2>2 DEF EndsAmong, KeyedBy
<1>8. /\ FlowFormOK(g) /\ g.transitions = f.transitions /\ g.nodeActions = f.nodeActions
      /\ g.descriptions = f.descriptions /\ g.marks = f.marks /\ g.sources = f.sources
    BY <1>3, <1>6, <1>7, FormMade
<1>9. WorkKept(f, g)
    BY <1>8, NothingLost
<1> QED BY <1>8, <1>9 DEF Edited, MarksKept

-----------------------------------------------------------------------------
LEMMA KeyRenamed ==
    ASSUME NEW map, NEW values, NEW names, KeyedBy(map, values, names),
           NEW old, NEW new \in StatusNames, NEW after, new \in after,
           \A name \in names : name # old => name \in after
    PROVE  KeyedBy(RenamedKey(map, old, new), values, after)
<1>1. CASE old \notin DOMAIN map \/ old = new
  <2>1. RenamedKey(map, old, new) = map
      BY <1>1 DEF RenamedKey
  <2>2. DOMAIN map \subseteq after
      BY <1>1 DEF KeyedBy
  <2> QED BY <2>1, <2>2 DEF KeyedBy
<1>2. CASE old \in DOMAIN map /\ old # new
  <2>1. PICK moved : moved = [name \in (DOMAIN map \ {old}) \union {new} |->
                                IF name = new THEN map[old] ELSE map[name]]
      OBVIOUS
  <2>2. RenamedKey(map, old, new) = moved
      BY <1>2, <2>1 DEF RenamedKey
  <2>3. DOMAIN moved = (DOMAIN map \ {old}) \union {new}
      BY <2>1
  <2>4. \A name \in DOMAIN moved : name \in StatusNames /\ moved[name] \in values
      BY <1>2, <2>1 DEF KeyedBy, ByStatus
  <2>5. DOMAIN moved \subseteq after
      BY <2>3 DEF KeyedBy
  <2> QED BY <2>2, <2>4, <2>5 DEF KeyedBy, ByStatus
<1> QED BY <1>1, <1>2

LEMMA KeyCarried ==
    ASSUME NEW map, NEW old, NEW new, NEW s \in DOMAIN map, s # old => s # new,
           NEW to, to = IF s = old THEN new ELSE s
    PROVE  to \in DOMAIN RenamedKey(map, old, new) /\ RenamedKey(map, old, new)[to] = map[s]
<1>1. CASE old \notin DOMAIN map \/ old = new
  <2>1. RenamedKey(map, old, new) = map /\ to = s
      BY <1>1 DEF RenamedKey
  <2> QED BY <2>1
<1>2. CASE old \in DOMAIN map /\ old # new
  <2>1. PICK moved : moved = [name \in (DOMAIN map \ {old}) \union {new} |->
                                IF name = new THEN map[old] ELSE map[name]]
      OBVIOUS
  <2>2. RenamedKey(map, old, new) = moved
      BY <1>2, <2>1 DEF RenamedKey
  <2>3. to \in DOMAIN moved /\ moved[to] = map[s]
      BY <1>2, <2>1
  <2> QED BY <2>2, <2>3
<1> QED BY <1>1, <1>2

LEMMA EdgesRetargeted ==
    ASSUME NEW ts \in Seq(FlowEdge), NEW names \in SUBSET StatusNames, EndsAmong(ts, names),
           NEW old, NEW new \in StatusNames, NEW after, new \in after,
           \A name \in names : name # old => name \in after
    PROVE  /\ Retargeted(ts, old, new) \in Seq(FlowEdge)
           /\ EndsAmong(Retargeted(ts, old, new), after)
           /\ Len(Retargeted(ts, old, new)) = Len(ts)
<1> DEFINE ts2 == Retargeted(ts, old, new)
           To(name) == IF name = old THEN new ELSE name
<1> HIDE DEF ts2
<1>1. DOMAIN ts = 1 .. Len(ts) /\ Len(ts) \in Nat
    OBVIOUS
<1>2. ASSUME NEW i \in 1 .. Len(ts)
      PROVE  ts2[i] \in FlowEdge /\ ts2[i].from \in after /\ ts2[i].to \in after
  <2>1. PICK t \in FlowEdge : t = ts[i]
      BY <1>1
  <2>2. PICK from, to : from = To(t.from) /\ to = To(t.to)
      OBVIOUS
  <2>3. PICK k : k = ts2[i] /\ k = Repointed(t, from, to)
      BY <1>1, <2>1, <2>2 DEF ts2, Retargeted, Repointed
  <2>4. t.from \in names /\ t.to \in names
      BY <1>1, <2>1 DEF EndsAmong
  <2>5. from \in StatusNames /\ to \in StatusNames /\ from \in after /\ to \in after
      BY <2>2, <2>4
  <2>6. k \in FlowEdge /\ k.from = from /\ k.to = to
    <3> HIDE DEF To
    <3>1. /\ t.policy \in Policies /\ t.route \in {"absent", "plain", "corner"} /\ t.named \in BOOLEAN
          /\ t = [from |-> t.from, to |-> t.to, named |-> t.named, policy |-> t.policy, route |-> t.route]
        BY <2>1 DEF FlowEdge
    <3>2. PICK b \in BOOLEAN : b = t.named
        BY <3>1
    <3>3. k = [from |-> from, to |-> to, named |-> b, policy |-> t.policy, route |-> t.route]
        BY <2>3, <3>1, <3>2 DEF Repointed
    <3> QED BY <2>5, <3>1, <3>3 DEF FlowEdge
  <2> QED BY <2>3, <2>5, <2>6
<1>3. ts2 = [i \in 1 .. Len(ts) |-> ts2[i]]
    BY <1>1 DEF ts2, Retargeted
<1>4. ts2 \in Seq(FlowEdge) /\ DOMAIN ts2 = 1 .. Len(ts) /\ Len(ts2) = Len(ts)
  <2>1. \A i \in 1 .. Len(ts) : ts2[i] \in FlowEdge
      BY <1>2
  <2> QED BY <1>1, <1>3, <2>1, ListedIsSeq
<1>5. EndsAmong(ts2, after)
    BY <1>2, <1>4 DEF EndsAmong
<1> QED BY <1>4, <1>5 DEF ts2

LEMMA StateUpdated ==
    ASSUME NEW f, FlowFormOK(f), f.mode = "custom", NEW i \in DOMAIN f.states,
           NEW new \in StatusNames, NEW g, g = updateState(f, i, new)
    PROVE  FlowFormOK(g) /\ (f.transitions # <<>> => g.transitions # <<>>) /\ Edited(f, g)
<1>1. PICK old : old = f.states[i]
    OBVIOUS
<1>2. PICK states : states = [f.states EXCEPT ![i] = new]
    OBVIOUS
<1>3. /\ f.states \in Seq(StatusNames) /\ DOMAIN f.states = 1 .. Len(f.states)
      /\ f.transitions \in Seq(FlowEdge) /\ f.marks \in [Marks -> MarkStates]
      /\ EndsAmong(f.transitions, Names(f.states)) /\ Names(f.states) \subseteq StatusNames
      /\ KeyedBy(f.positions, Spots, Names(f.states))
      /\ KeyedBy(f.nodeActions, Seq(StatusNames), Names(f.states))
      /\ f.descriptions \subseteq Names(f.states) /\ f.sources \in [Marks -> SUBSET Names(f.states)]
    BY FormParts
<1>4. /\ states \in Seq(StatusNames) /\ DOMAIN states = DOMAIN f.states
      /\ \A j \in DOMAIN states : states[j] = IF j = i THEN new ELSE f.states[j]
    BY <1>2, <1>3
<1>5. new \in Names(states) /\ \A name \in Names(f.states) : name # old => name \in Names(states)
  <2>1. new \in Names(states)
      BY <1>4, NamesAre
  <2>2. ASSUME NEW name \in Names(f.states), name # old PROVE name \in Names(states)
    <3>1. PICK j \in DOMAIN f.states : f.states[j] = name
        BY <1>3, NamesAre
    <3>2. j \in DOMAIN states /\ states[j] = name
        BY <1>1, <1>4, <2>2, <3>1
    <3> QED BY <1>4, <3>2, NamesAre
  <2> QED BY <2>1, <2>2
<1>6. PICK transitions : transitions = Retargeted(f.transitions, old, new)
    OBVIOUS
<1>7. /\ transitions \in Seq(FlowEdge) /\ EndsAmong(transitions, Names(states))
      /\ Len(transitions) = Len(f.transitions)
    BY <1>3, <1>5, <1>6, EdgesRetargeted
<1>8. PICK positions : positions = RenamedKey(f.positions, old, new)
    OBVIOUS
<1>9. PICK nodeActions : nodeActions = RenamedKey(f.nodeActions, old, new)
    OBVIOUS
<1>10. /\ KeyedBy(positions, Spots, Names(states))
       /\ KeyedBy(nodeActions, Seq(StatusNames), Names(states))
    BY <1>3, <1>5, <1>8, <1>9, KeyRenamed
<1>11. \A names \in SUBSET Names(f.states) : RenamedIn(names, old, new) \subseteq Names(states)
    BY <1>5 DEF RenamedIn
<1>12. PICK descriptions : descriptions = RenamedIn(f.descriptions, old, new)
    OBVIOUS
<1>13. PICK sources : sources = [k \in Marks |-> RenamedIn(f.sources[k], old, new)]
    OBVIOUS
<1>14. descriptions \subseteq Names(states) /\ sources \in [Marks -> SUBSET Names(states)]
    BY <1>3, <1>11, <1>12, <1>13
<1>15. f = RowsForm(f.states, f.transitions, f.positions, f.nodeActions, f.descriptions, f.marks, f.sources)
    BY FormParts
<1>16. g = [f EXCEPT !.states = states, !.transitions = transitions, !.positions = positions,
                     !.nodeActions = nodeActions, !.descriptions = descriptions, !.sources = sources]
    BY <1>1, <1>2, <1>6, <1>8, <1>9, <1>12, <1>13 DEF updateState
<1>17. g = RowsForm(states, transitions, positions, nodeActions, descriptions, f.marks, sources)
    BY <1>15, <1>16 DEF RowsForm
<1>18. /\ FlowFormOK(g) /\ g.states = states /\ g.transitions = transitions
       /\ g.nodeActions = nodeActions /\ g.descriptions = descriptions
       /\ g.marks = f.marks /\ g.sources = sources
    BY <1>3, <1>4, <1>7, <1>10, <1>14, <1>17, FormMade
<1>19. f.transitions # <<>> => transitions # <<>>
    BY <1>3, <1>7
<1>20. ASSUME Unique(g.states) PROVE Cardinality(Work(g)) >= Cardinality(Work(f))
  <2>1. NoTwins(states)
      BY <1>4, <1>18, <1>20, UniqueIs
  <2>2. PICK rename : rename = [from |-> old, to |-> new]
      OBVIOUS
  <2>3. \A name : MapName(name, rename) = IF name = old THEN new ELSE name
      BY <2>2 DEF MapName
  <2>4. ASSUME NEW name \in Names(f.states), name # old PROVE name # new
    <3>1. PICK j \in DOMAIN f.states : f.states[j] = name
        BY <1>3, NamesAre
    <3>2. j \in DOMAIN states /\ states[j] = name /\ j # i /\ i \in DOMAIN states /\ states[i] = new
        BY <1>1, <1>4, <2>4, <3>1
    <3> QED BY <2>1, <3>2 DEF NoTwins
  <2>5. Apart(Names(f.states), rename)
      BY <2>3, <2>4 DEF Apart
  <2>6. \A s \in f.descriptions : MapName(s, rename) \in g.descriptions
      BY <1>12, <1>18, <2>3 DEF RenamedIn
  <2>7. \A k \in Marks : \A s \in f.sources[k] : MapName(s, rename) \in g.sources[k]
      BY <1>13, <1>18, <2>3 DEF RenamedIn
  <2>8. ASSUME NEW s \in DOMAIN f.nodeActions
        PROVE  /\ MapName(s, rename) \in DOMAIN g.nodeActions
               /\ DOMAIN f.nodeActions[s] \subseteq DOMAIN g.nodeActions[MapName(s, rename)]
    <3>1. s \in Names(f.states)
        BY <1>3 DEF KeyedBy
    <3>2. s # old => s # new
        BY <2>4, <3>1
    <3>3. PICK to : to = MapName(s, rename)
        OBVIOUS
    <3>4. to = IF s = old THEN new ELSE s
        BY <2>3, <3>3
    <3>5. to \in DOMAIN nodeActions /\ nodeActions[to] = f.nodeActions[s]
        BY <1>9, <3>2, <3>4, KeyCarried
    <3> QED BY ONLY <1>18, <3>3, <3>5
  <2>9. Follows(f, g, rename)
      BY <2>6, <2>7, <2>8 DEF Follows
  <2> QED BY <1>18, <2>5, <2>9, WorkFollows
<1>21. WorkKept(f, g)
    BY <1>20 DEF WorkKept
<1> QED BY <1>18, <1>19, <1>21 DEF Edited, MarksKept

LEMMA StateRemoved ==
    ASSUME NEW f, FlowFormOK(f), f.mode = "custom", NEW i \in DOMAIN f.states,
           f.states[i] \notin referencedStates(f), NEW g, g = removeState(f, i)
    PROVE  FlowFormOK(g) /\ g.transitions = f.transitions /\ Edited(f, g)
<1>1. PICK old : old = f.states[i]
    OBVIOUS
<1>2. PICK states : states = RemoveAt(f.states, i)
    OBVIOUS
<1>3. /\ f.states \in Seq(StatusNames) /\ DOMAIN f.states = 1 .. Len(f.states)
      /\ f.transitions \in Seq(FlowEdge) /\ f.marks \in [Marks -> MarkStates]
      /\ EndsAmong(f.transitions, Names(f.states)) /\ Names(f.states) \subseteq StatusNames
      /\ KeyedBy(f.positions, Spots, Names(f.states))
      /\ KeyedBy(f.nodeActions, Seq(StatusNames), Names(f.states))
      /\ f.descriptions \subseteq Names(f.states) /\ f.sources \in [Marks -> SUBSET Names(f.states)]
    BY FormParts
<1>4. /\ states \in Seq(StatusNames) /\ Len(states) = Len(f.states) - 1
      /\ \A j \in DOMAIN f.states : j # i => \E k \in DOMAIN states : states[k] = f.states[j]
    BY <1>2, <1>3, RemovalKeepsTheRest
<1>5. \A name \in Names(f.states) : name # old => name \in Names(states)
  <2> SUFFICES ASSUME NEW name \in Names(f.states), name # old PROVE name \in Names(states)
      OBVIOUS
  <2>1. PICK j \in DOMAIN f.states : f.states[j] = name
      BY <1>3, NamesAre
  <2>2. PICK k \in DOMAIN states : states[k] = name
      BY <1>1, <1>4, <2>1
  <2> QED BY <1>4, <2>2, NamesAre
<1>6. EndsAmong(f.transitions, Names(states))
  <2> SUFFICES ASSUME NEW j \in DOMAIN f.transitions
               PROVE  f.transitions[j].from \in Names(states) /\ f.transitions[j].to \in Names(states)
      BY DEF EndsAmong
  <2>1. f.transitions[j].from \in referencedStates(f) /\ f.transitions[j].to \in referencedStates(f)
      BY DEF referencedStates, ToSet
  <2>2. f.transitions[j].from \in Names(f.states) /\ f.transitions[j].to \in Names(f.states)
      BY <1>3 DEF EndsAmong
  <2> QED BY <1>1, <1>5, <2>1, <2>2
<1>7. PICK positions : positions = Restrict(f.positions, DOMAIN f.positions \ {old})
    OBVIOUS
<1>8. PICK nodeActions : nodeActions = Restrict(f.nodeActions, DOMAIN f.nodeActions \ {old})
    OBVIOUS
<1>9. /\ KeyedBy(positions, Spots, Names(states))
      /\ KeyedBy(nodeActions, Seq(StatusNames), Names(states))
    BY <1>3, <1>5, <1>7, <1>8 DEF KeyedBy, ByStatus, Restrict
<1>10. PICK descriptions : descriptions = f.descriptions \ {old}
    OBVIOUS
<1>11. PICK sources : sources = [k \in Marks |-> f.sources[k] \ {old}]
    OBVIOUS
<1>12. descriptions \subseteq Names(states) /\ sources \in [Marks -> SUBSET Names(states)]
    BY <1>3, <1>5, <1>10, <1>11
<1>13. f = RowsForm(f.states, f.transitions, f.positions, f.nodeActions, f.descriptions, f.marks, f.sources)
    BY FormParts
<1>14. g = [f EXCEPT !.states = states, !.positions = positions, !.nodeActions = nodeActions,
                     !.descriptions = descriptions, !.sources = sources]
    BY <1>1, <1>2, <1>7, <1>8, <1>10, <1>11 DEF removeState
<1>15. g = RowsForm(states, f.transitions, positions, nodeActions, descriptions, f.marks, sources)
    BY <1>13, <1>14 DEF RowsForm
<1>16. f.transitions \in Seq(FlowEdge) /\ f.marks \in [Marks -> MarkStates]
    BY <1>3
<1>17. FlowFormOK(g) /\ g.states = states /\ g.transitions = f.transitions /\ g.marks = f.marks
    BY <1>4, <1>6, <1>9, <1>12, <1>15, <1>16, FormMade
<1>18. Len(g.states) < Len(f.states)
    BY <1>3, <1>4, <1>17
<1> QED BY <1>17, <1>18 DEF Edited, WorkKept, MarksKept

-----------------------------------------------------------------------------
LEMMA TransitionsChanged ==
    ASSUME NEW f, FlowFormOK(f), f.mode = "custom", NEW ts \in Seq(FlowEdge),
           EndsAmong(ts, Names(f.states)), NEW g, g = [f EXCEPT !.transitions = ts]
    PROVE  FlowFormOK(g) /\ g.transitions = ts /\ Edited(f, g)
<1>1. /\ f.states \in Seq(StatusNames) /\ f.marks \in [Marks -> MarkStates]
      /\ KeyedBy(f.positions, Spots, Names(f.states))
      /\ KeyedBy(f.nodeActions, Seq(StatusNames), Names(f.states))
      /\ f.descriptions \in SUBSET Names(f.states) /\ f.sources \in [Marks -> SUBSET Names(f.states)]
    BY FormParts
<1>2. f = RowsForm(f.states, f.transitions, f.positions, f.nodeActions, f.descriptions, f.marks, f.sources)
    BY FormParts
<1>3. g = RowsForm(f.states, ts, f.positions, f.nodeActions, f.descriptions, f.marks, f.sources)
    BY <1>2 DEF RowsForm
<1>4. /\ FlowFormOK(g) /\ g.transitions = ts /\ g.nodeActions = f.nodeActions
      /\ g.descriptions = f.descriptions /\ g.marks = f.marks /\ g.sources = f.sources
    BY <1>1, <1>3, FormMade
<1>5. WorkKept(f, g)
    BY <1>4, NothingLost
<1> QED BY <1>4, <1>5 DEF Edited, MarksKept

LEMMA BlankEdge ==
    ASSUME NEW s \in StatusNames
    PROVE  /\ [Bare(<<s, s>>) EXCEPT !.named = FALSE] \in FlowEdge
           /\ [Bare(<<s, s>>) EXCEPT !.named = FALSE].from = s
           /\ [Bare(<<s, s>>) EXCEPT !.named = FALSE].to = s
<1>1. PICK b \in BOOLEAN : b = FALSE
    OBVIOUS
<1>2. PICK t : t = [Bare(<<s, s>>) EXCEPT !.named = FALSE]
    OBVIOUS
<1>3. t = [from |-> s, to |-> s, named |-> b, policy |-> "KEEP", route |-> "absent"]
    BY <1>1, <1>2 DEF Bare
<1>4. t \in FlowEdge /\ t.from = s /\ t.to = s
    BY <1>1, <1>3 DEF FlowEdge, Policies
<1> QED BY <1>2, <1>4

LEMMA TransitionAdded ==
    ASSUME NEW f, FlowFormOK(f), f.mode = "custom", f.transitions # <<>>, NEW g, g = addTransition(f)
    PROVE  FlowFormOK(g) /\ g.transitions # <<>> /\ Edited(f, g)
<1>1. /\ f.states \in Seq(StatusNames) /\ f.transitions \in Seq(FlowEdge)
      /\ EndsAmong(f.transitions, Names(f.states)) /\ Names(f.states) \subseteq StatusNames
      /\ DOMAIN f.transitions = 1 .. Len(f.transitions) /\ Len(f.transitions) \in Nat
    BY FormParts
<1>2. f.states[1] \in Names(f.states)
  <2>1. 1 \in DOMAIN f.transitions
      BY <1>1
  <2>2. PICK i \in DOMAIN f.states : f.states[i] = f.transitions[1].from
      BY <1>1, <2>1, NamesAre DEF EndsAmong
  <2>3. 1 \in DOMAIN f.states
      BY <1>1
  <2> QED BY <1>1, <2>3, NamesAre
<1>3. PICK t \in FlowEdge : /\ t = [Bare(<<f.states[1], f.states[1]>>) EXCEPT !.named = FALSE]
                            /\ t.from = f.states[1] /\ t.to = f.states[1]
    BY <1>1, <1>2, BlankEdge
<1>4. PICK ts : ts = Append(f.transitions, t)
    OBVIOUS
<1>5. /\ ts \in Seq(FlowEdge) /\ DOMAIN ts = 1 .. Len(f.transitions) + 1
      /\ \A i \in 1 .. Len(f.transitions) : ts[i] = f.transitions[i]
      /\ ts[Len(f.transitions) + 1] = t
    BY <1>1, <1>4
<1>6. EndsAmong(ts, Names(f.states))
  <2> SUFFICES ASSUME NEW i \in DOMAIN ts
               PROVE  ts[i].from \in Names(f.states) /\ ts[i].to \in Names(f.states)
      BY DEF EndsAmong
  <2>1. CASE i \in 1 .. Len(f.transitions)
      BY <1>1, <1>5, <2>1 DEF EndsAmong
  <2>2. CASE i = Len(f.transitions) + 1
      BY <1>2, <1>3, <1>5, <2>2
  <2> QED BY <1>1, <1>5, <2>1, <2>2
<1>7. g = [f EXCEPT !.transitions = ts]
    BY <1>3, <1>4 DEF addTransition
<1>8. FlowFormOK(g) /\ g.transitions = ts /\ Edited(f, g)
    BY <1>5, <1>6, <1>7, TransitionsChanged
<1>9. ts # <<>>
    BY <1>1, <1>5
<1> QED BY <1>8, <1>9

LEMMA TransitionRemoved ==
    ASSUME NEW f, FlowFormOK(f), f.mode = "custom", NEW i \in DOMAIN f.transitions,
           Len(f.transitions) > 1, NEW g, g = removeTransition(f, i)
    PROVE  FlowFormOK(g) /\ g.transitions # <<>> /\ Edited(f, g)
<1>1. /\ f.transitions \in Seq(FlowEdge) /\ EndsAmong(f.transitions, Names(f.states))
      /\ DOMAIN f.transitions = 1 .. Len(f.transitions) /\ Len(f.transitions) \in Nat
    BY FormParts
<1>2. PICK ts : ts = RemoveAt(f.transitions, i)
    OBVIOUS
<1>3. /\ ts \in Seq(FlowEdge) /\ FromPlaces(ts, f.transitions)
      /\ \A j \in DOMAIN f.transitions : j # i => \E k \in DOMAIN ts : ts[k] = f.transitions[j]
    BY <1>1, <1>2, RemovalKeepsTheRest
<1>4. EndsAmong(ts, Names(f.states))
  <2> SUFFICES ASSUME NEW j \in DOMAIN ts
               PROVE  ts[j].from \in Names(f.states) /\ ts[j].to \in Names(f.states)
      BY DEF EndsAmong
  <2>1. PICK p \in DOMAIN f.transitions : ts[j] = f.transitions[p]
      BY <1>3 DEF FromPlaces
  <2> QED BY <1>1, <2>1 DEF EndsAmong
<1>5. ts # <<>>
  <2>1. PICK j \in DOMAIN f.transitions : j # i
    <3>1. 1 \in DOMAIN f.transitions /\ 2 \in DOMAIN f.transitions
        BY <1>1
    <3> QED BY <3>1
  <2>2. PICK k \in DOMAIN ts : ts[k] = f.transitions[j]
      BY <1>3, <2>1
  <2> QED BY <2>2
<1>6. g = [f EXCEPT !.transitions = ts]
    BY <1>2 DEF removeTransition
<1>7. FlowFormOK(g) /\ g.transitions = ts /\ Edited(f, g)
    BY <1>3, <1>4, <1>6, TransitionsChanged
<1> QED BY <1>5, <1>7

LEMMA TransitionUpdated ==
    ASSUME NEW f, FlowFormOK(f), f.mode = "custom", NEW i \in DOMAIN f.transitions,
           NEW t \in FlowEdge, {t.from, t.to} \subseteq Names(f.states),
           NEW g, g = updateTransition(f, i, t)
    PROVE  FlowFormOK(g) /\ g.transitions # <<>> /\ Edited(f, g)
<1>1. /\ f.transitions \in Seq(FlowEdge) /\ EndsAmong(f.transitions, Names(f.states))
      /\ DOMAIN f.transitions = 1 .. Len(f.transitions) /\ Len(f.transitions) \in Nat
    BY FormParts
<1>2. PICK ts : ts = [f.transitions EXCEPT ![i] = t]
    OBVIOUS
<1>3. /\ ts \in Seq(FlowEdge) /\ DOMAIN ts = DOMAIN f.transitions
      /\ \A j \in DOMAIN ts : ts[j] = IF j = i THEN t ELSE f.transitions[j]
    BY <1>1, <1>2
<1>4. EndsAmong(ts, Names(f.states))
    BY <1>1, <1>3 DEF EndsAmong
<1>5. ts # <<>>
    BY <1>3
<1>6. g = [f EXCEPT !.transitions = ts]
    BY <1>2 DEF updateTransition
<1>7. FlowFormOK(g) /\ g.transitions = ts /\ Edited(f, g)
    BY <1>3, <1>4, <1>6, TransitionsChanged
<1> QED BY <1>5, <1>7

LEMMA EdgeEdited ==
    ASSUME NEW t \in FlowEdge, NEW s \in StatusNames
    PROVE  /\ [t EXCEPT !.from = s] \in FlowEdge
           /\ [t EXCEPT !.from = s].from = s /\ [t EXCEPT !.from = s].to = t.to
           /\ [t EXCEPT !.to = s] \in FlowEdge
           /\ [t EXCEPT !.to = s].from = t.from /\ [t EXCEPT !.to = s].to = s
           /\ Relabelled(t) \in FlowEdge
           /\ Relabelled(t).from = t.from /\ Relabelled(t).to = t.to
<1>1. /\ t.policy \in Policies /\ t.route \in {"absent", "plain", "corner"} /\ t.named \in BOOLEAN
      /\ t.from \in StatusNames /\ t.to \in StatusNames
      /\ t = [from |-> t.from, to |-> t.to, named |-> t.named, policy |-> t.policy, route |-> t.route]
    BY DEF FlowEdge
<1>2. PICK b \in BOOLEAN : b = t.named
    BY <1>1
<1>3. PICK k : k = [t EXCEPT !.from = s]
    OBVIOUS
<1>4. k = [from |-> s, to |-> t.to, named |-> b, policy |-> t.policy, route |-> t.route]
    BY <1>1, <1>2, <1>3
<1>5. k \in FlowEdge /\ k.from = s /\ k.to = t.to
    BY <1>1, <1>4 DEF FlowEdge
<1>6. PICK l : l = [t EXCEPT !.to = s]
    OBVIOUS
<1>7. l = [from |-> t.from, to |-> s, named |-> b, policy |-> t.policy, route |-> t.route]
    BY <1>1, <1>2, <1>6
<1>8. l \in FlowEdge /\ l.from = t.from /\ l.to = s
    BY <1>1, <1>7 DEF FlowEdge
<1>9. PICK c : c = ~t.named
    OBVIOUS
<1>10. c \in BOOLEAN
    BY <1>9, Zenon
<1>11. PICK m : m = Relabelled(t)
    OBVIOUS
<1>12. m = [t EXCEPT !.named = c]
    BY <1>9, <1>11, Zenon DEF Relabelled
<1>13. m = [from |-> t.from, to |-> t.to, named |-> c, policy |-> t.policy, route |-> t.route]
    BY <1>1, <1>12
<1>14. m \in FlowEdge /\ m.from = t.from /\ m.to = t.to
    BY <1>1, <1>10, <1>13 DEF FlowEdge
<1> QED BY <1>3, <1>5, <1>6, <1>8, <1>11, <1>14

-----------------------------------------------------------------------------
(* In the rows a transition is left at all times: a new one starts from    *)
(* the first status, which therefore exists.                               *)
RowsInv == FlowInv /\ (view = "form" => form.transitions # <<>>)
FormEdited == RowsInv' /\ EditKept

LEMMA RowsChange ==
    ASSUME RowsInv, NEW f, FlowFormOK(f), f.transitions # <<>>, onChange(f),
           f = DefaultForm \/ Edited(form, f)
    PROVE  FormEdited
<1>1. /\ view = "form" /\ form' = f /\ canvas' = canvas /\ emitted' = emitted /\ minted' = minted
      /\ view' = view /\ stored' = stored
    BY DEF onChange
<1>2. CanvasOK' /\ OnRows'
    BY <1>1 DEF RowsInv, FlowInv, CanvasOK, OnRows
<1>3. EditKept
    BY <1>1 DEF EditKept, Loaded
<1> QED BY <1>1, <1>2, <1>3 DEF RowsInv, FlowInv, FormEdited

LEMMA StateRowsStep ==
    ASSUME RowsInv, StateRows
    PROVE  FormEdited
<1>1. form.mode = "custom" /\ FlowFormOK(form)
    BY DEF StateRows, Filling3, RowsInv, FlowInv
<1>2. /\ form.transitions \in Seq(FlowEdge) /\ Len(form.transitions) \in Nat
      /\ (view = "form" => form.transitions # <<>>)
    BY <1>1, FormParts DEF RowsInv
<1>3. CASE onChange(addState(form))
  <2>1. PICK g : g = addState(form)
      OBVIOUS
  <2>2. FlowFormOK(g) /\ g.transitions = form.transitions /\ Edited(form, g)
      BY <1>1, <2>1, StateAdded
  <2>3. onChange(g) /\ form.transitions # <<>>
      BY <1>2, <1>3, <2>1 DEF onChange
  <2> QED BY <2>2, <2>3, RowsChange
<1>4. ASSUME NEW i \in DOMAIN form.states, NEW name \in TypedNames \union {""},
             onChange(updateState(form, i, name))
      PROVE  FormEdited
  <2>1. PICK g : g = updateState(form, i, name)
      OBVIOUS
  <2>2. name \in StatusNames
      BY DEF StatusNames
  <2>3. FlowFormOK(g) /\ (form.transitions # <<>> => g.transitions # <<>>) /\ Edited(form, g)
    <3>1. PICK new \in StatusNames : new = name
        BY <2>2
    <3>2. g = updateState(form, i, new)
        BY <2>1, <3>1
    <3> HIDE <3>1
    <3> QED BY <1>1, <3>2, StateUpdated
  <2>4. onChange(g) /\ form.transitions # <<>>
      BY <1>2, <1>4, <2>1 DEF onChange
  <2> QED BY <2>3, <2>4, RowsChange
<1>5. ASSUME NEW i \in DOMAIN form.states, form.states[i] \notin referencedStates(form),
             onChange(removeState(form, i))
      PROVE  FormEdited
  <2>1. PICK g : g = removeState(form, i)
      OBVIOUS
  <2>2. FlowFormOK(g) /\ g.transitions = form.transitions /\ Edited(form, g)
      BY <1>1, <1>5, <2>1, StateRemoved
  <2>3. onChange(g) /\ form.transitions # <<>>
      BY <1>2, <1>5, <2>1 DEF onChange
  <2> QED BY <2>2, <2>3, RowsChange
<1> QED BY <1>3, <1>4, <1>5 DEF StateRows

LEMMA TransitionRowsStep ==
    ASSUME RowsInv, TransitionRows
    PROVE  FormEdited
<1>1. form.mode = "custom" /\ FlowFormOK(form)
    BY DEF TransitionRows, Filling3, RowsInv, FlowInv
<1>2. /\ form.transitions \in Seq(FlowEdge) /\ EndsAmong(form.transitions, Names(form.states))
      /\ Names(form.states) \subseteq StatusNames /\ (view = "form" => form.transitions # <<>>)
    BY <1>1, FormParts DEF RowsInv
<1>3. CASE onChange(addTransition(form))
  <2>1. PICK g : g = addTransition(form)
      OBVIOUS
  <2>2. onChange(g) /\ form.transitions # <<>>
      BY <1>2, <1>3, <2>1 DEF onChange
  <2>3. FlowFormOK(g) /\ g.transitions # <<>> /\ Edited(form, g)
      BY <1>1, <2>1, <2>2, TransitionAdded
  <2> QED BY <2>2, <2>3, RowsChange
<1>4. ASSUME NEW i \in DOMAIN form.transitions, Len(form.transitions) > 1,
             onChange(removeTransition(form, i))
      PROVE  FormEdited
  <2>1. PICK g : g = removeTransition(form, i)
      OBVIOUS
  <2>2. FlowFormOK(g) /\ g.transitions # <<>> /\ Edited(form, g)
      BY <1>1, <1>4, <2>1, TransitionRemoved
  <2>3. onChange(g)
      BY <1>4, <2>1
  <2> QED BY <2>2, <2>3, RowsChange
<1>5. ASSUME NEW i \in DOMAIN form.transitions, NEW t \in FlowEdge,
             {t.from, t.to} \subseteq Names(form.states), onChange(updateTransition(form, i, t))
      PROVE  FormEdited
  <2>1. PICK g : g = updateTransition(form, i, t)
      OBVIOUS
  <2>2. FlowFormOK(g) /\ g.transitions # <<>> /\ Edited(form, g)
      BY <1>1, <1>5, <2>1, TransitionUpdated
  <2>3. onChange(g)
      BY <1>5, <2>1
  <2> QED BY <2>2, <2>3, RowsChange
<1>6. ASSUME NEW i \in DOMAIN form.transitions
      PROVE  /\ form.transitions[i] \in FlowEdge
             /\ {form.transitions[i].from, form.transitions[i].to} \subseteq Names(form.states)
    BY <1>2 DEF EndsAmong
<1>7. ASSUME NEW i \in DOMAIN form.transitions, NEW s \in Names(form.states),
             \/ onChange(updateTransition(form, i, [form.transitions[i] EXCEPT !.from = s]))
             \/ onChange(updateTransition(form, i, [form.transitions[i] EXCEPT !.to = s]))
      PROVE  FormEdited
  <2>1. PICK t \in FlowEdge : t = form.transitions[i] /\ {t.from, t.to} \subseteq Names(form.states)
      BY <1>6
  <2>2. s \in StatusNames
      BY <1>2
  <2>3. CASE onChange(updateTransition(form, i, [form.transitions[i] EXCEPT !.from = s]))
    <3>1. PICK k : k = [t EXCEPT !.from = s]
        OBVIOUS
    <3>2. k \in FlowEdge /\ k.from = s /\ k.to = t.to
        BY <2>2, <3>1, EdgeEdited
    <3>3. {k.from, k.to} \subseteq Names(form.states)
        BY <2>1, <3>2
    <3>4. onChange(updateTransition(form, i, k))
        BY <2>1, <2>3, <3>1
    <3> QED BY <1>5, <3>2, <3>3, <3>4
  <2>4. CASE onChange(updateTransition(form, i, [form.transitions[i] EXCEPT !.to = s]))
    <3>1. PICK k : k = [t EXCEPT !.to = s]
        OBVIOUS
    <3>2. k \in FlowEdge /\ k.to = s /\ k.from = t.from
        BY <2>2, <3>1, EdgeEdited
    <3>3. {k.from, k.to} \subseteq Names(form.states)
        BY <2>1, <3>2
    <3>4. onChange(updateTransition(form, i, k))
        BY <2>1, <2>4, <3>1
    <3> QED BY <1>5, <3>2, <3>3, <3>4
  <2> QED BY <1>7, <2>3, <2>4
<1>8. ASSUME NEW i \in DOMAIN form.transitions,
             onChange(updateTransition(form, i, Relabelled(form.transitions[i])))
      PROVE  FormEdited
  <2>1. PICK t \in FlowEdge : t = form.transitions[i] /\ {t.from, t.to} \subseteq Names(form.states)
      BY <1>6
  <2>2. PICK k : k = Relabelled(t)
      OBVIOUS
  <2>3. PICK s \in StatusNames : s = t.from
      BY <1>2, <2>1
  <2>4. k \in FlowEdge /\ {k.from, k.to} \subseteq Names(form.states)
      BY <2>1, <2>2, <2>3, EdgeEdited
  <2>5. onChange(updateTransition(form, i, k))
      BY <1>8, <2>1, <2>2
  <2> QED BY <1>5, <2>4, <2>5
<1> QED BY <1>3, <1>4, <1>7, <1>8 DEF TransitionRows

LEMMA ChooseFlowStep ==
    ASSUME RowsInv, ChooseFlow
    PROVE  FormEdited
<1>1. FlowFormOK(form) /\ (view = "form" => form.transitions # <<>>)
    BY DEF RowsInv, FlowInv
<1>2. CASE onChange(DefaultForm)
  <2>1. PICK g : g = DefaultForm
      OBVIOUS
  <2>2. WellFormed(DefaultStates, DefaultForm.transitions)
      BY EditorAssumption
  <2>3. g.transitions # <<>>
      BY <2>1, <2>2, Zenon DEF WellFormed
  <2>4. FlowFormOK(g)
      BY <2>1, DefaultDrawn DEF Drawable
  <2>5. onChange(g)
      BY <1>2, <2>1
  <2> QED BY <2>1, <2>3, <2>4, <2>5, RowsChange
<1>3. CASE form.mode = "default" /\ onChange([form EXCEPT !.mode = "custom"])
  <2>1. PICK g : g = [form EXCEPT !.mode = "custom"]
      OBVIOUS
  <2>2. IsFlowForm(form) /\ Anchored(form)
      BY <1>1 DEF FlowFormOK
  <2>3. form = [mode |-> form.mode, states |-> form.states, transitions |-> form.transitions,
                positions |-> form.positions, nodeActions |-> form.nodeActions,
                descriptions |-> form.descriptions, marks |-> form.marks, sources |-> form.sources]
      BY <2>2, FlowFormTypes
  <2>4. /\ g.mode = "custom" /\ g.states = form.states /\ g.transitions = form.transitions
        /\ g.positions = form.positions /\ g.nodeActions = form.nodeActions
        /\ g.descriptions = form.descriptions /\ g.marks = form.marks /\ g.sources = form.sources
        /\ g = [mode |-> g.mode, states |-> g.states, transitions |-> g.transitions,
                positions |-> g.positions, nodeActions |-> g.nodeActions,
                descriptions |-> g.descriptions, marks |-> g.marks, sources |-> g.sources]
      BY <2>1, <2>3
  <2>5. IsFlowForm(g)
      BY <2>2, <2>4 DEF IsFlowForm
  <2>6. Anchored(g)
      BY <2>2, <2>4 DEF Anchored
  <2>7. FlowFormOK(g)
      BY <2>4, <2>5, <2>6 DEF FlowFormOK
  <2>8. onChange(g) /\ form.transitions # <<>>
      BY <1>1, <1>3, <2>1 DEF onChange
  <2>9. Loses(form, g, g)
      BY <2>4 DEF Loses
  <2>10. Edited(form, g)
      BY <2>4, <2>9, LosesOne
  <2> QED BY <2>4, <2>7, <2>8, <2>10, RowsChange
<1> QED BY <1>2, <1>3 DEF ChooseFlow

LEMMA FormStep ==
    ASSUME RowsInv, FormNext
    PROVE  FormEdited
<1>1. CASE FinishForm
  <2>1. /\ view = "form" /\ Accepted(Dto(form)) /\ stored' = AsStored(Dto(form)) /\ form' = form
        /\ canvas' = canvas /\ minted' = minted /\ view' = "left"
      BY <1>1 DEF FinishForm
  <2>2. FlowDocOK(stored')
      BY <2>1, AcceptedIsKept DEF RowsInv, FlowInv
  <2>3. CanvasOK' /\ OnRows'
      BY <2>1 DEF CanvasOK, RowsInv, FlowInv, OnRows
  <2> QED BY <2>1, <2>2, <2>3 DEF RowsInv, FlowInv, FormEdited, EditKept
<1>2. CASE OpenSaved
  <2>1. WellEdited
      BY <1>2, ReopenStep DEF OpenSaved, RowsInv
  <2> QED BY <2>1 DEF RowsInv, OnRows, WellEdited, FormEdited
<1> QED BY <1>1, <1>2, ChooseFlowStep, StateRowsStep, TransitionRowsStep DEF FormNext

-----------------------------------------------------------------------------
(* The stored documents one starts with, and the first states.             *)
LEMMA WellFormedMeans ==
    ASSUME NEW states, NEW transitions \in Seq(Rule), WellFormed(states, transitions)
    PROVE  /\ transitions # <<>> /\ EndsAmong(transitions, Names(states))
           /\ Unique(states) /\ PairsDiffer(transitions)
<1>1. /\ transitions # <<>> /\ Unique(states) /\ Unique(Pairs(transitions))
      /\ \A t \in ToSet(transitions) : {t.from, t.to} \subseteq Names(states)
    BY Zenon DEF WellFormed
<1>2. PairsDiffer(transitions)
    BY <1>1, RulesUnique
<1>3. EndsAmong(transitions, Names(states))
    BY <1>1 DEF EndsAmong, ToSet
<1> QED BY <1>1, <1>2, <1>3

LEMMA FlowStoredOK ==
    ASSUME NEW d \in Stores
    PROVE  FlowDocOK(d) /\ d.transitions # <<>>
<1>1. IsDocument(d) /\ Accepted(d) /\ \A k \in Marks : d.sources[k] \subseteq Names(d.states)
    BY EditorAssumption
<1>2. d.states \in Seq(StatusNames) /\ d.transitions \in Seq(Rule)
    BY <1>1, FlowDocTypes
<1>3. /\ WellFormed(d.states, d.transitions)
      /\ DOMAIN d.positions \subseteq Names(d.states) /\ DOMAIN d.nodeActions \subseteq Names(d.states)
      /\ d.descriptions \subseteq Names(d.states)
      /\ \A s \in DOMAIN d.nodeActions : ToSet(d.nodeActions[s]) \subseteq Names(d.states)
    BY <1>1 DEF Accepted
<1>4. /\ d.transitions # <<>> /\ EndsAmong(d.transitions, Names(d.states))
      /\ Unique(d.states) /\ PairsDiffer(d.transitions)
    BY <1>2, <1>3, WellFormedMeans
<1>5. NoTwins(d.states)
    BY <1>2, <1>4, UniqueIs
<1>6. Anchored(d)
    BY <1>1, <1>3, <1>4 DEF Anchored
<1>7. ActionsAlive(d)
    BY <1>3 DEF ActionsAlive, ToSet
<1> QED BY <1>1, <1>4, <1>5, <1>6, <1>7 DEF FlowDocOK

LEMMA EditorBegins == ASSUME EditorInit PROVE FlowInv /\ ~OnRows
<1>1. FlowDocOK(stored) /\ view = "diagram" /\ minted = 0
    BY FlowStoredOK DEF EditorInit
<1>2. PICK f : f = ToForm(stored)
    OBVIOUS
<1>3. Drawable(f)
    BY <1>1, <1>2, ToFormDrawn
<1>4. form = f /\ canvas = FormToFlow(f, <<>>) /\ emitted = Signature(f)
    BY <1>2 DEF EditorInit
<1>5. PICK drawn : drawn = FormToFlow(f, <<>>)
    OBVIOUS
<1>6. <<>> \in Seq(FlowNode) /\ minted \in Nat
    BY <1>1
<1>7. Fits(drawn.nodes, drawn.links, minted) /\ Shows(drawn, f)
    BY <1>3, <1>5, <1>6, FlowDrawn
<1>8. CanvasOK
  <2>1. Fits(canvas.nodes, canvas.links, minted) /\ Shows(canvas, form)
      BY <1>4, <1>5, <1>7
  <2> QED BY <1>1, <1>4, <2>1 DEF CanvasOK
<1>9. FlowFormOK(form) /\ Drawable(form)
    BY <1>3, <1>4 DEF Drawable
<1> QED BY <1>1, <1>6, <1>8, <1>9 DEF FlowInv, OnRows

LEMMA RowsBegin == ASSUME FormInit PROVE RowsInv
<1>1. FlowDocOK(stored) /\ stored.transitions # <<>> /\ view = "form" /\ minted = 0 /\ canvas = NoCanvas
    BY FlowStoredOK DEF FormInit
<1>2. Drawable(form) /\ form = ToForm(stored)
    BY <1>1, ToFormDrawn DEF FormInit
<1>3. form.transitions # <<>>
  <2>1. form.transitions = Merged(stored)
      BY <1>2 DEF ToForm
  <2>2. IsDocument(stored)
      BY <1>1 DEF FlowDocOK
  <2>3. stored.transitions \in Seq(Rule)
      BY <2>2, FlowDocTypes
  <2>4. 1 \in DOMAIN stored.transitions
      BY <1>1, <2>3
  <2>5. 1 \in DOMAIN Merged(stored)
      BY <2>4 DEF Merged
  <2> QED BY <2>1, <2>5
<1>4. CanvasOK /\ OnRows /\ minted \in Nat
    BY <1>1 DEF CanvasOK, OnRows
<1> QED BY <1>1, <1>2, <1>3, <1>4 DEF RowsInv, FlowInv, Drawable

-----------------------------------------------------------------------------
(* The editor as it runs: on the rows, or never on them.                   *)
AdminEditorInv == RowsInv /\ (part # "rows" => ~OnRows)

LEMMA AdminEditorBegins == ASSUME AdminInit PROVE AdminEditorInv
<1>1. CASE part = "rows"
    BY <1>1, RowsBegin DEF AdminInit, AdminEditorInv
<1>2. CASE part # "rows"
  <2>1. FlowInv /\ ~OnRows
      BY <1>2, EditorBegins DEF AdminInit
  <2> QED BY <1>2, <2>1 DEF AdminEditorInv, RowsInv, OnRows
<1> QED BY <1>1, <1>2

LEMMA AdminEditorStep ==
    ASSUME AdminEditorInv, [AdminNext]_adminVars
    PROVE  AdminEditorInv' /\ EditKept
<1>1. part' = part
    BY DEF AdminNext, adminVars
<1>2. \/ part # "rows" /\ EditorNext
      \/ part = "rows" /\ FormNext
      \/ UNCHANGED editorVars
    BY DEF AdminNext, adminVars, EditsFirst
<1>3. CASE part # "rows" /\ EditorNext
  <2>1. FlowInv' /\ ~OnRows' /\ EditKept
      BY <1>3, EditorStep DEF AdminEditorInv, RowsInv, WellEdited
  <2> QED BY <2>1 DEF AdminEditorInv, RowsInv, OnRows
<1>4. CASE part = "rows" /\ FormNext
  <2>1. RowsInv' /\ EditKept
      BY <1>4, FormStep DEF AdminEditorInv, FormEdited
  <2> QED BY <1>1, <1>4, <2>1 DEF AdminEditorInv
<1>5. CASE UNCHANGED editorVars
  <2>1. /\ form' = form /\ canvas' = canvas /\ emitted' = emitted /\ minted' = minted
        /\ view' = view /\ stored' = stored
      BY <1>5 DEF editorVars
  <2>2. CanvasOK'
      BY <2>1 DEF AdminEditorInv, RowsInv, FlowInv, CanvasOK
  <2> QED BY <1>1, <2>1, <2>2 DEF AdminEditorInv, RowsInv, FlowInv, OnRows, EditKept
<1> QED BY <1>2, <1>3, <1>4, <1>5

-----------------------------------------------------------------------------
(* What the form lets through, the core API accepts.                       *)
LEMMA DtoWellFormed ==
    ASSUME NEW ts \in Seq(FlowEdge), NEW wired \in Seq(Rule), DOMAIN wired = DOMAIN ts,
           \A i \in DOMAIN ts : wired[i] = Wired(ts[i]),
           NEW states, WellFormed(states, ts)
    PROVE  WellFormed(states, wired)
<1>1. /\ states # <<>> /\ ts # <<>> /\ "" \notin Names(states) /\ Unique(states) /\ Unique(Pairs(ts))
      /\ \A t \in ToSet(ts) : /\ t.named /\ {t.from, t.to} \subseteq Names(states)
                              /\ t.policy # "KEEP" => t.to = Waiting
    BY Zenon DEF WellFormed
<1>2. ASSUME NEW i \in DOMAIN ts
      PROVE  /\ wired[i].from = ts[i].from /\ wired[i].to = ts[i].to
             /\ wired[i].named = ts[i].named /\ wired[i].policy = ts[i].policy
             /\ ts[i] \in ToSet(ts)
  <2>1. ts[i] \in FlowEdge /\ ts[i] \in ToSet(ts)
      BY DEF ToSet
  <2>2. wired[i] = Wired(ts[i])
      OBVIOUS
  <2> QED BY <2>1, <2>2, WiredTypes
<1>3. PairsDiffer(wired)
  <2>1. PairsDiffer(ts)
      BY <1>1, PairsUnique
  <2> QED BY <1>2, <2>1 DEF PairsDiffer
<1>4. Unique(Pairs(wired))
    BY <1>3, RulesUnique
<1>5. wired # <<>>
  <2>1. ts # <<>>
      BY <1>1, Zenon
  <2>2. ts \in Seq(FlowEdge)
      OBVIOUS
  <2>3. 1 \in DOMAIN ts
      BY ONLY <2>1, <2>2
  <2>4. 1 \in DOMAIN wired
      BY <2>3
  <2> QED BY ONLY <2>4
<1>6. ASSUME NEW t \in ToSet(wired)
      PROVE  /\ t.named /\ {t.from, t.to} \subseteq Names(states)
             /\ t.policy # "KEEP" => t.to = Waiting
  <2>1. PICK i \in DOMAIN ts : t = wired[i]
      BY DEF ToSet
  <2>2. PICK u \in ToSet(ts) : /\ t.from = u.from /\ t.to = u.to
                               /\ t.named = u.named /\ t.policy = u.policy
      BY <1>2, <2>1
  <2> QED BY <1>1, <2>2, Zenon
<1> QED BY <1>1, <1>4, <1>5, <1>6, Zenon DEF WellFormed

LEMMA SavableIsAccepted ==
    ASSUME NEW f, FlowFormOK(f), ActionsAlive(f), Savable(f),
           \A k \in Marks : \A s \in f.sources[k] : Strip(s) = s
    PROVE  Accepted(Dto(f))
<1>1. PICK d : d = Dto(f)
    OBVIOUS
<1>2. PICK g : /\ FlowFormOK(g) /\ g = (IF f.mode = "default" THEN DefaultForm ELSE f)
               /\ d.states = g.states /\ d.descriptions = g.descriptions
               /\ DOMAIN d.transitions = DOMAIN g.transitions
               /\ \A i \in DOMAIN g.transitions :
                     d.transitions[i] = Wired(g.transitions[i]) /\ g.transitions[i] \in FlowEdge
    BY <1>1, DtoTypes
<1>3. /\ IsDocument(d) /\ d.layout = LayoutOf(f) /\ d.positions = f.positions
      /\ d.nodeActions = f.nodeActions /\ d.sources = f.sources
    BY <1>1, DtoTypes
<1>4. /\ IsFlowForm(f) /\ Anchored(f) /\ (f.mode = "default" => IsDefaultGraph(f))
      /\ IsFlowForm(g) /\ Anchored(g)
    BY <1>2 DEF FlowFormOK
<1>5. /\ f.mode \in {"default", "custom"} /\ f.transitions \in Seq(FlowEdge)
      /\ g.transitions \in Seq(FlowEdge)
    BY <1>4, FlowFormTypes
<1>6. /\ d.transitions \in Seq(Rule) /\ d.states \in Seq(StatusNames)
    BY <1>3, FlowDocTypes
<1>7. WellFormed(g.states, g.transitions)
  <2>1. CASE f.mode = "default"
    <3>1. g = DefaultForm /\ WellFormed(DefaultStates, DefaultForm.transitions)
        BY <1>2, <2>1, EditorAssumption
    <3>2. DefaultForm.states = DefaultStates
        BY DEF DefaultForm
    <3> QED BY <3>1, <3>2
  <2>2. CASE f.mode = "custom"
      BY <1>2, <2>2 DEF Savable
  <2> QED BY <1>5, <2>1, <2>2
<1>8. WellFormed(d.states, d.transitions)
  <2>1. WellFormed(g.states, d.transitions)
      BY <1>2, <1>5, <1>6, <1>7, DtoWellFormed
  <2> QED BY <1>2, <2>1
<1>9. f.mode = "default" =>
        /\ f.positions = <<>> /\ f.states = DefaultStates
        /\ \A t \in ToSet(f.transitions) : Side(t) = "plain"
    BY <1>4, Zenon DEF IsDefaultGraph
<1>10. d.states = f.states
  <2>1. CASE f.mode = "default"
    <3>1. g.states = DefaultStates
        BY <1>2, <2>1 DEF DefaultForm
    <3> QED BY <1>2, <1>9, <2>1, <3>1
  <2>2. CASE f.mode = "custom"
      BY <1>2, <2>2
  <2> QED BY <1>5, <2>1, <2>2
<1>11. LayoutOf(f) \subseteq ToSet(Pairs(d.transitions))
  <2> SUFFICES ASSUME NEW u \in ToSet(f.transitions), Side(u) # "plain"
               PROVE  <<u.from, u.to>> \in ToSet(Pairs(d.transitions))
      BY DEF LayoutOf
  <2>1. g = f
      BY <1>2, <1>5, <1>9
  <2>2. PICK i \in DOMAIN g.transitions : u = g.transitions[i]
      BY <2>1 DEF ToSet
  <2>3. d.transitions[i].from = u.from /\ d.transitions[i].to = u.to
    <3>1. u \in FlowEdge /\ d.transitions[i] = Wired(u)
        BY <1>2, <2>2
    <3> QED BY <3>1, WiredTypes
  <2>4. i \in DOMAIN Pairs(d.transitions) /\ Pairs(d.transitions)[i] = <<u.from, u.to>>
      BY <1>2, <2>3 DEF Pairs
  <2> QED BY <2>4 DEF ToSet
<1>12. /\ DOMAIN d.positions \subseteq Names(d.states)
       /\ DOMAIN d.nodeActions \subseteq Names(d.states)
       /\ d.descriptions \subseteq Names(d.states)
    BY <1>2, <1>3, <1>4, <1>10 DEF Anchored
<1>13. \A s \in DOMAIN d.nodeActions : ToSet(d.nodeActions[s]) \subseteq Names(d.states)
    BY <1>3, <1>10 DEF ActionsAlive, ToSet
<1>14. ASSUME NEW k \in Marks PROVE {Strip(s) : s \in d.sources[k]} \subseteq Names(d.states)
  <2>1. d.sources[k] \subseteq Names(d.states)
      BY <1>3, <1>4, <1>10 DEF Anchored
  <2>2. \A s \in d.sources[k] : Strip(s) = s
      BY <1>3
  <2> QED BY <2>1, <2>2
<1>15. Accepted(d)
    BY <1>3, <1>8, <1>11, <1>12, <1>13, <1>14 DEF Accepted
<1> QED BY <1>1, <1>15

LEMMA LinksDiffer == ASSUME FlowInv PROVE LinksAreDistinct
<1>1. CASE view = "diagram"
  <2>1. /\ canvas.links \in Seq(FlowLink(minted)) /\ PairsDiffer(canvas.links)
        /\ \A i, j \in DOMAIN canvas.links : canvas.links[i].id = canvas.links[j].id => i = j
      BY <1>1 DEF FlowInv, CanvasOK, Fits
  <2> DEFINE ids == [i \in DOMAIN canvas.links |-> canvas.links[i].id]
             ends == Pairs(canvas.links)
  <2>2. DOMAIN canvas.links = 1 .. Len(canvas.links) /\ Len(canvas.links) \in Nat
      BY <2>1
  <2>3. ASSUME NEW i \in 1 .. Len(canvas.links)
        PROVE  /\ canvas.links[i].id \in LinkId(minted)
               /\ canvas.links[i].from \in StatusNames /\ canvas.links[i].to \in StatusNames
    <3>1. canvas.links[i] \in FlowLink(minted)
        BY <2>1, <2>2
    <3> QED BY <3>1 DEF FlowLink
  <2>4. ids \in Seq(LinkId(minted)) /\ ends \in Seq(StatusNames \X StatusNames)
    <3>1. /\ ids = [i \in 1 .. Len(canvas.links) |-> canvas.links[i].id]
          /\ ends = [i \in 1 .. Len(canvas.links) |-> <<canvas.links[i].from, canvas.links[i].to>>]
        BY <2>2 DEF Pairs
    <3> HIDE DEF ids, ends
    <3>2. ids \in Seq(LinkId(minted))
        BY <2>2, <2>3, <3>1
    <3>3. ends \in Seq(StatusNames \X StatusNames)
        BY <2>2, <2>3, <3>1
    <3> QED BY <3>2, <3>3
  <2>5. NoTwins(ids)
      BY <2>1 DEF NoTwins
  <2>6. NoTwins(ends)
      BY <2>1 DEF NoTwins, PairsDiffer, Pairs
  <2>7. Unique(ids) /\ Unique(ends)
    <3> HIDE DEF ids, ends
    <3>1. Unique(ids)
        BY <2>4, <2>5, UniqueIs
    <3>2. Unique(ends)
        BY <2>4, <2>6, UniqueIs
    <3> QED BY <3>1, <3>2
  <2> QED BY <2>7 DEF LinksAreDistinct
<1>2. CASE view # "diagram"
  <2>1. canvas.links = <<>>
      BY <1>2 DEF FlowInv, CanvasOK, NoCanvas
  <2>2. /\ [i \in DOMAIN canvas.links |-> canvas.links[i].id] = <<>> /\ Pairs(canvas.links) = <<>>
      BY <2>1 DEF Pairs
  <2>3. <<>> \in Seq(StatusNames) /\ NoTwins(<<>>)
      BY DEF NoTwins
  <2>4. Unique(<<>>)
      BY <2>3, UniqueIs
  <2> QED BY <2>2, <2>4 DEF LinksAreDistinct
<1> QED BY <1>1, <1>2

LEMMA EditorHolds == AdminEditorInv => EditorIsConsistent
<1> SUFFICES ASSUME AdminEditorInv PROVE EditorIsConsistent
    OBVIOUS
<1>1. FlowInv /\ FlowFormOK(form) /\ Anchored(form) /\ (part # "rows" => Drawable(form))
    BY DEF AdminEditorInv, RowsInv, FlowInv, FlowFormOK
<1>2. CanvasIsInStep
    BY <1>1, LinksDiffer DEF CanvasIsInStep, CanvasShowsForm, FlowInv, CanvasOK
<1>3. part = "editor" => SavesAreAccepted
    BY <1>1, SavableIsAccepted DEF SavesAreAccepted, Drawable
<1>4. NothingDangles
  <2>1. referencedStates(form) \subseteq Names(form.states)
      BY <1>1 DEF referencedStates, Anchored, EndsAmong, ToSet
  <2> QED BY <1>1, <2>1 DEF NothingDangles, Anchored
<1>5. StepThreeIsAccepted
  <2>1. (\A s \in DOMAIN form.nodeActions : ToSet(form.nodeActions[s]) \subseteq Names(form.states))
            => ActionsAlive(form)
      BY DEF ActionsAlive, ToSet
  <2> QED BY <1>1, <2>1, SavableIsAccepted DEF StepThreeIsAccepted
<1> QED BY <1>2, <1>3, <1>4, <1>5 DEF EditorIsConsistent

(* The editor, for any default flow, any stored flows and any names that   *)
(* are typed: the canvas always shows the form, two links never share an   *)
(* id or their ends, and a form the editor finds valid is one that the     *)
(* core API accepts.                                                       *)
THEOREM EditorStaysConsistent == AdminSpec => []EditorIsConsistent
<1>1. AdminInit => AdminEditorInv
    BY AdminEditorBegins
<1>2. AdminEditorInv /\ [AdminNext]_adminVars => AdminEditorInv'
    BY AdminEditorStep
<1>3. AdminEditorInv => EditorIsConsistent
    BY EditorHolds
<1> QED BY <1>1, <1>2, <1>3, PTL DEF AdminSpec

-----------------------------------------------------------------------------
(* A flow that went out and came back.                                     *)
LEMMA StoredParts ==
    ASSUME NEW d, IsDocument(d), NEW f, f = ToForm(AsStored(d))
    PROVE  /\ f.states = d.states /\ f.positions = d.positions /\ f.nodeActions = d.nodeActions
           /\ f.descriptions = d.descriptions /\ f.marks = d.marks
           /\ DOMAIN f.transitions = DOMAIN d.transitions
           /\ \A i \in DOMAIN d.transitions :
                 f.transitions[i] = Routed(d.transitions[i], SidesOf(d.layout, d.transitions[i]))
<1>1. PICK sources : sources = [k \in Marks |-> {Strip(s) : s \in d.sources[k]}]
    OBVIOUS
<1>2. PICK e : e = AsStored(d)
    OBVIOUS
<1>3. e = [d EXCEPT !.sources = sources]
    BY <1>1, <1>2 DEF AsStored
<1>4. d = [states |-> d.states, transitions |-> d.transitions, descriptions |-> d.descriptions,
           layout |-> d.layout, positions |-> d.positions, nodeActions |-> d.nodeActions,
           marks |-> d.marks, sources |-> d.sources]
    BY FlowDocTypes
<1>5. /\ e.states = d.states /\ e.transitions = d.transitions
      /\ e.descriptions = d.descriptions /\ e.layout = d.layout /\ e.positions = d.positions
      /\ e.nodeActions = d.nodeActions /\ e.marks = d.marks
    BY <1>3, <1>4
<1>6. /\ f.states = e.states /\ f.positions = e.positions /\ f.nodeActions = e.nodeActions
      /\ f.descriptions = e.descriptions /\ f.marks = e.marks /\ f.transitions = Merged(e)
  <2> PICK ts : ts = Merged(e)
      OBVIOUS
  <2> DEFINE h == [mode |-> "custom", states |-> e.states, transitions |-> ts,
                   positions |-> e.positions, nodeActions |-> e.nodeActions,
                   descriptions |-> e.descriptions, marks |-> e.marks, sources |-> e.sources]
  <2>1. f = IF IsDefaultGraph(h) THEN [h EXCEPT !.mode = "default"] ELSE h
      BY <1>2 DEF ToForm
  <2>2. /\ h.states = e.states /\ h.positions = e.positions /\ h.nodeActions = e.nodeActions
        /\ h.descriptions = e.descriptions /\ h.marks = e.marks /\ h.transitions = ts
      OBVIOUS
  <2>3. CASE f = h
      BY <2>2, <2>3
  <2>4. CASE f = [h EXCEPT !.mode = "default"]
      BY <2>2, <2>4
  <2> QED BY <2>1, <2>3, <2>4
<1>7. /\ DOMAIN Merged(e) = DOMAIN d.transitions
      /\ \A i \in DOMAIN d.transitions :
            Merged(e)[i] = Routed(d.transitions[i], SidesOf(d.layout, d.transitions[i]))
    BY <1>5 DEF Merged
<1> QED BY <1>5, <1>6, <1>7

LEMMA SideReturns ==
    ASSUME NEW f, IsFlowForm(f), PairsDiffer(f.transitions), NEW i \in DOMAIN f.transitions,
           NEW u, u = f.transitions[i], NEW t, t = Routed(Wired(u), SidesOf(LayoutOf(f), Wired(u)))
    PROVE  Wired(t) = Wired(u) /\ (t.from # t.to => Drawn(t) = Drawn(u))
<1>1. f.transitions \in Seq(FlowEdge) /\ u \in FlowEdge
    BY FlowFormTypes
<1>2. PICK w : w = Wired(u)
    OBVIOUS
<1>3. w \in Rule /\ w.from = u.from /\ w.to = u.to /\ w.named = u.named /\ w.policy = u.policy
    BY <1>1, <1>2, WiredTypes
<1>4. PICK route : route = SidesOf(LayoutOf(f), w)
    OBVIOUS
<1>5. route \in {"absent", "plain", "corner"}
    BY <1>4 DEF SidesOf
<1>6. t = Routed(w, route)
    BY <1>2, <1>4
<1>7. /\ t.from = u.from /\ t.to = u.to /\ t.route = route /\ Wired(t) = Wired(w)
    BY <1>3, <1>5, <1>6, RuleTypes
<1>8. Wired(w) = Wired(u)
    BY <1>3 DEF Wired
<1>9. <<u.from, u.to>> \in LayoutOf(f) <=> Side(u) # "plain"
  <2>1. u \in ToSet(f.transitions)
      BY DEF ToSet
  <2>2. ASSUME NEW v \in ToSet(f.transitions), <<v.from, v.to>> = <<u.from, u.to>> PROVE v = u
    <3>1. PICK j \in DOMAIN f.transitions : v = f.transitions[j]
        BY DEF ToSet
    <3> QED BY <2>2, <3>1 DEF PairsDiffer
  <2>3. <<u.from, u.to>> \in LayoutOf(f)
            <=> \E v \in ToSet(f.transitions) : Side(v) # "plain" /\ <<v.from, v.to>> = <<u.from, u.to>>
      BY DEF LayoutOf
  <2> QED BY <2>1, <2>2, <2>3, Zenon
<1>10. route = IF Side(u) # "plain" THEN "corner" ELSE "absent"
    BY <1>3, <1>4, <1>9 DEF SidesOf
<1>11. u.from # u.to => Drawn(u) = Side(u) /\ Side(u) \in {"plain", "corner"}
    BY <1>1, FlowEdgeTypes
<1>12. t.from # t.to => Drawn(t) = Drawn(u)
    BY <1>7, <1>10, <1>11 DEF Drawn, DefaultRoute
<1> QED BY <1>7, <1>8, <1>12

LEMMA SavedReturns == AdminEditorInv => SavingKeepsTheFlow
<1> SUFFICES ASSUME AdminEditorInv, form.mode = "custom", Savable(form), Accepted(Dto(form)),
                    NEW f, f = ToForm(AsStored(Dto(form)))
             PROVE  /\ f.states = form.states /\ f.positions = form.positions
                    /\ f.nodeActions = form.nodeActions /\ f.descriptions = form.descriptions
                    /\ f.marks = form.marks
                    /\ \A i \in DOMAIN f.transitions :
                          LET t == f.transitions[i] u == form.transitions[i]
                          IN  Wired(t) = Wired(u) /\ (t.from # t.to => Drawn(t) = Drawn(u))
    BY DEF SavingKeepsTheFlow
<1>1. FlowFormOK(form) /\ IsFlowForm(form)
    BY DEF AdminEditorInv, RowsInv, FlowInv, FlowFormOK
<1>2. PICK d : d = Dto(form)
    OBVIOUS
<1>3. /\ IsDocument(d) /\ d.layout = LayoutOf(form) /\ d.positions = form.positions
      /\ d.nodeActions = form.nodeActions /\ d.marks = form.marks
      /\ d.states = form.states /\ d.descriptions = form.descriptions
      /\ DOMAIN d.transitions = DOMAIN form.transitions
      /\ \A i \in DOMAIN form.transitions : d.transitions[i] = Wired(form.transitions[i])
    BY <1>1, <1>2, DtoTypes
<1>4. f = ToForm(AsStored(d))
    BY <1>2
<1>5. /\ f.states = d.states /\ f.positions = d.positions /\ f.nodeActions = d.nodeActions
      /\ f.descriptions = d.descriptions /\ f.marks = d.marks
      /\ DOMAIN f.transitions = DOMAIN d.transitions
      /\ \A i \in DOMAIN d.transitions :
            f.transitions[i] = Routed(d.transitions[i], SidesOf(d.layout, d.transitions[i]))
    BY <1>3, <1>4, StoredParts
<1>6. PairsDiffer(form.transitions)
  <2>1. form.transitions \in Seq(FlowEdge)
      BY <1>1, FlowFormTypes
  <2>2. Unique(Pairs(form.transitions))
      BY Zenon DEF Savable, WellFormed
  <2> QED BY <2>1, <2>2, PairsUnique
<1>7. ASSUME NEW i \in DOMAIN f.transitions, NEW t, t = f.transitions[i], NEW u, u = form.transitions[i]
      PROVE  Wired(t) = Wired(u) /\ (t.from # t.to => Drawn(t) = Drawn(u))
  <2>1. i \in DOMAIN form.transitions
      BY <1>3, <1>5
  <2>2. t = Routed(Wired(u), SidesOf(LayoutOf(form), Wired(u)))
      BY <1>3, <1>5, <1>7
  <2> QED BY <1>1, <1>6, <1>7, <2>1, <2>2, SideReturns
<1> QED BY <1>3, <1>5, <1>7

(* A custom flow that is saved and read back, from the canvas or from the  *)
(* rows, is the flow that was drawn, for whatever is stored or typed.      *)
THEOREM SavedFlowReturns == AdminSpec => []SavingKeepsTheFlow
<1>1. AdminInit => AdminEditorInv
    BY AdminEditorBegins
<1>2. AdminEditorInv /\ [AdminNext]_adminVars => AdminEditorInv'
    BY AdminEditorStep
<1>3. AdminEditorInv => SavingKeepsTheFlow
    BY SavedReturns
<1> QED BY <1>1, <1>2, <1>3, PTL DEF AdminSpec

-----------------------------------------------------------------------------
(* Whatever is edited, on the canvas or in the rows, the work beside the   *)
(* graph is lost only with a status or by the control that removes it, and *)
(* a marker that was hidden or placed stays where it is.                   *)
THEOREM EditsAreLocal == AdminSpec => EditsKeepTheRest
<1>1. AdminInit => AdminEditorInv
    BY AdminEditorBegins
<1>2. AdminEditorInv /\ [AdminNext]_adminVars => AdminEditorInv'
    BY AdminEditorStep
<1>3. AdminEditorInv /\ [AdminNext]_adminVars =>
        [\/ form' = form
         \/ ~Unique(form'.states)
         \/ Cardinality(Work(form')) >= Cardinality(Work(form))
         \/ Len(form'.states) < Len(form.states)
         \/ form'.states = form.states /\ Cardinality(Work(form) \ Work(form')) <= 1
         \/ Loaded]_form
  <2> SUFFICES ASSUME AdminEditorInv, [AdminNext]_adminVars
               PROVE  EditKept => form' = form \/ WorkKept(form, form') \/ Loaded
      BY AdminEditorStep DEF WorkKept
  <2> QED BY DEF EditKept, Edited
<1>4. AdminEditorInv /\ [AdminNext]_adminVars =>
        [\/ form'.marks = form.marks \/ Loaded
         \/ form'.states = form.states /\ Pairs(form'.transitions) = Pairs(form.transitions)]_form
  <2> SUFFICES ASSUME AdminEditorInv, [AdminNext]_adminVars
               PROVE  EditKept => form' = form \/ MarksKept(form, form') \/ Loaded
      BY AdminEditorStep DEF MarksKept
  <2> QED BY DEF EditKept, Edited
<1> QED BY <1>1, <1>2, <1>3, <1>4, PTL
        DEF AdminSpec, EditsKeepTheRest, WorkIsLostOnlyByDeletion, MarkersStayPut
===============================================================================
