-------------------------- MODULE StoreConfiguration_proofs --------------------------
(***************************************************************************)
(* What saves of the configuration leave behind, for any number of saves,  *)
(* drafts, categories and counters: rules that name stored categories, a   *)
(* cron that runs a committed policy, and, of a save nobody overlapped,    *)
(* exactly its own rows.  The row locks and the waiting of the unique      *)
(* indexes are what the first rests on: LockInv says what they guard.      *)
(***************************************************************************)
EXTENDS StoreConfiguration, TLAPS

(* What a request's transaction holds, by how far it has come.             *)
RowsOf(rows, table) == {r \in rows : r.table = table}

CategoriesIn(p) == CodesIn(tx[p].inserted, "categories")
RulesIn(p) == CodesIn(tx[p].inserted, "rules")

DraftCodes(draft) == {c.code : c \in draft.categories}
DraftCounters(draft) == {r.counter : r \in draft.rules}

InsertedIds(p) == {r.id : r \in RowsOf(tx[p].inserted, "categories")}

StageOK(p) ==
    /\ tx[p].no \in 1..MaxSaves /\ tx[p].draft \in Draft
    /\ pc[p] = "read" => tx[p].at = 1 /\ tx[p].locked = {}
    /\ pc[p] \in {"scan", "clear", "fill"} => tx[p].at \in {1, 2}
    /\ pc[p] \in {"config", "commit"} => tx[p].at = 3
    /\ pc[p] = "commit" => tx[p].written \in Config /\ tx[p].written.policy = tx[p].draft.policy

InsertedOK(p) ==
    /\ CategoriesIn(p) = IF tx[p].at = 1 THEN {} ELSE DraftCodes(tx[p].draft)
    /\ RulesIn(p) = IF tx[p].at \in {1, 2} THEN {} ELSE DraftCounters(tx[p].draft)
    /\ tx[p].at # 1 => \A c \in DraftCodes(tx[p].draft) :
                          CategoryIdOf(tx[p].draft, tx[p].no, c) \in InsertedIds(p)
    /\ \A r \in RowsOf(tx[p].inserted, "rules") : r.refs \subseteq InsertedIds(p)

ShapeInv ==
    /\ TypeOK
    /\ \A p \in Proc :
         IF InTransaction(p) THEN StageOK(p) /\ InsertedOK(p)
         ELSE tx[p].locked = {} /\ tx[p].inserted = {}

-----------------------------------------------------------------------------
(* Drafts *)

LEMMA DraftsAreWellMade ==
    ASSUME NEW draft \in Draft, NEW no \in 1..MaxSaves
    PROVE  /\ \A code \in DraftCodes(draft) : CategoryIdOf(draft, no, code) \in Id
           /\ CategoryRows(draft, no) \subseteq Row
           /\ RuleRows(draft, no) \subseteq Row
           /\ \A r \in CategoryRows(draft, no) : r.table = "categories" /\ r.birth = no
           /\ \A r \in RuleRows(draft, no) : r.table = "rules" /\ r.birth = no
           /\ {r.code : r \in CategoryRows(draft, no)} = DraftCodes(draft)
           /\ {r.code : r \in RuleRows(draft, no)} = DraftCounters(draft)
           /\ \A code \in DraftCodes(draft) :
                 \E r \in CategoryRows(draft, no) : r.id = CategoryIdOf(draft, no, code)
           /\ \A r \in RuleRows(draft, no) : \A x \in r.refs :
                 \E code \in DraftCodes(draft) : x = CategoryIdOf(draft, no, code)
<1> USE StoreConfigurationAssumption
<1>1. /\ draft.categories \subseteq [id : CategoryId \cup {Null}, code : Code]
      /\ draft.rules \subseteq [counter : Counter, codes : SUBSET Code]
      /\ \A r \in draft.rules : r.codes \subseteq DraftCodes(draft)
    BY DEF DraftCodes
<1>2. ASSUME NEW code \in DraftCodes(draft)
      PROVE  CategoryIdOf(draft, no, code) \in Id
    <2> DEFINE dto == CHOOSE c \in draft.categories : c.code = code
    <2>1. \E c \in draft.categories : c.code = code
        BY <1>2 DEF DraftCodes
    <2>2. dto \in draft.categories /\ dto.code = code
        BY <2>1
    <2>3. CategoryIdOf(draft, no, code) = IF dto.id = Null THEN <<no, code>> ELSE dto.id
        BY DEF CategoryIdOf
    <2> HIDE DEF dto
    <2>4. dto.id \in CategoryId \cup {Null} /\ code \in Code
        BY <1>1, <2>2
    <2> QED BY <2>3, <2>4 DEF Id
<1>3. ASSUME NEW r \in CategoryRows(draft, no)
      PROVE  /\ r \in Row /\ r.table = "categories" /\ r.birth = no
             /\ r.code \in DraftCodes(draft)
    <2>1. PICK c \in draft.categories :
             r = [table |-> "categories", id |-> CategoryIdOf(draft, no, c.code), code |-> c.code,
                  refs |-> {}, birth |-> no]
        BY DEF CategoryRows
    <2>2. c.code \in DraftCodes(draft) /\ c.code \in Code
        BY <1>1 DEF DraftCodes
    <2>3. CategoryIdOf(draft, no, c.code) \in Id
        BY <1>2, <2>2
    <2> QED BY <2>1, <2>2, <2>3 DEF Row
<1>4. ASSUME NEW code \in DraftCodes(draft)
      PROVE  \E r \in CategoryRows(draft, no) :
                r.id = CategoryIdOf(draft, no, code) /\ r.code = code
    <2>1. PICK c \in draft.categories : c.code = code
        BY DEF DraftCodes
    <2> DEFINE r == [table |-> "categories", id |-> CategoryIdOf(draft, no, c.code),
                     code |-> c.code, refs |-> {}, birth |-> no]
    <2>2. r \in CategoryRows(draft, no)
        BY DEF CategoryRows
    <2>3. r.id = CategoryIdOf(draft, no, code) /\ r.code = code
        BY <2>1
    <2> QED BY <2>2, <2>3
<1>5. ASSUME NEW r \in RuleRows(draft, no)
      PROVE  /\ r \in Row /\ r.table = "rules" /\ r.birth = no
             /\ r.code \in DraftCounters(draft)
             /\ \A x \in r.refs : \E code \in DraftCodes(draft) : x = CategoryIdOf(draft, no, code)
    <2>1. PICK rule \in draft.rules :
             r = [table |-> "rules", id |-> <<no, rule.counter>>, code |-> rule.counter,
                  refs |-> {CategoryIdOf(draft, no, code) : code \in rule.codes}, birth |-> no]
        BY DEF RuleRows
    <2>2. rule.counter \in Counter /\ rule.codes \subseteq DraftCodes(draft)
        BY <1>1
    <2> DEFINE refs == {CategoryIdOf(draft, no, code) : code \in rule.codes}
    <2>3. refs \subseteq Id
        BY <1>2, <2>2
    <2>4. \A x \in refs : \E code \in DraftCodes(draft) : x = CategoryIdOf(draft, no, code)
        BY <2>2
    <2>5. r = [table |-> "rules", id |-> <<no, rule.counter>>, code |-> rule.counter,
               refs |-> refs, birth |-> no]
        BY <2>1
    <2> HIDE DEF refs
    <2>6. <<no, rule.counter>> \in Id
        BY <2>2 DEF Id
    <2> QED BY <2>2, <2>3, <2>4, <2>5, <2>6 DEF Row, DraftCounters
<1>6. ASSUME NEW k \in DraftCounters(draft)
      PROVE  \E r \in RuleRows(draft, no) : r.code = k
    <2>1. PICK rule \in draft.rules : rule.counter = k
        BY DEF DraftCounters
    <2> DEFINE r == [table |-> "rules", id |-> <<no, rule.counter>>, code |-> rule.counter,
                     refs |-> {CategoryIdOf(draft, no, code) : code \in rule.codes}, birth |-> no]
    <2>2. r \in RuleRows(draft, no)
        BY DEF RuleRows
    <2>3. r.code = k
        BY <2>1
    <2> QED BY <2>2, <2>3
<1>7. {r.code : r \in CategoryRows(draft, no)} = DraftCodes(draft)
    BY <1>3, <1>4
<1>8. {r.code : r \in RuleRows(draft, no)} = DraftCounters(draft)
    BY <1>5, <1>6
<1> QED BY <1>2, <1>3, <1>4, <1>5, <1>7, <1>8

-----------------------------------------------------------------------------
(* What Fill inserts: the draft's rows, with the birth of a row it updates.*)
LEMMA FilledRows ==
    ASSUME ShapeInv, NEW p \in Proc, pc[p] = "fill"
    PROVE  /\ NewRows(p) \subseteq Row
           /\ NewRows(p) = IF tx[p].at = 1 THEN CategoryRows(tx[p].draft, tx[p].no)
                                           ELSE RuleRows(tx[p].draft, tx[p].no)
           /\ \A s \in NewRows(p) : s.table = Tables[tx[p].at]
           /\ \A s \in NewRows(p) :
                 LET same == {r \in Updated(p) : SameKey(r, s)}
                 IN  /\ Upserted(p, s) \in Row
                     /\ SameKey(Upserted(p, s), s)
                     /\ Upserted(p, s).code = s.code /\ Upserted(p, s).refs = s.refs
                     /\ Upserted(p, s).birth = IF same = {} THEN s.birth
                                               ELSE (CHOOSE r \in same : TRUE).birth
<1>1. /\ tx[p].no \in 1..MaxSaves /\ tx[p].draft \in Draft /\ tx[p].at \in {1, 2}
      /\ stored \subseteq Row
    BY DEF ShapeInv, StageOK, InTransaction, TypeOK
<1>2. NewRows(p) = IF tx[p].at = 1 THEN CategoryRows(tx[p].draft, tx[p].no)
                                   ELSE RuleRows(tx[p].draft, tx[p].no)
    BY <1>1 DEF NewRows, Tables
<1>3. NewRows(p) \subseteq Row
    BY <1>1, <1>2, DraftsAreWellMade
<1>4. \A s \in NewRows(p) : s.table = Tables[tx[p].at]
    BY <1>1, <1>2, DraftsAreWellMade DEF Tables
<1>5. ASSUME NEW s \in NewRows(p)
      PROVE  LET same == {r \in Updated(p) : SameKey(r, s)}
             IN  /\ Upserted(p, s) \in Row
                 /\ SameKey(Upserted(p, s), s)
                 /\ Upserted(p, s).code = s.code /\ Upserted(p, s).refs = s.refs
                 /\ Upserted(p, s).birth = IF same = {} THEN s.birth
                                           ELSE (CHOOSE r \in same : TRUE).birth
    <2> DEFINE same == {r \in Updated(p) : SameKey(r, s)}
    <2>1. Upserted(p, s) = IF same = {} THEN s
                           ELSE [s EXCEPT !.birth = (CHOOSE r \in same : TRUE).birth]
        BY DEF Upserted
    <2>2. s \in Row
        BY <1>3
    <2>3. same \subseteq Row
        BY <1>1 DEF Updated
    <2> HIDE DEF same
    <2>4. CASE same = {}
        <3>1. Upserted(p, s) = s
            BY <2>1, <2>4
        <3>2. /\ Upserted(p, s) \in Row /\ SameKey(Upserted(p, s), s)
              /\ Upserted(p, s).code = s.code /\ Upserted(p, s).refs = s.refs
              /\ Upserted(p, s).birth = IF same = {} THEN s.birth
                                        ELSE (CHOOSE r \in same : TRUE).birth
            BY <2>2, <2>4, <3>1 DEF SameKey
        <3> QED BY <3>2 DEF same
    <2>5. CASE same # {}
        <3> DEFINE b == (CHOOSE r \in same : TRUE).birth
        <3>1. (CHOOSE r \in same : TRUE) \in Row
            BY <2>3, <2>5
        <3>2. b \in 1..MaxSaves
            BY <3>1 DEF Row
        <3>3. Upserted(p, s) = [s EXCEPT !.birth = b]
            BY <2>1, <2>5
        <3>4. b = (CHOOSE r \in same : TRUE).birth
            OBVIOUS
        <3> HIDE DEF b
        <3>5. /\ Upserted(p, s) \in Row /\ SameKey(Upserted(p, s), s)
              /\ Upserted(p, s).code = s.code /\ Upserted(p, s).refs = s.refs
              /\ Upserted(p, s).birth = b
            BY <2>2, <3>2, <3>3 DEF SameKey, Row
        <3>6. Upserted(p, s).birth = IF same = {} THEN s.birth
                                     ELSE (CHOOSE r \in same : TRUE).birth
            BY <2>5, <3>4, <3>5
        <3> QED BY <3>5, <3>6 DEF same
    <2> QED BY <2>4, <2>5
<1> QED BY <1>2, <1>3, <1>4, <1>5

LEMMA UpsertedRowsMatch ==
    ASSUME ShapeInv, NEW p \in Proc, pc[p] = "fill"
    PROVE  /\ UpsertedRows(p) \subseteq Row
           /\ \A r \in UpsertedRows(p) : \E s \in NewRows(p) : r = Upserted(p, s) /\ SameKey(r, s)
           /\ \A r \in UpsertedRows(p) : r.table = Tables[tx[p].at]
           /\ {r.code : r \in UpsertedRows(p)} = IF tx[p].at = 1 THEN DraftCodes(tx[p].draft)
                                                  ELSE DraftCounters(tx[p].draft)
           /\ tx[p].at = 1 => \A c \in DraftCodes(tx[p].draft) :
                 CategoryIdOf(tx[p].draft, tx[p].no, c) \in {r.id : r \in UpsertedRows(p)}
           /\ tx[p].at = 2 => \A r \in UpsertedRows(p) : \A x \in r.refs :
                 \E c \in DraftCodes(tx[p].draft) : x = CategoryIdOf(tx[p].draft, tx[p].no, c)
<1>1. tx[p].no \in 1..MaxSaves /\ tx[p].draft \in Draft /\ tx[p].at \in {1, 2}
    BY DEF ShapeInv, StageOK, InTransaction
<1>2. ASSUME NEW r \in UpsertedRows(p)
      PROVE  \E s \in NewRows(p) :
                /\ r = Upserted(p, s) /\ SameKey(r, s) /\ r \in Row /\ r.table = s.table
                /\ r.code = s.code /\ r.refs = s.refs
    <2>1. PICK s \in NewRows(p) : r = Upserted(p, s)
        BY DEF UpsertedRows
    <2>2. SameKey(r, s) /\ r \in Row /\ r.code = s.code /\ r.refs = s.refs
        BY <2>1, FilledRows
    <2> QED BY <2>1, <2>2 DEF SameKey
<1>3. ASSUME NEW s \in NewRows(p)
      PROVE  \E r \in UpsertedRows(p) : r.code = s.code /\ r.id = s.id
    <2>1. Upserted(p, s) \in UpsertedRows(p)
        BY DEF UpsertedRows
    <2>2. SameKey(Upserted(p, s), s) /\ Upserted(p, s).code = s.code
        BY FilledRows
    <2> QED BY <2>1, <2>2 DEF SameKey
<1>4. {r.code : r \in UpsertedRows(p)} = {s.code : s \in NewRows(p)}
    BY <1>2, <1>3
<1>5. NewRows(p) = IF tx[p].at = 1 THEN CategoryRows(tx[p].draft, tx[p].no)
                                   ELSE RuleRows(tx[p].draft, tx[p].no)
    BY FilledRows
<1>6. {s.code : s \in NewRows(p)} = IF tx[p].at = 1 THEN DraftCodes(tx[p].draft)
                                                   ELSE DraftCounters(tx[p].draft)
    BY <1>1, <1>5, DraftsAreWellMade
<1>7. ASSUME tx[p].at = 1, NEW c \in DraftCodes(tx[p].draft)
      PROVE  CategoryIdOf(tx[p].draft, tx[p].no, c) \in {r.id : r \in UpsertedRows(p)}
    <2>1. PICK s \in NewRows(p) : s.id = CategoryIdOf(tx[p].draft, tx[p].no, c)
        BY <1>1, <1>5, <1>7, DraftsAreWellMade
    <2> QED BY <1>3, <2>1
<1>8. ASSUME tx[p].at = 2, NEW r \in UpsertedRows(p), NEW x \in r.refs
      PROVE  \E c \in DraftCodes(tx[p].draft) : x = CategoryIdOf(tx[p].draft, tx[p].no, c)
    <2>1. PICK s \in NewRows(p) : r.refs = s.refs
        BY <1>2
    <2>2. s \in RuleRows(tx[p].draft, tx[p].no) /\ x \in s.refs
        BY <1>5, <1>8, <2>1
    <2> QED BY <1>1, <2>2, DraftsAreWellMade
<1>9. \A r \in UpsertedRows(p) : r.table = Tables[tx[p].at]
    BY <1>2, FilledRows
<1> QED BY <1>2, <1>4, <1>6, <1>7, <1>8, <1>9

-----------------------------------------------------------------------------
(* A step of one request leaves the others where they are.                 *)
OwnShape(p) ==
    IF InTransaction(p) THEN StageOK(p) /\ InsertedOK(p)
    ELSE tx[p].locked = {} /\ tx[p].inserted = {}

Persistent == <<configs, stored, audit, up, armed, job, saves, history>>

LEMMA OneStep ==
    ASSUME ShapeInv, NEW p \in Proc, NEW at, NEW t, Step(p, at, t), at \in PC, t \in Transaction
    PROVE  /\ pc' \in [Proc -> PC] /\ tx' \in [Proc -> Transaction]
           /\ pc'[p] = at /\ tx'[p] = t
           /\ \A q \in Proc \ {p} : pc'[q] = pc[q] /\ tx'[q] = tx[q]
           /\ \A q \in Proc \ {p} : OwnShape(q)'
<1>1. pc \in [Proc -> PC] /\ tx \in [Proc -> Transaction]
    BY DEF ShapeInv, TypeOK
<1>2. /\ pc' \in [Proc -> PC] /\ tx' \in [Proc -> Transaction]
      /\ pc'[p] = at /\ tx'[p] = t
      /\ \A q \in Proc \ {p} : pc'[q] = pc[q] /\ tx'[q] = tx[q]
    BY <1>1 DEF Step
<1>3. ASSUME NEW q \in Proc \ {p} PROVE OwnShape(q)'
    <2>1. OwnShape(q)
        BY DEF ShapeInv, OwnShape
    <2>2. pc'[q] = pc[q] /\ tx'[q] = tx[q]
        BY <1>2
    <2>3. StageOK(q)' <=> StageOK(q)
        BY <2>2 DEF StageOK
    <2>4. InsertedOK(q)' <=> InsertedOK(q)
        BY <2>2 DEF InsertedOK, CategoriesIn, RulesIn, InsertedIds
    <2>5. InTransaction(q)' <=> InTransaction(q)
        BY <2>2 DEF InTransaction
    <2> QED BY <2>1, <2>2, <2>3, <2>4, <2>5 DEF OwnShape
<1> QED BY <1>2, <1>3

LEMMA TransactionStep ==
    ASSUME ShapeInv, NEW p \in Proc, NEW at, NEW t, Step(p, at, t), at \in PC, t \in Transaction,
           UNCHANGED Persistent, OwnShape(p)'
    PROVE  ShapeInv'
<1>1. TypeOK'
    BY OneStep DEF ShapeInv, TypeOK, Persistent, history
<1>2. \A q \in Proc : OwnShape(q)'
    BY OneStep
<1> QED BY <1>1, <1>2 DEF ShapeInv, OwnShape

LEMMA NoTransactionTyped == NoTransaction \in Transaction
BY StoreConfigurationAssumption DEF NoTransaction, Transaction

LEMMA InitShape == Init => ShapeInv
<1> SUFFICES ASSUME Init PROVE ShapeInv
    OBVIOUS
<1>1. pc \in [Proc -> PC] /\ tx \in [Proc -> Transaction]
    BY NoTransactionTyped DEF Init, PC
<1>2. TypeOK
    <2>1. saves \in 0..MaxSaves
        BY StoreConfigurationAssumption DEF Init
    <2>2. audit \in Seq([before : Policy \cup {Null}, after : Policy])
        BY DEF Init
    <2>3. job \in Policy \cup {Null} /\ armed = ScheduleOf(job)
        BY DEF Init, ScheduleOf
    <2>4. alone \in [Proc -> BOOLEAN] /\ overlapped \in BOOLEAN /\ up \in BOOLEAN
        BY DEF Init
    <2> QED BY <1>1, <2>1, <2>2, <2>3, <2>4 DEF Init, TypeOK
<1>3. \A p \in Proc : ~InTransaction(p) /\ tx[p].locked = {} /\ tx[p].inserted = {}
    BY DEF Init, InTransaction, NoTransaction
<1> QED BY <1>2, <1>3 DEF ShapeInv

LEMMA SaveShape ==
    ASSUME ShapeInv, NEW p \in Proc, NEW draft \in Draft, Save(p, draft)
    PROVE  ShapeInv'
<1> USE StoreConfigurationAssumption
<1> DEFINE t == [NoTransaction EXCEPT !.no = saves + 1, !.draft = draft]
<1>1. saves \in 0..MaxSaves /\ saves + 1 \in 1..MaxSaves
    BY DEF ShapeInv, TypeOK, Save
<1>2. t \in Transaction
    <2>1. saves + 1 \in 0..MaxSaves /\ draft \in Draft \cup {Null}
        BY <1>1
    <2> DEFINE Numbers == 0..MaxSaves
    <2>2. saves + 1 \in Numbers /\ NoTransaction \in Transaction
        BY <2>1, NoTransactionTyped
    <2>3. Transaction =
             [ no : Numbers, draft : Draft \cup {Null}, old : Config \cup {Null}, at : 1..3,
               seen : SUBSET Row, locked : SUBSET Row, inserted : SUBSET Row,
               written : Config \cup {Null}, policy : Policy \cup {Null} ]
        BY DEF Transaction
    <2> HIDE DEF Numbers
    <2> QED BY <2>1, <2>2, <2>3
<1>3. Step(p, "read", t)
    BY DEF Save
<1>4. /\ t.no = saves + 1 /\ t.draft = draft /\ t.at = 1 /\ t.locked = {} /\ t.inserted = {}
    <2>1. t.no = saves + 1 /\ t.draft = draft
        BY NoTransactionTyped DEF Transaction
    <2>2. t.at = NoTransaction.at /\ t.locked = NoTransaction.locked
          /\ t.inserted = NoTransaction.inserted
        BY NoTransactionTyped DEF Transaction
    <2>3. NoTransaction.at = 1 /\ NoTransaction.locked = {} /\ NoTransaction.inserted = {}
        BY DEF NoTransaction
    <2> QED BY <2>1, <2>2, <2>3
<1> HIDE DEF t
<1>5. "read" \in PC
    BY DEF PC
<1>6. pc'[p] = "read" /\ tx'[p] = t /\ \A q \in Proc \ {p} : OwnShape(q)'
    BY <1>2, <1>3, <1>5, OneStep
<1>7. pc' \in [Proc -> PC] /\ tx' \in [Proc -> Transaction]
    BY <1>2, <1>3, <1>5, OneStep
<1>8. saves' \in 0..MaxSaves
    BY <1>1 DEF Save
<1>9. alone' \in [Proc -> BOOLEAN] /\ overlapped' \in BOOLEAN
    BY DEF Save, ShapeInv, TypeOK
<1>10. TypeOK'
    BY <1>7, <1>8, <1>9 DEF Save, ShapeInv, TypeOK, ScheduleOf
<1>11. StageOK(p)'
    BY <1>1, <1>4, <1>6 DEF StageOK
<1>12. InsertedOK(p)'
    BY <1>4, <1>6 DEF InsertedOK, CategoriesIn, RulesIn, CodesIn, RowsOf, InsertedIds
<1>13. OwnShape(p)'
    BY <1>6, <1>11, <1>12 DEF OwnShape, InTransaction
<1>14. \A q \in Proc : OwnShape(q)'
    BY <1>6, <1>13
<1> QED BY <1>10, <1>14 DEF ShapeInv, OwnShape

(* The steps of a transaction that insert nothing and lock stored rows.    *)
LEMMA QuietShape ==
    ASSUME ShapeInv, NEW p \in Proc, ReadOld(p) \/ Scan(p) \/ Clear(p) \/ WriteConfig(p)
    PROVE  ShapeInv'
<1>1. /\ tx[p] \in Transaction /\ StageOK(p) /\ InsertedOK(p) /\ pc[p] \in PC
      /\ stored \subseteq Row /\ configs \subseteq Config
    <2>1. InTransaction(p)
        BY DEF ReadOld, Scan, Clear, WriteConfig, InTransaction
    <2> QED BY <2>1 DEF ShapeInv, TypeOK
<1>2. ASSUME NEW at, NEW t, Step(p, at, t), at \in {"scan", "clear", "fill", "commit"},
             t \in Transaction, UNCHANGED Persistent,
             t.no = tx[p].no, t.draft = tx[p].draft, t.at = tx[p].at, t.inserted = tx[p].inserted,
             at = "commit" => /\ t.at = 3
                              /\ t.written \in Config /\ t.written.policy = tx[p].draft.policy,
             at # "commit" => t.at \in {1, 2}
      PROVE  ShapeInv'
    <2>1. at \in PC
        BY <1>2 DEF PC
    <2>2. pc'[p] = at /\ tx'[p] = t
        BY <1>2, <2>1, OneStep
    <2>3. StageOK(p)'
        BY <1>1, <1>2, <2>2 DEF StageOK
    <2>4. InsertedOK(p)'
        BY <1>1, <1>2, <2>2 DEF InsertedOK, CategoriesIn, RulesIn, InsertedIds
    <2>5. OwnShape(p)'
        BY <1>2, <2>2, <2>3, <2>4 DEF OwnShape, InTransaction
    <2> QED BY <1>2, <2>1, <2>5, TransactionStep
<1>3. CASE ReadOld(p)
    <2>1. PICK old \in Config \cup {Null} : Step(p, "scan", [tx[p] EXCEPT !.old = old])
        BY <1>1, <1>3 DEF ReadOld
    <2> DEFINE t == [tx[p] EXCEPT !.old = old]
    <2>2. t \in Transaction
        BY <1>1 DEF Transaction
    <2>3. /\ t.no = tx[p].no /\ t.draft = tx[p].draft /\ t.at = tx[p].at
          /\ t.inserted = tx[p].inserted
        BY <1>1 DEF Transaction
    <2>4. t.at \in {1, 2}
        BY <1>1, <1>3, <2>3 DEF StageOK, ReadOld
    <2>5. UNCHANGED Persistent
        BY <1>3 DEF ReadOld, Persistent
    <2>6. Step(p, "scan", t)
        BY <2>1
    <2> HIDE DEF t
    <2> QED BY <1>2, <2>2, <2>3, <2>4, <2>5, <2>6
<1>4. CASE Scan(p)
    <2> DEFINE rows == {r \in stored : r.table = Tables[tx[p].at]}
               t == [tx[p] EXCEPT !.seen = rows]
    <2>1. Step(p, "clear", t) /\ UNCHANGED Persistent
        BY <1>4 DEF Scan, Persistent
    <2>2. rows \subseteq Row
        BY <1>1
    <2> HIDE DEF rows
    <2>3. t \in Transaction
        BY <1>1, <2>2 DEF Transaction
    <2>4. /\ t.no = tx[p].no /\ t.draft = tx[p].draft /\ t.at = tx[p].at
          /\ t.inserted = tx[p].inserted
        BY <1>1 DEF Transaction
    <2>5. t.at \in {1, 2}
        BY <1>1, <1>4, <2>4 DEF StageOK, Scan
    <2> HIDE DEF t
    <2> QED BY <1>2, <2>1, <2>3, <2>4, <2>5
<1>5. CASE Clear(p)
    <2> DEFINE rows == StillThere(p)
               t == [tx[p] EXCEPT !.seen = {}, !.locked = tx[p].locked \cup rows]
    <2>1. Step(p, "fill", t) /\ UNCHANGED Persistent
        BY <1>5 DEF Clear, Persistent
    <2>2. rows \subseteq Row
        BY <1>1 DEF StillThere
    <2> HIDE DEF rows
    <2>3. tx[p].locked \subseteq Row
        BY <1>1 DEF Transaction
    <2>4. t \in Transaction
        BY <1>1, <2>2, <2>3 DEF Transaction
    <2>5. /\ t.no = tx[p].no /\ t.draft = tx[p].draft /\ t.at = tx[p].at
          /\ t.inserted = tx[p].inserted
        BY <1>1 DEF Transaction
    <2>6. t.at \in {1, 2}
        BY <1>1, <1>5, <2>5 DEF StageOK, Clear
    <2> HIDE DEF t
    <2> QED BY <1>2, <2>1, <2>4, <2>5, <2>6
<1>6. CASE WriteConfig(p)
    <2> DEFINE id == IF tx[p].old = Null THEN tx[p].no ELSE tx[p].old.id
               config == [id |-> id, policy |-> tx[p].draft.policy]
               t == [tx[p] EXCEPT !.written = config]
    <2>1. Step(p, "commit", t) /\ UNCHANGED Persistent
        BY <1>6 DEF WriteConfig, Persistent
    <2>2. id \in 1..MaxSaves
        BY <1>1 DEF StageOK, Transaction, Config
    <2>3. tx[p].draft.policy \in Policy
        BY <1>1, StoreConfigurationAssumption DEF StageOK
    <2> HIDE DEF id
    <2>4. config \in Config /\ config.policy = tx[p].draft.policy
        BY <2>2, <2>3 DEF Config
    <2> HIDE DEF config
    <2>5. t \in Transaction /\ t.written = config
        BY <1>1, <2>4 DEF Transaction
    <2>6. /\ t.no = tx[p].no /\ t.draft = tx[p].draft /\ t.at = tx[p].at
          /\ t.inserted = tx[p].inserted
        BY <1>1 DEF Transaction
    <2>7. t.at = 3
        BY <1>1, <1>6, <2>6 DEF StageOK, WriteConfig
    <2> HIDE DEF t
    <2> QED BY <1>2, <2>1, <2>4, <2>5, <2>6, <2>7
<1> QED BY <1>3, <1>4, <1>5, <1>6

(* A request that is not, or no longer, in a transaction.                  *)
LEMMA OutsideShape ==
    ASSUME ShapeInv, NEW p \in Proc, NEW at, NEW t, Step(p, at, t),
           at \in {"idle", "reArm", "arm", "broadcast"}, t \in Transaction,
           t.locked = {}, t.inserted = {}
    PROVE  pc'[p] = at /\ OwnShape(p)'
<1>1. at \in PC
    BY DEF PC
<1>2. pc'[p] = at /\ tx'[p] = t
    BY <1>1, OneStep
<1>3. ~InTransaction(p)'
    BY <1>2 DEF InTransaction
<1> QED BY <1>2, <1>3 DEF OwnShape

LEMMA EndedShape ==
    ASSUME ShapeInv, NEW p \in Proc, Rollback(p) \/ Broadcast(p)
    PROVE  ShapeInv'
<1>1. Step(p, "idle", NoTransaction) /\ UNCHANGED Persistent
    BY DEF Rollback, Broadcast, Released, Persistent
<1>2. NoTransaction.locked = {} /\ NoTransaction.inserted = {} /\ "idle" \in PC
    BY DEF NoTransaction, PC
<1>3. OwnShape(p)'
    BY <1>1, <1>2, NoTransactionTyped, OutsideShape
<1> QED BY <1>1, <1>2, <1>3, NoTransactionTyped, TransactionStep

LEMMA FillShape ==
    ASSUME ShapeInv, NEW p \in Proc, Fill(p)
    PROVE  ShapeInv'
<1>1. CASE Taken(p) # {}
    <2>1. Rollback(p)
        BY <1>1 DEF Fill
    <2> QED BY <2>1, EndedShape
<1>2. CASE Taken(p) = {}
    <2> DEFINE at == IF tx[p].at < Len(Tables) THEN "scan" ELSE "config"
               upd == Updated(p)
               rows == UpsertedRows(p)
               t == [tx[p] EXCEPT !.at = tx[p].at + 1, !.locked = tx[p].locked \cup upd,
                                  !.inserted = tx[p].inserted \cup rows]
    <2>1. Step(p, at, t) /\ UNCHANGED Persistent /\ pc[p] = "fill"
        BY <1>2 DEF Fill, Persistent
    <2>2. tx[p] \in Transaction /\ StageOK(p) /\ InsertedOK(p) /\ stored \subseteq Row
        BY <2>1 DEF ShapeInv, TypeOK, InTransaction
    <2>3. upd \subseteq Row /\ rows \subseteq Row
        BY <2>1, <2>2, UpsertedRowsMatch DEF Updated
    <2>4. tx[p].at \in {1, 2} /\ at = IF tx[p].at = 1 THEN "scan" ELSE "config"
        BY <2>1, <2>2 DEF StageOK, Tables
    <2>5. /\ \A r \in rows : r.table = IF tx[p].at = 1 THEN "categories" ELSE "rules"
          /\ {r.code : r \in rows} = IF tx[p].at = 1 THEN DraftCodes(tx[p].draft)
                                                     ELSE DraftCounters(tx[p].draft)
          /\ tx[p].at = 1 => \A c \in DraftCodes(tx[p].draft) :
                CategoryIdOf(tx[p].draft, tx[p].no, c) \in {r.id : r \in rows}
          /\ tx[p].at = 2 => \A r \in rows : \A x \in r.refs :
                \E c \in DraftCodes(tx[p].draft) : x = CategoryIdOf(tx[p].draft, tx[p].no, c)
        BY <2>1, <2>4, UpsertedRowsMatch DEF Tables
    <2> HIDE DEF upd, rows, at
    <2>6. tx[p].locked \subseteq Row /\ tx[p].inserted \subseteq Row
        BY <2>2 DEF Transaction
    <2>7. t \in Transaction
        <3>1. tx[p].at + 1 \in 1..3 /\ (tx[p].locked \cup upd) \in SUBSET Row
              /\ (tx[p].inserted \cup rows) \in SUBSET Row
            BY <2>3, <2>4, <2>6
        <3> DEFINE l == tx[p].locked \cup upd  i == tx[p].inserted \cup rows
                   a == tx[p].at + 1
        <3>2. a \in 1..3 /\ l \in SUBSET Row /\ i \in SUBSET Row
            BY <3>1
        <3>3. t = [tx[p] EXCEPT !.at = a, !.locked = l, !.inserted = i]
            OBVIOUS
        <3> HIDE DEF t, l, i, a
        <3> QED BY <2>2, <3>2, <3>3 DEF Transaction
    <2>8. /\ t.no = tx[p].no /\ t.draft = tx[p].draft /\ t.at = tx[p].at + 1
          /\ t.inserted = tx[p].inserted \cup rows
        BY <2>2 DEF Transaction
    <2> HIDE DEF t
    <2>9. at \in PC
        BY <2>4 DEF PC
    <2>10. pc'[p] = at /\ tx'[p] = t
        BY <2>1, <2>7, <2>9, OneStep
    <2>11. StageOK(p)'
        BY <2>2, <2>4, <2>8, <2>10 DEF StageOK
    <2>12. ASSUME tx[p].at = 1 PROVE InsertedOK(p)'
        <3>1. CategoriesIn(p) = {} /\ RulesIn(p) = {}
            BY <2>2, <2>12 DEF InsertedOK
        <3>2. tx[p].inserted = {}
            <4>1. \A r \in tx[p].inserted : r.table = "categories" \/ r.table = "rules"
                BY <2>6 DEF Row
            <4>2. \A r \in tx[p].inserted : r.code \in CategoriesIn(p) \/ r.code \in RulesIn(p)
                BY <4>1 DEF CategoriesIn, RulesIn, CodesIn
            <4> QED BY <3>1, <4>2
        <3>3. tx'[p].inserted = rows /\ tx'[p].at = 2 /\ tx'[p].draft = tx[p].draft
              /\ tx'[p].no = tx[p].no
            BY <2>8, <2>10, <2>12, <3>2
        <3>4. RowsOf(rows, "categories") = rows /\ RowsOf(rows, "rules") = {}
            BY <2>5, <2>12 DEF RowsOf
        <3>5. CategoriesIn(p)' = DraftCodes(tx[p].draft) /\ RulesIn(p)' = {}
            BY <2>5, <2>12, <3>3, <3>4 DEF CategoriesIn, RulesIn, CodesIn, RowsOf
        <3>6. \A c \in DraftCodes(tx[p].draft) :
                 CategoryIdOf(tx[p].draft, tx[p].no, c) \in InsertedIds(p)'
            BY <2>5, <2>12, <3>3, <3>4 DEF InsertedIds
        <3>7. \A r \in RowsOf(tx'[p].inserted, "rules") : r.refs \subseteq InsertedIds(p)'
            BY <3>3, <3>4
        <3> QED BY <3>3, <3>5, <3>6, <3>7 DEF InsertedOK
    <2>13. ASSUME tx[p].at = 2 PROVE InsertedOK(p)'
        <3>1. /\ CategoriesIn(p) = DraftCodes(tx[p].draft) /\ RulesIn(p) = {}
              /\ \A c \in DraftCodes(tx[p].draft) :
                    CategoryIdOf(tx[p].draft, tx[p].no, c) \in InsertedIds(p)
            BY <2>2, <2>13 DEF InsertedOK
        <3>2. tx'[p].inserted = tx[p].inserted \cup rows /\ tx'[p].at = 3
              /\ tx'[p].draft = tx[p].draft /\ tx'[p].no = tx[p].no
            BY <2>8, <2>10, <2>13
        <3>3. /\ RowsOf(tx'[p].inserted, "categories") = RowsOf(tx[p].inserted, "categories")
              /\ RowsOf(tx'[p].inserted, "rules") = RowsOf(tx[p].inserted, "rules") \cup rows
            BY <2>5, <2>13, <3>2 DEF RowsOf
        <3>4. InsertedIds(p)' = InsertedIds(p) /\ CategoriesIn(p)' = CategoriesIn(p)
            BY <3>3 DEF InsertedIds, CategoriesIn, CodesIn, RowsOf
        <3>5. RowsOf(tx[p].inserted, "rules") = {}
            BY <3>1 DEF RulesIn, CodesIn, RowsOf
        <3>6. RulesIn(p)' = DraftCounters(tx[p].draft)
            <4>1. RulesIn(p)' = {r.code : r \in RowsOf(tx'[p].inserted, "rules")}
                BY DEF RulesIn, CodesIn, RowsOf
            <4> QED BY <2>5, <2>13, <3>3, <3>5, <4>1
        <3>7. \A r \in RowsOf(tx'[p].inserted, "rules") : r.refs \subseteq InsertedIds(p)'
            BY <2>5, <2>13, <3>1, <3>3, <3>4, <3>5
        <3>8. \A c \in DraftCodes(tx'[p].draft) :
                 CategoryIdOf(tx'[p].draft, tx'[p].no, c) \in InsertedIds(p)'
            BY <3>1, <3>2, <3>4
        <3>9. CategoriesIn(p)' = DraftCodes(tx'[p].draft) /\ RulesIn(p)' = DraftCounters(tx'[p].draft)
            BY <3>1, <3>2, <3>4, <3>6
        <3>10. tx'[p].at # 1 /\ tx'[p].at \notin {1, 2}
            BY <3>2
        <3> QED BY <3>7, <3>8, <3>9, <3>10 DEF InsertedOK
    <2>14. InTransaction(p)'
        BY <2>4, <2>10 DEF InTransaction
    <2>15. OwnShape(p)'
        BY <2>4, <2>11, <2>12, <2>13, <2>14 DEF OwnShape
    <2> QED BY <2>1, <2>7, <2>9, <2>15, TransactionStep
<1> QED BY <1>1, <1>2

LEMMA CommitShape ==
    ASSUME ShapeInv, NEW p \in Proc, Commit(p)
    PROVE  ShapeInv'
<1> USE StoreConfigurationAssumption
<1> DEFINE at == IF PolicyChanged(p) THEN "reArm" ELSE "broadcast"
<1>1. /\ pc[p] = "commit" /\ tx[p] \in Transaction /\ tx[p].written \in Config
      /\ stored \subseteq Row /\ configs \subseteq Config
    BY DEF Commit, ShapeInv, TypeOK, InTransaction, StageOK
<1>2. Step(p, at, NoTransaction)
    BY DEF Commit, Released
<1>3. at \in {"reArm", "broadcast"}
    OBVIOUS
<1> HIDE DEF at
<1>4. at \in PC /\ NoTransaction.locked = {} /\ NoTransaction.inserted = {}
    BY <1>3 DEF PC, NoTransaction
<1>5. OwnShape(p)'
    BY <1>2, <1>3, <1>4, NoTransactionTyped, OutsideShape
<1>6. /\ pc' \in [Proc -> PC] /\ tx' \in [Proc -> Transaction]
      /\ \A q \in Proc \ {p} : OwnShape(q)'
    BY <1>2, <1>4, NoTransactionTyped, OneStep
<1>7. stored' \subseteq Row
    BY <1>1 DEF Commit, Transaction
<1>8. configs' \subseteq Config
    BY <1>1 DEF Commit
<1>9. audit' \in Seq([before : Policy \cup {Null}, after : Policy])
    <2> DEFINE Entry == [before : Policy \cup {Null}, after : Policy]
               entry == [before |-> IF tx[p].old = Null THEN Null ELSE tx[p].old.policy,
                         after |-> tx[p].written.policy]
    <2>1. entry \in Entry
        BY <1>1 DEF Transaction, Config
    <2>2. audit \in Seq(Entry)
        BY DEF ShapeInv, TypeOK
    <2>3. audit' = Append(audit, entry) \/ audit' = audit
        BY DEF Commit
    <2> HIDE DEF Entry, entry
    <2>4. audit' \in Seq(Entry)
        BY <2>1, <2>2, <2>3
    <2> QED BY <2>4 DEF Entry
<1>10. UNCHANGED <<up, armed, job, saves, history>>
    BY DEF Commit
<1>11. TypeOK'
    BY <1>6, <1>7, <1>8, <1>9, <1>10 DEF ShapeInv, TypeOK, history
<1> QED BY <1>5, <1>6, <1>11 DEF ShapeInv, OwnShape

LEMMA ArmedShape ==
    ASSUME NEW policy \in Policy \cup {Null}, ArmWith(policy),
           job \in Policy \cup {Null}, armed = ScheduleOf(job)
    PROVE  /\ job' \in Policy \cup {Null} /\ armed' = ScheduleOf(job')
           /\ armed' = ScheduleOf(policy)
           /\ job' # Null => job' = job \/ job' = policy
BY DEF ArmWith, ScheduleOf

LEMMA SchedulerShape ==
    ASSUME ShapeInv, NEW p \in Proc, ReadPolicy(p) \/ Arm(p)
    PROVE  ShapeInv'
<1>1. CASE ReadPolicy(p)
    <2>1. pc[p] = "reArm" /\ ConfigsSeenBy(p) = configs /\ configs \subseteq Config
        BY <1>1 DEF ReadPolicy, MayReArm, ConfigsSeenBy, InTransaction, ShapeInv, TypeOK
    <2>2. PICK policy \in Policy : Step(p, "arm", [NoTransaction EXCEPT !.policy = policy])
        BY <1>1, <2>1 DEF ReadPolicy, Config
    <2> DEFINE t == [NoTransaction EXCEPT !.policy = policy]
    <2>3. t \in Transaction
        BY NoTransactionTyped DEF Transaction
    <2>4. t.locked = NoTransaction.locked /\ t.inserted = NoTransaction.inserted
        BY NoTransactionTyped DEF Transaction
    <2>5. t.locked = {} /\ t.inserted = {}
        BY <2>4 DEF NoTransaction
    <2>6. Step(p, "arm", t) /\ "arm" \in PC /\ UNCHANGED Persistent
        BY <1>1, <2>2 DEF PC, ReadPolicy, Persistent
    <2> HIDE DEF t
    <2>7. OwnShape(p)'
        BY <2>3, <2>5, <2>6, OutsideShape
    <2> QED BY <2>3, <2>6, <2>7, TransactionStep
<1>2. CASE Arm(p)
    <2>1. Step(p, "broadcast", NoTransaction) /\ "broadcast" \in PC
        BY <1>2 DEF Arm, PC
    <2>2. NoTransaction.locked = {} /\ NoTransaction.inserted = {}
        BY DEF NoTransaction
    <2>3. OwnShape(p)'
        BY <2>1, <2>2, NoTransactionTyped, OutsideShape
    <2>4. /\ pc' \in [Proc -> PC] /\ tx' \in [Proc -> Transaction]
          /\ \A q \in Proc \ {p} : OwnShape(q)'
        BY <2>1, NoTransactionTyped, OneStep
    <2>5. tx[p].policy \in Policy \cup {Null}
        BY DEF ShapeInv, TypeOK, Transaction
    <2>6. job' \in Policy \cup {Null} /\ armed' = ScheduleOf(job')
        BY <1>2, <2>5, ArmedShape DEF Arm, ShapeInv, TypeOK
    <2>7. UNCHANGED <<configs, stored, audit, up, saves, history>>
        BY <1>2 DEF Arm
    <2>8. TypeOK'
        BY <2>4, <2>6, <2>7 DEF ShapeInv, TypeOK, history
    <2> QED BY <2>3, <2>4, <2>8 DEF ShapeInv, OwnShape
<1> QED BY <1>1, <1>2

LEMMA ProcessShape ==
    ASSUME ShapeInv, Boot \/ Crash \/ UNCHANGED vars
    PROVE  ShapeInv'
<1>1. CASE Boot
    <2>1. PICK policy \in Policy \cup {Null} : ArmWith(policy)
        <3>1. configs \subseteq Config
            BY DEF ShapeInv, TypeOK
        <3>2. \A c \in configs : c.policy \in Policy
            BY <3>1 DEF Config
        <3> QED BY <1>1, <3>2 DEF Boot
    <2>2. job' \in Policy \cup {Null} /\ armed' = ScheduleOf(job')
        BY <2>1, ArmedShape DEF ShapeInv, TypeOK
    <2>3. TypeOK'
        BY <1>1, <2>2 DEF Boot, ShapeInv, TypeOK
    <2>4. \A p \in Proc : OwnShape(p)' <=> OwnShape(p)
        BY <1>1 DEF Boot, OwnShape, InTransaction, StageOK, InsertedOK, CategoriesIn, RulesIn,
                    InsertedIds
    <2> QED BY <2>3, <2>4 DEF ShapeInv, OwnShape
<1>2. CASE Crash
    <2>1. pc' \in [Proc -> PC] /\ tx' \in [Proc -> Transaction]
        BY <1>2, NoTransactionTyped DEF Crash, PC
    <2>2. TypeOK'
        BY <1>2, <2>1 DEF Crash, ShapeInv, TypeOK, ScheduleOf, history
    <2>3. \A p \in Proc : OwnShape(p)'
        BY <1>2 DEF Crash, OwnShape, InTransaction, NoTransaction
    <2> QED BY <2>2, <2>3 DEF ShapeInv, OwnShape
<1>3. CASE UNCHANGED vars
    <2>1. TypeOK'
        BY <1>3 DEF vars, history, ShapeInv, TypeOK
    <2>2. \A p \in Proc : OwnShape(p)' <=> OwnShape(p)
        BY <1>3 DEF vars, OwnShape, InTransaction, StageOK, InsertedOK, CategoriesIn, RulesIn,
                    InsertedIds
    <2> QED BY <2>1, <2>2 DEF ShapeInv, OwnShape
<1> QED BY <1>1, <1>2, <1>3

LEMMA NextShape == ShapeInv /\ [Next]_vars => ShapeInv'
<1> SUFFICES ASSUME ShapeInv, [Next]_vars PROVE ShapeInv'
    OBVIOUS
<1>1. ASSUME NEW p \in Proc, Continue(p) \/ Abort(p) PROVE ShapeInv'
    BY <1>1, QuietShape, FillShape, CommitShape, SchedulerShape, EndedShape DEF Continue, Abort
<1>2. ASSUME NEW p \in Proc, NEW draft \in Draft, Save(p, draft) PROVE ShapeInv'
    BY <1>2, SaveShape
<1> QED BY <1>1, <1>2, ProcessShape DEF Next

LEMMA ShapeInvariant == Spec => []ShapeInv
BY InitShape, NextShape, PTL DEF Spec

-----------------------------------------------------------------------------
(* What the locks guard.  Held: the keys no other transaction may touch.   *)
Held(p) == tx[p].locked \cup tx[p].inserted

(* A locked row is as it is stored, and all that is stored under a key this*)
(* transaction inserts is locked by it.                                    *)
LocksAreCurrent(p) ==
    /\ tx[p].locked \subseteq stored
    /\ \A r \in stored, s \in tx[p].inserted : SameKey(r, s) => r \in tx[p].locked

InsertsAgree(p) == \A r, s \in tx[p].inserted : SameKey(r, s) => r.birth = s.birth

(* A rule that is stored is among those this transaction deletes or has    *)
(* yet to look for, when it names a category that goes away.               *)
Covered(p, rule, category) ==
    \/ category.id \in InsertedIds(p)
    \/ tx[p].at = 1
    \/ tx[p].at = 2 /\ pc[p] = "scan"
    \/ tx[p].at = 2 /\ pc[p] = "clear" /\ rule \in tx[p].seen
    \/ rule \in tx[p].locked

RulesFollow(p) ==
    \A category \in tx[p].locked, rule \in stored :
        category.table = "categories" /\ rule.table = "rules" /\ category.id \in rule.refs
            => Covered(p, rule, category)

(* A DELETE looks at one table at a time.                                  *)
LooksAtItsTable(p) == pc[p] = "clear" => \A r \in tx[p].seen : r.table = Tables[tx[p].at]

OwnLocks(p) == LocksAreCurrent(p) /\ InsertsAgree(p) /\ RulesFollow(p) /\ LooksAtItsTable(p)

Exclusive(p, q) == \A r \in Held(p), s \in Held(q) : ~SameKey(r, s)

LockInv ==
    /\ \A r, s \in stored : SameKey(r, s) => r.birth = s.birth
    /\ RulesNameStoredCategories
    /\ \A p \in Proc : OwnLocks(p)
    /\ \A p \in Proc : \A q \in Proc \ {p} : Exclusive(p, q)

LEMMA InitLocks == Init => LockInv
<1> SUFFICES ASSUME Init PROVE LockInv
    OBVIOUS
<1>1. stored = {} /\ \A p \in Proc : tx[p].locked = {} /\ tx[p].inserted = {} /\ pc[p] = "idle"
    BY DEF Init, NoTransaction
<1>2. RulesNameStoredCategories
    BY <1>1 DEF RulesNameStoredCategories
<1>3. \A p \in Proc : OwnLocks(p)
    BY <1>1 DEF OwnLocks, LocksAreCurrent, InsertsAgree, RulesFollow, LooksAtItsTable
<1>4. \A p \in Proc : Held(p) = {}
    BY <1>1 DEF Held
<1> QED BY <1>1, <1>2, <1>3, <1>4 DEF LockInv, Exclusive

LEMMA LockStep ==
    ASSUME ShapeInv, LockInv, NEW p \in Proc, NEW at, NEW t, Step(p, at, t), at \in PC,
           t \in Transaction, stored' = stored, OwnLocks(p)',
           \A q \in Proc \ {p} : Exclusive(p, q)'
    PROVE  LockInv'
<1>1. \A q \in Proc \ {p} : pc'[q] = pc[q] /\ tx'[q] = tx[q]
    BY OneStep
<1>2. ASSUME NEW q \in Proc \ {p} PROVE OwnLocks(q)'
    <2>1. OwnLocks(q)
        BY DEF LockInv
    <2>2. pc'[q] = pc[q] /\ tx'[q] = tx[q]
        BY <1>1
    <2>3. OwnLocks(q)' <=> OwnLocks(q)
        BY <2>2 DEF OwnLocks, LocksAreCurrent, InsertsAgree, RulesFollow, LooksAtItsTable,
                    Covered, InsertedIds
    <2> QED BY <2>1, <2>3
<1>3. ASSUME NEW q \in Proc, NEW r \in Proc \ {q} PROVE Exclusive(q, r)'
    <2>1. CASE q = p
        BY <1>3, <2>1
    <2>2. CASE r = p
        <3>1. Exclusive(p, q)'
            BY <1>3, <2>2
        <3> QED BY <2>2, <3>1 DEF Exclusive, SameKey
    <2>3. CASE q # p /\ r # p
        <3>1. Exclusive(q, r)
            BY <1>3 DEF LockInv
        <3>2. tx'[q] = tx[q] /\ tx'[r] = tx[r]
            BY <1>1, <1>3, <2>3
        <3> QED BY <3>1, <3>2 DEF Exclusive, Held
    <2> QED BY <2>1, <2>2, <2>3
<1>4. RulesNameStoredCategories'
    BY DEF LockInv, RulesNameStoredCategories, CategoryIds
<1>5. \A r, s \in stored' : SameKey(r, s) => r.birth = s.birth
    BY DEF LockInv
<1>6. \A q \in Proc : OwnLocks(q)'
    BY <1>2
<1> QED BY <1>3, <1>4, <1>5, <1>6 DEF LockInv

(* A request that holds nothing afterwards.                                *)
LEMMA LocksReleased ==
    ASSUME ShapeInv, LockInv, NEW p \in Proc, NEW at, NEW t, Step(p, at, t), at \in PC,
           t \in Transaction, stored' = stored, t.locked = {}, t.inserted = {}, at # "clear"
    PROVE  LockInv'
<1>1. pc'[p] = at /\ tx'[p] = t
    BY OneStep
<1>2. OwnLocks(p)'
    BY <1>1 DEF OwnLocks, LocksAreCurrent, InsertsAgree, RulesFollow, LooksAtItsTable
<1>3. Held(p)' = {}
    BY <1>1 DEF Held
<1> QED BY <1>2, <1>3, LockStep DEF Exclusive

(* A request that holds afterwards what it did before.                     *)
LEMMA LocksKept ==
    ASSUME ShapeInv, LockInv, NEW p \in Proc, NEW at, NEW t, Step(p, at, t), at \in PC,
           t \in Transaction, stored' = stored, t.locked = tx[p].locked,
           t.inserted = tx[p].inserted, RulesFollow(p)', LooksAtItsTable(p)'
    PROVE  LockInv'
<1>1. pc'[p] = at /\ tx'[p] = t /\ \A q \in Proc \ {p} : tx'[q] = tx[q]
    BY OneStep
<1>2. OwnLocks(p)'
    BY <1>1 DEF LockInv, OwnLocks, LocksAreCurrent, InsertsAgree
<1>3. \A q \in Proc : Held(q)' = Held(q)
    BY <1>1 DEF Held
<1>4. \A q \in Proc \ {p} : Exclusive(p, q)'
    BY <1>3 DEF LockInv, Exclusive
<1> QED BY <1>2, <1>4, LockStep

LEMMA ReadingKeepsLocks ==
    ASSUME ShapeInv, LockInv, NEW p \in Proc, ReadOld(p) \/ Scan(p) \/ WriteConfig(p)
    PROVE  LockInv'
<1>1. /\ tx[p] \in Transaction /\ StageOK(p) /\ stored \subseteq Row /\ stored' = stored
      /\ OwnLocks(p)
    <2>1. InTransaction(p)
        BY DEF ReadOld, Scan, WriteConfig, InTransaction
    <2> QED BY <2>1 DEF ShapeInv, LockInv, TypeOK, ReadOld, Scan, WriteConfig
<1>2. ShapeInv'
    BY QuietShape
<1>3. tx'[p] \in Transaction
    BY <1>2 DEF ShapeInv, TypeOK
<1>4. CASE ReadOld(p)
    <2>1. PICK old : Step(p, "scan", [tx[p] EXCEPT !.old = old])
        BY <1>4 DEF ReadOld
    <2> DEFINE t == [tx[p] EXCEPT !.old = old]
    <2>2. /\ t.at = tx[p].at /\ t.locked = tx[p].locked /\ t.inserted = tx[p].inserted
          /\ tx[p].at = 1
        BY <1>1, <1>4 DEF Transaction, StageOK, ReadOld
    <2>3. tx'[p] = t /\ pc'[p] = "scan"
        BY <2>1 DEF Step, ShapeInv, TypeOK
    <2>4. Step(p, "scan", t) /\ "scan" \in PC
        BY <2>1 DEF PC
    <2> HIDE DEF t
    <2>5. RulesFollow(p)' /\ LooksAtItsTable(p)'
        BY <2>2, <2>3 DEF RulesFollow, Covered, LooksAtItsTable
    <2> QED BY <1>1, <1>3, <2>2, <2>3, <2>4, <2>5, LocksKept
<1>5. CASE Scan(p)
    <2> DEFINE t == [tx[p] EXCEPT !.seen = {r \in stored : r.table = Tables[tx[p].at]}]
    <2>1. Step(p, "clear", t) /\ "clear" \in PC
        BY <1>5 DEF Scan, PC
    <2>2. /\ t.at = tx[p].at /\ t.locked = tx[p].locked /\ t.inserted = tx[p].inserted
          /\ t.seen = {r \in stored : r.table = Tables[tx[p].at]}
          /\ tx[p].at \in {1, 2}
        BY <1>1, <1>5 DEF Transaction, StageOK, Scan
    <2>3. tx'[p] = t /\ pc'[p] = "clear"
        BY <2>1 DEF Step, ShapeInv, TypeOK
    <2> HIDE DEF t
    <2>4. LooksAtItsTable(p)'
        BY <2>2, <2>3 DEF LooksAtItsTable
    <2>5. RulesFollow(p)'
        <3> SUFFICES ASSUME NEW category \in tx'[p].locked, NEW rule \in stored',
                            category.table = "categories", rule.table = "rules",
                            category.id \in rule.refs
                     PROVE  Covered(p, rule, category)'
            BY DEF RulesFollow
        <3>1. InsertedIds(p)' = InsertedIds(p)
            BY <2>2, <2>3 DEF InsertedIds
        <3>2. Covered(p, rule, category)
            BY <1>1, <2>2, <2>3 DEF OwnLocks, RulesFollow
        <3>3. tx[p].at = 2 => rule \in tx'[p].seen
            BY <1>1, <2>2, <2>3 DEF Tables
        <3> QED BY <1>5, <2>2, <2>3, <3>1, <3>2, <3>3 DEF Covered, Scan
    <2> QED BY <1>1, <1>3, <2>1, <2>2, <2>3, <2>4, <2>5, LocksKept
<1>6. CASE WriteConfig(p)
    <2>1. PICK config : Step(p, "commit", [tx[p] EXCEPT !.written = config])
        BY <1>6 DEF WriteConfig
    <2> DEFINE t == [tx[p] EXCEPT !.written = config]
    <2>2. /\ t.at = tx[p].at /\ t.locked = tx[p].locked /\ t.inserted = tx[p].inserted
          /\ tx[p].at = 3
        BY <1>1, <1>6 DEF Transaction, StageOK, WriteConfig
    <2>3. tx'[p] = t /\ pc'[p] = "commit"
        BY <2>1 DEF Step, ShapeInv, TypeOK
    <2>4. Step(p, "commit", t) /\ "commit" \in PC
        BY <2>1 DEF PC
    <2> HIDE DEF t
    <2>5. LooksAtItsTable(p)'
        BY <2>3 DEF LooksAtItsTable
    <2>6. RulesFollow(p)'
        <3> SUFFICES ASSUME NEW category \in tx'[p].locked, NEW rule \in stored',
                            category.table = "categories", rule.table = "rules",
                            category.id \in rule.refs
                     PROVE  Covered(p, rule, category)'
            BY DEF RulesFollow
        <3>1. InsertedIds(p)' = InsertedIds(p)
            BY <2>2, <2>3 DEF InsertedIds
        <3>2. Covered(p, rule, category)
            BY <1>1, <2>2, <2>3 DEF OwnLocks, RulesFollow
        <3> QED BY <2>2, <2>3, <3>1, <3>2 DEF Covered
    <2> QED BY <1>1, <1>3, <2>2, <2>3, <2>4, <2>5, <2>6, LocksKept
<1> QED BY <1>4, <1>5, <1>6

(* Whose lock a stored row under a held key is.                            *)
LEMMA HoldersOfARow ==
    ASSUME LockInv, NEW q \in Proc, NEW r \in stored, NEW s \in Held(q), SameKey(r, s)
    PROVE  \E l \in tx[q].locked : SameRow(l, r)
<1>1. OwnLocks(q) /\ \A a, b \in stored : SameKey(a, b) => a.birth = b.birth
    BY DEF LockInv
<1>2. CASE s \in tx[q].locked
    <2>1. s \in stored
        BY <1>1, <1>2 DEF OwnLocks, LocksAreCurrent
    <2>2. SameRow(s, r)
        BY <1>1, <2>1 DEF SameKey, SameRow
    <2> QED BY <1>2, <2>2
<1>3. CASE s \in tx[q].inserted
    <2>1. r \in tx[q].locked
        BY <1>1, <1>3 DEF OwnLocks, LocksAreCurrent
    <2> QED BY <2>1 DEF SameRow
<1> QED BY <1>2, <1>3 DEF Held

LEMMA ClearingTakesLocks ==
    ASSUME ShapeInv, LockInv, NEW p \in Proc, Clear(p)
    PROVE  LockInv'
<1> DEFINE rows == StillThere(p)
           t == [tx[p] EXCEPT !.seen = {}, !.locked = tx[p].locked \cup rows]
<1>1. /\ tx[p] \in Transaction /\ StageOK(p) /\ stored' = stored /\ OwnLocks(p)
      /\ pc[p] = "clear"
    <2>1. InTransaction(p)
        BY DEF Clear, InTransaction
    <2> QED BY <2>1 DEF ShapeInv, LockInv, TypeOK, Clear
<1>2. Step(p, "fill", t) /\ "fill" \in PC
    BY DEF Clear, PC
<1>3. ShapeInv'
    BY QuietShape
<1>4. tx'[p] = t /\ pc'[p] = "fill" /\ t \in Transaction
    BY <1>2, <1>3 DEF Step, ShapeInv, TypeOK
<1>5. /\ t.at = tx[p].at /\ t.locked = tx[p].locked \cup rows /\ t.inserted = tx[p].inserted
      /\ tx[p].at \in {1, 2}
    BY <1>1 DEF Transaction, StageOK
<1>6. /\ rows \subseteq stored
      /\ \A r \in rows : r.table = Tables[tx[p].at]
      /\ \A r \in rows : \E s \in tx[p].seen : SameRow(r, s)
      /\ \A r \in stored : r \in tx[p].seen => r \in rows
    BY <1>1 DEF StillThere, SameRow, OwnLocks, LooksAtItsTable
<1> HIDE DEF t, rows
<1>7. ASSUME NEW q \in Proc \ {p}, NEW r \in rows, NEW s \in Held(q), SameKey(r, s)
      PROVE  FALSE
    <2>1. PICK l \in tx[q].locked : SameRow(l, r)
        BY <1>6, <1>7, HoldersOfARow
    <2>2. PICK seen \in tx[p].seen : SameRow(r, seen)
        BY <1>6
    <2>3. SameRow(seen, l)
        BY <2>1, <2>2 DEF SameRow
    <2>4. HeldByAnother(p, tx[p].seen)
        BY <2>3 DEF HeldByAnother
    <2> QED BY <2>4 DEF Clear
<1>8. ASSUME NEW q \in Proc \ {p} PROVE Exclusive(p, q)'
    <2>1. Exclusive(p, q)
        BY DEF LockInv
    <2>2. Held(p)' = Held(p) \cup rows /\ Held(q)' = Held(q)
        BY <1>2, <1>4, <1>5, OneStep DEF Held
    <2> QED BY <1>7, <2>1, <2>2 DEF Exclusive
<1>9. LocksAreCurrent(p)'
    BY <1>1, <1>4, <1>5, <1>6 DEF OwnLocks, LocksAreCurrent
<1>10. InsertsAgree(p)' /\ LooksAtItsTable(p)'
    BY <1>1, <1>4, <1>5 DEF OwnLocks, InsertsAgree, LooksAtItsTable
<1>11. RulesFollow(p)'
    <2> SUFFICES ASSUME NEW category \in tx'[p].locked, NEW rule \in stored',
                        category.table = "categories", rule.table = "rules",
                        category.id \in rule.refs
                 PROVE  Covered(p, rule, category)'
        BY DEF RulesFollow
    <2>1. InsertedIds(p)' = InsertedIds(p)
        BY <1>4, <1>5 DEF InsertedIds
    <2>2. CASE category \in tx[p].locked
        <3>1. Covered(p, rule, category)
            BY <1>1, <2>2 DEF OwnLocks, RulesFollow
        <3> QED BY <1>1, <1>4, <1>5, <1>6, <2>1, <3>1 DEF Covered
    <2>3. CASE category \in rows
        <3>1. tx[p].at = 1
            BY <1>5, <1>6, <2>3 DEF Tables
        <3> QED BY <1>4, <1>5, <3>1 DEF Covered
    <2> QED BY <1>4, <1>5, <2>2, <2>3
<1>12. OwnLocks(p)'
    BY <1>9, <1>10, <1>11 DEF OwnLocks
<1> QED BY <1>1, <1>2, <1>4, <1>8, <1>12, LockStep

LEMMA EndingReleasesLocks ==
    ASSUME ShapeInv, LockInv, NEW p \in Proc, Rollback(p) \/ Broadcast(p) \/ ReadPolicy(p) \/ Arm(p)
    PROVE  LockInv'
<1>1. NoTransaction.locked = {} /\ NoTransaction.inserted = {}
    BY DEF NoTransaction
<1>2. CASE Rollback(p) \/ Broadcast(p) \/ Arm(p)
    <2>1. PICK at \in {"idle", "broadcast"} : Step(p, at, NoTransaction)
        BY <1>2 DEF Rollback, Broadcast, Arm, Released
    <2>2. at \in PC /\ at # "clear" /\ stored' = stored
        BY <1>2 DEF PC, Rollback, Broadcast, Arm
    <2> QED BY <1>1, <2>1, <2>2, NoTransactionTyped, LocksReleased
<1>3. CASE ReadPolicy(p)
    <2>1. PICK policy : Step(p, "arm", [NoTransaction EXCEPT !.policy = policy])
        BY <1>3 DEF ReadPolicy
    <2> DEFINE t == [NoTransaction EXCEPT !.policy = policy]
    <2>2. Step(p, "arm", t) /\ "arm" \in PC /\ stored' = stored
        BY <1>3, <2>1 DEF PC, ReadPolicy
    <2>3. t.locked = {} /\ t.inserted = {}
        BY <1>1, NoTransactionTyped DEF Transaction
    <2>4. ShapeInv'
        BY <1>3, SchedulerShape
    <2>5. tx'[p] = t /\ tx'[p] \in Transaction
        BY <2>2, <2>4 DEF Step, ShapeInv, TypeOK
    <2> HIDE DEF t
    <2> QED BY <2>2, <2>3, <2>5, LocksReleased
<1> QED BY <1>2, <1>3

LEMMA FillingTakesKeys ==
    ASSUME ShapeInv, LockInv, NEW p \in Proc, Fill(p)
    PROVE  LockInv'
<1>1. CASE Taken(p) # {}
    <2>1. Rollback(p)
        BY <1>1 DEF Fill
    <2> QED BY <2>1, EndingReleasesLocks
<1>2. CASE Taken(p) = {}
    <2> DEFINE at == IF tx[p].at < Len(Tables) THEN "scan" ELSE "config"
               upd == Updated(p)
               rows == UpsertedRows(p)
               t == [tx[p] EXCEPT !.at = tx[p].at + 1, !.locked = tx[p].locked \cup upd,
                                  !.inserted = tx[p].inserted \cup rows]
    <2>1. Step(p, at, t) /\ stored' = stored /\ pc[p] = "fill" /\ ~AwaitsKeys(p)
        BY <1>2 DEF Fill
    <2>2. tx[p] \in Transaction /\ StageOK(p) /\ InsertedOK(p) /\ stored \subseteq Row /\ OwnLocks(p)
        BY <2>1 DEF ShapeInv, TypeOK, InTransaction, LockInv
    <2>3. /\ tx[p].at \in {1, 2} /\ tx[p].draft \in Draft /\ tx[p].no \in 1..MaxSaves
          /\ at = IF tx[p].at = 1 THEN "scan" ELSE "config"
        BY <2>1, <2>2 DEF StageOK, Tables
    <2>4. ShapeInv'
        BY FillShape
    <2>5. tx'[p] = t /\ pc'[p] = at /\ t \in Transaction /\ at \in PC
        BY <2>1, <2>4 DEF Step, ShapeInv, TypeOK
    <2>6. /\ t.at = tx[p].at + 1 /\ t.locked = tx[p].locked \cup upd
          /\ t.inserted = tx[p].inserted \cup rows
        BY <2>2 DEF Transaction
    <2>7. \A r \in rows : \E s \in NewRows(p) : r = Upserted(p, s) /\ SameKey(r, s)
        BY <2>1, UpsertedRowsMatch
    <2>8. \A r \in upd : r \in stored /\ \E s \in NewRows(p) : SameKey(r, s)
        BY DEF Updated
    <2>9. \A r \in stored, s \in NewRows(p) : SameKey(r, s) => r \in tx[p].locked \cup upd
        BY DEF Updated
    <2>10. \A s \in NewRows(p) : s.table = Tables[tx[p].at] /\ s.birth = tx[p].no
        BY <2>1, <2>3, FilledRows, DraftsAreWellMade
    <2>11. ASSUME NEW r \in rows, NEW s \in rows, SameKey(r, s) PROVE r.birth = s.birth
        <3>1. PICK a \in NewRows(p) : r = Upserted(p, a) /\ SameKey(r, a)
            BY <2>7
        <3>2. PICK b \in NewRows(p) : s = Upserted(p, b) /\ SameKey(s, b)
            BY <2>7
        <3> DEFINE sameA == {x \in Updated(p) : SameKey(x, a)}
                   sameB == {x \in Updated(p) : SameKey(x, b)}
        <3>3. r.birth = IF sameA = {} THEN a.birth ELSE (CHOOSE x \in sameA : TRUE).birth
            BY <2>1, <3>1, FilledRows
        <3>4. s.birth = IF sameB = {} THEN b.birth ELSE (CHOOSE x \in sameB : TRUE).birth
            BY <2>1, <3>2, FilledRows
        <3>5. SameKey(a, b)
            BY <2>11, <3>1, <3>2 DEF SameKey
        <3>6. sameA = sameB
            BY <3>5 DEF SameKey
        <3>7. a.birth = b.birth
            BY <2>10
        <3> HIDE DEF sameA, sameB
        <3> QED BY <3>3, <3>4, <3>6, <3>7
    <2> HIDE DEF t, upd, rows, at
    <2>12. ASSUME NEW q \in Proc \ {p} PROVE Exclusive(p, q)'
        <3>1. Exclusive(p, q)
            BY DEF LockInv
        <3>2. Held(p)' = Held(p) \cup upd \cup rows /\ Held(q)' = Held(q)
            BY <2>1, <2>5, <2>6, OneStep DEF Held
        <3>3. ASSUME NEW r \in upd \cup rows, NEW s \in Held(q), SameKey(r, s) PROVE FALSE
            <4>1. PICK new \in NewRows(p) : SameKey(r, new)
                BY <2>7, <2>8
            <4>2. Clash(s, new)
                BY <3>3, <4>1 DEF SameKey, Clash
            <4>3. AwaitsKeys(p)
                BY <4>2 DEF AwaitsKeys, Held
            <4> QED BY <2>1, <4>3
        <3> QED BY <3>1, <3>2, <3>3 DEF Exclusive
    <2>13. LocksAreCurrent(p)'
        <3>1. tx'[p].locked \subseteq stored'
            BY <2>1, <2>2, <2>5, <2>6, <2>8 DEF OwnLocks, LocksAreCurrent
        <3>2. ASSUME NEW r \in stored, NEW s \in tx'[p].inserted, SameKey(r, s)
              PROVE  r \in tx'[p].locked
            <4>1. CASE s \in tx[p].inserted
                BY <2>2, <2>5, <2>6, <3>2, <4>1 DEF OwnLocks, LocksAreCurrent
            <4>2. CASE s \in rows
                <5>1. PICK new \in NewRows(p) : SameKey(s, new)
                    BY <2>7, <4>2
                <5>2. SameKey(r, new)
                    BY <3>2, <5>1 DEF SameKey
                <5> QED BY <2>5, <2>6, <2>9, <5>2
            <4> QED BY <2>5, <2>6, <4>1, <4>2
        <3> QED BY <2>1, <3>1, <3>2 DEF LocksAreCurrent
    <2>14. InsertsAgree(p)'
        <3>1. ASSUME NEW r \in tx[p].inserted, NEW s \in rows PROVE ~SameKey(r, s)
            <4>1. s.table = Tables[tx[p].at]
                BY <2>7, <2>10 DEF SameKey
            <4>2. r \in Row
                BY <2>2 DEF Transaction
            <4>3. CASE tx[p].at = 1
                <5>1. CategoriesIn(p) = {} /\ RulesIn(p) = {}
                    BY <2>2, <4>3 DEF InsertedOK
                <5>2. r.code \in CategoriesIn(p) \/ r.code \in RulesIn(p)
                    BY <4>2 DEF CategoriesIn, RulesIn, CodesIn, Row
                <5> QED BY <5>1, <5>2
            <4>4. CASE tx[p].at = 2
                <5>1. RulesIn(p) = {}
                    BY <2>2, <4>4 DEF InsertedOK
                <5>2. r.table # "rules"
                    BY <5>1 DEF RulesIn, CodesIn
                <5> QED BY <4>1, <4>4, <5>2 DEF SameKey, Tables
            <4> QED BY <2>3, <4>3, <4>4
        <3>2. ASSUME NEW r \in tx'[p].inserted, NEW s \in tx'[p].inserted, SameKey(r, s)
              PROVE  r.birth = s.birth
            <4>1. SameKey(s, r)
                BY <3>2 DEF SameKey
            <4>3. tx'[p].inserted = tx[p].inserted \cup rows
                BY <2>5, <2>6
            <4>4. ~(r \in tx[p].inserted /\ s \in rows)
                BY <3>1, <3>2
            <4>5. ~(s \in tx[p].inserted /\ r \in rows)
                BY <3>1, <4>1
            <4>6. (r \in tx[p].inserted /\ s \in tx[p].inserted) \/ (r \in rows /\ s \in rows)
                BY <4>3, <4>4, <4>5
            <4>7. CASE r \in tx[p].inserted /\ s \in tx[p].inserted
                BY <2>2, <3>2, <4>7 DEF OwnLocks, InsertsAgree
            <4>8. CASE r \in rows /\ s \in rows
                BY <2>11, <3>2, <4>8
            <4> QED BY <4>6, <4>7, <4>8
        <3> QED BY <3>2 DEF InsertsAgree
    <2>15. LooksAtItsTable(p)'
        BY <2>3, <2>5 DEF LooksAtItsTable
    <2>16. RulesFollow(p)'
        <3> SUFFICES ASSUME NEW category \in tx'[p].locked, NEW rule \in stored',
                            category.table = "categories", rule.table = "rules",
                            category.id \in rule.refs
                     PROVE  Covered(p, rule, category)'
            BY DEF RulesFollow
        <3>1. CASE tx[p].at = 1
            BY <2>3, <2>5, <2>6, <3>1 DEF Covered
        <3>2. CASE tx[p].at = 2
            <4>1. category \in tx[p].locked
                <5>1. \A r \in upd : r.table = "rules"
                    BY <2>8, <2>10, <3>2 DEF SameKey, Tables
                <5> QED BY <2>5, <2>6, <5>1
            <4>2. Covered(p, rule, category)
                BY <2>1, <2>2, <4>1 DEF OwnLocks, RulesFollow
            <4>3. category.id \in InsertedIds(p) \/ rule \in tx[p].locked
                BY <2>1, <3>2, <4>2 DEF Covered
            <4>4. InsertedIds(p) \subseteq InsertedIds(p)'
                BY <2>5, <2>6 DEF InsertedIds, RowsOf
            <4> QED BY <2>5, <2>6, <4>3, <4>4 DEF Covered
        <3> QED BY <2>3, <3>1, <3>2
    <2>17. OwnLocks(p)'
        BY <2>13, <2>14, <2>15, <2>16 DEF OwnLocks
    <2> QED BY <2>1, <2>5, <2>12, <2>17, LockStep
<1> QED BY <1>1, <1>2

LEMMA CommitKeepsLocks ==
    ASSUME ShapeInv, LockInv, NEW p \in Proc, Commit(p)
    PROVE  LockInv'
<1> DEFINE at == IF PolicyChanged(p) THEN "reArm" ELSE "broadcast"
<1>1. /\ pc[p] = "commit" /\ tx[p] \in Transaction /\ tx[p].at = 3 /\ InsertedOK(p)
      /\ OwnLocks(p) /\ stored' = (stored \ tx[p].locked) \cup tx[p].inserted
    BY DEF Commit, ShapeInv, TypeOK, InTransaction, StageOK, LockInv
<1>2. Step(p, at, NoTransaction) /\ at \in PC /\ at # "clear"
    BY DEF Commit, Released, PC
<1> HIDE DEF at
<1>3. /\ pc'[p] = at /\ tx'[p] = NoTransaction
      /\ \A q \in Proc \ {p} : pc'[q] = pc[q] /\ tx'[q] = tx[q]
    BY <1>2, NoTransactionTyped, OneStep
<1>4. tx'[p].locked = {} /\ tx'[p].inserted = {}
    BY <1>3 DEF NoTransaction
<1>5. ASSUME NEW r \in stored', NEW s \in stored', SameKey(r, s) PROVE r.birth = s.birth
    <2>1. SameKey(s, r)
        BY <1>5 DEF SameKey
    <2>2. CASE r \in tx[p].inserted /\ s \in tx[p].inserted
        BY <1>1, <1>5, <2>2 DEF OwnLocks, InsertsAgree
    <2>3. CASE r \in stored \ tx[p].locked /\ s \in stored \ tx[p].locked
        BY <1>5, <2>3 DEF LockInv
    <2>4. CASE r \in tx[p].inserted /\ s \in stored \ tx[p].locked
        BY <1>1, <2>1, <2>4 DEF OwnLocks, LocksAreCurrent
    <2>5. CASE s \in tx[p].inserted /\ r \in stored \ tx[p].locked
        BY <1>1, <1>5, <2>5 DEF OwnLocks, LocksAreCurrent
    <2> QED BY <1>1, <2>2, <2>3, <2>4, <2>5
<1>6. RulesNameStoredCategories'
    <2> SUFFICES ASSUME NEW r \in stored', r.table = "rules", NEW x \in r.refs
                 PROVE  \E c \in stored' : c.table = "categories" /\ c.id = x
        BY DEF RulesNameStoredCategories, CategoryIds
    <2>1. ASSUME x \in InsertedIds(p)
          PROVE  \E c \in stored' : c.table = "categories" /\ c.id = x
        BY <1>1, <2>1 DEF InsertedIds, RowsOf
    <2>2. CASE r \in tx[p].inserted
        <3>1. r \in RowsOf(tx[p].inserted, "rules")
            BY <2>2 DEF RowsOf
        <3>2. x \in InsertedIds(p)
            BY <1>1, <3>1 DEF InsertedOK
        <3> QED BY <2>1, <3>2
    <2>3. CASE r \in stored \ tx[p].locked
        <3>1. PICK c \in stored : c.table = "categories" /\ c.id = x
            BY <2>3 DEF LockInv, RulesNameStoredCategories, CategoryIds
        <3>2. CASE c \in tx[p].locked
            <4>1. Covered(p, r, c)
                BY <1>1, <2>3, <3>1, <3>2 DEF OwnLocks, RulesFollow
            <4>2. c.id \in InsertedIds(p)
                BY <1>1, <2>3, <4>1 DEF Covered
            <4> QED BY <2>1, <3>1, <4>2
        <3> QED BY <1>1, <3>1, <3>2
    <2> QED BY <1>1, <2>2, <2>3
<1>7. OwnLocks(p)'
    BY <1>2, <1>3, <1>4 DEF OwnLocks, LocksAreCurrent, InsertsAgree, RulesFollow, LooksAtItsTable
<1>8. ASSUME NEW q \in Proc \ {p} PROVE OwnLocks(q)'
    <2>1. OwnLocks(q) /\ Exclusive(p, q) /\ tx'[q] = tx[q] /\ pc'[q] = pc[q]
        BY <1>3 DEF LockInv
    <2>2. tx'[q].locked \subseteq stored'
        <3> SUFFICES ASSUME NEW r \in tx[q].locked PROVE r \in stored \ tx[p].locked
            BY <1>1, <2>1
        <3> QED BY <2>1 DEF OwnLocks, LocksAreCurrent, Exclusive, Held, SameKey
    <2>3. ASSUME NEW r \in stored', NEW s \in tx[q].inserted, SameKey(r, s)
          PROVE  r \in tx[q].locked
        <3>1. r \notin tx[p].inserted
            BY <2>1, <2>3 DEF Exclusive, Held
        <3> QED BY <1>1, <2>1, <2>3, <3>1 DEF OwnLocks, LocksAreCurrent
    <2>4. LocksAreCurrent(q)'
        BY <2>1, <2>2, <2>3 DEF LocksAreCurrent
    <2>5. InsertsAgree(q)' /\ LooksAtItsTable(q)'
        BY <2>1 DEF OwnLocks, InsertsAgree, LooksAtItsTable
    <2>6. RulesFollow(q)'
        <3> SUFFICES ASSUME NEW category \in tx[q].locked, NEW rule \in stored',
                            category.table = "categories", rule.table = "rules",
                            category.id \in rule.refs
                     PROVE  Covered(q, rule, category)'
            BY <2>1 DEF RulesFollow
        <3>1. Covered(q, rule, category)' <=> Covered(q, rule, category)
            BY <2>1 DEF Covered, InsertedIds
        <3>2. CASE rule \in tx[p].inserted
            <4>1. rule \in RowsOf(tx[p].inserted, "rules")
                BY <3>2 DEF RowsOf
            <4>2. category.id \in InsertedIds(p)
                BY <1>1, <4>1 DEF InsertedOK
            <4>3. PICK c \in tx[p].inserted : c.table = "categories" /\ c.id = category.id
                BY <4>2 DEF InsertedIds, RowsOf
            <4> QED BY <2>1, <4>3 DEF Exclusive, Held, SameKey
        <3>3. CASE rule \in stored
            BY <2>1, <3>1, <3>3 DEF OwnLocks, RulesFollow
        <3> QED BY <1>1, <3>2, <3>3
    <2> QED BY <2>4, <2>5, <2>6 DEF OwnLocks
<1>9. ASSUME NEW q \in Proc, NEW r \in Proc \ {q} PROVE Exclusive(q, r)'
    <2>1. CASE q = p \/ r = p
        <3>1. Held(p)' = {}
            BY <1>4 DEF Held
        <3> QED BY <2>1, <3>1 DEF Exclusive
    <2>2. CASE q # p /\ r # p
        <3>1. Exclusive(q, r)
            BY <1>9 DEF LockInv
        <3>2. tx'[q] = tx[q] /\ tx'[r] = tx[r]
            BY <1>3, <1>9, <2>2
        <3> QED BY <3>1, <3>2 DEF Exclusive, Held
    <2> QED BY <2>1, <2>2
<1>10. \A q \in Proc : OwnLocks(q)'
    BY <1>7, <1>8
<1> QED BY <1>5, <1>6, <1>9, <1>10 DEF LockInv

LEMMA OthersKeepLocks ==
    ASSUME ShapeInv, LockInv,
           \/ \E p \in Proc, draft \in Draft : Save(p, draft)
           \/ Boot \/ Crash \/ UNCHANGED vars
    PROVE  LockInv'
<1>1. ASSUME NEW p \in Proc, NEW draft \in Draft, Save(p, draft) PROVE LockInv'
    <2> DEFINE t == [NoTransaction EXCEPT !.no = saves + 1, !.draft = draft]
    <2>1. Step(p, "read", t) /\ "read" \in PC /\ stored' = stored
        BY <1>1 DEF Save, PC
    <2>2. ShapeInv'
        BY <1>1, SaveShape
    <2>3. tx'[p] = t /\ tx'[p] \in Transaction
        BY <2>1, <2>2 DEF Step, ShapeInv, TypeOK
    <2>4. t.locked = NoTransaction.locked /\ t.inserted = NoTransaction.inserted
        BY NoTransactionTyped DEF Transaction
    <2>5. t.locked = {} /\ t.inserted = {}
        BY <2>4 DEF NoTransaction
    <2> HIDE DEF t
    <2> QED BY <2>1, <2>3, <2>5, LocksReleased
<1>2. CASE Crash
    <2>1. stored' = stored /\ \A p \in Proc :
              tx'[p].locked = {} /\ tx'[p].inserted = {} /\ pc'[p] = "idle"
        BY <1>2 DEF Crash, NoTransaction
    <2>2. RulesNameStoredCategories'
        BY <2>1 DEF LockInv, RulesNameStoredCategories, CategoryIds
    <2>3. \A p \in Proc : OwnLocks(p)'
        BY <2>1 DEF OwnLocks, LocksAreCurrent, InsertsAgree, RulesFollow, LooksAtItsTable
    <2>4. \A p \in Proc : Held(p)' = {}
        BY <2>1 DEF Held
    <2> QED BY <2>1, <2>2, <2>3, <2>4 DEF LockInv, Exclusive
<1>3. CASE Boot \/ UNCHANGED vars
    <2>1. stored' = stored /\ tx' = tx /\ pc' = pc
        BY <1>3 DEF Boot, vars
    <2>2. RulesNameStoredCategories'
        BY <2>1 DEF LockInv, RulesNameStoredCategories, CategoryIds
    <2>3. \A p \in Proc : OwnLocks(p)'
        BY <2>1 DEF LockInv, OwnLocks, LocksAreCurrent, InsertsAgree, RulesFollow,
                    LooksAtItsTable, Covered, InsertedIds
    <2>4. \A p \in Proc : Held(p)' = Held(p)
        BY <2>1 DEF Held
    <2> QED BY <2>1, <2>2, <2>3, <2>4 DEF LockInv, Exclusive
<1> QED BY <1>1, <1>2, <1>3

LEMMA NextLocks == ShapeInv /\ LockInv /\ [Next]_vars => LockInv'
<1> SUFFICES ASSUME ShapeInv, LockInv, [Next]_vars PROVE LockInv'
    OBVIOUS
<1>1. ASSUME NEW p \in Proc, Continue(p) \/ Abort(p) PROVE LockInv'
    BY <1>1, ReadingKeepsLocks, ClearingTakesLocks, FillingTakesKeys, CommitKeepsLocks,
       EndingReleasesLocks DEF Continue, Abort
<1> QED BY <1>1, OthersKeepLocks DEF Next

LEMMA LockInvariant == Spec => [](ShapeInv /\ LockInv)
<1>1. Init => ShapeInv /\ LockInv
    BY InitShape, InitLocks
<1>2. ShapeInv /\ LockInv /\ [Next]_vars => ShapeInv' /\ LockInv'
    BY NextShape, NextLocks
<1> QED BY <1>1, <1>2, PTL DEF Spec
-----------------------------------------------------------------------------
(* The scheduler: what is armed is what some stored configuration asks for,*)
(* or a save is on its way to arm it.                                      *)
Audited == {audit[i].after : i \in 1..Len(audit)}

PoliciesAudited ==
    /\ \A c \in configs : c.policy \in Audited
    /\ \A p \in Proc : InTransaction(p) /\ tx[p].old # Null => tx[p].old.policy \in Audited
    /\ \A p \in Proc : pc[p] = "arm" => tx[p].policy \in Audited
    /\ job # Null => job \in Audited

InOrder(p) ==
    InTransaction(p) /\ pc[p] # "read" =>
        IF tx[p].old = Null THEN configs = {} ELSE tx[p].old \in configs

WritesOver(p) ==
    pc[p] = "commit" =>
        tx[p].written.id = IF tx[p].old = Null THEN tx[p].no ELSE tx[p].old.id

Arming(p) == pc[p] \in {"reArm", "arm"}

ArmsStored(p) == pc[p] = "arm" => \E c \in configs : c.policy = tx[p].policy

InSeries ==
    /\ \A p, q \in Proc : pc[p] # "idle" /\ pc[q] # "idle" => p = q
    /\ \A p \in Proc : InOrder(p) /\ ArmsStored(p)
    /\ configs # {} =>
          (\E c \in configs : armed = ScheduleOf(c.policy)) \/ \E p \in Proc : Arming(p)

ArmInv ==
    /\ \A c, d \in configs : c.id = d.id => c = d
    /\ PoliciesAudited
    /\ \A p \in Proc : WritesOver(p)
    /\ ~up => \A p \in Proc : pc[p] = "idle"
    /\ up /\ ~overlapped => InSeries

LEMMA AuditedGrows ==
    ASSUME NEW Entry, audit \in Seq(Entry), NEW x \in Entry, audit' = Append(audit, x)
    PROVE  Audited' = Audited \cup {x.after}
<1>1. /\ Len(audit') = Len(audit) + 1 /\ Len(audit) \in Nat
      /\ \A i \in 1..Len(audit) : audit'[i] = audit[i]
      /\ audit'[Len(audit) + 1] = x
    OBVIOUS
<1> DEFINE n == Len(audit)
<1>2. 1..(n + 1) = 1..n \cup {n + 1} /\ n + 1 \in 1..(n + 1)
    BY <1>1
<1>3. Audited' = {audit'[i].after : i \in 1..(n + 1)}
    BY <1>1 DEF Audited
<1>4. Audited = {audit[i].after : i \in 1..n}
    BY DEF Audited
<1> HIDE DEF n
<1>5. {audit'[i].after : i \in 1..(n + 1)} = {audit'[i].after : i \in 1..n} \cup {x.after}
    BY <1>1, <1>2 DEF n
<1>6. {audit'[i].after : i \in 1..n} = {audit[i].after : i \in 1..n}
    BY <1>1 DEF n
<1> QED BY <1>3, <1>4, <1>5, <1>6

LEMMA InitArm == Init => ArmInv
BY DEF Init, ArmInv, PoliciesAudited, InTransaction, WritesOver

(* A commit writes over the row it read, or adds the first.                *)
LEMMA CommitWrites ==
    ASSUME ShapeInv, ArmInv, NEW p \in Proc, Commit(p)
    PROVE  /\ configs' = {c \in configs : c.id # tx[p].written.id} \cup {tx[p].written}
           /\ tx[p].written \in Config
           /\ tx[p].written.policy \in Audited' /\ Audited \subseteq Audited'
           /\ ~PolicyChanged(p) => /\ tx[p].old \in Config
                                   /\ tx[p].written = tx[p].old
<1>1. /\ InTransaction(p) /\ tx[p] \in Transaction /\ tx[p].written \in Config
      /\ tx[p].written.policy = tx[p].draft.policy /\ pc[p] = "commit"
    BY DEF Commit, InTransaction, ShapeInv, TypeOK, StageOK
<1>2. configs' = {c \in configs : c.id # tx[p].written.id} \cup {tx[p].written}
    BY DEF Commit
<1>3. tx[p].written.id = IF tx[p].old = Null THEN tx[p].no ELSE tx[p].old.id
    BY <1>1 DEF ArmInv, WritesOver
<1>4. CASE PolicyChanged(p)
    <2> DEFINE Entry == [before : Policy \cup {Null}, after : Policy]
               entry == [before |-> IF tx[p].old = Null THEN Null ELSE tx[p].old.policy,
                         after |-> tx[p].written.policy]
    <2>1. audit' = Append(audit, entry) /\ entry.after = tx[p].written.policy
        BY <1>4 DEF Commit
    <2>2. entry \in Entry
        BY <1>1 DEF Transaction, Config
    <2>3. audit \in Seq(Entry)
        BY DEF ShapeInv, TypeOK
    <2> HIDE DEF Entry, entry
    <2>4. Audited' = Audited \cup {entry.after}
        BY <2>1, <2>2, <2>3, AuditedGrows
    <2> QED BY <1>1, <1>2, <1>4, <2>1, <2>4
<1>5. CASE ~PolicyChanged(p)
    <2>1. tx[p].old \in Config /\ tx[p].old.policy = tx[p].draft.policy
        BY <1>1, <1>5 DEF PolicyChanged, Transaction
    <2>2. tx[p].old # Null
        BY <1>5 DEF PolicyChanged
    <2>3. tx[p].written = tx[p].old
        BY <1>1, <1>3, <2>1, <2>2 DEF Config
    <2>4. audit' = audit
        BY <1>5 DEF Commit
    <2>5. Audited' = Audited
        BY <2>4 DEF Audited
    <2>6. tx[p].old.policy \in Audited
        BY <1>1, <2>2 DEF ArmInv, PoliciesAudited
    <2> QED BY <1>1, <1>2, <1>5, <2>1, <2>3, <2>5, <2>6
<1> QED BY <1>4, <1>5

LEMMA CommitArm ==
    ASSUME ShapeInv, ArmInv, NEW p \in Proc, Commit(p)
    PROVE  ArmInv'
<1> DEFINE at == IF PolicyChanged(p) THEN "reArm" ELSE "broadcast"
           written == tx[p].written
<1>1. /\ Step(p, at, NoTransaction) /\ at \in PC
      /\ pc[p] = "commit" /\ UNCHANGED <<up, armed, job, overlapped>>
    BY DEF Commit, Released, PC, history
<1>2. /\ at \in {"reArm", "broadcast"} /\ (at = "reArm" <=> PolicyChanged(p))
    OBVIOUS
<1>3. /\ configs' = {c \in configs : c.id # written.id} \cup {written}
      /\ written \in Config /\ written.policy \in Audited' /\ Audited \subseteq Audited'
      /\ ~PolicyChanged(p) => tx[p].old \in Config /\ written = tx[p].old
    BY CommitWrites
<1> HIDE DEF at, written
<1>4. /\ pc'[p] = at /\ tx'[p] = NoTransaction
      /\ \A q \in Proc \ {p} : pc'[q] = pc[q] /\ tx'[q] = tx[q]
    BY <1>1, NoTransactionTyped, OneStep
<1>5. \A c, d \in configs' : c.id = d.id => c = d
    BY <1>3 DEF ArmInv
<1>6. PoliciesAudited'
    <2>1. \A c \in configs' : c.policy \in Audited'
        BY <1>3 DEF ArmInv, PoliciesAudited
    <2>2. \A q \in Proc : InTransaction(q)' => q # p /\ InTransaction(q) /\ tx'[q] = tx[q]
        BY <1>2, <1>4 DEF InTransaction
    <2>3. \A q \in Proc : pc'[q] = "arm" => q # p /\ pc[q] = "arm" /\ tx'[q] = tx[q]
        BY <1>2, <1>4
    <2>4. \A q \in Proc : InTransaction(q)' /\ tx'[q].old # Null => tx'[q].old.policy \in Audited'
        BY <1>3, <2>2 DEF ArmInv, PoliciesAudited
    <2>5. \A q \in Proc : pc'[q] = "arm" => tx'[q].policy \in Audited'
        BY <1>3, <2>3 DEF ArmInv, PoliciesAudited
    <2>6. job' # Null => job' \in Audited'
        BY <1>1, <1>3 DEF ArmInv, PoliciesAudited
    <2> QED BY <2>1, <2>4, <2>5, <2>6 DEF PoliciesAudited
<1>7. \A q \in Proc : WritesOver(q)'
    <2>1. \A q \in Proc : pc'[q] = "commit" => q # p /\ pc[q] = "commit" /\ tx'[q] = tx[q]
        BY <1>2, <1>4
    <2> QED BY <2>1 DEF ArmInv, WritesOver
<1>8. up
    BY <1>1 DEF ArmInv
<1>9. ASSUME ~overlapped PROVE InSeries'
    <2>1. InSeries
        BY <1>8, <1>9 DEF ArmInv
    <2>2. \A q \in Proc \ {p} : pc[q] = "idle" /\ pc'[q] = "idle"
        BY <1>1, <1>4, <2>1 DEF InSeries
    <2>3. \A q, r \in Proc : pc'[q] # "idle" /\ pc'[r] # "idle" => q = r
        BY <2>2
    <2>4. \A q \in Proc : ~InTransaction(q)' /\ pc'[q] # "arm"
        BY <1>2, <1>4, <2>2 DEF InTransaction
    <2>5. (\E c \in configs' : armed' = ScheduleOf(c.policy)) \/ \E q \in Proc : Arming(q)'
        <3>1. CASE PolicyChanged(p)
            BY <1>2, <1>4, <3>1 DEF Arming
        <3>2. CASE ~PolicyChanged(p)
            <4>1. ~\E q \in Proc : Arming(q)
                BY <1>1, <2>2 DEF Arming
            <4>2. tx[p].old # Null
                BY <3>2 DEF PolicyChanged
            <4>3. tx[p].old \in configs
                BY <1>1, <2>1, <4>2 DEF InSeries, InOrder, InTransaction
            <4>4. PICK c \in configs : armed = ScheduleOf(c.policy)
                BY <2>1, <4>1, <4>3 DEF InSeries
            <4>5. c \in configs'
                <5>1. CASE c.id = written.id
                    BY <1>3, <3>2, <4>3, <5>1 DEF ArmInv
                <5>2. CASE c.id # written.id
                    BY <1>3, <5>2
                <5> QED BY <5>1, <5>2
            <4> QED BY <1>1, <4>4, <4>5
        <3> QED BY <3>1, <3>2
    <2> QED BY <2>3, <2>4, <2>5 DEF InSeries, InOrder, ArmsStored
<1> QED BY <1>1, <1>5, <1>6, <1>7, <1>8, <1>9 DEF ArmInv

(* The steps of a request that touch neither configuration nor scheduler.  *)
LEMMA RequestArm ==
    ASSUME ShapeInv, ArmInv, NEW p \in Proc, NEW at, NEW t, Step(p, at, t), at \in PC,
           t \in Transaction, pc[p] # "idle" \/ overlapped', up' = up,
           UNCHANGED <<configs, audit, armed, job>>, overlapped' = overlapped,
           pc[p] \notin {"reArm", "arm"} \/ at = "arm",
           InTransaction(p)' /\ t.old # Null => t.old.policy \in Audited,
           at = "arm" => \E c \in configs : c.policy = t.policy,
           InSeries => InOrder(p)',
           WritesOver(p)', pc[p] # "idle"
    PROVE  ArmInv'
<1>1. /\ pc'[p] = at /\ tx'[p] = t
      /\ \A q \in Proc \ {p} : pc'[q] = pc[q] /\ tx'[q] = tx[q]
    BY OneStep
<1>2. Audited' = Audited
    BY DEF Audited
<1>3. PoliciesAudited'
    <2>1. \A c \in configs' : c.policy \in Audited'
        BY <1>2 DEF ArmInv, PoliciesAudited
    <2>2. ASSUME NEW q \in Proc, InTransaction(q)', tx'[q].old # Null
          PROVE  tx'[q].old.policy \in Audited'
        <3>1. CASE q = p
            BY <1>1, <1>2, <2>2, <3>1
        <3>2. CASE q # p
            <4>1. InTransaction(q) /\ tx'[q] = tx[q]
                BY <1>1, <2>2, <3>2 DEF InTransaction
            <4> QED BY <1>2, <2>2, <4>1 DEF ArmInv, PoliciesAudited
        <3> QED BY <3>1, <3>2
    <2>3. \A q \in Proc : pc'[q] = "arm" => tx'[q].policy \in Audited'
        BY <1>1, <1>2 DEF ArmInv, PoliciesAudited
    <2>4. job' # Null => job' \in Audited'
        BY <1>2 DEF ArmInv, PoliciesAudited
    <2> QED BY <2>1, <2>2, <2>3, <2>4 DEF PoliciesAudited
<1>4. \A q \in Proc : WritesOver(q)'
    BY <1>1 DEF ArmInv, WritesOver
<1>5. up
    BY DEF ArmInv
<1>6. ASSUME ~overlapped PROVE InSeries'
    <2>1. InSeries
        BY <1>5, <1>6 DEF ArmInv
    <2>2. \A q \in Proc \ {p} : pc[q] = "idle" /\ pc'[q] = "idle"
        BY <1>1, <2>1 DEF InSeries
    <2>3. \A q, r \in Proc : pc'[q] # "idle" /\ pc'[r] # "idle" => q = r
        BY <2>2
    <2>4. \A q \in Proc : InOrder(q)' /\ ArmsStored(q)'
        <3>1. InOrder(p)'
            BY <2>1
        <3>2. ArmsStored(p)'
            BY <1>1 DEF ArmsStored
        <3>3. \A q \in Proc \ {p} : InOrder(q)' /\ ArmsStored(q)'
            BY <2>2 DEF InOrder, ArmsStored, InTransaction
        <3> QED BY <3>1, <3>2, <3>3
    <2>5. configs' # {} =>
              (\E c \in configs' : armed' = ScheduleOf(c.policy)) \/ \E q \in Proc : Arming(q)'
        <3>1. CASE \E c \in configs : armed = ScheduleOf(c.policy)
            BY <3>1
        <3>2. CASE \E q \in Proc : Arming(q)
            <4>1. Arming(p)
                BY <2>2, <3>2 DEF Arming
            <4>2. at = "arm"
                BY <4>1 DEF Arming
            <4> QED BY <1>1, <4>2 DEF Arming
        <3> QED BY <2>1, <3>1, <3>2 DEF InSeries
    <2> QED BY <2>3, <2>4, <2>5 DEF InSeries
<1> QED BY <1>3, <1>4, <1>5, <1>6 DEF ArmInv

LEMMA StepsArm ==
    ASSUME ShapeInv, ArmInv, NEW p \in Proc,
           \/ ReadOld(p) \/ Scan(p) \/ Clear(p) \/ Fill(p) \/ WriteConfig(p)
           \/ Abort(p) \/ Broadcast(p) \/ ReadPolicy(p)
    PROVE  ArmInv'
<1>1. tx[p] \in Transaction /\ pc[p] \in PC /\ tx' \in [Proc -> Transaction]
      /\ pc' \in [Proc -> PC] /\ tx \in [Proc -> Transaction] /\ pc \in [Proc -> PC]
      /\ configs \subseteq Config
    <2>1. ShapeInv'
        BY QuietShape, FillShape, EndedShape, SchedulerShape DEF Abort
    <2> QED BY <2>1 DEF ShapeInv, TypeOK
<1>2. UNCHANGED <<configs, audit, armed, job, up, overlapped>>
    BY DEF ReadOld, Scan, Clear, Fill, WriteConfig, Abort, Broadcast, ReadPolicy, Rollback, history
<1>3. ASSUME NEW at \in PC, Step(p, at, tx'[p]), pc[p] # "idle",
             pc[p] \notin {"reArm", "arm"}, at # "arm",
             InTransaction(p)' => InTransaction(p) /\ tx'[p].old = tx[p].old,
             InTransaction(p)' => pc[p] # "read", WritesOver(p)'
      PROVE  ArmInv'
    <2>1. pc'[p] = at
        BY <1>1, <1>3 DEF Step
    <2>2. InTransaction(p)' /\ tx'[p].old # Null => tx'[p].old.policy \in Audited
        BY <1>3 DEF ArmInv, PoliciesAudited
    <2>3. InSeries => InOrder(p)'
        BY <1>2, <1>3 DEF InSeries, InOrder
    <2> QED BY <1>1, <1>2, <1>3, <2>2, <2>3, RequestArm
<1>4. CASE ReadOld(p)
    <2>1. PICK old \in IF configs = {} THEN {Null} ELSE configs :
              Step(p, "scan", [tx[p] EXCEPT !.old = old])
        BY <1>4 DEF ReadOld
    <2>2. Step(p, "scan", tx'[p]) /\ pc'[p] = "scan" /\ tx'[p].old = old /\ pc[p] = "read"
        BY <1>1, <1>4, <2>1 DEF Step, Transaction, ReadOld
    <2>3. old # Null => old.policy \in Audited
        BY <2>1 DEF ArmInv, PoliciesAudited
    <2>4. InOrder(p)'
        <3>1. IF old = Null THEN configs = {} \/ Null \in configs ELSE old \in configs
            BY <2>1
        <3>2. CASE configs = {}
            BY <1>2, <2>1, <2>2, <3>2 DEF InOrder
        <3>3. CASE configs # {} /\ old # Null
            BY <1>2, <2>1, <2>2, <3>3 DEF InOrder
        <3>4. CASE configs # {} /\ old = Null
            BY <1>1, <2>1, <3>4, StoreConfigurationAssumption DEF Config
        <3> QED BY <3>2, <3>3, <3>4
    <2>5. WritesOver(p)' /\ "scan" \in PC
        BY <2>2 DEF WritesOver, PC
    <2> QED BY <1>1, <1>2, <2>2, <2>3, <2>4, <2>5, RequestArm
<1>5. CASE Scan(p) \/ Clear(p)
    <2>1. PICK at \in {"clear", "fill"} : Step(p, at, tx'[p]) /\ pc'[p] = at
        BY <1>1, <1>5 DEF Step, Scan, Clear
    <2>2. tx'[p].old = tx[p].old
        <3>1. CASE Scan(p)
            <4> DEFINE s == {r \in stored : r.table = Tables[tx[p].at]}
            <4>1. tx'[p] = [tx[p] EXCEPT !.seen = s]
                BY <1>1, <3>1 DEF Step, Scan
            <4> HIDE DEF s
            <4> QED BY <1>1, <4>1 DEF Transaction
        <3>2. CASE Clear(p)
            <4> DEFINE s == tx[p].locked \cup StillThere(p)
            <4>1. tx'[p] = [tx[p] EXCEPT !.seen = {}, !.locked = s]
                BY <1>1, <3>2 DEF Step, Clear
            <4> HIDE DEF s
            <4> QED BY <1>1, <4>1 DEF Transaction
        <3> QED BY <1>5, <3>1, <3>2
    <2>3. /\ pc[p] \in {"scan", "clear"} /\ InTransaction(p) /\ WritesOver(p)' /\ at \in PC
        BY <1>5, <2>1 DEF Scan, Clear, InTransaction, WritesOver, PC
    <2> QED BY <1>3, <2>1, <2>2, <2>3
<1>6. CASE Fill(p) /\ Taken(p) = {}
    <2>1. PICK at \in {"scan", "config"} : Step(p, at, tx'[p]) /\ pc'[p] = at
        BY <1>1, <1>6 DEF Step, Fill
    <2>2. tx'[p].old = tx[p].old
        <3> DEFINE l == tx[p].locked \cup Updated(p)
                   i == tx[p].inserted \cup UpsertedRows(p)
                   a == tx[p].at + 1
        <3>1. tx'[p] = [tx[p] EXCEPT !.at = a, !.locked = l, !.inserted = i]
            BY <1>1, <1>6 DEF Step, Fill
        <3> HIDE DEF l, i, a
        <3> QED BY <1>1, <3>1 DEF Transaction
    <2>3. /\ pc[p] = "fill" /\ InTransaction(p) /\ WritesOver(p)' /\ at \in PC
        BY <1>6, <2>1 DEF Fill, InTransaction, WritesOver, PC
    <2> QED BY <1>3, <2>1, <2>2, <2>3
<1>7. CASE WriteConfig(p)
    <2> DEFINE id == IF tx[p].old = Null THEN tx[p].no ELSE tx[p].old.id
    <2>1. Step(p, "commit", tx'[p]) /\ pc'[p] = "commit" /\ pc[p] = "config"
        BY <1>1, <1>7 DEF Step, WriteConfig
    <2>2. /\ tx'[p].old = tx[p].old /\ tx'[p].no = tx[p].no
          /\ tx'[p].written = [id |-> id, policy |-> tx[p].draft.policy]
        BY <1>1, <1>7 DEF Step, WriteConfig, Transaction
    <2>3. tx'[p].written.id = id
        BY <2>2
    <2>4. WritesOver(p)' /\ InTransaction(p) /\ "commit" \in PC
        BY <2>1, <2>2, <2>3 DEF WritesOver, InTransaction, PC
    <2> QED BY <1>3, <2>1, <2>2, <2>4
<1>8. CASE Abort(p) \/ Broadcast(p) \/ (Fill(p) /\ Taken(p) # {})
    <2>1. Step(p, "idle", tx'[p]) /\ pc'[p] = "idle"
        BY <1>1, <1>8 DEF Step, Abort, Broadcast, Fill, Rollback
    <2>2. pc[p] # "idle" /\ pc[p] \notin {"reArm", "arm"} /\ ~InTransaction(p)'
          /\ WritesOver(p)' /\ "idle" \in PC
        BY <1>8, <2>1 DEF Abort, Broadcast, Fill, InTransaction, WritesOver, PC
    <2> QED BY <1>3, <2>1, <2>2
<1>9. CASE ReadPolicy(p)
    <2>1. pc[p] = "reArm" /\ ConfigsSeenBy(p) = configs
        BY <1>9 DEF ReadPolicy, MayReArm, ConfigsSeenBy, InTransaction
    <2>2. PICK config \in configs : Step(p, "arm", [NoTransaction EXCEPT !.policy = config.policy])
        BY <1>9, <2>1 DEF ReadPolicy
    <2>3. Step(p, "arm", tx'[p]) /\ pc'[p] = "arm" /\ tx'[p].policy = config.policy
        BY <1>1, <2>2, NoTransactionTyped DEF Step, Transaction
    <2>4. ~InTransaction(p)' /\ WritesOver(p)' /\ InOrder(p)' /\ "arm" \in PC
        BY <2>3 DEF InTransaction, WritesOver, InOrder, PC
    <2> QED BY <1>1, <1>2, <2>1, <2>3, <2>4, RequestArm
<1> QED BY <1>4, <1>5, <1>6, <1>7, <1>8, <1>9

LEMMA OtherArm ==
    ASSUME ShapeInv, ArmInv,
           \/ \E p \in Proc : Arm(p) \/ \E draft \in Draft : Save(p, draft)
           \/ Boot \/ Crash \/ UNCHANGED vars
    PROVE  ArmInv'
<1>1. ASSUME NEW p \in Proc, NEW draft \in Draft, Save(p, draft) PROVE ArmInv'
    <2> DEFINE t == [NoTransaction EXCEPT !.no = saves + 1, !.draft = draft]
    <2>1. /\ Step(p, "read", t) /\ "read" \in PC /\ up /\ pc[p] = "idle"
          /\ UNCHANGED <<configs, audit, armed, job, up>>
          /\ overlapped' = (overlapped \/ \E q \in Proc : pc[q] # "idle")
        BY <1>1 DEF Save, PC
    <2>2. ShapeInv'
        BY <1>1, SaveShape
    <2>3. t.old = NoTransaction.old
        BY NoTransactionTyped DEF Transaction
    <2>4. t.old = Null
        BY <2>3 DEF NoTransaction
    <2>5. tx'[p] = t /\ tx'[p] \in Transaction
        BY <2>1, <2>2 DEF Step, ShapeInv, TypeOK
    <2> HIDE DEF t
    <2>6. /\ pc'[p] = "read" /\ \A q \in Proc \ {p} : pc'[q] = pc[q] /\ tx'[q] = tx[q]
        BY <2>1, <2>5, OneStep
    <2>7. Audited' = Audited
        BY <2>1 DEF Audited
    <2>8. PoliciesAudited'
        <3>1. \A c \in configs' : c.policy \in Audited'
            BY <2>1, <2>7 DEF ArmInv, PoliciesAudited
        <3>2. \A q \in Proc : InTransaction(q)' /\ tx'[q].old # Null => tx'[q].old.policy \in Audited'
            BY <2>4, <2>5, <2>6, <2>7 DEF ArmInv, PoliciesAudited, InTransaction
        <3>3. \A q \in Proc : pc'[q] = "arm" => tx'[q].policy \in Audited'
            BY <2>6, <2>7 DEF ArmInv, PoliciesAudited
        <3>4. job' # Null => job' \in Audited'
            BY <2>1, <2>7 DEF ArmInv, PoliciesAudited
        <3> QED BY <3>1, <3>2, <3>3, <3>4 DEF PoliciesAudited
    <2>9. \A q \in Proc : WritesOver(q)'
        BY <2>6 DEF ArmInv, WritesOver
    <2>10. ASSUME ~overlapped' PROVE InSeries'
        <3>1. InSeries /\ \A q \in Proc : pc[q] = "idle"
            BY <2>1, <2>10 DEF ArmInv
        <3>2. \A q \in Proc \ {p} : pc'[q] = "idle"
            BY <2>6, <3>1
        <3>3. \A q \in Proc : InOrder(q)' /\ ArmsStored(q)'
            BY <2>6, <3>2 DEF InOrder, ArmsStored, InTransaction
        <3>4. configs' # {} => \E c \in configs' : armed' = ScheduleOf(c.policy)
            BY <2>1, <3>1 DEF InSeries, Arming
        <3> QED BY <3>2, <3>3, <3>4 DEF InSeries
    <2> QED BY <2>1, <2>8, <2>9, <2>10 DEF ArmInv
<1>2. ASSUME NEW p \in Proc, Arm(p) PROVE ArmInv'
    <2>1. /\ Step(p, "broadcast", NoTransaction) /\ "broadcast" \in PC /\ pc[p] = "arm"
          /\ ArmWith(tx[p].policy) /\ UNCHANGED <<configs, audit, up, overlapped>>
        BY <1>2 DEF Arm, PC, history
    <2>2. /\ pc'[p] = "broadcast" /\ \A q \in Proc \ {p} : pc'[q] = pc[q] /\ tx'[q] = tx[q]
        BY <2>1, NoTransactionTyped, OneStep
    <2>3. tx[p].policy \in Policy \cup {Null} /\ tx[p].policy \in Audited
        BY <2>1 DEF ShapeInv, TypeOK, Transaction, ArmInv, PoliciesAudited
    <2>4. armed' = ScheduleOf(tx[p].policy) /\ (job' # Null => job' = job \/ job' = tx[p].policy)
        BY <2>1, <2>3, ArmedShape DEF ShapeInv, TypeOK
    <2>5. Audited' = Audited
        BY <2>1 DEF Audited
    <2>6. PoliciesAudited'
        <3>1. \A c \in configs' : c.policy \in Audited'
            BY <2>1, <2>5 DEF ArmInv, PoliciesAudited
        <3>2. \A q \in Proc : InTransaction(q)' /\ tx'[q].old # Null => tx'[q].old.policy \in Audited'
            BY <2>2, <2>5 DEF ArmInv, PoliciesAudited, InTransaction
        <3>3. \A q \in Proc : pc'[q] = "arm" => tx'[q].policy \in Audited'
            BY <2>2, <2>5 DEF ArmInv, PoliciesAudited
        <3>4. job' # Null => job' \in Audited'
            BY <2>3, <2>4, <2>5 DEF ArmInv, PoliciesAudited
        <3> QED BY <3>1, <3>2, <3>3, <3>4 DEF PoliciesAudited
    <2>7. \A q \in Proc : WritesOver(q)'
        BY <2>2 DEF ArmInv, WritesOver
    <2>8. up
        BY <2>1 DEF ArmInv
    <2>9. ASSUME ~overlapped PROVE InSeries'
        <3>1. InSeries
            BY <2>8, <2>9 DEF ArmInv
        <3>2. \A q \in Proc \ {p} : pc'[q] = "idle"
            BY <2>1, <2>2, <3>1 DEF InSeries
        <3>3. \A q \in Proc : InOrder(q)' /\ ArmsStored(q)'
            BY <2>2, <3>2 DEF InOrder, ArmsStored, InTransaction
        <3>4. \E c \in configs' : armed' = ScheduleOf(c.policy)
            BY <2>1, <2>4, <3>1 DEF InSeries, ArmsStored
        <3>5. \A q, r \in Proc : pc'[q] # "idle" /\ pc'[r] # "idle" => q = r
            BY <3>2
        <3> QED BY <3>3, <3>4, <3>5 DEF InSeries
    <2> QED BY <2>1, <2>6, <2>7, <2>8, <2>9 DEF ArmInv
<1>3. CASE Boot
    <2>1. /\ UNCHANGED <<configs, audit, pc, tx>> /\ up' /\ ~overlapped'
          /\ \A p \in Proc : pc[p] = "idle"
        BY <1>3 DEF Boot, ArmInv
    <2>2. PICK policy \in IF configs = {} THEN {Null} ELSE {c.policy : c \in configs} :
              ArmWith(policy)
        BY <1>3 DEF Boot
    <2>3. policy \in Policy \cup {Null} /\ (configs # {} => \E c \in configs : policy = c.policy)
        BY <2>2 DEF ShapeInv, TypeOK, Config
    <2>4. armed' = ScheduleOf(policy) /\ (job' # Null => job' = job \/ job' = policy)
        BY <2>2, <2>3, ArmedShape DEF ShapeInv, TypeOK
    <2>5. Audited' = Audited
        BY <2>1 DEF Audited
    <2>6. PoliciesAudited'
        <3>1. \A c \in configs' : c.policy \in Audited'
            BY <2>1, <2>5 DEF ArmInv, PoliciesAudited
        <3>2. \A q \in Proc : ~InTransaction(q)' /\ pc'[q] # "arm"
            BY <2>1 DEF InTransaction
        <3>3. job' # Null => job' \in Audited'
            <4>1. CASE configs = {}
                BY <2>2, <2>4, <2>5, <4>1 DEF ArmInv, PoliciesAudited
            <4>2. CASE configs # {}
                BY <2>3, <2>4, <2>5, <4>2 DEF ArmInv, PoliciesAudited
            <4> QED BY <4>1, <4>2
        <3> QED BY <3>1, <3>2, <3>3 DEF PoliciesAudited
    <2>7. \A p \in Proc : WritesOver(p)' /\ InOrder(p)' /\ ArmsStored(p)'
        BY <2>1 DEF WritesOver, InOrder, ArmsStored, InTransaction
    <2>8. InSeries'
        <3>1. configs' # {} => \E c \in configs' : armed' = ScheduleOf(c.policy)
            BY <2>1, <2>3, <2>4
        <3> QED BY <2>1, <2>7, <3>1 DEF InSeries
    <2> QED BY <2>1, <2>6, <2>7, <2>8 DEF ArmInv
<1>4. CASE Crash
    <2>1. /\ UNCHANGED <<configs, audit>> /\ ~up' /\ job' = Null
          /\ \A p \in Proc : pc'[p] = "idle"
        BY <1>4 DEF Crash
    <2>2. Audited' = Audited
        BY <2>1 DEF Audited
    <2> QED BY <2>1, <2>2 DEF ArmInv, PoliciesAudited, InTransaction, WritesOver
<1>5. CASE UNCHANGED vars
    <2>1. UNCHANGED <<configs, audit, pc, tx, up, armed, job, overlapped>>
        BY <1>5 DEF vars, history
    <2>2. Audited' = Audited
        BY <2>1 DEF Audited
    <2>3. PoliciesAudited' /\ \A p \in Proc : WritesOver(p)'
        BY <2>1, <2>2 DEF ArmInv, PoliciesAudited, InTransaction, WritesOver
    <2>4. InSeries => InSeries'
        BY <2>1 DEF InSeries, InOrder, ArmsStored, InTransaction, Arming
    <2> QED BY <2>1, <2>3, <2>4 DEF ArmInv
<1> QED BY <1>1, <1>2, <1>3, <1>4, <1>5

LEMMA NextArm == ShapeInv /\ ArmInv /\ [Next]_vars => ArmInv'
<1> SUFFICES ASSUME ShapeInv, ArmInv, [Next]_vars PROVE ArmInv'
    OBVIOUS
<1>1. ASSUME NEW p \in Proc, Continue(p) \/ Abort(p) PROVE ArmInv'
    BY <1>1, StepsArm, CommitArm, OtherArm DEF Continue
<1> QED BY <1>1, OtherArm DEF Next
-----------------------------------------------------------------------------
(* A save that is alone has taken everything that was there.               *)
StoredIn(table) == {r \in stored : r.table = table}

TakesAll(p) ==
    /\ pc[p] = "clear" => tx[p].seen = StoredIn(Tables[tx[p].at])
    /\ pc[p] = "fill" \/ tx[p].at > 1 => StoredIn("categories") \subseteq tx[p].locked
    /\ (pc[p] = "fill" /\ tx[p].at = 2) \/ tx[p].at > 2 => StoredIn("rules") \subseteq tx[p].locked

AloneInv ==
    \A p \in Proc : alone[p] /\ InTransaction(p) =>
        TakesAll(p) /\ \A q \in Proc \ {p} : ~InTransaction(q)

LEMMA StepAlone ==
    ASSUME ShapeInv, AloneInv, NEW p \in Proc, NEW at, NEW t, Step(p, at, t), at \in PC,
           t \in Transaction, alone' = alone, InTransaction(p)' => InTransaction(p),
           \/ stored' = stored
           \/ InTransaction(p) /\ ~InTransaction(p)',
           alone[p] /\ InTransaction(p)' => TakesAll(p)'
    PROVE  AloneInv'
<1>1. \A q \in Proc \ {p} : pc'[q] = pc[q] /\ tx'[q] = tx[q]
    BY OneStep
<1>2. \A q \in Proc : InTransaction(q)' => InTransaction(q)
    BY <1>1 DEF InTransaction
<1> SUFFICES ASSUME NEW q \in Proc, alone'[q], InTransaction(q)'
             PROVE  TakesAll(q)' /\ \A r \in Proc \ {q} : ~InTransaction(r)'
    BY DEF AloneInv
<1>3. TakesAll(q) /\ \A r \in Proc \ {q} : ~InTransaction(r)
    BY <1>2 DEF AloneInv
<1>4. CASE q = p
    BY <1>2, <1>3, <1>4
<1>5. CASE q # p
    <2>1. stored' = stored
        BY <1>3, <1>5
    <2>2. TakesAll(q)'
        BY <1>1, <1>3, <1>5, <2>1 DEF TakesAll, StoredIn
    <2> QED BY <1>2, <1>3, <2>2
<1> QED BY <1>4, <1>5

LEMMA NextAlone == ShapeInv /\ AloneInv /\ [Next]_vars => AloneInv'
<1> SUFFICES ASSUME ShapeInv, AloneInv, [Next]_vars PROVE AloneInv'
    OBVIOUS
<1>1. /\ tx \in [Proc -> Transaction] /\ tx' \in [Proc -> Transaction]
      /\ pc \in [Proc -> PC] /\ pc' \in [Proc -> PC] /\ stored \subseteq Row
    BY NextShape DEF ShapeInv, TypeOK
<1>2. ASSUME NEW p \in Proc, ReadOld(p) \/ WriteConfig(p) PROVE AloneInv'
    <2>1. PICK at \in {"scan", "commit"} : Step(p, at, tx'[p]) /\ pc'[p] = at
        BY <1>1, <1>2 DEF Step, ReadOld, WriteConfig
    <2>2. /\ tx'[p].at = tx[p].at /\ tx'[p].locked = tx[p].locked
        BY <1>1, <1>2 DEF Step, ReadOld, WriteConfig, Transaction
    <2>3. at \in PC /\ InTransaction(p) /\ stored' = stored /\ alone' = alone
        BY <1>2, <2>1 DEF PC, InTransaction, ReadOld, WriteConfig, history
    <2>4. alone[p] => TakesAll(p)'
        BY <2>1, <2>2, <2>3 DEF AloneInv, TakesAll, StoredIn
    <2> QED BY <1>1, <2>1, <2>3, <2>4, StepAlone
<1>3. ASSUME NEW p \in Proc, Scan(p) PROVE AloneInv'
    <2> DEFINE s == {r \in stored : r.table = Tables[tx[p].at]}
    <2>1. tx'[p] = [tx[p] EXCEPT !.seen = s] /\ Step(p, "clear", tx'[p]) /\ pc'[p] = "clear"
        BY <1>1, <1>3 DEF Step, Scan
    <2>2. s = StoredIn(Tables[tx[p].at])
        BY DEF StoredIn
    <2> HIDE DEF s
    <2>3. tx'[p].seen = s /\ tx'[p].at = tx[p].at /\ tx'[p].locked = tx[p].locked
        BY <1>1, <2>1 DEF Transaction
    <2>4. "clear" \in PC /\ InTransaction(p) /\ stored' = stored /\ alone' = alone
        BY <1>3 DEF PC, InTransaction, Scan, history
    <2>5. alone[p] => TakesAll(p)'
        BY <2>1, <2>2, <2>3, <2>4 DEF AloneInv, TakesAll, StoredIn
    <2> QED BY <1>1, <2>1, <2>4, <2>5, StepAlone
<1>4. ASSUME NEW p \in Proc, Clear(p) PROVE AloneInv'
    <2> DEFINE l == tx[p].locked \cup StillThere(p)
    <2>1. /\ tx'[p] = [tx[p] EXCEPT !.seen = {}, !.locked = l]
          /\ Step(p, "fill", tx'[p]) /\ pc'[p] = "fill"
        BY <1>1, <1>4 DEF Step, Clear
    <2>2. tx[p].locked \subseteq l /\ \A r \in stored : r \in tx[p].seen => r \in l
        BY DEF StillThere, SameRow
    <2> HIDE DEF l
    <2>3. tx'[p].at = tx[p].at /\ tx'[p].locked = l
        BY <1>1, <2>1 DEF Transaction
    <2>4. /\ "fill" \in PC /\ InTransaction(p) /\ stored' = stored /\ alone' = alone
          /\ pc[p] = "clear"
        BY <1>4 DEF PC, InTransaction, Clear, history
    <2>5. tx[p].at \in {1, 2}
        BY <2>4 DEF ShapeInv, StageOK
    <2>6. ASSUME alone[p] PROVE TakesAll(p)'
        <3>1. TakesAll(p)
            BY <2>4, <2>6 DEF AloneInv
        <3>2. StoredIn(Tables[tx[p].at]) \subseteq l
            BY <2>2, <2>4, <3>1 DEF TakesAll, StoredIn
        <3>3. StoredIn("categories") \subseteq l
            BY <2>2, <2>5, <3>1, <3>2 DEF TakesAll, Tables
        <3>4. tx[p].at = 2 => StoredIn("rules") \subseteq l
            BY <3>2 DEF Tables
        <3>5. StoredIn("categories")' = StoredIn("categories") /\ StoredIn("rules")' = StoredIn("rules")
            BY <2>4 DEF StoredIn
        <3> QED BY <2>1, <2>3, <2>5, <3>3, <3>4, <3>5 DEF TakesAll
    <2> QED BY <1>1, <2>1, <2>4, <2>6, StepAlone
<1>5. ASSUME NEW p \in Proc, Fill(p), Taken(p) = {} PROVE AloneInv'
    <2> DEFINE l == tx[p].locked \cup Updated(p)
               i == tx[p].inserted \cup UpsertedRows(p)
               a == tx[p].at + 1
    <2>1. /\ tx'[p] = [tx[p] EXCEPT !.at = a, !.locked = l, !.inserted = i]
          /\ Step(p, pc'[p], tx'[p]) /\ pc'[p] \in {"scan", "config"}
        BY <1>1, <1>5 DEF Step, Fill
    <2>2. tx[p].locked \subseteq l
        OBVIOUS
    <2> HIDE DEF l, i
    <2>3. tx'[p].at = a /\ tx'[p].locked = l
        BY <1>1, <2>1 DEF Transaction
    <2>4. InTransaction(p) /\ stored' = stored /\ alone' = alone /\ pc[p] = "fill"
        BY <1>5 DEF InTransaction, Fill, history
    <2>5. tx[p].at \in {1, 2}
        BY <2>4 DEF ShapeInv, StageOK
    <2>6. ASSUME alone[p] PROVE TakesAll(p)'
        <3>1. TakesAll(p)
            BY <2>4, <2>6 DEF AloneInv
        <3>2. StoredIn("categories") \subseteq l
            BY <2>2, <2>4, <3>1 DEF TakesAll
        <3>3. tx[p].at = 2 => StoredIn("rules") \subseteq l
            BY <2>2, <2>4, <3>1 DEF TakesAll
        <3>4. StoredIn("categories")' = StoredIn("categories") /\ StoredIn("rules")' = StoredIn("rules")
            BY <2>4 DEF StoredIn
        <3> QED BY <2>1, <2>3, <2>5, <3>2, <3>3, <3>4 DEF TakesAll
    <2> QED BY <1>1, <2>1, <2>4, <2>6, StepAlone
<1>6. ASSUME NEW p \in Proc,
             \/ Commit(p) \/ ReadPolicy(p) \/ Arm(p) \/ Broadcast(p) \/ Abort(p)
             \/ Fill(p) /\ Taken(p) # {}
      PROVE  AloneInv'
    <2>1. /\ Step(p, pc'[p], tx'[p]) /\ pc'[p] \in {"idle", "reArm", "arm", "broadcast"}
        BY <1>1, <1>6 DEF Step, Commit, ReadPolicy, Arm, Broadcast, Abort, Fill, Rollback
    <2>2. ~InTransaction(p)' /\ pc'[p] \in PC
        BY <1>1, <2>1 DEF InTransaction
    <2>3. alone' = alone /\ (stored' = stored \/ InTransaction(p))
        BY <1>6 DEF Commit, ReadPolicy, Arm, Broadcast, Abort, Fill, Rollback, history, InTransaction
    <2> QED BY <1>1, <2>1, <2>2, <2>3, StepAlone
<1>7. ASSUME NEW p \in Proc, NEW draft \in Draft, Save(p, draft) PROVE AloneInv'
    <2> DEFINE t == [NoTransaction EXCEPT !.no = saves + 1, !.draft = draft]
    <2>1. /\ Step(p, "read", t) /\ "read" \in PC /\ stored' = stored
          /\ alone' = [q \in Proc |-> IF q = p THEN \A other \in Proc : ~InTransaction(other)
                                      ELSE alone[q] /\ ~InTransaction(q)]
        BY <1>7 DEF Save, PC
    <2>2. tx'[p] = t /\ pc'[p] = "read" /\ t.at = NoTransaction.at
        BY <1>1, <2>1, NoTransactionTyped DEF Step, Transaction
    <2>3. tx'[p].at = 1
        BY <2>2 DEF NoTransaction
    <2>4. \A q \in Proc \ {p} : pc'[q] = pc[q]
        BY <1>1, <2>1 DEF Step
    <2>5. TakesAll(p)'
        BY <2>2, <2>3 DEF TakesAll
    <2>6. \A q \in Proc \ {p} : InTransaction(q)' <=> InTransaction(q)
        BY <2>4 DEF InTransaction
    <2>7. alone'[p] => \A other \in Proc : ~InTransaction(other)
        BY <2>1
    <2>8. \A q \in Proc \ {p} : alone'[q] => ~InTransaction(q)
        BY <2>1
    <2> QED BY <2>5, <2>6, <2>7, <2>8 DEF AloneInv
<1>8. CASE Boot \/ UNCHANGED vars
    <2>1. UNCHANGED <<stored, pc, tx, alone>>
        BY <1>8 DEF Boot, vars, history
    <2> QED BY <2>1 DEF AloneInv, TakesAll, StoredIn, InTransaction
<1>9. CASE Crash
    BY <1>9 DEF Crash, AloneInv, InTransaction
<1> QED BY <1>2, <1>3, <1>4, <1>5, <1>6, <1>7, <1>8, <1>9 DEF Next, Continue

-----------------------------------------------------------------------------
ConfigurationInv == ShapeInv /\ LockInv /\ ArmInv /\ AloneInv

LEMMA ConfigurationInvariant == Spec => []ConfigurationInv
<1>1. Init => ConfigurationInv
    <2>1. Init => AloneInv
        BY DEF Init, AloneInv, InTransaction
    <2> QED BY <2>1, InitShape, InitLocks, InitArm DEF ConfigurationInv
<1>2. ConfigurationInv /\ [Next]_vars => ConfigurationInv'
    BY NextShape, NextLocks, NextArm, NextAlone DEF ConfigurationInv
<1> QED BY <1>1, <1>2, PTL DEF Spec

(* Every routing rule names stored categories and the cron runs a committed*)
(* policy, however saves interleave, fail or are cut off.                  *)
THEOREM StoreStaysConsistent == Spec => []StoreIsConsistent
<1>1. ConfigurationInv => StoreIsConsistent
    BY DEF ConfigurationInv, ShapeInv, LockInv, ArmInv, PoliciesAudited, Audited,
           StoreIsConsistent, OnlyPersistedPoliciesAreArmed
<1> QED BY <1>1, ConfigurationInvariant, PTL

(* Between saves that do not overlap the armed cron is a stored policy's.  *)
THEOREM CronFollowsPolicy == Spec => []ScheduleFollowsPolicy
<1>1. ConfigurationInv => ScheduleFollowsPolicy
    BY DEF ConfigurationInv, ArmInv, InSeries, Arming, ScheduleFollowsPolicy, AtRest
<1> QED BY <1>1, ConfigurationInvariant, PTL

(* A save nobody overlapped leaves its own rows and nothing else.          *)
THEOREM LoneSavesReplace == Spec => LoneSaveReplaces
<1> DEFINE A == \A p \in Proc : Commits(p) /\ alone[p] =>
                   /\ CodesIn(stored', "categories") = {c.code : c \in tx[p].draft.categories}
                   /\ CodesIn(stored', "rules") = {r.counter : r \in tx[p].draft.rules}
<1>1. ConfigurationInv /\ [Next]_vars => [A]_vars
    <2> SUFFICES ASSUME ConfigurationInv, [Next]_vars, NEW p \in Proc, Commits(p), alone[p]
                 PROVE  /\ CodesIn(stored', "categories") = DraftCodes(tx[p].draft)
                        /\ CodesIn(stored', "rules") = DraftCounters(tx[p].draft)
        BY DEF DraftCodes, DraftCounters
    <2>1. /\ ShapeInv /\ AloneInv /\ pc[p] = "commit" /\ pc'[p] \in {"reArm", "broadcast"}
        BY DEF ConfigurationInv, Commits
    <2>2. Commit(p)
        <3>1. ASSUME NEW q \in Proc, NEW at, NEW t, Step(q, at, t), at \notin {"reArm", "broadcast"}
              PROVE  FALSE
            BY <2>1, <3>1 DEF Step, ShapeInv, TypeOK
        <3>2. ASSUME NEW q \in Proc \ {p}, NEW at, NEW t, Step(q, at, t)
              PROVE  FALSE
            BY <2>1, <3>2 DEF Step, ShapeInv, TypeOK
        <3>3. ASSUME NEW q \in Proc, Continue(q) \/ Abort(q)
              PROVE  q = p
            BY <3>2, <3>3 DEF Continue, ReadOld, Scan, Clear, Fill, WriteConfig, Commit, ReadPolicy,
                  Arm, Broadcast, Abort, Rollback
        <3>4. ~Abort(p)
            BY <3>1 DEF Abort, Rollback
        <3>5. ASSUME Continue(p) PROVE Commit(p)
            BY <2>1, <3>5 DEF Continue, ReadOld, Scan, Clear, Fill, WriteConfig, ReadPolicy,
                  MayReArm, Arm, Broadcast
        <3>6. ASSUME NEW q \in Proc, NEW draft \in Draft, Save(q, draft) PROVE FALSE
            <4>1. Step(q, "read", [NoTransaction EXCEPT !.no = saves + 1, !.draft = draft])
                BY <3>6 DEF Save
            <4> QED BY <3>1, <4>1
        <3>7. ~Boot /\ ~Crash /\ ~UNCHANGED vars
            BY <2>1 DEF Boot, Crash, vars
        <3> QED BY <3>3, <3>4, <3>5, <3>6, <3>7 DEF Next
    <2>3. /\ InsertedOK(p) /\ tx[p].at = 3 /\ stored \subseteq Row
          /\ stored' = (stored \ tx[p].locked) \cup tx[p].inserted
        BY <2>1, <2>2 DEF ShapeInv, StageOK, InTransaction, TypeOK, Commit
    <2>4. TakesAll(p)
        BY <2>1 DEF AloneInv, InTransaction
    <2>5. stored \subseteq tx[p].locked
        <3>1. \A r \in stored : r.table = "categories" \/ r.table = "rules"
            BY <2>3 DEF Row
        <3> QED BY <2>3, <2>4, <3>1 DEF TakesAll, StoredIn
    <2>6. stored' = tx[p].inserted
        BY <2>3, <2>5
    <2>7. CategoriesIn(p) = DraftCodes(tx[p].draft) /\ RulesIn(p) = DraftCounters(tx[p].draft)
        BY <2>3 DEF InsertedOK
    <2> QED BY <2>6, <2>7 DEF CategoriesIn, RulesIn
<1>2. LoneSaveReplaces <=> [][A]_vars
    BY DEF LoneSaveReplaces
<1> HIDE DEF A
<1> QED BY <1>1, <1>2, ConfigurationInvariant, PTL DEF Spec
======================================================================================
