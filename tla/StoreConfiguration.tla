-------------------------- MODULE StoreConfiguration --------------------------
(***************************************************************************)
(* Saving the store's configuration while other saves run, and the daily   *)
(* reset cron each of them may re-arm afterwards.  A save replaces the     *)
(* categories and the routing rules (DELETE, then INSERTs), upserts the    *)
(* configuration row, and commits; then it re-arms the scheduler.          *)
(*                                                                         *)
(* READ COMMITTED, as in TicketQueue.  A DELETE visits the rows its        *)
(* snapshot holds and waits for those another transaction has locked; rows *)
(* committed after its snapshot escape it.                                 *)
(***************************************************************************)
EXTENDS Integers, Sequences, FiniteSets

CONSTANTS
    Proc,           \* save requests in flight in the process
    CategoryId,     \* category ids clients know already
    Code,           \* the categories' codes, unique
    Counter,        \* counter ids, unique
    Policy,         \* daily-reset policies
    Draft,          \* the configurations administrators send in this instance
    Null,
    MaxSaves        \* bound: saves begun

Mode == {"AUTOMATIC_CRON", "MANUAL"}

ASSUME StoreConfigurationAssumption ==
    /\ Null \notin Proc \cup CategoryId \cup Policy \cup Draft
    /\ Null \notin [id : 1..MaxSaves, policy : Policy]
    /\ \A p \in Policy : p.mode \in Mode
    /\ \A d \in Draft :
         /\ d.policy \in Policy
         /\ d.categories \subseteq [id : CategoryId \cup {Null}, code : Code]
         /\ d.rules \subseteq [counter : Counter, codes : SUBSET Code]
         /\ \A a, b \in d.categories : a.code = b.code => a = b
         /\ \A a, b \in d.rules : a.counter = b.counter => a = b
         /\ \A r \in d.rules : r.codes \subseteq {c.code : c \in d.categories}
    /\ MaxSaves \in Nat

VARIABLES
    configs,        \* system_configuration: rows [id, policy]
    stored,         \* categories and counter_routing_rules
    audit,          \* the DAILY_RESET_POLICY_CHANGE entries, in order
    pc, tx,         \* where each save is, and its transaction
    up,             \* the process has booted
    armed,          \* the scheduler's armedCron and armedTz, or Null
    job,            \* the registered CronJob: its schedule and the policy it runs
    saves,          \* saves begun
    \* history: no other transaction was open during this one's; two saves have
    \* been in flight at once since the last boot
    alone, overlapped

history == <<alone, overlapped>>
vars == <<configs, stored, audit, pc, tx, up, armed, job, saves, history>>

(* The tables a save replaces, in the order it does.  (Mutant: the rules   *)
(* first.)                                                                 *)
RulesFirst == <<"rules", "categories">>

Tables == <<"categories", "rules">>

(* A row of either table: `code' is its unique column, `birth' tells the   *)
(* row an INSERT made from an earlier one that had the same id.            *)
Id == CategoryId \cup ((1..MaxSaves) \X (Code \cup Counter))

Row == [ table : {"categories", "rules"}, id : Id, code : Code \cup Counter,
         refs : SUBSET Id, birth : 1..MaxSaves ]

SameRow(r, s) == r.table = s.table /\ r.id = s.id /\ r.birth = s.birth

NoTransaction == [ no |-> 0, draft |-> Null, old |-> Null, at |-> 1, seen |-> {},
                   locked |-> {}, inserted |-> {}, written |-> Null, policy |-> Null ]

InTransaction(p) == pc[p] \in {"read", "scan", "clear", "fill", "config", "commit"}

-----------------------------------------------------------------------------
(* What a draft stores *)

(* buildCategories: an id the client did not send is minted.               *)
CategoryIdOf(draft, no, code) ==
    LET dto == CHOOSE c \in draft.categories : c.code = code
    IN  IF dto.id = Null THEN <<no, code>> ELSE dto.id

CategoryRows(draft, no) ==
    { [table |-> "categories", id |-> CategoryIdOf(draft, no, c.code), code |-> c.code,
       refs |-> {}, birth |-> no] : c \in draft.categories }

(* buildRoutingRules: ids are minted, codes are resolved to category ids.  *)
RuleRows(draft, no) ==
    { [table |-> "rules", id |-> <<no, r.counter>>, code |-> r.counter,
       refs |-> {CategoryIdOf(draft, no, code) : code \in r.codes}, birth |-> no] :
        r \in draft.rules }

NewRows(p) ==
    IF Tables[tx[p].at] = "categories" THEN CategoryRows(tx[p].draft, tx[p].no)
                                       ELSE RuleRows(tx[p].draft, tx[p].no)

(* DailyResetPolicy.equals, on the policies this save read and wrote.      *)
(* (Mutant: the time zone is not compared.)                                *)
ScheduleChanged(p) ==
    \/ tx[p].old = Null
    \/ tx[p].old.policy.mode # tx[p].draft.policy.mode
    \/ tx[p].old.policy.cron # tx[p].draft.policy.cron

PolicyChanged(p) == tx[p].old = Null \/ tx[p].old.policy # tx[p].draft.policy

-----------------------------------------------------------------------------
(* The transaction of a save *)

Step(p, at, transaction) ==
    /\ pc' = [pc EXCEPT ![p] = at]
    /\ tx' = [tx EXCEPT ![p] = transaction]

(* The payload was validated before the transaction begins.                *)
Save(p, draft) ==
    /\ up /\ pc[p] = "idle" /\ saves < MaxSaves
    /\ saves' = saves + 1
    /\ Step(p, "read", [NoTransaction EXCEPT !.no = saves + 1, !.draft = draft])
    /\ alone' = [q \in Proc |-> IF q = p THEN \A other \in Proc : ~InTransaction(other)
                                ELSE alone[q] /\ ~InTransaction(q)]
    /\ overlapped' = (overlapped \/ \E q \in Proc : pc[q] # "idle")
    /\ UNCHANGED <<configs, stored, audit, up, armed, job>>

(* SELECT ... LIMIT 1, for the id to keep and the policy to compare with.  *)
ReadOld(p) ==
    /\ pc[p] = "read"
    /\ \E old \in IF configs = {} THEN {Null} ELSE configs :
          Step(p, "scan", [tx[p] EXCEPT !.old = old])
    /\ UNCHANGED <<configs, stored, audit, up, armed, job, saves, history>>

(* The snapshot of a DELETE.                                               *)
Scan(p) ==
    /\ pc[p] = "scan"
    /\ Step(p, "clear",
            [tx[p] EXCEPT !.seen = {r \in stored : r.table = Tables[tx[p].at]}])
    /\ UNCHANGED <<configs, stored, audit, up, armed, job, saves, history>>

(* The rows of its snapshot that are still there, as they now are.         *)
(* (Mutant: it deletes nothing.)                                           *)
NoneOf(p) == {}

StillThere(p) == {r \in stored : \E s \in tx[p].seen : SameRow(r, s)}

HeldByAnother(p, rows) ==
    \E q \in Proc \ {p} : \E r \in rows, s \in tx[q].locked : SameRow(r, s)

Clear(p) ==
    /\ pc[p] = "clear"
    /\ ~HeldByAnother(p, tx[p].seen)
    /\ Step(p, "fill", [tx[p] EXCEPT !.seen = {}, !.locked = @ \cup StillThere(p)])
    /\ UNCHANGED <<configs, stored, audit, up, armed, job, saves, history>>

(* A rolled-back or committed transaction gives back all it held.          *)
(* (Mutant: it does not.)                                                  *)
KeepsLocks(p) == tx[p]

Released(p) == NoTransaction

Rollback(p) ==
    /\ Step(p, "idle", Released(p))
    /\ UNCHANGED <<configs, stored, audit, up, armed, job, saves, history>>

SameKey(r, s) == r.table = s.table /\ r.id = s.id
Clash(r, s) == r.table = s.table /\ (r.id = s.id \/ r.code = s.code)

(* A unique index makes an INSERT wait for an open transaction that has    *)
(* inserted, deleted or updated the same key.                              *)
AwaitsKeys(p) ==
    \E q \in Proc \ {p} : \E r \in tx[q].locked \cup tx[q].inserted, s \in NewRows(p) :
        Clash(r, s)

(* INSERT ... ON CONFLICT (id) DO UPDATE, of the rows this transaction has *)
(* not deleted; a clash on the other unique column fails the save.         *)
Updated(p) == {r \in stored \ tx[p].locked : \E s \in NewRows(p) : SameKey(r, s)}

Taken(p) ==
    {r \in (stored \ tx[p].locked) \ Updated(p) : \E s \in NewRows(p) : Clash(r, s)}

Upserted(p, s) ==
    LET same == {r \in Updated(p) : SameKey(r, s)}
    IN  IF same = {} THEN s ELSE [s EXCEPT !.birth = (CHOOSE r \in same : TRUE).birth]

UpsertedRows(p) == {Upserted(p, s) : s \in NewRows(p)}

Fill(p) ==
    /\ pc[p] = "fill"
    /\ ~AwaitsKeys(p)
    /\ IF Taken(p) # {}
       THEN Rollback(p)
       ELSE /\ Step(p, IF tx[p].at < Len(Tables) THEN "scan" ELSE "config",
                    [tx[p] EXCEPT !.at = @ + 1, !.locked = @ \cup Updated(p),
                                  !.inserted = @ \cup UpsertedRows(p)])
            /\ UNCHANGED <<configs, stored, audit, up, armed, job, saves, history>>

(* The upsert of the row whose id was read, or of a new one.               *)
WriteConfig(p) ==
    LET id == IF tx[p].old = Null THEN tx[p].no ELSE tx[p].old.id
    IN  /\ pc[p] = "config"
        /\ \A q \in Proc \ {p} : tx[q].written # Null => tx[q].written.id # id
        /\ Step(p, "commit",
                [tx[p] EXCEPT !.written = [id |-> id, policy |-> tx[p].draft.policy]])
        /\ UNCHANGED <<configs, stored, audit, up, armed, job, saves, history>>

Commit(p) ==
    LET written == tx[p].written
    IN  /\ pc[p] = "commit"
        /\ stored' = (stored \ tx[p].locked) \cup tx[p].inserted
        /\ configs' = {c \in configs : c.id # written.id} \cup {written}
        /\ audit' = IF PolicyChanged(p)
                    THEN Append(audit, [ before |-> IF tx[p].old = Null THEN Null
                                                    ELSE tx[p].old.policy,
                                         after  |-> written.policy ])
                    ELSE audit
        /\ Step(p, IF PolicyChanged(p) THEN "reArm" ELSE "broadcast", Released(p))
        /\ UNCHANGED <<up, armed, job, saves, history>>

Abort(p) == InTransaction(p) /\ Rollback(p)

-----------------------------------------------------------------------------
(* The scheduler *)

(* What the cron of a policy is armed by: none for a manual reset.         *)
ScheduleOf(policy) ==
    IF policy = Null \/ policy.mode # "AUTOMATIC_CRON" THEN Null
    ELSE [cron |-> policy.cron, zone |-> policy.zone]

(* reArm after its read: nothing when cron and zone are armed already; the *)
(* job keeps the policy it is built with.  (Mutant: disarming forgets to   *)
(* delete the job.)                                                        *)
ArmAndKeepJob(policy) ==
    /\ armed' = ScheduleOf(policy)
    /\ job' = IF ScheduleOf(policy) = Null THEN job ELSE policy

ArmWith(policy) ==
    IF ScheduleOf(policy) = armed
    THEN UNCHANGED <<armed, job>>
    ELSE /\ armed' = ScheduleOf(policy)
         /\ job' = IF ScheduleOf(policy) = Null THEN Null ELSE policy

(* A read enlists on the transaction the request is in, if any.            *)
ConfigsSeenBy(p) ==
    IF InTransaction(p) THEN {tx[p].written} ELSE configs

(* The cron is re-armed once the save has committed.  (Mutant: once it has *)
(* written.)                                                               *)
HasWritten(p) == pc[p] \in {"commit", "reArm"}

MayReArm(p) == pc[p] = "reArm"

ReadPolicy(p) ==
    /\ MayReArm(p)
    /\ \E config \in ConfigsSeenBy(p) :
          Step(p, "arm", [NoTransaction EXCEPT !.policy = config.policy])
    /\ UNCHANGED <<configs, stored, audit, up, armed, job, saves, history>>

Arm(p) ==
    /\ pc[p] = "arm"
    /\ ArmWith(tx[p].policy)
    /\ Step(p, "broadcast", NoTransaction)
    /\ UNCHANGED <<configs, stored, audit, up, saves, history>>

(* SYSTEM_CONFIG_CHANGED, and the answer.                                  *)
Broadcast(p) ==
    /\ pc[p] = "broadcast"
    /\ Step(p, "idle", NoTransaction)
    /\ UNCHANGED <<configs, stored, audit, up, armed, job, saves, history>>

(* onModuleInit, before the first request is served.                       *)
Boot ==
    /\ ~up
    /\ up' = TRUE
    /\ \E policy \in IF configs = {} THEN {Null} ELSE {c.policy : c \in configs} :
          ArmWith(policy)
    /\ overlapped' = FALSE
    /\ UNCHANGED <<configs, stored, audit, pc, tx, saves, alone>>

Crash ==
    /\ up
    /\ up' = FALSE
    /\ pc' = [p \in Proc |-> "idle"]
    /\ tx' = [p \in Proc |-> NoTransaction]
    /\ armed' = Null /\ job' = Null
    /\ UNCHANGED <<configs, stored, audit, saves, history>>

-----------------------------------------------------------------------------
(* The specification *)

Init ==
    /\ configs = {} /\ stored = {} /\ audit = <<>>
    /\ pc = [p \in Proc |-> "idle"]
    /\ tx = [p \in Proc |-> NoTransaction]
    /\ up = FALSE /\ armed = Null /\ job = Null
    /\ saves = 0
    /\ alone = [p \in Proc |-> FALSE] /\ overlapped = FALSE

Continue(p) ==
    \/ ReadOld(p) \/ Scan(p) \/ Clear(p) \/ Fill(p) \/ WriteConfig(p) \/ Commit(p)
    \/ ReadPolicy(p) \/ Arm(p) \/ Broadcast(p)

Next ==
    \/ \E p \in Proc : Continue(p) \/ Abort(p) \/ \E draft \in Draft : Save(p, draft)
    \/ Boot
    \/ Crash

Spec == Init /\ [][Next]_vars

(* A request whose statement can run gets to run it.                       *)
FairSpec == Spec /\ \A p \in Proc : WF_vars(Continue(p))

-----------------------------------------------------------------------------
(* Properties *)

PC == {"idle", "read", "scan", "clear", "fill", "config", "commit", "reArm", "arm",
       "broadcast"}

Config == [id : 1..MaxSaves, policy : Policy]

Transaction ==
    [ no : 0..MaxSaves, draft : Draft \cup {Null}, old : Config \cup {Null}, at : 1..3,
      seen : SUBSET Row, locked : SUBSET Row, inserted : SUBSET Row,
      written : Config \cup {Null}, policy : Policy \cup {Null} ]

(* The tables, the requests and the scheduler keep their shape; the        *)
(* scheduler believes it has armed exactly what the registry runs.         *)
TypeOK ==
    /\ configs \subseteq Config
    /\ stored \subseteq Row
    /\ audit \in Seq([before : Policy \cup {Null}, after : Policy])
    /\ pc \in [Proc -> PC]
    /\ tx \in [Proc -> Transaction]
    /\ up \in BOOLEAN
    /\ job \in Policy \cup {Null}
    /\ armed = ScheduleOf(job)
    /\ saves \in 0..MaxSaves
    /\ alone \in [Proc -> BOOLEAN] /\ overlapped \in BOOLEAN

CategoryIds == {r.id : r \in {s \in stored : s.table = "categories"}}

(* However saves interleave, fail or are cut off, every routing rule names *)
(* categories that are stored, so call-next never looks for a category     *)
(* that is gone.                                                           *)
RulesNameStoredCategories ==
    \A r \in stored : r.table = "rules" => r.refs \subseteq CategoryIds

(* The cron only ever runs a policy that was committed: a save that is     *)
(* rolled back leaves no trace in the scheduler (reArm is post-commit).    *)
OnlyPersistedPoliciesAreArmed ==
    job # Null => \E i \in 1..Len(audit) : job = audit[i].after

(* What is stored and armed is consistent at every moment.                 *)
StoreIsConsistent == TypeOK /\ RulesNameStoredCategories /\ OnlyPersistedPoliciesAreArmed

Commits(p) == pc[p] = "commit" /\ pc'[p] \in {"reArm", "broadcast"}

CodesIn(rows, table) == {r.code : r \in {s \in rows : s.table = table}}

(* A save no other one overlapped leaves its own categories and counters,  *)
(* and nothing of what was there before, also after saves that did overlap *)
(* have left a mixture.                                                    *)
LoneSaveReplaces ==
    [][\A p \in Proc : Commits(p) /\ alone[p] =>
         /\ CodesIn(stored', "categories") = {c.code : c \in tx[p].draft.categories}
         /\ CodesIn(stored', "rules") = {r.counter : r \in tx[p].draft.rules}]_vars

AtRest == up /\ \A p \in Proc : pc[p] = "idle"

(* Between saves the cron that is armed is the stored policy's, whether a  *)
(* save armed it or a boot after a crash: as long as no two saves overlap  *)
(* (each compares with what it read, and then the other's may be stored).  *)
ScheduleFollowsPolicy ==
    AtRest /\ configs # {} /\ ~overlapped => \E c \in configs : armed = ScheduleOf(c.policy)

(* No save waits for ever: the tables are locked in one order.             *)
EverySaveEnds == \A p \in Proc : pc[p] # "idle" ~> pc[p] = "idle"

-----------------------------------------------------------------------------
(* What the code says of itself and does not keep *)

(* daily-reset-scheduler.service.ts: a policy edit takes effect            *)
(* immediately, without a process restart.                                 *)
EditTakesEffect ==
    AtRest /\ job # Null => \E c \in configs : job.resetTo = c.policy.resetTo

(* save-system-configuration.use-case.ts: no concurrent writer interleaves *)
(* between the read for the audit's before-snapshot and the write.         *)
AuditIsAChain ==
    \A i \in 2..Len(audit) : audit[i].before = audit[i - 1].after

(* save-system-configuration.use-case.ts: categories and routings are      *)
(* fully replaced.                                                         *)
FullyReplaced ==
    [][\A p \in Proc : Commits(p) =>
         CodesIn(stored', "categories") = {c.code : c \in tx[p].draft.categories}]_vars

(* postgres-system-configuration.repository.ts: the upsert always targets  *)
(* the one existing row.                                                   *)
SingletonConfiguration == Cardinality(configs) <= 1
=============================================================================
