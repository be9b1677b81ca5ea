----------------------------- MODULE TicketQueue -----------------------------
(***************************************************************************)
(* The queue engine of core-api over PostgreSQL.  Requests run the queue   *)
(* use cases concurrently; each SQL statement is a step, so the locks a    *)
(* transaction holds, what it has read and what it has not yet committed   *)
(* are all visible to the others' steps in between.                        *)
(*                                                                         *)
(* READ COMMITTED: a plain SELECT sees the committed rows; INSERT ... ON   *)
(* CONFLICT, UPDATE, DELETE and SELECT ... FOR UPDATE lock the rows they   *)
(* touch until the transaction ends and wait for a row another one holds.  *)
(***************************************************************************)
EXTENDS QueueTicket, RequeuePosition

CONSTANTS
    Proc,           \* request handlers in flight in the process
    Op,             \* the commands clients issue in this instance
    Routing,        \* counter -> its assigned categories, in priority order
    Priority,       \* counter -> its priority policy
    DayLength,      \* clock units of a day
    RetentionDays,  \* days the archive is kept by a cleanup
    ResetTarget,    \* the values a reset may restart the numbering at
    MaxClock,       \* bound: the last clock value
    MaxIssued,      \* bound: ticket numbers issued
    MaxRound        \* bound: resets of one day's counter

AllOps == {"create", "callNext", "transition", "transfer", "reannounce",
           "reset", "cleanup"}

Policies == {"FIFO_GLOBAL", "CATEGORY_PRIORITY"}

ASSUME TicketQueueAssumption ==
    /\ Op \subseteq AllOps
    /\ Null \notin Proc \cup AllOps \cup Nat \cup Ticket
    /\ Routing \in [Counter -> Seq(Category)]
    /\ Priority \in [Counter -> Policies]
    /\ DayLength \in Nat \ {0}
    /\ RetentionDays \in Nat \ {0}
    /\ ResetTarget \subseteq Nat \ {0}
    /\ MaxClock \in Nat /\ MaxIssued \in Nat /\ MaxRound \in Nat

VARIABLES
    \* committed tables
    tickets,        \* tickets: id -> row, or Null
    archived,       \* archived_tickets: id (its primary key) -> row, or Null
    sequences,      \* sequence_counters: <<category, day>> -> value, or Null
    \* row locks held by open transactions
    rowLock, seqLock,
    \* requests: where each is, its command, the aggregate it holds, the rows
    \* its current statement has still to visit, and those it has dealt with
    pc, cmd, row, todo, done,
    clock,
    announced,      \* ticket -> the number its last broadcast event was about
    \* history: numbers of committed transactions with their tickets, how often
    \* each counter was reset, tickets removed by a cleanup
    issued, round, purged

store   == <<tickets, archived, sequences>>
locks   == <<rowLock, seqLock>>
request == <<pc, cmd, row, todo, done>>
history == <<issued, round, purged>>
vars    == <<store, locks, request, clock, announced, history>>

Day(time) == time \div DayLength

Days == {Day(time) : time \in 0..MaxClock}

(* The primary key of sequence_counters.                                   *)
CounterKey == Category \X Days

(* silent: a transition to the status the ticket is in, which records no   *)
(* event.                                                                  *)
Command ==
    [ op : AllOps \cup {Null}, id : TicketId \cup {Null},
      category : Category \cup {Null}, counter : Counter \cup {Null},
      target : Status \cup {Null}, silent : BOOLEAN,
      n : Nat, now : 0..MaxClock, resetTo : Nat \ {0} ]

NoCommand == [op |-> Null, id |-> Null, category |-> Null, counter |-> Null,
              target |-> Null, silent |-> FALSE, n |-> 0, now |-> 0, resetTo |-> 1]

(* A row a statement visits, and when: by the order it is to be given, or  *)
(* its rank in the statement's ORDER BY.                                   *)
Visit == [id : TicketId \cup Category, order : Int]

-----------------------------------------------------------------------------
(* Selecting tickets *)

IdsOf(visits) == {visit.id : visit \in visits}

IsWaitingIn(t, categories) ==
    tickets[t] # Null /\ tickets[t].status = "WAITING" /\ tickets[t].category \in categories

Categories(k) == {Routing[k][i] : i \in DOMAIN Routing[k]}

(* array_position($2, category_id)                                         *)
Rank(k, category) ==
    CHOOSE i \in DOMAIN Routing[k] :
        /\ Routing[k][i] = category
        /\ \A j \in 1..(i - 1) : Routing[k][j] # category

(* ORDER BY waiting_order, created_at                                      *)
InQueueOrder(a, b) ==
    \/ a.waitingOrder < b.waitingOrder
    \/ a.waitingOrder = b.waitingOrder /\ a.createdAt < b.createdAt

(* The order counter k calls its waiting tickets in.  (Mutant: its policy   *)
(* is ignored.)                                                            *)
CalledInIssueOrder(k, a, b) == InQueueOrder(a, b)

CalledBefore(k, a, b) ==
    IF Priority[k] = "CATEGORY_PRIORITY" /\ Rank(k, a.category) # Rank(k, b.category)
    THEN Rank(k, a.category) < Rank(k, b.category)
    ELSE InQueueOrder(a, b)

(* The sequences ORDER BY waiting_order, created_at may return S in: it     *)
(* breaks ties as it likes.                                                *)
InOrder(S) ==
    { s \in [1..Cardinality(S) -> S] :
        \A i, j \in DOMAIN s : i < j => s[i] # s[j] /\ ~InQueueOrder(s[j], s[i]) }

WaitingFor(k) == {tickets[t] : t \in {u \in TicketId : IsWaitingIn(u, Categories(k))}}

(* The category's waiting tickets without the one being re-queued.         *)
Mates(ticket) ==
    { tickets[t] : t \in {u \in TicketId \ {ticket.id} : IsWaitingIn(u, {ticket.category})} }

(* What a statement visits: in the order counter k calls, or in any order. *)
InTurn(k, S) ==
    { [id |-> a.id, order |-> Cardinality({b \in S : CalledBefore(k, b, a)})] : a \in S }

InAnyOrder(ids) == {[id |-> i, order |-> 0] : i \in ids}

-----------------------------------------------------------------------------
(* Requests *)

Start(p, command, ticket, visits, at) ==
    /\ pc[p] = "idle"
    /\ pc'   = [pc EXCEPT ![p] = at]
    /\ cmd'  = [cmd EXCEPT ![p] = command]
    /\ row'  = [row EXCEPT ![p] = ticket]
    /\ todo' = [todo EXCEPT ![p] = visits]
    /\ UNCHANGED <<store, locks, done, clock, announced, history>>

(* The request has answered, or its transaction was rolled back.           *)
Finish(p) ==
    /\ pc'   = [pc EXCEPT ![p] = "idle"]
    /\ cmd'  = [cmd EXCEPT ![p] = NoCommand]
    /\ row'  = [row EXCEPT ![p] = Null]
    /\ todo' = [todo EXCEPT ![p] = {}]
    /\ done' = [done EXCEPT ![p] = {}]

(* Mutant: a transaction that ends keeps the counters it has locked.       *)
ReleaseRowsOnly(p) ==
    /\ rowLock' = [t \in TicketId |-> IF rowLock[t] = p THEN Null ELSE rowLock[t]]
    /\ UNCHANGED seqLock

Release(p) ==
    /\ rowLock' = [t \in TicketId |-> IF rowLock[t] = p THEN Null ELSE rowLock[t]]
    /\ seqLock' = [k \in CounterKey |-> IF seqLock[k] = p THEN Null ELSE seqLock[k]]

GoTo(p, at) == pc' = [pc EXCEPT ![p] = at]

(* Bounds the numbers a behaviour issues, those being reserved included.   *)
MayIssue ==
    Cardinality(issued)
      + Cardinality({q \in Proc : cmd[q].op \in {"create", "transfer"}}) < MaxIssued

(* A fresh UUID. *)
IsFresh(t) ==
    (\A mint \in issued : mint.id # t) /\ (\A q \in Proc : cmd[q].id # t)

CreateTicket(p, t, c) ==
    /\ "create" \in Op /\ IsFresh(t) /\ MayIssue
    /\ Start(p, [NoCommand EXCEPT !.op = "create", !.id = t, !.category = c, !.now = clock],
             Null, {}, "reserve")

(* Reads the flow and the counter's routing, then the snapshot that SELECT *)
(* ... FOR UPDATE LIMIT 1 walks.  No row: `empty', nothing changes.        *)
CallNext(p, k) ==
    /\ "callNext" \in Op
    /\ WaitingFor(k) # {}
    /\ Start(p, [NoCommand EXCEPT !.op = "callNext", !.counter = k, !.now = clock],
             Null, InTurn(k, WaitingFor(k)), "lock")

(* findById takes no lock: the aggregate may be stale when it is saved.    *)
(* Only a transition into CALLING reads the counter it was sent.           *)
ApplyTransition(p, t, target, k) ==
    /\ "transition" \in Op
    /\ tickets[t] # Null
    /\ target # "CALLING" => k = Null
    /\ CanTransition(tickets[t], target, k)
    /\ LET policy  == DeclaredPolicy(tickets[t].status, target)
           command == [NoCommand EXCEPT !.op = "transition", !.id = t, !.counter = k,
                                        !.target = target, !.n = policy.n, !.now = clock,
                                        !.silent = target = tickets[t].status
                                                     /\ target # "CALLING"]
           order   == IF policy.kind = "TO_BACK" THEN clock ELSE tickets[t].waitingOrder
       IN  IF target = "WAITING" /\ policy.kind = "BACK_N"
           THEN Start(p, command, tickets[t], {}, "plan")
           ELSE Start(p, command, TransitionTo(tickets[t], target, k, order), {}, "save")

(* The ticket is read, and checked, before the transaction begins.         *)
Transfer(p, t, c) ==
    /\ "transfer" \in Op /\ MayIssue
    /\ tickets[t] # Null
    /\ tickets[t].status # "COMPLETED"
    /\ tickets[t].category # c
    /\ Start(p, [NoCommand EXCEPT !.op = "transfer", !.id = t, !.category = c, !.now = clock],
             tickets[t], {}, "reserve")

(* No transaction: the read and the upsert are two statements.             *)
Reannounce(p, t) ==
    /\ "reannounce" \in Op
    /\ tickets[t] # Null
    /\ tickets[t].status = "CALLING"
    /\ Start(p, [NoCommand EXCEPT !.op = "reannounce", !.id = t, !.now = clock],
             Reannounced(tickets[t]), {}, "save")

IsOld(t, now) == tickets[t] # Null /\ Day(tickets[t].createdAt) < Day(now)

(* The counters of a day that have a row.                                  *)
CountersOf(day) == {c \in Category : sequences[<<c, day>>] # Null}

(* The cron job's or the administrator's reset, with or without archiving. *)
(* The DELETE visits the old rows in whatever order they lie in the table. *)
ResetDaily(p, value, archive) ==
    /\ "reset" \in Op
    /\ \A k \in CounterKey : sequences[k] # Null => round[k] < MaxRound
    /\ LET command == [NoCommand EXCEPT !.op = "reset", !.now = clock, !.resetTo = value]
       IN  IF archive
           THEN Start(p, command, Null, InAnyOrder({t \in TicketId : IsOld(t, clock)}),
                      "archive")
           ELSE Start(p, command, Null, InAnyOrder(CountersOf(Day(clock))),
                      "resetSequences")

(* One DELETE on the archive, committed with its audit entry.              *)
Cleanup ==
    /\ "cleanup" \in Op
    /\ LET expired == { t \in TicketId :
                          /\ archived[t] # Null
                          /\ archived[t].createdAt < (Day(clock) - RetentionDays) * DayLength }
       IN  /\ expired # {}
           /\ archived' = [t \in TicketId |-> IF t \in expired THEN Null ELSE archived[t]]
           /\ purged' = purged \cup expired
    /\ UNCHANGED <<tickets, sequences, locks, request, clock, announced, issued, round>>

-----------------------------------------------------------------------------
(* Statements of an open transaction *)

(* The statement p is at comes to this row next.                           *)
Visiting(p, visit) ==
    visit \in todo[p] /\ \A other \in todo[p] : visit.order <= other.order

(* The day of the command, however long the request takes.  (Mutant: the   *)
(* day each statement runs on.)                                            *)
NumberKeyNow(p) == <<cmd[p].category, Day(clock)>>

NumberKey(p) == <<cmd[p].category, Day(cmd[p].now)>>

(* What a counter would hand out next: a missing one begins at 1.          *)
NextSeq(key) == IF sequences[key] = Null THEN 1 ELSE sequences[key] + 1

NextNumber(key) ==
    [category |-> key[1], day |-> key[2], round |-> round[key], seq |-> NextSeq(key)]

(* The commands that issue a number.                                       *)
Issues(p) == cmd[p].op \in {"create", "transfer"}

(* An upsert or UPDATE of a counter's row: it stays locked until the end.  *)
(* (Mutant: the statement commits on its own.)                             *)
ReadCounter(p, key) == UNCHANGED seqLock

TakeCounter(p, key) ==
    /\ seqLock[key] = Null
    /\ seqLock' = [seqLock EXCEPT ![key] = p]

(* nextTicketNumber.                                                       *)
Reserve(p) ==
    LET key    == NumberKey(p)
        number == NextNumber(key)
    IN  /\ pc[p] = "reserve"
        /\ TakeCounter(p, key)
        /\ row' = [row EXCEPT ![p] = IF cmd[p].op = "create"
                                     THEN NewTicket(cmd[p].id, number, cmd[p].now)
                                     ELSE Transferred(row[p], number)]
        /\ GoTo(p, "save")
        /\ UNCHANGED <<store, rowLock, cmd, todo, done, clock, announced, history>>

(* Mutant: the number had been taken outside the transaction.              *)
RollbackOfTheTicketOnly(p) ==
    /\ sequences' = IF Issues(p) /\ row[p] # Null /\ pc[p] # "reserve"
                    THEN [sequences EXCEPT ![NumberKey(p)] = row[p].number.seq]
                    ELSE sequences
    /\ Release(p)
    /\ Finish(p)
    /\ UNCHANGED <<tickets, archived, clock, announced, history>>

Rollback(p) ==
    /\ Release(p)
    /\ Finish(p)
    /\ UNCHANGED <<store, clock, announced, history>>

(* EvalPlanQual: the statement's WHERE on the row as it now is.  (Mutant:   *)
(* it is enough that the row is still there.)                              *)
StillThere(p, t) == tickets[t] # Null

StillWaits(p, t) == IsWaitingIn(t, Categories(cmd[p].counter))

(* FOR UPDATE: waits for the candidate's lock, then checks the row as it   *)
(* now is.  One that still waits in the counter's categories is claimed;   *)
(* one that no longer does is passed over.                                 *)
LockNext(p, visit) ==
    LET t == visit.id
        k == cmd[p].counter
    IN  /\ pc[p] = "lock"
        /\ Visiting(p, visit)
        /\ rowLock[t] = Null
        /\ todo' = [todo EXCEPT ![p] = @ \ {visit}]
        /\ IF StillWaits(p, t)
           THEN /\ IsAllowed("WAITING", "CALLING")
                /\ rowLock' = [rowLock EXCEPT ![t] = p]
                /\ row' = [row EXCEPT ![p] = CalledTo(tickets[t], k)]
                /\ GoTo(p, "save")
                /\ UNCHANGED done
           ELSE /\ done' = [done EXCEPT ![p] = @ \cup {visit}]
                /\ UNCHANGED <<rowLock, row, pc>>
        /\ UNCHANGED <<store, seqLock, cmd, clock, announced, history>>

(* Every candidate was taken (`empty'), or the flow has no edge to call by *)
(* (a 409).                                                                *)
NothingToCall(p) ==
    /\ pc[p] = "lock"
    /\ todo[p] = {} \/ ~IsAllowed("WAITING", "CALLING")
    /\ Rollback(p)

(* BACK_N: reads the category's waiting tickets and places the ticket.     *)
PlanRequeue(p) ==
    /\ pc[p] = "plan"
    /\ \E mates \in InOrder(Mates(row[p])) :
         LET plan == RepositionPlan(cmd[p].n, mates, clock)
         IN  /\ row' = [row EXCEPT ![p] =
                          TransitionTo(row[p], "WAITING", cmd[p].counter, plan.order)]
             /\ todo' = [todo EXCEPT ![p] = plan.siblings]
    /\ GoTo(p, "save")
    /\ UNCHANGED <<store, locks, cmd, done, clock, announced, history>>

(* The upsert of the whole row, whatever became of it since it was read.   *)
Save(p) ==
    /\ pc[p] = "save"
    /\ rowLock[row[p].id] \in {Null, p}
    /\ rowLock' = [rowLock EXCEPT ![row[p].id] = p]
    /\ IF cmd[p].op = "transition" /\ todo[p] # {}
       THEN GoTo(p, "assign") ELSE GoTo(p, "commit")
    /\ UNCHANGED <<store, seqLock, cmd, row, todo, done, clock, announced, history>>

(* assignWaitingOrders: one UPDATE per sibling; a row that is gone matches *)
(* none.                                                                   *)
AssignOrder(p, visit) ==
    /\ pc[p] = "assign"
    /\ Visiting(p, visit)
    /\ rowLock[visit.id] \in {Null, p}
    /\ IF tickets[visit.id] = Null
       THEN UNCHANGED <<rowLock, done>>
       ELSE /\ rowLock' = [rowLock EXCEPT ![visit.id] = p]
            /\ done' = [done EXCEPT ![p] = @ \cup {visit}]
    /\ todo' = [todo EXCEPT ![p] = @ \ {visit}]
    /\ GoTo(p, IF todo[p] = {visit} THEN "commit" ELSE "assign")
    /\ UNCHANGED <<store, seqLock, cmd, row, clock, announced, history>>

(* The DELETE of archiveTicketsBefore, row by row.                         *)
ArchiveRow(p, visit) ==
    /\ pc[p] = "archive"
    /\ Visiting(p, visit)
    /\ rowLock[visit.id] = Null
    /\ rowLock' = [rowLock EXCEPT ![visit.id] = p]
    /\ done' = [done EXCEPT ![p] = @ \cup {visit}]
    /\ todo' = [todo EXCEPT ![p] = @ \ {visit}]
    /\ UNCHANGED <<store, seqLock, pc, cmd, row, clock, announced, history>>

(* ... and its INSERT, which fails on an id the archive already has.       *)
InsertArchived(p) ==
    /\ pc[p] = "archive"
    /\ todo[p] = {}
    /\ IF \E t \in IdsOf(done[p]) : archived[t] # Null
       THEN Rollback(p)
       ELSE /\ todo' = [todo EXCEPT ![p] = InAnyOrder(CountersOf(Day(cmd[p].now)))]
            /\ GoTo(p, "resetSequences")
            /\ UNCHANGED <<store, locks, cmd, row, done, clock, announced, history>>

(* resetDaily is an UPDATE of the counters that exist.                     *)
ResetKey(p, visit) == <<visit.id, Day(cmd[p].now)>>

ResetSequence(p, visit) ==
    /\ pc[p] = "resetSequences"
    /\ Visiting(p, visit)
    /\ TakeCounter(p, ResetKey(p, visit))
    /\ todo' = [todo EXCEPT ![p] = @ \ {visit}]
    /\ UNCHANGED <<store, rowLock, pc, cmd, row, done, clock, announced, history>>

-----------------------------------------------------------------------------
(* Ends of a request *)

(* assignWaitingOrders.  (Mutant: it upserts the siblings as the plan read *)
(* them.)                                                                  *)
SavedAgain(t, visits) ==
    [tickets[t] EXCEPT !.status = "WAITING", !.counter = Null, !.called = FALSE,
        !.waitingOrder = (CHOOSE visit \in visits : visit.id = t).order]

Reordered(t, visits) ==
    [tickets[t] EXCEPT !.waitingOrder =
        (CHOOSE visit \in visits : visit.id = t).order]

Commit(p) ==
    /\ pc[p] = "commit"
    /\ tickets' = [t \in TicketId |->
         IF t = row[p].id THEN row[p]
         ELSE IF cmd[p].op = "transition" /\ t \in IdsOf(done[p])
              THEN Reordered(t, done[p])
              ELSE tickets[t]]
    /\ IF Issues(p)
       THEN /\ sequences' = [sequences EXCEPT ![NumberKey(p)] = row[p].number.seq]
            /\ issued' = issued \cup {[id |-> row[p].id, number |-> row[p].number]}
       ELSE UNCHANGED <<sequences, issued>>
    /\ Release(p)
    /\ GoTo(p, "dispatch")
    /\ UNCHANGED <<archived, cmd, row, todo, done, clock, announced, round, purged>>

(* The archive once the DELETE's rows are in it.  (Mutant: they are only   *)
(* deleted.)                                                               *)
ArchiveWithout(old) == archived

ArchiveWith(old) == [t \in TicketId |-> IF t \in old THEN tickets[t] ELSE archived[t]]

(* A statement that still had a deleted row to visit finds it gone.        *)
CommitReset(p) ==
    LET old == IdsOf(done[p])
    IN  /\ pc[p] = "resetSequences"
        /\ todo[p] = {}
        /\ tickets'  = [t \in TicketId |-> IF t \in old THEN Null ELSE tickets[t]]
        /\ archived' = ArchiveWith(old)
        /\ sequences' = [k \in CounterKey |->
                            IF seqLock[k] = p THEN cmd[p].resetTo - 1 ELSE sequences[k]]
        /\ round' = [k \in CounterKey |->
                            IF seqLock[k] = p THEN round[k] + 1 ELSE round[k]]
        /\ todo' = [q \in Proc |-> IF pc[q] \in {"lock", "archive"}
                                   THEN {v \in todo[q] : v.id \notin old} ELSE todo[q]]
        /\ Release(p)
        /\ GoTo(p, "dispatch")
        /\ UNCHANGED <<cmd, row, done, clock, announced, issued, purged>>

(* The events are broadcast once the transaction has committed.  (Mutant:  *)
(* as soon as it has written.)                                             *)
HasWritten(p) == pc[p] \in {"commit", "dispatch"}

HasCommitted(p) == pc[p] = "dispatch"

Dispatch(p) ==
    /\ HasCommitted(p)
    /\ announced' = IF row[p] = Null \/ cmd[p].silent THEN announced
                    ELSE [announced EXCEPT ![row[p].id] = row[p].number]
    /\ Finish(p)
    /\ UNCHANGED <<store, locks, clock, history>>

InTransaction(p) == pc[p] \notin {"idle", "dispatch"}

(* A statement fails, the connection drops, the handler throws.            *)
Abort(p) == InTransaction(p) /\ Rollback(p)

(* p waits for a lock q holds.                                             *)
WaitsFor(p, q) ==
    /\ p # q
    /\ \/ pc[p] = "reserve" /\ seqLock[NumberKey(p)] = q
       \/ pc[p] = "save" /\ rowLock[row[p].id] = q
       \/ \E visit \in todo[p] :
            /\ Visiting(p, visit)
            /\ \/ pc[p] \in {"lock", "assign", "archive"} /\ rowLock[visit.id] = q
               \/ pc[p] = "resetSequences" /\ seqLock[ResetKey(p, visit)] = q

Deadlocked(S) == S # {} /\ \A p \in S : \E q \in S : WaitsFor(p, q)

(* After deadlock_timeout PostgreSQL fails one of a deadlock's statements. *)
DeadlockVictim(p) == (\E S \in SUBSET Proc : p \in S /\ Deadlocked(S)) /\ Rollback(p)

(* Power cut, or the process dies: every request and open transaction is   *)
(* gone, what was committed stays.                                         *)
Crash ==
    /\ \E p \in Proc : pc[p] # "idle"
    /\ pc'   = [p \in Proc |-> "idle"]
    /\ cmd'  = [p \in Proc |-> NoCommand]
    /\ row'  = [p \in Proc |-> Null]
    /\ todo' = [p \in Proc |-> {}]
    /\ done' = [p \in Proc |-> {}]
    /\ rowLock' = [t \in TicketId |-> Null]
    /\ seqLock' = [k \in CounterKey |-> Null]
    /\ UNCHANGED <<store, clock, announced, history>>

Tick ==
    /\ clock < MaxClock
    /\ clock' = clock + 1
    /\ UNCHANGED <<store, locks, request, announced, history>>

-----------------------------------------------------------------------------
(* The specification *)

Init ==
    /\ tickets   = [t \in TicketId |-> Null]
    /\ archived  = [t \in TicketId |-> Null]
    /\ sequences = [k \in CounterKey |-> Null]
    /\ rowLock   = [t \in TicketId |-> Null]
    /\ seqLock   = [k \in CounterKey |-> Null]
    /\ pc   = [p \in Proc |-> "idle"]
    /\ cmd  = [p \in Proc |-> NoCommand]
    /\ row  = [p \in Proc |-> Null]
    /\ todo = [p \in Proc |-> {}]
    /\ done = [p \in Proc |-> {}]
    /\ clock = 0
    /\ announced = [t \in TicketId |-> Null]
    /\ issued = {}
    /\ round  = [k \in CounterKey |-> 0]
    /\ purged = {}

(* A client issues a command.                                              *)
Request(p) ==
    \/ \E t \in TicketId, c \in Category : CreateTicket(p, t, c) \/ Transfer(p, t, c)
    \/ \E k \in Counter : CallNext(p, k)
    \/ \E t \in TicketId, target \in Status, k \in Counter \cup {Null} :
          ApplyTransition(p, t, target, k)
    \/ \E t \in TicketId : Reannounce(p, t)
    \/ \E value \in ResetTarget, archive \in BOOLEAN : ResetDaily(p, value, archive)

(* A request in flight goes on.                                            *)
Continue(p) ==
    \/ Reserve(p) \/ NothingToCall(p) \/ PlanRequeue(p) \/ Save(p) \/ InsertArchived(p)
    \/ \E visit \in todo[p] : \/ LockNext(p, visit) \/ AssignOrder(p, visit)
                              \/ ArchiveRow(p, visit) \/ ResetSequence(p, visit)
    \/ Commit(p) \/ CommitReset(p) \/ Dispatch(p)

Next ==
    \/ \E p \in Proc : Request(p) \/ Continue(p) \/ Abort(p) \/ DeadlockVictim(p)
    \/ Cleanup
    \/ Crash
    \/ Tick

Spec == Init /\ [][Next]_vars

(* PostgreSQL queues the waiters of a row first come, first served, and the *)
(* event loop runs every callback that is ready: a request that can go on   *)
(* again and again does.  A deadlock is broken after deadlock_timeout.      *)
Fairness ==
    \A p \in Proc : SF_vars(Continue(p)) /\ WF_vars(DeadlockVictim(p))

FairSpec == Spec /\ Fairness

-----------------------------------------------------------------------------
(* Type correctness: the shape of the tables, the lock tables and the      *)
(* requests of queue-ticket.aggregate.ts and the queue use cases.          *)

PC == {"idle", "reserve", "lock", "plan", "save", "assign", "archive",
       "resetSequences", "commit", "dispatch"}

(* What a request carries at each of its steps.                            *)
RequestShape(p) ==
    /\ pc[p] = "idle" => cmd[p].op = Null /\ done[p] = {}
    /\ Issues(p) => cmd[p].id \in TicketId /\ cmd[p].category \in Category
    /\ cmd[p].op = "callNext" => cmd[p].counter \in Counter
    /\ cmd[p].op \in {"transition", "reset"} => IdsOf(done[p]) \subseteq TicketId
    /\ pc[p] = "reserve" => Issues(p) /\ (cmd[p].op = "transfer" => row[p] \in Ticket)
    /\ pc[p] = "lock" => cmd[p].op = "callNext"
    /\ pc[p] \in {"plan", "assign"} => cmd[p].op = "transition"
    /\ pc[p] \in {"archive", "resetSequences"} => cmd[p].op = "reset"
    /\ pc[p] \in {"plan", "save", "assign", "commit"} => row[p] \in Ticket
    /\ pc[p] \in {"reserve", "lock", "plan", "save", "assign", "archive"} =>
          IdsOf(todo[p]) \subseteq TicketId
    /\ pc[p] = "resetSequences" => IdsOf(todo[p]) \subseteq Category

Mint == [id : TicketId, number : TicketNumber]

TypeOK ==
    /\ tickets   \in [TicketId -> Ticket \cup {Null}]
    /\ archived  \in [TicketId -> Ticket \cup {Null}]
    /\ sequences \in [CounterKey -> Nat \cup {Null}]
    /\ rowLock   \in [TicketId -> Proc \cup {Null}]
    /\ seqLock   \in [CounterKey -> Proc \cup {Null}]
    /\ pc   \in [Proc -> PC]
    /\ cmd  \in [Proc -> Command]
    /\ row  \in [Proc -> Ticket \cup {Null}]
    /\ todo \in [Proc -> SUBSET Visit]
    /\ done \in [Proc -> SUBSET Visit]
    /\ clock \in 0..MaxClock
    /\ announced \in [TicketId -> TicketNumber \cup {Null}]
    /\ issued \subseteq Mint
    /\ round  \in [CounterKey -> Nat]
    /\ purged \subseteq TicketId
    /\ \A t \in TicketId : \A stored \in {tickets[t], archived[t]} \ {Null} : stored.id = t
    /\ \A p \in Proc : RequestShape(p)

-----------------------------------------------------------------------------
(* Safety *)

HoldsItsLocks(p) ==
    /\ pc[p] \in {"assign", "commit"} => rowLock[row[p].id] = p
    /\ pc[p] \in {"save", "commit"} /\ Issues(p) => seqLock[NumberKey(p)] = p
    /\ InTransaction(p) /\ cmd[p].op \in {"transition", "reset"} =>
          \A t \in IdsOf(done[p]) : rowLock[t] = p /\ tickets[t] # Null
    /\ pc[p] = "archive" => \A t \in IdsOf(todo[p]) : tickets[t] # Null

(* A transaction holds the lock of every row it is going to write and of   *)
(* the counter its number comes from, and a row it is going to re-order or *)
(* archive is still there: so no two transactions' writes ever overlap     *)
(* (save, assignWaitingOrders, archiveTicketsBefore, nextTicketNumber).    *)
WritesAreLocked == \A p \in Proc : HoldsItsLocks(p)

HoldsItsClaim(p) ==
    cmd[p].op = "callNext" /\ pc[p] \in {"save", "commit"} =>
        /\ rowLock[row[p].id] = p
        /\ IsWaitingIn(row[p].id, Categories(cmd[p].counter))

(* A call-next request that has picked its ticket holds the row's lock, and *)
(* the row still waits in the counter's categories: whatever the others     *)
(* commit meanwhile, no ticket is claimed twice or called when it is gone   *)
(* (findNextWaiting's FOR UPDATE).                                          *)
ClaimIsExclusive == \A p \in Proc : HoldsItsClaim(p)

(* Two tickets never get one number, through concurrent creations and      *)
(* transfers, rollbacks, crashes and resets (nextTicketNumber).  A number  *)
(* a reset lets the counter print again belongs to a later round.          *)
NumbersAreUnique ==
    \A m, n \in issued : m.number = n.number => m.id = n.id

SeqsOf(k) ==
    { m.number.seq : m \in { i \in issued :
        <<i.number.category, i.number.day>> = k /\ i.number.round = round[k] } }

(* No number is skipped: those of a counter's current round are contiguous *)
(* and end at its value, a reservation that was rolled back or lost in a   *)
(* crash included (create and transfer reserve inside the transaction).    *)
NoGaps ==
    \A k \in CounterKey : SeqsOf(k) # {} =>
        \E first \in SeqsOf(k) : SeqsOf(k) = first..sequences[k]

(* A ticket that was issued stays in one of the two stores until a cleanup *)
(* removes it, whatever resets, aborts and crashes do in between.          *)
NoTicketLost ==
    \A m \in issued : tickets[m.id] # Null \/ archived[m.id] # Null \/ m.id \in purged

(* Clients hear of committed changes only (the dispatch after the commit). *)
OnlyCommittedAnnounced ==
    \A t \in TicketId : announced[t] # Null => [id |-> t, number |-> announced[t]] \in issued

(* A waiting row has no counter and no timestamp of an earlier visit, a    *)
(* calling one is at a counter, also when rows are written from stale      *)
(* copies (the aggregate's commands, the whole-row upsert).                *)
RowShape ==
    \A t \in TicketId : \A stored \in {tickets[t], archived[t]} \ {Null} : WellFormed(stored)

(* Where tickets never come back to the queue, a call-next takes the first *)
(* of the tickets its counter could call when it looked, of those nobody   *)
(* else had taken: by the counter's category order when its policy says    *)
(* so, then by issue time.                                                 *)
ComesFirst(k, a, b) ==
    \/ Priority[k] = "CATEGORY_PRIORITY" /\ Rank(k, a.category) < Rank(k, b.category)
    \/ /\ Priority[k] = "CATEGORY_PRIORITY" => a.category = b.category
       /\ a.createdAt < b.createdAt

TakesTheFirstStillWaiting ==
    \A p \in Proc :
        cmd[p].op = "callNext" /\ pc[p] \in {"save", "commit"} =>
            /\ \A t \in IdsOf(done[p]) : tickets[t].status # "WAITING"
            /\ \A t \in IdsOf(todo[p]) :
                  ~ComesFirst(cmd[p].counter, tickets[t], row[p])

(* A renumbering writes the neighbours' orders and nothing else: a ticket  *)
(* called between the plan and the commit stays called                     *)
(* (assignWaitingOrders is a targeted UPDATE, never a whole-row upsert).   *)
(* And no commit, from however stale a copy, leaves a row out of shape.    *)
Commits(p) == pc[p] = "commit" /\ pc'[p] = "dispatch"

RequeuesKeepTheRest ==
    [][\A p \in Proc : Commits(p) =>
         /\ RowShape'
         /\ \A t \in TicketId \ {row[p].id} : tickets[t] # Null =>
               tickets'[t] = [tickets[t] EXCEPT !.waitingOrder = tickets'[t].waitingOrder]]_vars

-----------------------------------------------------------------------------
(* Liveness *)

(* Every request is answered: whoever waits for a lock gets it, and        *)
(* deadlocked transactions are broken up.                                  *)
EveryRequestEnds == \A p \in Proc : pc[p] # "idle" ~> pc[p] = "idle"

-----------------------------------------------------------------------------
(* What the code says of itself and does not keep *)

(* reannounce-ticket.use-case.ts: a re-announcement `without a state       *)
(* change'.                                                                *)
ReannounceKeepsStatus ==
    [][\A p \in Proc : Commits(p) /\ cmd[p].op = "reannounce" /\ tickets[row[p].id] # Null
         => tickets'[row[p].id].status = tickets[row[p].id].status]_vars


(* transfer-ticket.use-case.ts: a COMPLETED ticket cannot be re-queued via *)
(* transfer.                                                               *)
CompletedIsNotRequeued ==
    [][\A p \in Proc : Commits(p) /\ cmd[p].op = "transfer" /\ tickets[row[p].id] # Null
         => tickets[row[p].id].status # "COMPLETED"]_vars

(* requeue-position.helper.ts: a renumbering never writes another          *)
(* category's tickets.                                                     *)
OtherCategoriesAreNeverWritten ==
    [][\A p \in Proc : Commits(p) => \A t \in TicketId \ {row[p].id} :
         tickets[t] # Null /\ tickets[t].category # row[p].category =>
            tickets'[t].waitingOrder = tickets[t].waitingOrder]_vars

(* ticket-archive.port.ts: archiving relocates a ticket, so it is never in *)
(* both stores.                                                            *)
ArchivedIsRelocated ==
    \A t \in TicketId : tickets[t] = Null \/ archived[t] = Null

(* postgres-sequence.repository.ts: after a reset the day's next number is *)
(* the value asked for.                                                    *)
ResetIsHonoured ==
    [][\A p \in Proc : CommitReset(p) =>
         \A c \in Category : NextSeq(<<c, Day(cmd[p].now)>>)' = cmd[p].resetTo]_vars
=============================================================================
