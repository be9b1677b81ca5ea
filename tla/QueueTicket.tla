----------------------------- MODULE QueueTicket -----------------------------
(***************************************************************************)
(* The QueueTicket aggregate of core-api: the row it is persisted as and   *)
(* what each of its commands makes of a row that was loaded.  The three    *)
(* lifecycle timestamps are kept as whether they are set; ids, categories  *)
(* and counters are opaque values.                                         *)
(***************************************************************************)
EXTENDS Integers, FiniteSets

CONSTANTS
    TicketId,       \* identities of tickets (UUIDs in the code)
    Category,       \* ids of the configured categories
    Counter,        \* ids of the configured counters
    Status,         \* the state schema: the canonical statuses and the store's own
    Flow,           \* the active StateMachine: its set of transition rules
    Null            \* the null of a nullable column

Canonical == {"WAITING", "CALLING", "SERVING", "COMPLETED", "SKIPPED"}

RequeueKind == {"KEEP", "TO_BACK", "BACK_N"}

(* Every rule joins two states of the schema, and no edge is drawn twice.  *)
ASSUME FlowAssumption ==
    /\ Canonical \subseteq Status
    /\ Flow \subseteq [from : Status, to : Status, kind : RequeueKind, n : Nat]
    /\ \A r, s \in Flow : r.from = s.from /\ r.to = s.to => r = s

ASSUME NullAssumption ==
    /\ Null \notin TicketId \cup Category \cup Counter \cup Status
    /\ IsFiniteSet(TicketId)

IsAllowed(from, to) == \E rule \in Flow : rule.from = from /\ rule.to = to

(* StateMachine.DEFAULT, the flow of a store that has drawn none.          *)
DefaultFlow ==
    { [from |-> edge[1], to |-> edge[2], kind |-> "KEEP", n |-> 0] :
        edge \in { <<"WAITING", "CALLING">>, <<"CALLING", "SERVING">>,
                   <<"CALLING", "SKIPPED">>, <<"SKIPPED", "CALLING">>,
                   <<"SERVING", "COMPLETED">> } }

(* What the edge declares about the waiting order: KEEP for one not drawn. *)
DeclaredPolicy(from, to) ==
    IF IsAllowed(from, to)
    THEN CHOOSE rule \in Flow : rule.from = from /\ rule.to = to
    ELSE [from |-> from, to |-> to, kind |-> "KEEP", n |-> 0]

-----------------------------------------------------------------------------

(* A ticket number: the sequence value printed after the category's code,  *)
(* with the day (and the run of that day's counter, see TicketQueue) it    *)
(* was minted under, which the printed number does not carry.              *)
TicketNumber == [category : Category, day : Int, round : Nat, seq : Nat]

Ticket ==
    [ id           : TicketId,
      number       : TicketNumber,
      category     : Category,
      status       : Status,
      counter      : Counter \cup {Null},
      createdAt    : Nat,
      waitingOrder : Int,
      called       : BOOLEAN,       \* calledAt is set
      served       : BOOLEAN,       \* servedAt is set
      completed    : BOOLEAN ]      \* completedAt is set

(* Mutant: a ticket that goes back to the queue stays assigned.            *)
WaitingAtCounter(ticket) ==
    [ticket EXCEPT !.status = "WAITING",
                   !.called = FALSE, !.served = FALSE, !.completed = FALSE]

(* Back among the waiting: no counter, and no timestamp of the last visit. *)
Waiting(ticket) ==
    [ticket EXCEPT !.status = "WAITING", !.counter = Null,
                   !.called = FALSE, !.served = FALSE, !.completed = FALSE]

(* Mutant: the ticket is built before its number is reserved.              *)
NumberlessTicket(id, number, now) ==
    [ id |-> id, number |-> Null, category |-> number.category,
      status |-> "WAITING", counter |-> Null, createdAt |-> now,
      waitingOrder |-> now, called |-> FALSE, served |-> FALSE,
      completed |-> FALSE ]

NewTicket(id, number, now) ==
    [ id |-> id, number |-> number, category |-> number.category,
      status |-> "WAITING", counter |-> Null, createdAt |-> now,
      waitingOrder |-> now, called |-> FALSE, served |-> FALSE,
      completed |-> FALSE ]

CalledTo(ticket, counter) ==
    [ticket EXCEPT !.status = "CALLING", !.counter = counter, !.called = TRUE]

Reannounced(ticket) == [ticket EXCEPT !.called = TRUE]

(* A transfer is outside the flow: any status goes back to WAITING, keeping *)
(* the ticket's waiting order.                                             *)
Transferred(ticket, number) ==
    [Waiting(ticket) EXCEPT !.category = number.category, !.number = number]

(* applyTransition throws unless this holds.  Calling needs its edge even  *)
(* from CALLING, and a counter; any other status reached already is a      *)
(* no-op.                                                                  *)
CanTransition(ticket, target, counter) ==
    \/ /\ IsAllowed(ticket.status, target)
       /\ target = "CALLING" => (counter # Null \/ ticket.counter # Null)
    \/ ticket.status = target /\ target # "CALLING"

TransitionTo(ticket, target, counter, order) ==
    CASE target = "CALLING" ->
            CalledTo(ticket, IF counter # Null THEN counter ELSE ticket.counter)
      [] target # "CALLING" /\ target = ticket.status -> ticket
      [] target = "WAITING" /\ target # ticket.status ->
            [Waiting(ticket) EXCEPT !.waitingOrder = order]
      [] OTHER ->
            [ticket EXCEPT !.status    = target,
                           !.served    = @ \/ target = "SERVING",
                           !.completed = @ \/ target = "COMPLETED"]

(* The shape of a persisted row: a waiting ticket belongs to no counter    *)
(* and carries no timestamp of an earlier visit, a calling one is at a     *)
(* counter and has been called.                                            *)
WellFormed(ticket) ==
    /\ ticket.status = "WAITING" =>
         /\ ticket.counter = Null
         /\ ~ticket.called /\ ~ticket.served /\ ~ticket.completed
    /\ ticket.status = "CALLING" => ticket.counter # Null /\ ticket.called
=============================================================================
