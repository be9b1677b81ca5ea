-------------------------- MODULE TicketQueue_proofs --------------------------
(***************************************************************************)
(* What holds of the queue engine for any number of tickets, categories,   *)
(* counters and concurrent requests.                                       *)
(***************************************************************************)
EXTENDS TicketQueue, FiniteSetTheorems, WellFoundedInduction, TLAPS

-----------------------------------------------------------------------------
(* The data *)

LEMMA DayType == \A time \in 0..MaxClock : Day(time) \in Int /\ Day(time) \in Days
<1>. TAKE time \in 0..MaxClock
<1>1. Day(time) \in Days
  BY DEF Days
<1>2. Day(time) \in Int
  BY TicketQueueAssumption DEF Day
<1>. QED BY <1>1, <1>2

LEMMA NumberKeyType ==
    ASSUME TypeOK, NEW p \in Proc, cmd[p].category \in Category
    PROVE  NumberKey(p) \in CounterKey
BY DayType DEF TypeOK, Command, NumberKey, CounterKey

(* Every command of the aggregate makes a ticket of a ticket.              *)
LEMMA TicketCommandsType ==
    /\ \A t \in TicketId, number \in TicketNumber, now \in Nat :
          NewTicket(t, number, now) \in Ticket
    /\ \A ticket \in Ticket, k \in Counter : CalledTo(ticket, k) \in Ticket
    /\ \A ticket \in Ticket : Reannounced(ticket) \in Ticket
    /\ \A ticket \in Ticket : Waiting(ticket) \in Ticket
    /\ \A ticket \in Ticket, number \in TicketNumber : Transferred(ticket, number) \in Ticket
<1>0. {"WAITING", "CALLING"} \subseteq Status
  BY FlowAssumption DEF Canonical
<1>1. \A t \in TicketId, number \in TicketNumber, now \in Nat : NewTicket(t, number, now) \in Ticket
  BY <1>0 DEF NewTicket, Ticket, TicketNumber
<1>2. \A ticket \in Ticket, k \in Counter : CalledTo(ticket, k) \in Ticket
  BY <1>0 DEF CalledTo, Ticket
<1>3. \A ticket \in Ticket : Reannounced(ticket) \in Ticket
  BY DEF Reannounced, Ticket
<1>4. \A ticket \in Ticket : Waiting(ticket) \in Ticket
  BY <1>0 DEF Waiting, Ticket
<1>5. \A ticket \in Ticket, number \in TicketNumber : Transferred(ticket, number) \in Ticket
  BY <1>4 DEF Transferred, Ticket, TicketNumber
<1>. QED BY <1>1, <1>2, <1>3, <1>4, <1>5

LEMMA TransitionType ==
    ASSUME NEW ticket \in Ticket, NEW target \in Status, NEW k \in Counter \cup {Null},
           NEW order \in Int, target = "CALLING" => k # Null \/ ticket.counter # Null
    PROVE  TransitionTo(ticket, target, k, order) \in Ticket
<1>1. CASE target = "CALLING"
  <2>1. (IF k # Null THEN k ELSE ticket.counter) \in Counter
    BY <1>1 DEF Ticket
  <2>. QED BY <1>1, <2>1, TicketCommandsType DEF TransitionTo
<1>2. CASE target # "CALLING" /\ target = ticket.status
  BY <1>2 DEF TransitionTo
<1>3. CASE target = "WAITING" /\ target # ticket.status
  <2>1. Waiting(ticket) \in Ticket
    BY TicketCommandsType
  <2>2. TransitionTo(ticket, target, k, order) = [Waiting(ticket) EXCEPT !.waitingOrder = order]
    BY <1>3 DEF TransitionTo
  <2>. QED BY <2>1, <2>2 DEF Ticket
<1>4. CASE target # "CALLING" /\ target # ticket.status /\ target # "WAITING"
  <2>1. TransitionTo(ticket, target, k, order) =
            [ticket EXCEPT !.status    = target,
                           !.served    = @ \/ target = "SERVING",
                           !.completed = @ \/ target = "COMPLETED"]
    BY <1>4 DEF TransitionTo
  <2>. QED BY <2>1 DEF Ticket
<1>. QED BY <1>1, <1>2, <1>3, <1>4

LEMMA PolicyType ==
    \A from, to \in Status : DeclaredPolicy(from, to) \in [from : Status, to : Status, kind : RequeueKind, n : Nat]
<1>. TAKE from, to \in Status
<1>1. CASE IsAllowed(from, to)
  <2>1. \E rule \in Flow : rule.from = from /\ rule.to = to
    BY <1>1 DEF IsAllowed
  <2>2. DeclaredPolicy(from, to) = CHOOSE rule \in Flow : rule.from = from /\ rule.to = to
    BY <1>1 DEF DeclaredPolicy
  <2>3. DeclaredPolicy(from, to) \in Flow
    BY <2>1, <2>2
  <2>. QED BY <2>3, FlowAssumption
<1>2. CASE ~IsAllowed(from, to)
  BY <1>2 DEF DeclaredPolicy, RequeueKind
<1>. QED BY <1>1, <1>2

(* Requests visit finitely many rows, at a rank that is a number.          *)
LEMMA FiniteRows ==
    ASSUME NEW S, S \subseteq TicketId
    PROVE  /\ IsFiniteSet({tickets[t] : t \in S})
           /\ \A R \in SUBSET {tickets[t] : t \in S} : Cardinality(R) \in Nat
<1>1. IsFiniteSet(S)
  BY FS_Subset, NullAssumption
<1>2. IsFiniteSet({tickets[t] : t \in S})
  <2>. DEFINE stored == [t \in S |-> tickets[t]]
  <2>1. stored \in Surjection(S, {tickets[t] : t \in S})
    BY DEF Surjection
  <2>. QED BY <1>1, <2>1, FS_Surjection
<1>3. \A R \in SUBSET {tickets[t] : t \in S} : IsFiniteSet(R)
  BY <1>2, FS_Subset
<1>. QED BY <1>2, <1>3, FS_CardinalityType

LEMMA PlanType ==
    ASSUME NEW n \in Nat, NEW waiting \in Seq(Ticket), NEW now \in Nat
    PROVE  /\ RepositionPlan(n, waiting, now).order \in Int
           /\ RepositionPlan(n, waiting, now).siblings \subseteq [id : TicketId, order : Int]
<1>. DEFINE index == TargetIndex(n, waiting)
            lower == waiting[index].waitingOrder
            upper == waiting[index + 1].waitingOrder
<1>1. index \in 0..Len(waiting) /\ Len(waiting) \in Nat
  <2>1. Len(waiting) \in Nat
    OBVIOUS
  <2>. QED BY <2>1 DEF TargetIndex
<1>2. \A i \in 1..Len(waiting) : waiting[i].waitingOrder \in Int /\ waiting[i].id \in TicketId
  <2>1. \A i \in 1..Len(waiting) : waiting[i] \in Ticket
    OBVIOUS
  <2>2. \A ticket \in Ticket : ticket.waitingOrder \in Int /\ ticket.id \in TicketId
    BY DEF Ticket
  <2>. QED BY <2>1, <2>2
<1>3. RenumberStep \in Int
  BY RenumberStepAssumption
<1>4. CASE index = Len(waiting)
  <2>1. RepositionPlan(n, waiting, now) = SinglePlan(now)
    BY <1>4 DEF RepositionPlan
  <2>. QED BY <2>1 DEF SinglePlan
<1>5. CASE index # Len(waiting) /\ index = 0
  <2>1. waiting # <<>> /\ 1 \in 1..Len(waiting)
    BY <1>1, <1>5
  <2>2. RepositionPlan(n, waiting, now) = SinglePlan(waiting[1].waitingOrder - RenumberStep)
    BY <1>5, <2>1 DEF RepositionPlan
  <2>. QED BY <1>2, <1>3, <2>1, <2>2 DEF SinglePlan
<1>6. CASE index # Len(waiting) /\ index # 0
  <2>1. index \in 1..Len(waiting) /\ index + 1 \in 1..Len(waiting) /\ 1 \in 1..Len(waiting)
    BY <1>1, <1>6
  <2>2. lower \in Int /\ upper \in Int /\ waiting[1].waitingOrder \in Int
    BY <1>2, <2>1
  <2>3. CASE upper - lower > 1
    <3>1. RepositionPlan(n, waiting, now) = SinglePlan(lower + (upper - lower) \div 2)
      BY <1>6, <2>3 DEF RepositionPlan
    <3>. QED BY <2>2, <3>1 DEF SinglePlan
  <2>4. CASE ~(upper - lower > 1)
    <3>1. RepositionPlan(n, waiting, now) = RenumberPlan(waiting, index)
      BY <1>6, <2>4 DEF RepositionPlan
    <3>2. \A i \in 1..Len(waiting) :
            waiting[1].waitingOrder + (IF i <= index THEN i - 1 ELSE i) * RenumberStep \in Int
      BY <1>1, <1>3, <2>2
    <3>3. RenumberPlan(waiting, index).siblings \subseteq [id : TicketId, order : Int]
      BY <1>2, <3>2 DEF RenumberPlan
    <3>4. RenumberPlan(waiting, index).order \in Int
      BY <1>1, <1>3, <2>2 DEF RenumberPlan
    <3>. QED BY <3>1, <3>3, <3>4
  <2>. QED BY <2>3, <2>4
<1>. QED BY <1>4, <1>5, <1>6

-----------------------------------------------------------------------------
(* Type correctness: requests *)

LEMMA NoCommandType == NoCommand \in Command
BY TicketQueueAssumption DEF NoCommand, Command

LEMMA Started ==
    ASSUME TypeOK, NEW p \in Proc, NEW command, NEW ticket, NEW visits, NEW at,
           Start(p, command, ticket, visits, at)
    PROVE  /\ pc'[p] = at /\ cmd'[p] = command /\ row'[p] = ticket
           /\ todo'[p] = visits /\ done'[p] = {}
           /\ \A q \in Proc \ {p} : /\ pc'[q] = pc[q] /\ cmd'[q] = cmd[q]
                                    /\ row'[q] = row[q] /\ todo'[q] = todo[q]
                                    /\ done'[q] = done[q]
BY DEF TypeOK, Start, RequestShape

LEMMA StartType ==
    ASSUME TypeOK, NEW p \in Proc, NEW command \in Command, NEW ticket \in Ticket \cup {Null},
           NEW visits \in SUBSET Visit, NEW at \in PC, Start(p, command, ticket, visits, at),
           RequestShape(p)'
    PROVE  TypeOK'
<1>1. \A q \in Proc : RequestShape(q)'
  <2>. SUFFICES ASSUME NEW q \in Proc, q # p
                PROVE  RequestShape(q)'
    OBVIOUS
  <2>1. /\ pc'[q] = pc[q] /\ cmd'[q] = cmd[q] /\ row'[q] = row[q]
        /\ todo'[q] = todo[q] /\ done'[q] = done[q]
    BY Started
  <2>. QED BY <2>1 DEF TypeOK, RequestShape, Issues
<1>. QED BY <1>1 DEF TypeOK, Start, store, locks, history

LEMMA RankedType ==
    ASSUME TypeOK, NEW k \in Counter
    PROVE  /\ InTurn(k, WaitingFor(k)) \subseteq Visit
           /\ IdsOf(InTurn(k, WaitingFor(k))) \subseteq TicketId
<1>. DEFINE S == {u \in TicketId : IsWaitingIn(u, Categories(k))}
<1>1. WaitingFor(k) = {tickets[t] : t \in S}
  BY DEF WaitingFor
<1>2. \A a \in WaitingFor(k) : Cardinality({b \in WaitingFor(k) : CalledBefore(k, b, a)}) \in Nat
  <2>. HIDE DEF S
  <2>. SUFFICES ASSUME NEW a \in WaitingFor(k)
                PROVE  Cardinality({b \in WaitingFor(k) : CalledBefore(k, b, a)}) \in Nat
    OBVIOUS
  <2>1. S \subseteq TicketId
    BY DEF S
  <2>2. {b \in WaitingFor(k) : CalledBefore(k, b, a)} \in SUBSET {tickets[t] : t \in S}
    BY <1>1
  <2>. QED BY <2>1, <2>2, FiniteRows
<1>3. \A a \in WaitingFor(k) : a.id \in TicketId
  <2>1. \A t \in S : tickets[t] \in Ticket
    BY DEF IsWaitingIn, TypeOK
  <2>. QED BY <1>1, <2>1 DEF Ticket
<1>. DEFINE turn(a) == Cardinality({b \in WaitingFor(k) : CalledBefore(k, b, a)})
<1>4. InTurn(k, WaitingFor(k)) = {[id |-> a.id, order |-> turn(a)] : a \in WaitingFor(k)}
  BY DEF InTurn
<1>5. \A a \in WaitingFor(k) : turn(a) \in Int
  BY <1>2
<1>. HIDE DEF S, turn
<1>. QED BY <1>3, <1>4, <1>5 DEF Visit, IdsOf

LEMMA VisitsType ==
    \A ids : /\ ids \subseteq TicketId \cup Category => InAnyOrder(ids) \subseteq Visit
             /\ IdsOf(InAnyOrder(ids)) \subseteq ids
BY DEF InAnyOrder, Visit, IdsOf

LEMMA RequestType ==
    ASSUME TypeOK, NEW p \in Proc, Request(p)
    PROVE  TypeOK'
<1>. USE NoCommandType
<1>1. ASSUME NEW t \in TicketId, NEW c \in Category, CreateTicket(p, t, c)
      PROVE  TypeOK'
  <2>1. [NoCommand EXCEPT !.op = "create", !.id = t, !.category = c, !.now = clock] \in Command
    BY DEF Command, AllOps, TypeOK
  <2>. DEFINE command == [NoCommand EXCEPT !.op = "create", !.id = t, !.category = c, !.now = clock]
  <2>2. command.op = "create" /\ command.id = t /\ command.category = c
    BY DEF NoCommand
  <2>. HIDE DEF command
  <2>3. Start(p, command, Null, {}, "reserve")
    BY <1>1 DEF CreateTicket, command
  <2>4. RequestShape(p)'
    BY <2>2, <2>3, Started DEF RequestShape, Issues, IdsOf
  <2>. QED BY <2>1, <2>3, <2>4, StartType DEF PC, command
<1>2. ASSUME NEW t \in TicketId, NEW c \in Category, Transfer(p, t, c)
      PROVE  TypeOK'
  <2>1. [NoCommand EXCEPT !.op = "transfer", !.id = t, !.category = c, !.now = clock] \in Command
    BY DEF Command, AllOps, TypeOK
  <2>2. tickets[t] \in Ticket \cup {Null}
    BY DEF TypeOK
  <2>. DEFINE command == [NoCommand EXCEPT !.op = "transfer", !.id = t, !.category = c, !.now = clock]
  <2>3. command.op = "transfer" /\ command.id = t /\ command.category = c
    BY DEF NoCommand
  <2>. HIDE DEF command
  <2>4. Start(p, command, tickets[t], {}, "reserve") /\ tickets[t] \in Ticket
    BY <1>2, <2>2 DEF Transfer, command
  <2>5. RequestShape(p)'
    BY <2>3, <2>4, Started DEF RequestShape, Issues, IdsOf
  <2>. QED BY <2>1, <2>4, <2>5, StartType DEF PC, command
<1>3. ASSUME NEW k \in Counter, CallNext(p, k)
      PROVE  TypeOK'
  <2>1. [NoCommand EXCEPT !.op = "callNext", !.counter = k, !.now = clock] \in Command
    BY DEF Command, AllOps, TypeOK
  <2>. DEFINE command == [NoCommand EXCEPT !.op = "callNext", !.counter = k, !.now = clock]
              visits  == InTurn(k, WaitingFor(k))
  <2>2. command.op = "callNext" /\ command.counter = k
    BY DEF NoCommand
  <2>3. visits \subseteq Visit /\ IdsOf(visits) \subseteq TicketId
    BY RankedType
  <2>. HIDE DEF command, visits
  <2>4. Start(p, command, Null, visits, "lock")
    BY <1>3 DEF CallNext, command, visits
  <2>5. RequestShape(p)'
    BY <2>2, <2>3, <2>4, Started DEF RequestShape, Issues
  <2>. QED BY <2>1, <2>3, <2>4, <2>5, StartType DEF PC, command
<1>4. ASSUME NEW t \in TicketId, NEW target \in Status, NEW k \in Counter \cup {Null},
             ApplyTransition(p, t, target, k)
      PROVE  TypeOK'
  <2>. DEFINE policy  == DeclaredPolicy(tickets[t].status, target)
              command == [NoCommand EXCEPT !.op = "transition", !.id = t, !.counter = k,
                                           !.target = target, !.n = policy.n, !.now = clock,
                                           !.silent = target = tickets[t].status
                                                        /\ target # "CALLING"]
              order   == IF policy.kind = "TO_BACK" THEN clock ELSE tickets[t].waitingOrder
  <2>1. tickets[t] \in Ticket
    BY <1>4 DEF ApplyTransition, TypeOK
  <2>2. tickets[t].status \in Status /\ tickets[t].waitingOrder \in Int
    BY <2>1 DEF Ticket
  <2>3. policy.n \in Nat
    BY <2>2, PolicyType
  <2>4. order \in Int
    BY <2>2 DEF TypeOK
  <2>5. command \in Command
    <3>. HIDE DEF policy
    <3>. QED BY <2>3 DEF Command, AllOps, TypeOK
  <2>6. target = "CALLING" => k # Null \/ tickets[t].counter # Null
    BY <1>4 DEF ApplyTransition, CanTransition
  <2>7. TransitionTo(tickets[t], target, k, order) \in Ticket
    <3>. HIDE DEF order
    <3>. QED BY <2>1, <2>4, <2>6, TransitionType
  <2>8. \/ Start(p, command, tickets[t], {}, "plan")
        \/ Start(p, command, TransitionTo(tickets[t], target, k, order), {}, "save")
    BY <1>4 DEF ApplyTransition
  <2>9. command.op = "transition"
    BY DEF NoCommand
  <2>. HIDE DEF policy, command, order
  <2>10. PICK ticket \in Ticket, at \in {"plan", "save"} : Start(p, command, ticket, {}, at)
    BY <2>1, <2>7, <2>8
  <2>11. RequestShape(p)'
    BY <2>9, <2>10, Started DEF RequestShape, Issues, IdsOf
  <2>. QED BY <2>5, <2>10, <2>11, StartType DEF PC
<1>5. ASSUME NEW t \in TicketId, Reannounce(p, t)
      PROVE  TypeOK'
  <2>1. [NoCommand EXCEPT !.op = "reannounce", !.id = t, !.now = clock] \in Command
    BY DEF Command, AllOps, TypeOK
  <2>2. Reannounced(tickets[t]) \in Ticket
    BY <1>5, TicketCommandsType DEF Reannounce, TypeOK
  <2>. DEFINE command == [NoCommand EXCEPT !.op = "reannounce", !.id = t, !.now = clock]
  <2>3. command.op = "reannounce"
    BY DEF NoCommand
  <2>. HIDE DEF command
  <2>4. Start(p, command, Reannounced(tickets[t]), {}, "save")
    BY <1>5 DEF Reannounce, command
  <2>5. RequestShape(p)'
    BY <2>2, <2>3, <2>4, Started DEF RequestShape, Issues, IdsOf
  <2>. QED BY <2>1, <2>2, <2>4, <2>5, StartType DEF PC, command
<1>6. ASSUME NEW value \in ResetTarget, NEW archive \in BOOLEAN, ResetDaily(p, value, archive)
      PROVE  TypeOK'
  <2>1. [NoCommand EXCEPT !.op = "reset", !.now = clock, !.resetTo = value] \in Command
    BY TicketQueueAssumption DEF Command, AllOps, TypeOK
  <2>2. InAnyOrder({t \in TicketId : IsOld(t, clock)}) \subseteq Visit
    BY VisitsType
  <2>3. InAnyOrder(CountersOf(Day(clock))) \subseteq Visit
    BY VisitsType DEF CountersOf
  <2>. DEFINE command == [NoCommand EXCEPT !.op = "reset", !.now = clock, !.resetTo = value]
  <2>4. command.op = "reset"
    BY DEF NoCommand
  <2>. HIDE DEF command
  <2>5. CASE archive
    <3>1. Start(p, command, Null, InAnyOrder({t \in TicketId : IsOld(t, clock)}), "archive")
      BY <1>6, <2>5 DEF ResetDaily, command
    <3>2. RequestShape(p)'
      BY <2>4, <3>1, Started DEF RequestShape, Issues, IdsOf, InAnyOrder
    <3>. QED BY <2>1, <2>2, <3>1, <3>2, StartType DEF PC, command
  <2>6. CASE ~archive
    <3>1. Start(p, command, Null, InAnyOrder(CountersOf(Day(clock))), "resetSequences")
      BY <1>6, <2>6 DEF ResetDaily, command
    <3>2. RequestShape(p)'
      <4>1. IdsOf(InAnyOrder(CountersOf(Day(clock)))) \subseteq Category
        BY VisitsType DEF CountersOf
      <4>2. IdsOf({}) = {}
        BY DEF IdsOf
      <4>3. /\ pc'[p] = "resetSequences" /\ cmd'[p] = command /\ row'[p] = Null
            /\ todo'[p] = InAnyOrder(CountersOf(Day(clock))) /\ done'[p] = {}
        BY <3>1, Started
      <4>. QED BY <2>4, <4>1, <4>2, <4>3 DEF RequestShape, Issues
    <3>. QED BY <2>1, <2>3, <3>1, <3>2, StartType DEF PC, command
  <2>. QED BY <2>5, <2>6
<1>. QED BY <1>1, <1>2, <1>3, <1>4, <1>5, <1>6 DEF Request

-----------------------------------------------------------------------------
(* The inductive invariant: what each request carries and has locked       *)

Inv == TypeOK /\ WritesAreLocked /\ ClaimIsExclusive

LEMMA InitInv == Init => Inv
<1>. SUFFICES ASSUME Init PROVE Inv
  OBVIOUS
<1>1. TypeOK
  <2>1. ASSUME NEW p \in Proc
        PROVE  RequestShape(p)
    <3>1. pc[p] = "idle" /\ cmd[p].op = Null /\ done[p] = {}
      BY DEF Init, NoCommand
    <3>2. Null \notin {"create", "transfer", "callNext", "transition", "reset"}
      BY TicketQueueAssumption DEF AllOps
    <3>. QED BY <3>1, <3>2 DEF RequestShape, Issues
  <2>2. 0 \in 0..MaxClock
    BY TicketQueueAssumption
  <2>3. pc \in [Proc -> PC] /\ cmd \in [Proc -> Command]
    BY NoCommandType DEF Init, PC
  <2>. QED BY <2>1, <2>2, <2>3 DEF Init, TypeOK
<1>2. WritesAreLocked
  BY DEF Init, WritesAreLocked, HoldsItsLocks, InTransaction
<1>3. ClaimIsExclusive
  BY DEF Init, ClaimIsExclusive, HoldsItsClaim
<1>. QED BY <1>1, <1>2, <1>3 DEF Inv

(* A request that only begins holds no lock yet.                           *)
LEMMA StartInv ==
    ASSUME Inv, NEW p \in Proc, NEW command, NEW ticket, NEW visits, NEW at,
           Start(p, command, ticket, visits, at), TypeOK',
           at \in {"reserve", "lock", "plan", "save", "archive", "resetSequences"},
           at = "save" => command.op \in {"transition", "reannounce"},
           at = "archive" => \A t \in IdsOf(visits) : tickets[t] # Null
    PROVE  Inv'
<1>. USE DEF Inv
<1>1. done'[p] = {} /\ todo'[p] = visits /\ pc'[p] = at /\ cmd'[p] = command
  BY Started
<1>2. \A q \in Proc \ {p} : /\ pc'[q] = pc[q] /\ cmd'[q] = cmd[q] /\ row'[q] = row[q]
                           /\ todo'[q] = todo[q] /\ done'[q] = done[q]
  BY Started
<1>3. UNCHANGED <<tickets, rowLock, seqLock>>
  BY DEF Start, store, locks
<1>4. HoldsItsLocks(p)' /\ HoldsItsClaim(p)'
  BY <1>1, <1>3 DEF HoldsItsLocks, HoldsItsClaim, Issues, IdsOf
<1>5. ASSUME NEW q \in Proc \ {p}
      PROVE  HoldsItsLocks(q)' /\ HoldsItsClaim(q)'
  <2>1. HoldsItsLocks(q) /\ HoldsItsClaim(q)
    BY DEF WritesAreLocked, ClaimIsExclusive
  <2>. QED BY <1>2, <1>3, <2>1
           DEF HoldsItsLocks, HoldsItsClaim, Issues, InTransaction, NumberKey, IsWaitingIn, IdsOf
<1>. QED BY <1>4, <1>5 DEF WritesAreLocked, ClaimIsExclusive

(* A step of one request leaves another one's share of the invariant, as   *)
(* long as it respects the other's locks.                                  *)
LEMMA Others ==
    ASSUME Inv, NEW q \in Proc,
           pc'[q] = pc[q], cmd'[q] = cmd[q], row'[q] = row[q], done'[q] = done[q],
           todo'[q] \subseteq todo[q],
           \A t \in TicketId : rowLock[t] = q => rowLock'[t] = q /\ tickets'[t] = tickets[t],
           \A k \in CounterKey : seqLock[k] = q => seqLock'[k] = q,
           \A t \in TicketId : pc[q] = "archive" /\ t \in IdsOf(todo'[q]) /\ tickets[t] # Null =>
                                tickets'[t] # Null
    PROVE  RequestShape(q)' /\ HoldsItsLocks(q)' /\ HoldsItsClaim(q)'
<1>. USE DEF Inv
<1>1. RequestShape(q) /\ HoldsItsLocks(q) /\ HoldsItsClaim(q)
  BY DEF TypeOK, WritesAreLocked, ClaimIsExclusive
<1>2. RequestShape(q)'
  BY <1>1 DEF RequestShape, Issues, IdsOf
<1>3. HoldsItsLocks(q)'
  <2>1. Issues(q) => NumberKey(q) \in CounterKey
    BY <1>1, NumberKeyType DEF RequestShape
  <2>2. pc[q] \in {"assign", "commit"} => row[q].id \in TicketId
    BY <1>1 DEF RequestShape, Ticket
  <2>3. NumberKey(q)' = NumberKey(q) /\ Issues(q)' = Issues(q) /\ InTransaction(q)' = InTransaction(q)
    BY DEF NumberKey, Issues, InTransaction
  <2>4. cmd[q].op \in {"transition", "reset"} => IdsOf(done[q]) \subseteq TicketId
    BY <1>1 DEF RequestShape
  <2>5. pc[q] = "archive" => \A t \in IdsOf(todo'[q]) : tickets'[t] # Null
    <3>1. pc[q] = "archive" => IdsOf(todo'[q]) \subseteq TicketId /\ IdsOf(todo'[q]) \subseteq IdsOf(todo[q])
      BY <1>2 DEF RequestShape, IdsOf
    <3>. QED BY <1>1, <3>1 DEF HoldsItsLocks
  <2>. QED BY <1>1, <2>1, <2>2, <2>3, <2>4, <2>5 DEF HoldsItsLocks
<1>4. HoldsItsClaim(q)'
  <2>1. pc[q] \in {"save", "commit"} => row[q].id \in TicketId
    BY <1>1 DEF RequestShape, Ticket
  <2>. QED BY <1>1, <2>1 DEF HoldsItsClaim, IsWaitingIn
<1>. QED BY <1>2, <1>3, <1>4

(* Locks are given back by their holder only.                              *)
LEMMA ReleaseKeepsOthers ==
    ASSUME TypeOK, NEW p \in Proc, Release(p), NEW q \in Proc \ {p}
    PROVE  /\ \A t \in TicketId : rowLock[t] = q => rowLock'[t] = q
           /\ \A k \in CounterKey : seqLock[k] = q => seqLock'[k] = q
BY DEF Release, TypeOK

LEMMA ReleaseType ==
    ASSUME TypeOK, NEW p \in Proc, Release(p)
    PROVE  rowLock' \in [TicketId -> Proc \cup {Null}] /\ seqLock' \in [CounterKey -> Proc \cup {Null}]
BY DEF Release, TypeOK

LEMMA RollbackInv ==
    ASSUME Inv, NEW p \in Proc, Rollback(p)
    PROVE  Inv'
<1>. USE DEF Inv
<1>1. /\ pc'[p] = "idle" /\ cmd'[p] = NoCommand /\ done'[p] = {}
      /\ \A q \in Proc \ {p} : /\ pc'[q] = pc[q] /\ cmd'[q] = cmd[q] /\ row'[q] = row[q]
                               /\ todo'[q] = todo[q] /\ done'[q] = done[q]
  BY DEF TypeOK, Rollback, Finish
<1>2. ASSUME NEW q \in Proc \ {p}
      PROVE  RequestShape(q)' /\ HoldsItsLocks(q)' /\ HoldsItsClaim(q)'
  <2>1. tickets' = tickets
    BY DEF Rollback, store
  <2>. QED BY <1>1, <2>1, ReleaseKeepsOthers, Others DEF Rollback
<1>3. RequestShape(p)' /\ HoldsItsLocks(p)' /\ HoldsItsClaim(p)'
  <2>1. cmd'[p].op = Null
    BY <1>1 DEF NoCommand
  <2>2. Null \notin {"create", "transfer", "callNext", "transition", "reset"}
    BY TicketQueueAssumption DEF AllOps
  <2>. QED BY <1>1, <2>1, <2>2
           DEF RequestShape, HoldsItsLocks, HoldsItsClaim, Issues, InTransaction
<1>4. TypeOK'
  <2>1. \A q \in Proc : RequestShape(q)'
    BY <1>2, <1>3
  <2>2. UNCHANGED <<store, clock, announced, history>>
    BY DEF Rollback
  <2>3. /\ pc' \in [Proc -> PC] /\ cmd' \in [Proc -> Command] /\ row' \in [Proc -> Ticket \cup {Null}]
        /\ todo' \in [Proc -> SUBSET Visit] /\ done' \in [Proc -> SUBSET Visit]
    BY NoCommandType DEF Rollback, Finish, TypeOK, PC
  <2>. QED BY <2>1, <2>2, <2>3, ReleaseType DEF TypeOK, Rollback, store, history
<1>. QED BY <1>2, <1>3, <1>4 DEF WritesAreLocked, ClaimIsExclusive

-----------------------------------------------------------------------------
(* The inductive invariant: statements of a transaction *)

(* Everyone else is out of p's way when p keeps to free rows.              *)
LEMMA StepOfOne ==
    ASSUME Inv, NEW p \in Proc,
           \A q \in Proc \ {p} : /\ pc'[q] = pc[q] /\ cmd'[q] = cmd[q] /\ row'[q] = row[q]
                                 /\ done'[q] = done[q] /\ todo'[q] \subseteq todo[q]
                                 /\ \A t \in TicketId : rowLock[t] = q =>
                                        rowLock'[t] = q /\ tickets'[t] = tickets[t]
                                 /\ \A k \in CounterKey : seqLock[k] = q => seqLock'[k] = q
                                 /\ \A t \in TicketId :
                                      pc[q] = "archive" /\ t \in IdsOf(todo'[q]) /\ tickets[t] # Null
                                        => tickets'[t] # Null,
           RequestShape(p)', HoldsItsLocks(p)', HoldsItsClaim(p)',
           (TypeOK /\ \A q \in Proc : RequestShape(q)') => TypeOK'
    PROVE  Inv'
<1>1. \A q \in Proc \ {p} : RequestShape(q)' /\ HoldsItsLocks(q)' /\ HoldsItsClaim(q)'
  BY Others
<1>. QED BY <1>1 DEF Inv, WritesAreLocked, ClaimIsExclusive

LEMMA ReserveInv ==
    ASSUME Inv, NEW p \in Proc, Reserve(p)
    PROVE  Inv'
<1>. DEFINE key    == NumberKey(p)
            number == NextNumber(key)
            ticket == IF cmd[p].op = "create" THEN NewTicket(cmd[p].id, number, cmd[p].now)
                                              ELSE Transferred(row[p], number)
<1>. USE DEF Inv
<1>1. Issues(p) /\ key \in CounterKey /\ RequestShape(p) /\ cmd[p].category \in Category
  BY NumberKeyType DEF Reserve, TypeOK, RequestShape, TakeCounter
<1>2. number \in TicketNumber
  <2>1. key[1] \in Category /\ key[2] \in Int
    BY <1>1, DayType DEF NumberKey, TypeOK, Command
  <2>2. round[key] \in Nat /\ sequences[key] \in Nat \cup {Null}
    BY <1>1 DEF TypeOK
  <2>. HIDE DEF key
  <2>. QED BY <2>1, <2>2 DEF TicketNumber, NextNumber, NextSeq
<1>3. ticket \in Ticket
  <2>. HIDE DEF number
  <2>1. cmd[p].now \in Nat
    BY DEF TypeOK, Command
  <2>2. CASE cmd[p].op = "create"
    BY <1>1, <1>2, <2>1, <2>2, TicketCommandsType DEF RequestShape
  <2>3. CASE cmd[p].op # "create"
    BY <1>1, <1>2, <2>3, TicketCommandsType DEF RequestShape, Issues, Reserve, TakeCounter
  <2>. QED BY <2>2, <2>3
<1>4. /\ pc' = [pc EXCEPT ![p] = "save"] /\ row' = [row EXCEPT ![p] = ticket]
      /\ seqLock[key] = Null /\ seqLock' = [seqLock EXCEPT ![key] = p]
      /\ UNCHANGED <<tickets, archived, sequences, rowLock, cmd, todo, done, clock, announced, issued, round, purged>>
  BY DEF Reserve, GoTo, store, history, TakeCounter
<1>. HIDE DEF key, number, ticket
<1>5. RequestShape(p)'
  <2>1. cmd[p].op \notin {"callNext", "transition", "reset"}
    BY <1>1 DEF Issues
  <2>2. /\ pc'[p] = "save" /\ row'[p] \in Ticket
        /\ cmd'[p] = cmd[p] /\ todo'[p] = todo[p] /\ done'[p] = done[p]
    BY <1>3, <1>4 DEF TypeOK
  <2>3. pc[p] = "reserve"
    BY DEF Reserve, TakeCounter
  <2>. QED BY <1>1, <2>1, <2>2, <2>3 DEF RequestShape, Issues
<1>6. HoldsItsLocks(p)' /\ HoldsItsClaim(p)'
  <2>1. NumberKey(p)' = key
    BY <1>4 DEF NumberKey, key
  <2>2. seqLock'[key] = p
    BY <1>1, <1>4 DEF TypeOK
  <2>. QED BY <1>1, <1>4, <2>1, <2>2 DEF HoldsItsLocks, HoldsItsClaim, Issues, TypeOK
<1>7. \A q \in Proc \ {p} : \A k \in CounterKey : seqLock[k] = q => seqLock'[k] = q
  BY <1>4, TicketQueueAssumption DEF TypeOK
<1>8. (\A q \in Proc : RequestShape(q)') => TypeOK'
  BY <1>3, <1>4 DEF TypeOK, PC
<1>. QED BY <1>4, <1>5, <1>6, <1>7, <1>8, StepOfOne DEF TypeOK

LEMMA LockNextInv ==
    ASSUME Inv, NEW p \in Proc, NEW visit \in todo[p], LockNext(p, visit)
    PROVE  Inv'
<1>. USE DEF Inv
<1>. DEFINE t == visit.id
            k == cmd[p].counter
<1>1. /\ RequestShape(p) /\ cmd[p].op = "callNext" /\ k \in Counter /\ t \in TicketId
      /\ IdsOf(todo[p]) \subseteq TicketId /\ pc[p] = "lock" /\ visit \in Visit
  BY DEF LockNext, TypeOK, RequestShape, IdsOf, StillWaits
<1>2. /\ rowLock[t] = Null /\ todo' = [todo EXCEPT ![p] = @ \ {visit}]
      /\ UNCHANGED <<tickets, archived, sequences, seqLock, cmd, clock, announced, issued, round, purged>>
  BY DEF LockNext, store, history, StillWaits
<1>3. CASE IsWaitingIn(t, Categories(k))
  <2>1. /\ rowLock' = [rowLock EXCEPT ![t] = p] /\ row' = [row EXCEPT ![p] = CalledTo(tickets[t], k)]
        /\ pc' = [pc EXCEPT ![p] = "save"] /\ done' = done
    BY <1>3 DEF LockNext, GoTo, StillWaits
  <2>2. CalledTo(tickets[t], k) \in Ticket /\ CalledTo(tickets[t], k).id = t
    <3>1. tickets[t] \in Ticket
      BY <1>1, <1>3 DEF IsWaitingIn, TypeOK
    <3>2. tickets[t].id = t
      BY <1>1, <1>3 DEF IsWaitingIn, TypeOK
    <3>. QED BY <1>1, <3>1, <3>2, TicketCommandsType DEF CalledTo, Ticket
  <2>. HIDE DEF t, k
  <2>3. RequestShape(p)'
    BY <1>1, <1>2, <2>1, <2>2 DEF RequestShape, Issues, IdsOf, TypeOK
  <2>4. HoldsItsLocks(p)' /\ HoldsItsClaim(p)'
    BY <1>1, <1>2, <1>3, <2>1, <2>2 DEF HoldsItsLocks, HoldsItsClaim, Issues, IsWaitingIn, TypeOK, k
  <2>5. \A q \in Proc \ {p} : \A u \in TicketId : rowLock[u] = q => rowLock'[u] = q
    BY <1>1, <1>2, <2>1, TicketQueueAssumption DEF TypeOK
  <2>6. (\A q \in Proc : RequestShape(q)') => TypeOK'
    BY <1>1, <1>2, <2>1, <2>2 DEF TypeOK, PC
  <2>. QED BY <1>2, <2>1, <2>3, <2>4, <2>5, <2>6, StepOfOne DEF TypeOK
<1>4. CASE ~IsWaitingIn(t, Categories(k))
  <2>1. /\ done' = [done EXCEPT ![p] = @ \cup {visit}] /\ UNCHANGED <<rowLock, row, pc>>
    BY <1>4 DEF LockNext, StillWaits
  <2>. HIDE DEF t, k
  <2>3. RequestShape(p)'
    BY <1>1, <1>2, <2>1 DEF RequestShape, Issues, IdsOf, TypeOK
  <2>4. HoldsItsLocks(p)' /\ HoldsItsClaim(p)'
    BY <1>1, <1>2, <2>1 DEF HoldsItsLocks, HoldsItsClaim, Issues, TypeOK
  <2>6. (\A q \in Proc : RequestShape(q)') => TypeOK'
    BY <1>1, <1>2, <2>1 DEF TypeOK
  <2>. QED BY <1>2, <2>1, <2>3, <2>4, <2>6, StepOfOne DEF TypeOK
<1>. QED BY <1>3, <1>4

LEMMA PlanRequeueInv ==
    ASSUME Inv, NEW p \in Proc, PlanRequeue(p)
    PROVE  Inv'
<1>. USE DEF Inv
<1>1. RequestShape(p) /\ cmd[p].op = "transition" /\ row[p] \in Ticket /\ pc[p] = "plan"
  BY DEF PlanRequeue, TypeOK, RequestShape
<1>2. PICK mates \in InOrder(Mates(row[p])) :
         /\ row' = [row EXCEPT ![p] =
                      TransitionTo(row[p], "WAITING", cmd[p].counter,
                                   RepositionPlan(cmd[p].n, mates, clock).order)]
         /\ todo' = [todo EXCEPT ![p] = RepositionPlan(cmd[p].n, mates, clock).siblings]
  BY DEF PlanRequeue
<1>3. mates \in Seq(Ticket)
  <2>. DEFINE S == {u \in TicketId \ {row[p].id} : IsWaitingIn(u, {row[p].category})}
  <2>1. Mates(row[p]) = {tickets[t] : t \in S}
    BY DEF Mates
  <2>2. S \subseteq TicketId /\ \A t \in S : tickets[t] \in Ticket
    BY DEF IsWaitingIn, TypeOK
  <2>. HIDE DEF S
  <2>3. Cardinality(Mates(row[p])) \in Nat /\ Mates(row[p]) \subseteq Ticket
    BY <2>1, <2>2, FiniteRows
  <2>4. mates \in [1..Cardinality(Mates(row[p])) -> Mates(row[p])]
    BY DEF InOrder
  <2>. QED BY <2>3, <2>4
<1>. DEFINE plan   == RepositionPlan(cmd[p].n, mates, clock)
            ticket == TransitionTo(row[p], "WAITING", cmd[p].counter, plan.order)
<1>4. plan.order \in Int /\ plan.siblings \subseteq [id : TicketId, order : Int]
  <2>1. cmd[p].n \in Nat /\ clock \in Nat
    BY DEF TypeOK, Command
  <2>. QED BY <1>3, <2>1, PlanType
<1>. HIDE DEF plan
<1>5. ticket \in Ticket
  <2>1. "WAITING" \in Status /\ cmd[p].counter \in Counter \cup {Null}
    BY FlowAssumption DEF Canonical, TypeOK, Command
  <2>. QED BY <1>1, <1>4, <2>1, TransitionType
<1>6. /\ pc' = [pc EXCEPT ![p] = "save"] /\ row' = [row EXCEPT ![p] = ticket]
      /\ todo' = [todo EXCEPT ![p] = plan.siblings]
      /\ UNCHANGED <<tickets, archived, sequences, rowLock, seqLock, cmd, done, clock, announced, issued, round, purged>>
  BY <1>2 DEF PlanRequeue, GoTo, store, history, locks, plan
<1>. HIDE DEF ticket
<1>7. /\ pc'[p] = "save" /\ row'[p] = ticket /\ todo'[p] = plan.siblings
      /\ cmd'[p] = cmd[p] /\ done'[p] = done[p]
      /\ IdsOf(plan.siblings) \subseteq TicketId /\ plan.siblings \subseteq Visit
  BY <1>4, <1>6 DEF TypeOK, IdsOf, Visit
<1>8. RequestShape(p)'
  BY <1>1, <1>5, <1>7 DEF RequestShape, Issues
<1>9. HoldsItsLocks(p)' /\ HoldsItsClaim(p)'
  <2>1. HoldsItsLocks(p)
    BY DEF WritesAreLocked
  <2>. QED BY <1>1, <1>6, <1>7, <2>1 DEF HoldsItsLocks, HoldsItsClaim, Issues, InTransaction
<1>10. (\A q \in Proc : RequestShape(q)') => TypeOK'
  BY <1>5, <1>6, <1>7 DEF TypeOK, PC
<1>. QED BY <1>6, <1>8, <1>9, <1>10, StepOfOne DEF TypeOK

LEMMA SaveInv ==
    ASSUME Inv, NEW p \in Proc, Save(p)
    PROVE  Inv'
<1>. USE DEF Inv
<1>1. /\ RequestShape(p) /\ HoldsItsLocks(p) /\ HoldsItsClaim(p)
      /\ row[p] \in Ticket /\ row[p].id \in TicketId /\ pc[p] = "save"
  BY DEF Save, TypeOK, RequestShape, WritesAreLocked, ClaimIsExclusive, Ticket
<1>2. /\ rowLock[row[p].id] \in {Null, p} /\ rowLock' = [rowLock EXCEPT ![row[p].id] = p]
      /\ pc' = [pc EXCEPT ![p] = IF cmd[p].op = "transition" /\ todo[p] # {} THEN "assign" ELSE "commit"]
      /\ UNCHANGED <<tickets, archived, sequences, seqLock, cmd, row, todo, done, clock, announced, issued, round, purged>>
  BY DEF Save, GoTo, store, history
<1>3. rowLock'[row[p].id] = p /\ \A t \in TicketId : rowLock[t] = p => rowLock'[t] = p
  BY <1>1, <1>2 DEF TypeOK
<1>4. pc'[p] \in {"assign", "commit"} /\ (pc'[p] = "assign" => cmd[p].op = "transition")
  BY <1>2 DEF TypeOK
<1>5. RequestShape(p)'
  BY <1>1, <1>2, <1>4 DEF RequestShape, Issues, IdsOf
<1>6. HoldsItsLocks(p)' /\ HoldsItsClaim(p)'
  BY <1>1, <1>2, <1>3, <1>4
     DEF HoldsItsLocks, HoldsItsClaim, Issues, InTransaction, NumberKey, IsWaitingIn, RequestShape
<1>7. \A q \in Proc \ {p} : \A t \in TicketId : rowLock[t] = q => rowLock'[t] = q
  BY <1>1, <1>2, TicketQueueAssumption DEF TypeOK
<1>8. (\A q \in Proc : RequestShape(q)') => TypeOK'
  BY <1>1, <1>2 DEF TypeOK, PC
<1>. QED BY <1>2, <1>5, <1>6, <1>7, <1>8, StepOfOne DEF TypeOK

LEMMA AssignOrderInv ==
    ASSUME Inv, NEW p \in Proc, NEW visit \in todo[p], AssignOrder(p, visit)
    PROVE  Inv'
<1>. USE DEF Inv
<1>1. /\ RequestShape(p) /\ HoldsItsLocks(p) /\ cmd[p].op = "transition" /\ pc[p] = "assign"
      /\ IdsOf(todo[p]) \subseteq TicketId /\ visit.id \in TicketId /\ visit \in Visit
      /\ row[p] \in Ticket /\ row[p].id \in TicketId
  BY DEF AssignOrder, TypeOK, RequestShape, WritesAreLocked, IdsOf, Ticket
<1>2. /\ rowLock[visit.id] \in {Null, p} /\ todo' = [todo EXCEPT ![p] = @ \ {visit}]
      /\ pc' = [pc EXCEPT ![p] = IF todo[p] = {visit} THEN "commit" ELSE "assign"]
      /\ UNCHANGED <<tickets, archived, sequences, seqLock, cmd, row, clock, announced, issued, round, purged>>
  BY DEF AssignOrder, GoTo, store, history
<1>3. \/ UNCHANGED <<rowLock, done>>
      \/ /\ tickets[visit.id] # Null /\ rowLock' = [rowLock EXCEPT ![visit.id] = p]
         /\ done' = [done EXCEPT ![p] = @ \cup {visit}]
  BY DEF AssignOrder
<1>4. pc'[p] \in {"assign", "commit"} /\ todo'[p] \subseteq todo[p] /\ cmd'[p] = cmd[p]
  BY <1>2 DEF TypeOK
<1>5. /\ \A t \in TicketId : rowLock[t] = p => rowLock'[t] = p
      /\ \/ done'[p] = done[p]
         \/ /\ done'[p] = done[p] \cup {visit}
            /\ rowLock'[visit.id] = p /\ tickets[visit.id] # Null
  BY <1>1, <1>3 DEF TypeOK
<1>6. \A t \in IdsOf(done'[p]) : t \in IdsOf(done[p]) \/ (t = visit.id /\ rowLock'[t] = p /\ tickets[t] # Null)
  BY <1>5 DEF IdsOf
<1>7. RequestShape(p)'
  BY <1>1, <1>2, <1>4, <1>6 DEF RequestShape, Issues, IdsOf
<1>8. HoldsItsLocks(p)' /\ HoldsItsClaim(p)'
  <2>1. IdsOf(done[p]) \subseteq TicketId
    BY <1>1 DEF RequestShape
  <2>. QED BY <1>1, <1>2, <1>4, <1>5, <1>6, <2>1
           DEF HoldsItsLocks, HoldsItsClaim, Issues, InTransaction
<1>9. \A q \in Proc \ {p} : /\ \A t \in TicketId : rowLock[t] = q => rowLock'[t] = q
                            /\ done'[q] = done[q]
  BY <1>1, <1>2, <1>3, TicketQueueAssumption DEF TypeOK
<1>10. (\A q \in Proc : RequestShape(q)') => TypeOK'
  BY <1>1, <1>2, <1>3 DEF TypeOK, PC
<1>. QED BY <1>2, <1>7, <1>8, <1>9, <1>10, StepOfOne DEF TypeOK

LEMMA ArchiveRowInv ==
    ASSUME Inv, NEW p \in Proc, NEW visit \in todo[p], ArchiveRow(p, visit)
    PROVE  Inv'
<1>. USE DEF Inv
<1>1. /\ RequestShape(p) /\ HoldsItsLocks(p) /\ cmd[p].op = "reset" /\ pc[p] = "archive"
      /\ visit.id \in TicketId /\ visit \in Visit /\ tickets[visit.id] # Null
  BY DEF ArchiveRow, TypeOK, RequestShape, WritesAreLocked, HoldsItsLocks, IdsOf
<1>2. /\ rowLock[visit.id] = Null /\ rowLock' = [rowLock EXCEPT ![visit.id] = p]
      /\ todo' = [todo EXCEPT ![p] = @ \ {visit}] /\ done' = [done EXCEPT ![p] = @ \cup {visit}]
      /\ UNCHANGED <<tickets, archived, sequences, seqLock, pc, cmd, row, clock, announced, issued, round, purged>>
  BY DEF ArchiveRow, store, history
<1>3. /\ todo'[p] \subseteq todo[p] /\ cmd'[p] = cmd[p] /\ pc'[p] = pc[p]
      /\ \A t \in TicketId : rowLock[t] = p => rowLock'[t] = p
      /\ rowLock'[visit.id] = p
  BY <1>1, <1>2 DEF TypeOK
<1>4. \A t \in IdsOf(done'[p]) : t \in IdsOf(done[p]) \/ t = visit.id
  BY <1>2 DEF IdsOf, TypeOK
<1>5. RequestShape(p)'
  BY <1>1, <1>2, <1>3, <1>4 DEF RequestShape, Issues, IdsOf
<1>6. HoldsItsLocks(p)' /\ HoldsItsClaim(p)'
  <2>1. IdsOf(done[p]) \subseteq TicketId
    BY <1>1 DEF RequestShape
  <2>2. \A t \in IdsOf(todo'[p]) : tickets[t] # Null
    BY <1>1, <1>3 DEF HoldsItsLocks, IdsOf
  <2>. QED BY <1>1, <1>2, <1>3, <1>4, <2>1, <2>2
           DEF HoldsItsLocks, HoldsItsClaim, Issues, InTransaction
<1>7. \A q \in Proc \ {p} : /\ \A t \in TicketId : rowLock[t] = q => rowLock'[t] = q
                            /\ done'[q] = done[q]
  BY <1>1, <1>2, TicketQueueAssumption DEF TypeOK
<1>8. (\A q \in Proc : RequestShape(q)') => TypeOK'
  BY <1>1, <1>2 DEF TypeOK, PC
<1>. QED BY <1>2, <1>5, <1>6, <1>7, <1>8, StepOfOne DEF TypeOK

LEMMA InsertArchivedInv ==
    ASSUME Inv, NEW p \in Proc, InsertArchived(p)
    PROVE  Inv'
<1>. USE DEF Inv
<1>1. CASE Rollback(p)
  BY <1>1, RollbackInv
<1>2. CASE ~Rollback(p)
  <2>. DEFINE visits == InAnyOrder(CountersOf(Day(cmd[p].now)))
  <2>1. /\ todo' = [todo EXCEPT ![p] = visits] /\ pc' = [pc EXCEPT ![p] = "resetSequences"]
        /\ UNCHANGED <<tickets, archived, sequences, rowLock, seqLock, cmd, row, done, clock, announced, issued, round, purged>>
    BY <1>2 DEF InsertArchived, GoTo, store, locks, history
  <2>2. RequestShape(p) /\ HoldsItsLocks(p) /\ pc[p] = "archive" /\ cmd[p].op = "reset"
    BY DEF InsertArchived, TypeOK, RequestShape, WritesAreLocked
  <2>3. visits \subseteq Visit /\ IdsOf(visits) \subseteq Category
    BY VisitsType DEF CountersOf
  <2>. HIDE DEF visits
  <2>4. /\ pc'[p] = "resetSequences" /\ todo'[p] = visits
        /\ cmd'[p] = cmd[p] /\ row'[p] = row[p] /\ done'[p] = done[p]
    BY <2>1 DEF TypeOK
  <2>5. RequestShape(p)'
    BY <2>2, <2>3, <2>4 DEF RequestShape, Issues
  <2>6. HoldsItsLocks(p)' /\ HoldsItsClaim(p)'
    BY <2>1, <2>2, <2>4 DEF HoldsItsLocks, HoldsItsClaim, Issues, InTransaction
  <2>7. (\A q \in Proc : RequestShape(q)') => TypeOK'
    BY <2>1, <2>3 DEF TypeOK, PC
  <2>. QED BY <2>1, <2>5, <2>6, <2>7, StepOfOne DEF TypeOK
<1>. QED BY <1>1, <1>2

LEMMA ResetSequenceInv ==
    ASSUME Inv, NEW p \in Proc, NEW visit \in todo[p], ResetSequence(p, visit)
    PROVE  Inv'
<1>. USE DEF Inv
<1>. DEFINE key == ResetKey(p, visit)
<1>1. /\ RequestShape(p) /\ HoldsItsLocks(p) /\ cmd[p].op = "reset" /\ pc[p] = "resetSequences"
  BY DEF ResetSequence, TypeOK, RequestShape, WritesAreLocked, TakeCounter
<1>2. /\ seqLock[key] = Null /\ seqLock' = [seqLock EXCEPT ![key] = p]
      /\ todo' = [todo EXCEPT ![p] = @ \ {visit}]
      /\ UNCHANGED <<tickets, archived, sequences, rowLock, pc, cmd, row, done, clock, announced, issued, round, purged>>
  BY DEF ResetSequence, store, history, TakeCounter
<1>. HIDE DEF key
<1>3. todo'[p] \subseteq todo[p]
  BY <1>2 DEF TypeOK
<1>4. RequestShape(p)'
  BY <1>1, <1>2, <1>3 DEF RequestShape, Issues, IdsOf
<1>5. HoldsItsLocks(p)' /\ HoldsItsClaim(p)'
  BY <1>1, <1>2 DEF HoldsItsLocks, HoldsItsClaim, Issues, InTransaction
<1>6. \A q \in Proc \ {p} : \A k \in CounterKey : seqLock[k] = q => seqLock'[k] = q
  BY <1>2, TicketQueueAssumption DEF TypeOK
<1>7. (\A q \in Proc : RequestShape(q)') => TypeOK'
  BY <1>2 DEF TypeOK
<1>. QED BY <1>2, <1>4, <1>5, <1>6, <1>7, StepOfOne DEF TypeOK

-----------------------------------------------------------------------------
(* The inductive invariant: ends of a request *)

LEMMA DispatchInv ==
    ASSUME Inv, NEW p \in Proc, Dispatch(p)
    PROVE  Inv'
<1>. USE DEF Inv
<1>1. /\ pc' = [pc EXCEPT ![p] = "idle"] /\ cmd' = [cmd EXCEPT ![p] = NoCommand]
      /\ row' = [row EXCEPT ![p] = Null] /\ todo' = [todo EXCEPT ![p] = {}]
      /\ done' = [done EXCEPT ![p] = {}]
      /\ UNCHANGED <<tickets, archived, sequences, rowLock, seqLock, clock, issued, round, purged>>
  BY DEF Dispatch, Finish, store, locks, history, HasCommitted
<1>2. cmd'[p].op = Null /\ pc'[p] = "idle" /\ done'[p] = {}
  BY <1>1 DEF NoCommand, TypeOK
<1>3. Null \notin {"create", "transfer", "callNext", "transition", "reset"}
  BY TicketQueueAssumption DEF AllOps
<1>4. RequestShape(p)' /\ HoldsItsLocks(p)' /\ HoldsItsClaim(p)'
  BY <1>2, <1>3 DEF RequestShape, HoldsItsLocks, HoldsItsClaim, Issues, InTransaction
<1>5. announced' \in [TicketId -> TicketNumber \cup {Null}]
  <2>1. CASE announced' = announced
    BY <2>1 DEF TypeOK
  <2>2. CASE row[p] # Null /\ announced' = [announced EXCEPT ![row[p].id] = row[p].number]
    <3>1. row[p].number \in TicketNumber
      BY <2>2 DEF TypeOK, Ticket
    <3>. QED BY <2>2, <3>1 DEF TypeOK
  <2>. QED BY <2>1, <2>2 DEF Dispatch, HasCommitted
<1>6. (\A q \in Proc : RequestShape(q)') => TypeOK'
  BY <1>1, <1>5, NoCommandType DEF TypeOK, PC
<1>. QED BY <1>1, <1>4, <1>6, StepOfOne DEF TypeOK

(* A commit keeps every stored ticket, and writes locked rows only.        *)
LEMMA CommittedRows ==
    ASSUME Inv, NEW p \in Proc, Commit(p)
    PROVE  /\ tickets' \in [TicketId -> Ticket \cup {Null}]
           /\ \A t \in TicketId : tickets'[t] # Null => tickets'[t].id = t
           /\ \A t \in TicketId : rowLock[t] # p => tickets'[t] = tickets[t]
           /\ \A t \in TicketId : tickets[t] # Null => tickets'[t] # Null
<1>. USE DEF Inv
<1>1. /\ HoldsItsLocks(p) /\ pc[p] = "commit" /\ row[p] \in Ticket
      /\ row[p].id \in TicketId /\ rowLock[row[p].id] = p
  BY DEF Commit, TypeOK, RequestShape, WritesAreLocked, HoldsItsLocks, Ticket
<1>2. \A t \in TicketId : cmd[p].op = "transition" /\ t \in IdsOf(done[p]) =>
          /\ rowLock[t] = p /\ tickets[t] \in Ticket /\ Reordered(t, done[p]) \in Ticket
          /\ Reordered(t, done[p]).id = t
  <2>. SUFFICES ASSUME NEW t \in TicketId, cmd[p].op = "transition", t \in IdsOf(done[p])
                PROVE  /\ rowLock[t] = p /\ tickets[t] \in Ticket
                       /\ Reordered(t, done[p]) \in Ticket /\ Reordered(t, done[p]).id = t
    OBVIOUS
  <2>1. rowLock[t] = p /\ tickets[t] \in Ticket /\ tickets[t].id = t
    BY <1>1 DEF HoldsItsLocks, InTransaction, TypeOK
  <2>. DEFINE visit == CHOOSE v \in done[p] : v.id = t
  <2>2. \E v \in done[p] : v.id = t
    BY DEF IdsOf
  <2>3. visit \in done[p] /\ visit.order \in Int
    BY <2>2 DEF TypeOK, Visit
  <2>4. Reordered(t, done[p]) = [tickets[t] EXCEPT !.waitingOrder = visit.order]
    BY DEF Reordered
  <2>. HIDE DEF visit
  <2>. QED BY <2>1, <2>3, <2>4 DEF Ticket
<1>. QED BY <1>1, <1>2, TicketQueueAssumption DEF Commit, TypeOK

LEMMA CommitInv ==
    ASSUME Inv, NEW p \in Proc, Commit(p)
    PROVE  Inv'
<1>. USE DEF Inv
<1>1. /\ RequestShape(p) /\ HoldsItsLocks(p) /\ pc[p] = "commit" /\ row[p] \in Ticket
      /\ row[p].id \in TicketId /\ row[p].number \in TicketNumber /\ rowLock[row[p].id] = p
      /\ (Issues(p) => NumberKey(p) \in CounterKey)
  BY NumberKeyType DEF Commit, TypeOK, RequestShape, WritesAreLocked, HoldsItsLocks, Ticket
<1>2. /\ pc' = [pc EXCEPT ![p] = "dispatch"] /\ Release(p)
      /\ UNCHANGED <<archived, cmd, row, todo, done, clock, announced, round, purged>>
  BY DEF Commit, GoTo
<1>3. /\ tickets' \in [TicketId -> Ticket \cup {Null}]
      /\ \A t \in TicketId : tickets'[t] # Null => tickets'[t].id = t
      /\ \A t \in TicketId : rowLock[t] # p => tickets'[t] = tickets[t]
      /\ \A t \in TicketId : tickets[t] # Null => tickets'[t] # Null
  BY CommittedRows
<1>5. /\ sequences' \in [CounterKey -> Nat \cup {Null}] /\ issued' \subseteq Mint
  <2>1. row[p].number.seq \in Nat
    BY <1>1 DEF TicketNumber
  <2>2. [id |-> row[p].id, number |-> row[p].number] \in Mint
    BY <1>1 DEF Mint
  <2>. QED BY <1>1, <2>1, <2>2 DEF Commit, TypeOK
<1>6. pc'[p] = "dispatch" /\ cmd'[p] = cmd[p] /\ done'[p] = done[p]
  BY <1>2 DEF TypeOK
<1>7. RequestShape(p)' /\ HoldsItsLocks(p)' /\ HoldsItsClaim(p)'
  BY <1>1, <1>6 DEF RequestShape, HoldsItsLocks, HoldsItsClaim, Issues, InTransaction
<1>8. \A q \in Proc \ {p} :
         /\ \A t \in TicketId : rowLock[t] = q => rowLock'[t] = q /\ tickets'[t] = tickets[t]
         /\ \A k \in CounterKey : seqLock[k] = q => seqLock'[k] = q
  BY <1>2, <1>3, ReleaseKeepsOthers
<1>9. (\A q \in Proc : RequestShape(q)') => TypeOK'
  BY <1>2, <1>3, <1>5, ReleaseType DEF TypeOK, PC
<1>. QED BY <1>2, <1>3, <1>7, <1>8, <1>9, StepOfOne DEF TypeOK

LEMMA CommitResetInv ==
    ASSUME Inv, NEW p \in Proc, CommitReset(p)
    PROVE  Inv'
<1>. USE DEF Inv
<1>. DEFINE old == IdsOf(done[p])
<1>1. /\ RequestShape(p) /\ HoldsItsLocks(p) /\ pc[p] = "resetSequences" /\ cmd[p].op = "reset"
      /\ \A t \in old : rowLock[t] = p
  BY DEF CommitReset, TypeOK, RequestShape, WritesAreLocked, HoldsItsLocks, InTransaction, ArchiveWith
<1>2. /\ pc' = [pc EXCEPT ![p] = "dispatch"] /\ Release(p)
      /\ tickets'  = [t \in TicketId |-> IF t \in old THEN Null ELSE tickets[t]]
      /\ archived' = [t \in TicketId |-> IF t \in old THEN tickets[t] ELSE archived[t]]
      /\ sequences' = [k \in CounterKey |-> IF seqLock[k] = p THEN cmd[p].resetTo - 1 ELSE sequences[k]]
      /\ round' = [k \in CounterKey |-> IF seqLock[k] = p THEN round[k] + 1 ELSE round[k]]
      /\ todo' = [q \in Proc |-> IF pc[q] \in {"lock", "archive"}
                                 THEN {v \in todo[q] : v.id \notin old} ELSE todo[q]]
      /\ UNCHANGED <<cmd, row, done, clock, announced, issued, purged>>
  BY DEF CommitReset, GoTo, ArchiveWith
<1>. HIDE DEF old
<1>3. /\ tickets' \in [TicketId -> Ticket \cup {Null}]
      /\ archived' \in [TicketId -> Ticket \cup {Null}]
      /\ \A t \in TicketId : \A stored \in {tickets'[t], archived'[t]} \ {Null} : stored.id = t
      /\ \A t \in TicketId : rowLock[t] # p => tickets'[t] = tickets[t]
  BY <1>1, <1>2 DEF TypeOK
<1>4. /\ sequences' \in [CounterKey -> Nat \cup {Null}] /\ round' \in [CounterKey -> Nat]
  <2>1. cmd[p].resetTo - 1 \in Nat
    BY DEF TypeOK, Command
  <2>. QED BY <1>2, <2>1 DEF TypeOK
<1>5. /\ todo' \in [Proc -> SUBSET Visit] /\ \A q \in Proc : todo'[q] \subseteq todo[q]
      /\ \A q \in Proc, t \in TicketId :
            pc[q] = "archive" /\ t \in IdsOf(todo'[q]) /\ tickets[t] # Null => tickets'[t] # Null
  BY <1>2 DEF TypeOK, IdsOf
<1>6. pc'[p] = "dispatch" /\ cmd'[p] = cmd[p] /\ done'[p] = done[p]
  BY <1>2 DEF TypeOK
<1>7. RequestShape(p)' /\ HoldsItsLocks(p)' /\ HoldsItsClaim(p)'
  BY <1>1, <1>6 DEF RequestShape, HoldsItsLocks, HoldsItsClaim, Issues, InTransaction
<1>8. \A q \in Proc \ {p} :
         /\ \A t \in TicketId : rowLock[t] = q => rowLock'[t] = q /\ tickets'[t] = tickets[t]
         /\ \A k \in CounterKey : seqLock[k] = q => seqLock'[k] = q
  BY <1>2, <1>3, ReleaseKeepsOthers
<1>9. (\A q \in Proc : RequestShape(q)') => TypeOK'
  BY <1>2, <1>3, <1>4, <1>5, ReleaseType DEF TypeOK, PC
<1>. QED BY <1>2, <1>5, <1>7, <1>8, <1>9, StepOfOne DEF TypeOK

LEMMA RequestInv ==
    ASSUME Inv, NEW p \in Proc, Request(p)
    PROVE  Inv'
<1>0. TypeOK'
  BY RequestType DEF Inv
<1>1. ASSUME NEW t \in TicketId, NEW c \in Category, CreateTicket(p, t, c)
      PROVE  Inv'
  <2>1. Start(p, [NoCommand EXCEPT !.op = "create", !.id = t, !.category = c, !.now = clock],
              Null, {}, "reserve")
    BY <1>1 DEF CreateTicket
  <2>. QED BY <1>0, <2>1, NoCommandType, StartInv
<1>2. ASSUME NEW t \in TicketId, NEW c \in Category, Transfer(p, t, c)
      PROVE  Inv'
  <2>1. Start(p, [NoCommand EXCEPT !.op = "transfer", !.id = t, !.category = c, !.now = clock],
              tickets[t], {}, "reserve")
    BY <1>2 DEF Transfer
  <2>. QED BY <1>0, <2>1, NoCommandType, StartInv
<1>3. ASSUME NEW k \in Counter, CallNext(p, k)
      PROVE  Inv'
  <2>1. Start(p, [NoCommand EXCEPT !.op = "callNext", !.counter = k, !.now = clock],
              Null, InTurn(k, WaitingFor(k)), "lock")
    BY <1>3 DEF CallNext
  <2>. QED BY <1>0, <2>1, NoCommandType, StartInv
<1>4. ASSUME NEW t \in TicketId, NEW target \in Status, NEW k \in Counter \cup {Null},
             ApplyTransition(p, t, target, k)
      PROVE  Inv'
  <2>. DEFINE command == [NoCommand EXCEPT !.op = "transition", !.id = t, !.counter = k,
                             !.target = target, !.n = DeclaredPolicy(tickets[t].status, target).n,
                             !.now = clock,
                             !.silent = target = tickets[t].status /\ target # "CALLING"]
  <2>1. command.op = "transition"
    BY DEF NoCommand
  <2>2. \E ticket, at : at \in {"plan", "save"} /\ Start(p, command, ticket, {}, at)
    <3>. DEFINE ticket == TransitionTo(tickets[t], target, k,
                             IF DeclaredPolicy(tickets[t].status, target).kind = "TO_BACK"
                             THEN clock ELSE tickets[t].waitingOrder)
    <3>1. Start(p, command, tickets[t], {}, "plan") \/ Start(p, command, ticket, {}, "save")
      BY <1>4 DEF ApplyTransition
    <3>. HIDE DEF ticket, command
    <3>. QED BY <3>1
  <2>. HIDE DEF command
  <2>. QED BY <1>0, <2>1, <2>2, StartInv
<1>5. ASSUME NEW t \in TicketId, Reannounce(p, t)
      PROVE  Inv'
  <2>. DEFINE command == [NoCommand EXCEPT !.op = "reannounce", !.id = t, !.now = clock]
  <2>1. Start(p, command, Reannounced(tickets[t]), {}, "save")
    BY <1>5 DEF Reannounce
  <2>2. command.op = "reannounce"
    BY DEF NoCommand
  <2>. HIDE DEF command
  <2>. QED BY <1>0, <2>1, <2>2, StartInv
<1>6. ASSUME NEW value \in ResetTarget, NEW archive \in BOOLEAN, ResetDaily(p, value, archive)
      PROVE  Inv'
  <2>. DEFINE command == [NoCommand EXCEPT !.op = "reset", !.now = clock, !.resetTo = value]
              old     == InAnyOrder({t \in TicketId : IsOld(t, clock)})
  <2>1. \/ Start(p, command, Null, old, "archive")
        \/ Start(p, command, Null, InAnyOrder(CountersOf(Day(clock))), "resetSequences")
    BY <1>6 DEF ResetDaily
  <2>2. \A t \in IdsOf(old) : tickets[t] # Null
    BY VisitsType DEF IsOld
  <2>. HIDE DEF command, old
  <2>. QED BY <1>0, <2>1, <2>2, StartInv
<1>. QED BY <1>1, <1>2, <1>3, <1>4, <1>5, <1>6 DEF Request

-----------------------------------------------------------------------------
(* The inductive invariant: the environment *)

LEMMA CleanupInv == Inv /\ Cleanup => Inv'
<1>. SUFFICES ASSUME Inv, Cleanup PROVE Inv'
  OBVIOUS
<1>. USE DEF Inv
<1>1. /\ UNCHANGED <<tickets, sequences, rowLock, seqLock, pc, cmd, row, todo, done, clock, announced, issued, round>>
      /\ archived' \in [TicketId -> Ticket \cup {Null}]
      /\ \A t \in TicketId : archived'[t] \in {archived[t], Null}
      /\ purged' \subseteq TicketId
  BY DEF Cleanup, TypeOK, locks, request
<1>2. \A q \in Proc : RequestShape(q)' /\ HoldsItsLocks(q)' /\ HoldsItsClaim(q)'
  BY <1>1, Others
<1>. QED BY <1>1, <1>2 DEF TypeOK, WritesAreLocked, ClaimIsExclusive

LEMMA CrashInv == Inv /\ Crash => Inv'
<1>. SUFFICES ASSUME Inv, Crash PROVE Inv'
  OBVIOUS
<1>. USE DEF Inv
<1>1. /\ pc' = [p \in Proc |-> "idle"] /\ cmd' = [p \in Proc |-> NoCommand]
      /\ row' = [p \in Proc |-> Null] /\ todo' = [p \in Proc |-> {}] /\ done' = [p \in Proc |-> {}]
      /\ rowLock' = [t \in TicketId |-> Null] /\ seqLock' = [k \in CounterKey |-> Null]
      /\ UNCHANGED <<tickets, archived, sequences, clock, announced, issued, round, purged>>
  BY DEF Crash, store, history
<1>2. ASSUME NEW q \in Proc
      PROVE  RequestShape(q)' /\ HoldsItsLocks(q)' /\ HoldsItsClaim(q)'
  <2>1. pc'[q] = "idle" /\ cmd'[q].op = Null /\ done'[q] = {}
    BY <1>1 DEF NoCommand
  <2>2. Null \notin {"create", "transfer", "callNext", "transition", "reset"}
    BY TicketQueueAssumption DEF AllOps
  <2>. QED BY <2>1, <2>2 DEF RequestShape, HoldsItsLocks, HoldsItsClaim, Issues, InTransaction
<1>3. /\ pc' \in [Proc -> PC] /\ cmd' \in [Proc -> Command] /\ row' \in [Proc -> Ticket \cup {Null}]
      /\ todo' \in [Proc -> SUBSET Visit] /\ done' \in [Proc -> SUBSET Visit]
  BY <1>1, NoCommandType DEF PC
<1>. QED BY <1>1, <1>2, <1>3 DEF TypeOK, WritesAreLocked, ClaimIsExclusive

LEMMA TickInv == Inv /\ Tick => Inv'
<1>. SUFFICES ASSUME Inv, Tick PROVE Inv'
  OBVIOUS
<1>. USE DEF Inv
<1>1. /\ UNCHANGED <<tickets, archived, sequences, rowLock, seqLock, pc, cmd, row, todo, done, announced, issued, round, purged>>
      /\ clock' \in 0..MaxClock
  BY TicketQueueAssumption DEF Tick, TypeOK, store, locks, request, history
<1>2. \A q \in Proc : RequestShape(q)' /\ HoldsItsLocks(q)' /\ HoldsItsClaim(q)'
  BY <1>1, Others
<1>. QED BY <1>1, <1>2 DEF TypeOK, WritesAreLocked, ClaimIsExclusive

LEMMA StutterInv == Inv /\ UNCHANGED vars => Inv'
<1>. SUFFICES ASSUME Inv, UNCHANGED vars PROVE Inv'
  OBVIOUS
<1>. USE DEF Inv
<1>1. UNCHANGED <<tickets, archived, sequences, rowLock, seqLock, pc, cmd, row, todo, done, clock, announced, issued, round, purged>>
  BY DEF vars, store, locks, request, history
<1>2. \A q \in Proc : RequestShape(q)' /\ HoldsItsLocks(q)' /\ HoldsItsClaim(q)'
  BY <1>1, Others
<1>. QED BY <1>1, <1>2 DEF TypeOK, WritesAreLocked, ClaimIsExclusive

LEMMA NextInv == Inv /\ [Next]_vars => Inv'
<1>. SUFFICES ASSUME Inv, [Next]_vars PROVE Inv'
  OBVIOUS
<1>1. ASSUME NEW p \in Proc, Request(p) PROVE Inv'
  BY <1>1, RequestInv
<1>2. ASSUME NEW p \in Proc, Continue(p) PROVE Inv'
  <2>1. NothingToCall(p) => Inv'
    BY RollbackInv DEF NothingToCall
  <2>. QED BY <1>2, <2>1, ReserveInv, PlanRequeueInv, SaveInv, InsertArchivedInv, LockNextInv,
              AssignOrderInv, ArchiveRowInv, ResetSequenceInv, CommitInv, CommitResetInv,
              DispatchInv
           DEF Continue
<1>3. ASSUME NEW p \in Proc, Abort(p) \/ DeadlockVictim(p) PROVE Inv'
  BY <1>3, RollbackInv DEF Abort, DeadlockVictim
<1>. QED BY <1>1, <1>2, <1>3, CleanupInv, CrashInv, TickInv, StutterInv DEF Next

THEOREM Invariance == Spec => []Inv
BY InitInv, NextInv, PTL DEF Spec

(* The tables, the locks and the requests keep their types for any number  *)
(* of tickets and concurrent requests.                                     *)
THEOREM TypeCorrectness == Spec => []TypeOK
BY Invariance, PTL DEF Inv

(* No two transactions of the use cases ever write one row, or reserve     *)
(* from one counter, at the same time.                                     *)
THEOREM TransactionsAreIsolated == Spec => []WritesAreLocked
BY Invariance, PTL DEF Inv

(* FOR UPDATE does what findNextWaiting relies on: a ticket is claimed by  *)
(* one call-next at a time, and while it still waits for the counter.      *)
THEOREM NoDoubleClaim == Spec => []ClaimIsExclusive
BY Invariance, PTL DEF Inv

-----------------------------------------------------------------------------
(* The numbers.  A counter's value bounds what its current round has       *)
(* issued, and a reservation in flight is the counter's next number, which *)
(* the lock keeps from moving until the commit.                            *)

CounterOf(number) == <<number.category, number.day>>

Reserved(p) == pc[p] \in {"save", "commit"} /\ Issues(p)

ReservationHolds(p) == Reserved(p) => row[p].number = NextNumber(NumberKey(p))

NumberInv ==
    /\ \A m \in issued :
          /\ CounterOf(m.number) \in CounterKey
          /\ m.number.round <= round[CounterOf(m.number)]
          /\ m.number.round = round[CounterOf(m.number)] =>
                m.number.seq < NextSeq(CounterOf(m.number))
    /\ \A p \in Proc : ReservationHolds(p)
    /\ NumbersAreUnique

(* Steps that move no counter and issue nothing.                           *)
LEMMA NumberFrame ==
    ASSUME Inv, NumberInv, UNCHANGED <<sequences, round, issued>>,
           \A p \in Proc : Reserved(p)' =>
              Reserved(p) /\ row'[p] = row[p] /\ cmd'[p] = cmd[p]
    PROVE  NumberInv'
<1>1. \A key : NextSeq(key)' = NextSeq(key) /\ NextNumber(key)' = NextNumber(key)
  BY DEF NextSeq, NextNumber
<1>2. \A p \in Proc : ReservationHolds(p)'
  BY <1>1 DEF NumberInv, NumberKey, NextNumber, NextSeq, ReservationHolds
<1>. QED BY <1>1, <1>2 DEF NumberInv, NumbersAreUnique, CounterOf

(* What a committed number does to its counter, the number and the counter *)
(* being named by values that do not move with the step.                   *)
LEMMA CommitNumbers ==
    ASSUME Inv, NumberInv, NEW p \in Proc, Commit(p), Issues(p)
    PROVE  NumberInv'
<1>0. NumberKey(p) \in CounterKey /\ Reserved(p) /\ seqLock[NumberKey(p)] = p
  BY NumberKeyType DEF Inv, TypeOK, WritesAreLocked, HoldsItsLocks, RequestShape, Commit, Reserved
<1>. PICK key \in CounterKey : key = NumberKey(p)
  BY <1>0
<1>. PICK mint : mint = [id |-> row[p].id, number |-> row[p].number]
  OBVIOUS
<1>1. seqLock[key] = p
  BY <1>0
<1>2. mint.number = NextNumber(key)
  BY <1>0 DEF NumberInv, ReservationHolds
<1>3. /\ sequences' = [sequences EXCEPT ![key] = mint.number.seq]
      /\ issued' = issued \cup {mint}
      /\ pc' = [pc EXCEPT ![p] = "dispatch"] /\ UNCHANGED <<round, cmd, row>>
  BY DEF Commit, GoTo
<1>4. sequences[key] \in Nat \cup {Null} /\ NextSeq(key) \in Nat /\ round[key] \in Nat
  BY DEF Inv, TypeOK, NextSeq
<1>5. mint.number.seq = NextSeq(key) /\ mint.number.round = round[key]
  BY <1>2 DEF NextNumber
<1>6. CounterOf(mint.number) = key
  BY <1>2 DEF NextNumber, CounterOf, CounterKey
<1>7. /\ NextSeq(key)' = NextSeq(key) + 1
      /\ \A k \in CounterKey \ {key} : NextSeq(k)' = NextSeq(k)
  <2>1. sequences'[key] = NextSeq(key) /\ \A k \in CounterKey \ {key} : sequences'[k] = sequences[k]
    BY <1>3, <1>5 DEF Inv, TypeOK
  <2>2. sequences'[key] # Null
    BY <1>4, <2>1, TicketQueueAssumption
  <2>3. NextSeq(key)' = sequences'[key] + 1
    BY <2>2 DEF NextSeq
  <2>. QED BY <2>1, <2>3 DEF NextSeq
<1>8. \A m \in issued' :
          /\ CounterOf(m.number) \in CounterKey
          /\ m.number.round <= round'[CounterOf(m.number)]
          /\ m.number.round = round'[CounterOf(m.number)] =>
                m.number.seq < NextSeq(CounterOf(m.number))'
  <2>1. ASSUME NEW m \in issued
        PROVE  /\ CounterOf(m.number) \in CounterKey
               /\ m.number.round <= round[CounterOf(m.number)]
               /\ m.number.round = round[CounterOf(m.number)] =>
                     m.number.seq < NextSeq(CounterOf(m.number))'
    <3>. PICK k : k = CounterOf(m.number)
      OBVIOUS
    <3>1. /\ k \in CounterKey /\ m.number.round <= round[k]
          /\ m.number.round = round[k] => m.number.seq < NextSeq(k)
      BY DEF NumberInv
    <3>2. m.number.seq \in Nat
      BY DEF Inv, TypeOK, Mint, TicketNumber
    <3>3. m.number.round = round[k] => m.number.seq < NextSeq(k)'
      <4>1. CASE k = key
        BY <1>4, <1>7, <3>1, <3>2, <4>1
      <4>2. CASE k # key
        BY <1>7, <3>1, <4>2
      <4>. QED BY <4>1, <4>2
    <3>. QED BY <3>1, <3>3
  <2>2. mint.number.seq < NextSeq(CounterOf(mint.number))'
    BY <1>4, <1>5, <1>6, <1>7
  <2>3. mint.number.round <= round[CounterOf(mint.number)]
    BY <1>4, <1>5, <1>6
  <2>. QED BY <1>3, <1>6, <2>1, <2>2, <2>3
<1>9. \A q \in Proc : ReservationHolds(q)'
  <2>. SUFFICES ASSUME NEW q \in Proc, Reserved(q)' PROVE ReservationHolds(q)'
    BY DEF ReservationHolds
  <2>1. q # p /\ Reserved(q)
    BY <1>3 DEF Reserved, Issues, Inv, TypeOK
  <2>2. NumberKey(q) \in CounterKey /\ seqLock[NumberKey(q)] = q
    BY <2>1, NumberKeyType DEF Inv, TypeOK, WritesAreLocked, HoldsItsLocks, RequestShape, Reserved
  <2>. PICK k \in CounterKey : k = NumberKey(q)
    BY <2>2
  <2>3. k # key
    BY <1>1, <2>1, <2>2
  <2>4. row[q].number = NextNumber(k) /\ NumberKey(q)' = k
    BY <1>3, <2>1 DEF NumberInv, NumberKey, ReservationHolds
  <2>5. NextNumber(k)' = NextNumber(k)
    BY <1>3, <1>7, <2>3 DEF NextNumber
  <2>. QED BY <1>3, <2>4, <2>5 DEF ReservationHolds
<1>10. NumbersAreUnique'
  <2>1. \A m \in issued : m.number # mint.number
    <3>. SUFFICES ASSUME NEW m \in issued, m.number = mint.number PROVE FALSE
      OBVIOUS
    <3>1. m.number.seq < NextSeq(key)
      BY <1>5, <1>6 DEF NumberInv
    <3>. QED BY <1>4, <1>5, <3>1
  <2>. QED BY <1>3, <2>1 DEF NumberInv, NumbersAreUnique
<1>. QED BY <1>8, <1>9, <1>10 DEF NumberInv

(* A reset starts a new round of the counters it has locked: no number of  *)
(* an earlier round is in it, and nobody else has reserved from them.      *)
LEMMA CommitResetNumbers ==
    ASSUME Inv, NumberInv, NEW p \in Proc, CommitReset(p)
    PROVE  NumberInv'
<1>1. /\ pc' = [pc EXCEPT ![p] = "dispatch"] /\ UNCHANGED <<cmd, row, issued>>
      /\ \A k \in CounterKey :
            /\ seqLock[k] = p => round'[k] = round[k] + 1
            /\ seqLock[k] # p => round'[k] = round[k] /\ sequences'[k] = sequences[k]
  BY DEF CommitReset, GoTo, ArchiveWith
<1>2. ASSUME NEW m \in issued
      PROVE  /\ CounterOf(m.number) \in CounterKey
             /\ m.number.round <= round'[CounterOf(m.number)]
             /\ m.number.round = round'[CounterOf(m.number)] =>
                   m.number.seq < NextSeq(CounterOf(m.number))'
  <2>. PICK k : k = CounterOf(m.number)
    OBVIOUS
  <2>1. /\ k \in CounterKey /\ m.number.round <= round[k]
        /\ m.number.round = round[k] => m.number.seq < NextSeq(k)
    BY DEF NumberInv
  <2>2. m.number.round \in Nat /\ round[k] \in Nat
    BY <2>1 DEF Inv, TypeOK, Mint, TicketNumber
  <2>3. CASE seqLock[k] = p
    BY <1>1, <2>1, <2>2, <2>3
  <2>4. CASE seqLock[k] # p
    BY <1>1, <2>1, <2>4 DEF NextSeq
  <2>. QED BY <2>3, <2>4
<1>3. \A q \in Proc : ReservationHolds(q)'
  <2>. SUFFICES ASSUME NEW q \in Proc, Reserved(q)' PROVE ReservationHolds(q)'
    BY DEF ReservationHolds
  <2>1. q # p /\ Reserved(q)
    BY <1>1 DEF Reserved, Issues, Inv, TypeOK
  <2>2. NumberKey(q) \in CounterKey /\ seqLock[NumberKey(q)] = q
    BY <2>1, NumberKeyType DEF Inv, TypeOK, WritesAreLocked, HoldsItsLocks, RequestShape, Reserved
  <2>. PICK k \in CounterKey : k = NumberKey(q)
    BY <2>2
  <2>3. row[q].number = NextNumber(k) /\ NumberKey(q)' = k
    BY <1>1, <2>1 DEF NumberInv, NumberKey, ReservationHolds
  <2>4. NextNumber(k)' = NextNumber(k)
    BY <1>1, <2>1, <2>2 DEF NextNumber, NextSeq
  <2>. QED BY <1>1, <2>3, <2>4 DEF ReservationHolds
<1>. QED BY <1>1, <1>2, <1>3 DEF NumberInv, NumbersAreUnique

LEMMA ReserveNumbers ==
    ASSUME Inv, NumberInv, NEW p \in Proc, Reserve(p)
    PROVE  NumberInv'
<1>. DEFINE number == NextNumber(NumberKey(p))
            ticket == IF cmd[p].op = "create" THEN NewTicket(cmd[p].id, number, cmd[p].now)
                                              ELSE Transferred(row[p], number)
<1>1. /\ pc' = [pc EXCEPT ![p] = "save"] /\ row' = [row EXCEPT ![p] = ticket]
      /\ UNCHANGED <<sequences, cmd, issued, round>>
  BY DEF Reserve, GoTo, store, history, TakeCounter
<1>2. ticket.number = number
  <2>1. NewTicket(cmd[p].id, number, cmd[p].now).number = number
    BY DEF NewTicket
  <2>2. cmd[p].op # "create" => Transferred(row[p], number).number = number
    <3>1. cmd[p].op # "create" => row[p] \in Ticket
      BY DEF Inv, TypeOK, RequestShape, Reserve, Issues, TakeCounter
    <3>. HIDE DEF number
    <3>. QED BY <3>1 DEF Transferred, Waiting, Ticket
  <2>. QED BY <2>1, <2>2
<1>. HIDE DEF ticket
<1>3. \A key : NextNumber(key)' = NextNumber(key)
  BY <1>1 DEF NextSeq, NextNumber
<1>4. ASSUME NEW q \in Proc, Reserved(q)' PROVE ReservationHolds(q)'
  <2>0. NumberKey(q)' = NumberKey(q)
    BY <1>1 DEF NumberKey
  <2>. PICK k : k = NumberKey(q)
    OBVIOUS
  <2>1. CASE q = p
    <3>1. row'[p].number = NextNumber(NumberKey(p))
      BY <1>1, <1>2 DEF Inv, TypeOK
    <3>. QED BY <1>3, <2>0, <2>1, <3>1 DEF ReservationHolds
  <2>2. CASE q # p
    <3>1. Reserved(q) /\ row'[q] = row[q]
      BY <1>1, <1>4, <2>2 DEF Reserved, Issues, Inv, TypeOK
    <3>2. row'[q].number = NextNumber(k)
      BY <3>1 DEF NumberInv, ReservationHolds
    <3>. QED BY <1>3, <2>0, <3>2 DEF ReservationHolds
  <2>. QED BY <2>1, <2>2
<1>5. \A q \in Proc : ReservationHolds(q)'
  BY <1>4 DEF ReservationHolds
<1>. QED BY <1>1, <1>3, <1>5 DEF NumberInv, NumbersAreUnique, NextSeq, CounterOf

(* A request that only begins has reserved nothing and changed no table.   *)
LEMMA RequestBegins ==
    ASSUME Inv, NEW p \in Proc, Request(p)
    PROVE  /\ UNCHANGED <<store, history>> /\ ~Reserved(p)'
           /\ \A q \in Proc \ {p} : /\ pc'[q] = pc[q] /\ cmd'[q] = cmd[q]
                                    /\ row'[q] = row[q]
<1>1. SUFFICES ASSUME NEW command, NEW ticket, NEW visits, NEW at,
                      Start(p, command, ticket, visits, at),
                      at = "save" => command.op \in {"transition", "reannounce"},
                      at # "commit"
               PROVE  /\ UNCHANGED <<store, history>> /\ ~Reserved(p)'
                      /\ \A q \in Proc \ {p} : /\ pc'[q] = pc[q] /\ cmd'[q] = cmd[q]
                                               /\ row'[q] = row[q]
  <2>1. \A t \in TicketId, c \in Category : CreateTicket(p, t, c) =>
          \E command : Start(p, command, Null, {}, "reserve")
    BY DEF CreateTicket
  <2>2. \A t \in TicketId, c \in Category : Transfer(p, t, c) =>
          \E command : Start(p, command, tickets[t], {}, "reserve")
    BY DEF Transfer
  <2>3. \A k \in Counter : CallNext(p, k) =>
          \E command : Start(p, command, Null, InTurn(k, WaitingFor(k)), "lock")
    BY DEF CallNext
  <2>4. ASSUME NEW t \in TicketId, NEW target \in Status, NEW k \in Counter \cup {Null},
               ApplyTransition(p, t, target, k)
        PROVE  \E command, ticket, at : /\ command.op = "transition" /\ at \in {"plan", "save"}
                                        /\ Start(p, command, ticket, {}, at)
    <3>. DEFINE command == [NoCommand EXCEPT !.op = "transition", !.id = t, !.counter = k,
                               !.target = target, !.n = DeclaredPolicy(tickets[t].status, target).n,
                               !.now = clock,
                               !.silent = target = tickets[t].status /\ target # "CALLING"]
                ticket == TransitionTo(tickets[t], target, k,
                             IF DeclaredPolicy(tickets[t].status, target).kind = "TO_BACK"
                             THEN clock ELSE tickets[t].waitingOrder)
    <3>1. Start(p, command, tickets[t], {}, "plan") \/ Start(p, command, ticket, {}, "save")
      BY <2>4 DEF ApplyTransition
    <3>2. command.op = "transition"
      BY DEF NoCommand
    <3>. HIDE DEF ticket, command
    <3>. QED BY <3>1, <3>2
  <2>5. \A t \in TicketId : Reannounce(p, t) =>
          \E command, ticket : command.op = "reannounce" /\ Start(p, command, ticket, {}, "save")
    <3>. SUFFICES ASSUME NEW t \in TicketId, Reannounce(p, t)
                  PROVE  \E command, ticket : /\ command.op = "reannounce"
                                              /\ Start(p, command, ticket, {}, "save")
      OBVIOUS
    <3>. DEFINE command == [NoCommand EXCEPT !.op = "reannounce", !.id = t, !.now = clock]
    <3>1. command.op = "reannounce"
      BY DEF NoCommand
    <3>2. Start(p, command, Reannounced(tickets[t]), {}, "save")
      BY DEF Reannounce
    <3>. HIDE DEF command
    <3>. QED BY <3>1, <3>2
  <2>6. \A value \in ResetTarget, archive \in BOOLEAN : ResetDaily(p, value, archive) =>
          \E command, visits, at : /\ at \in {"archive", "resetSequences"}
                                   /\ Start(p, command, Null, visits, at)
    BY DEF ResetDaily
  <2>7. \E command, ticket, visits, at :
           /\ Start(p, command, ticket, visits, at)
           /\ at = "save" => command.op \in {"transition", "reannounce"}
           /\ at # "commit"
    BY <2>1, <2>2, <2>3, <2>4, <2>5, <2>6, Zenon DEF Request
  <2>. QED BY <1>1, <2>7
<1>2. /\ pc'[p] = at /\ cmd'[p] = command
      /\ \A q \in Proc \ {p} : /\ pc'[q] = pc[q] /\ cmd'[q] = cmd[q] /\ row'[q] = row[q]
  BY <1>1, Started DEF Inv
<1>3. UNCHANGED <<store, history>>
  BY <1>1 DEF Start
<1>. QED BY <1>1, <1>2, <1>3 DEF Reserved, Issues

(* A step of p alone that leaves its reservation as it is, or gives it up.  *)
LEMMA StepNumbers ==
    ASSUME Inv, NumberInv, NEW p \in Proc, UNCHANGED <<sequences, round, issued>>,
           \A q \in Proc \ {p} : pc'[q] = pc[q] /\ cmd'[q] = cmd[q] /\ row'[q] = row[q],
           Reserved(p)' => Reserved(p) /\ row'[p] = row[p] /\ cmd'[p] = cmd[p]
    PROVE  NumberInv'
<1>1. \A q \in Proc \ {p} : Reserved(q)' => Reserved(q)
  BY DEF Reserved, Issues
<1>. QED BY <1>1, NumberFrame

LEMMA RollbackNumbers ==
    ASSUME Inv, NumberInv, NEW p \in Proc, Rollback(p)
    PROVE  NumberInv'
<1>1. /\ pc'[p] = "idle"
      /\ \A q \in Proc \ {p} : pc'[q] = pc[q] /\ cmd'[q] = cmd[q] /\ row'[q] = row[q]
  BY DEF Rollback, Finish, Inv, TypeOK
<1>2. UNCHANGED <<sequences, round, issued>>
  BY DEF Rollback, store, history
<1>. QED BY <1>1, <1>2, StepNumbers DEF Reserved

LEMMA ContinueNumbers ==
    ASSUME Inv, NumberInv, NEW p \in Proc, Continue(p)
    PROVE  NumberInv'
<1>. USE DEF Inv, TypeOK, store, history, locks
<1>1. CASE NothingToCall(p)
  BY <1>1, RollbackNumbers DEF NothingToCall
<1>2. CASE PlanRequeue(p)
  <2>1. cmd[p].op = "transition" /\ cmd' = cmd
    BY <1>2 DEF PlanRequeue, RequestShape
  <2>2. UNCHANGED <<sequences, round, issued>>
    BY <1>2 DEF PlanRequeue
  <2>3. \A q \in Proc \ {p} : pc'[q] = pc[q] /\ cmd'[q] = cmd[q] /\ row'[q] = row[q]
    BY <1>2 DEF PlanRequeue, GoTo
  <2>. QED BY <2>1, <2>2, <2>3, StepNumbers DEF Reserved, Issues
<1>3. CASE Save(p)
  <2>1. Reserved(p)' => Reserved(p)
    BY <1>3 DEF Save, Reserved, Issues
  <2>2. UNCHANGED <<sequences, round, issued, cmd, row>>
    BY <1>3 DEF Save
  <2>3. \A q \in Proc \ {p} : pc'[q] = pc[q]
    BY <1>3 DEF Save, GoTo
  <2>. QED BY <2>1, <2>2, <2>3, StepNumbers
<1>4. CASE InsertArchived(p)
  <2>1. CASE Rollback(p)
    BY <2>1, RollbackNumbers
  <2>2. CASE ~Rollback(p)
    <3>1. GoTo(p, "resetSequences") /\ UNCHANGED <<sequences, round, issued, cmd, row>>
      BY <1>4, <2>2 DEF InsertArchived
    <3>. QED BY <3>1, StepNumbers DEF GoTo, Reserved
  <2>. QED BY <2>1, <2>2
<1>5. ASSUME NEW visit \in todo[p], LockNext(p, visit)
      PROVE  NumberInv'
  <2>1. cmd[p].op = "callNext" /\ UNCHANGED <<sequences, round, issued, cmd>>
    BY <1>5 DEF LockNext, RequestShape, StillWaits
  <2>2. \A q \in Proc \ {p} : pc'[q] = pc[q] /\ row'[q] = row[q]
    BY <1>5 DEF LockNext, GoTo, StillWaits
  <2>. QED BY <2>1, <2>2, StepNumbers DEF Reserved, Issues
<1>6. ASSUME NEW visit \in todo[p], AssignOrder(p, visit)
      PROVE  NumberInv'
  <2>1. cmd[p].op = "transition" /\ UNCHANGED <<sequences, round, issued, cmd, row>>
    BY <1>6 DEF AssignOrder, RequestShape
  <2>2. \A q \in Proc \ {p} : pc'[q] = pc[q]
    BY <1>6 DEF AssignOrder, GoTo
  <2>. QED BY <2>1, <2>2, StepNumbers DEF Reserved, Issues
<1>7. ASSUME NEW visit \in todo[p], ArchiveRow(p, visit)
      PROVE  NumberInv'
  BY <1>7, StepNumbers DEF ArchiveRow, Reserved, Issues
<1>8. ASSUME NEW visit \in todo[p], ResetSequence(p, visit)
      PROVE  NumberInv'
  BY <1>8, StepNumbers DEF ResetSequence, Reserved, Issues, TakeCounter
<1>9. CASE Commit(p)
  <2>1. CASE Issues(p)
    BY <1>9, <2>1, CommitNumbers
  <2>2. CASE ~Issues(p)
    <3>1. GoTo(p, "dispatch") /\ UNCHANGED <<sequences, round, issued, cmd, row>>
      BY <1>9, <2>2 DEF Commit
    <3>. QED BY <3>1, StepNumbers DEF GoTo, Reserved
  <2>. QED BY <2>1, <2>2
<1>10. CASE Dispatch(p)
  <2>1. /\ pc'[p] = "idle"
        /\ \A q \in Proc \ {p} : pc'[q] = pc[q] /\ cmd'[q] = cmd[q] /\ row'[q] = row[q]
    BY <1>10 DEF Dispatch, Finish, HasCommitted
  <2>2. UNCHANGED <<sequences, round, issued>>
    BY <1>10 DEF Dispatch, HasCommitted
  <2>. QED BY <2>1, <2>2, StepNumbers DEF Reserved
<1>. QED BY <1>1, <1>2, <1>3, <1>4, <1>5, <1>6, <1>7, <1>8, <1>9, <1>10,
            ReserveNumbers, CommitResetNumbers DEF Continue

LEMMA NextNumbers ==
    ASSUME Inv, NumberInv, [Next]_vars
    PROVE  NumberInv'
<1>. USE DEF store, history, locks, request
<1>1. ASSUME NEW p \in Proc, Request(p) PROVE NumberInv'
  BY <1>1, RequestBegins, StepNumbers
<1>2. ASSUME NEW p \in Proc, Abort(p) \/ DeadlockVictim(p) PROVE NumberInv'
  BY <1>2, RollbackNumbers DEF Abort, DeadlockVictim
<1>3. Cleanup => NumberInv'
  BY NumberFrame DEF Cleanup, Reserved, Issues
<1>4. Crash => NumberInv'
  BY NumberFrame DEF Crash, Reserved, Issues
<1>5. Tick => NumberInv'
  BY NumberFrame DEF Tick, Reserved, Issues
<1>6. UNCHANGED vars => NumberInv'
  BY NumberFrame DEF vars, Reserved, Issues
<1>. QED BY <1>1, <1>2, <1>3, <1>4, <1>5, <1>6, ContinueNumbers DEF Next

(* nextTicketNumber, the reset and the transactions around them never give *)
(* one number to two tickets, however many requests create, transfer, fail *)
(* and reset at once.                                                      *)
THEOREM NoDuplicateNumbers == Spec => []NumbersAreUnique
<1>1. Init => NumberInv
  BY DEF Init, NumberInv, NumbersAreUnique, ReservationHolds, Reserved
<1>2. Inv /\ NumberInv /\ [Next]_vars => NumberInv'
  BY NextNumbers
<1>3. NumberInv => NumbersAreUnique
  BY DEF NumberInv
<1>. QED BY <1>1, <1>2, <1>3, Invariance, PTL DEF Spec

-----------------------------------------------------------------------------
(* The two stores *)

LEMMA StoresFrame ==
    ASSUME NoTicketLost, UNCHANGED <<tickets, archived, issued, purged>>
    PROVE  NoTicketLost'
BY DEF NoTicketLost

LEMMA CommitKeeps ==
    ASSUME Inv, NoTicketLost, NEW p \in Proc, Commit(p)
    PROVE  NoTicketLost'
<1>1. row[p] \in Ticket /\ row[p].id \in TicketId
  BY DEF Inv, TypeOK, RequestShape, Commit, Ticket
<1>2. tickets'[row[p].id] # Null
  BY <1>1, TicketQueueAssumption DEF Commit
<1>3. /\ UNCHANGED <<archived, purged>>
      /\ \A m \in issued' : m \in issued \/ m.id = row[p].id
  BY DEF Commit
<1>4. \A m \in issued : m.id \in TicketId
  BY DEF Inv, TypeOK, Mint
<1>. QED BY <1>2, <1>3, <1>4, CommittedRows DEF NoTicketLost

(* What a reset deletes it has read under the row's lock, and archives.    *)
LEMMA CommitResetKeeps ==
    ASSUME Inv, NoTicketLost, NEW p \in Proc, CommitReset(p)
    PROVE  NoTicketLost'
<1>. DEFINE old == IdsOf(done[p])
<1>1. \A t \in old : tickets[t] # Null
  BY DEF Inv, TypeOK, RequestShape, CommitReset, WritesAreLocked, HoldsItsLocks, InTransaction, ArchiveWith
<1>2. \A m \in issued : m.id \in TicketId
  BY DEF Inv, TypeOK, Mint
<1>3. /\ tickets'  = [t \in TicketId |-> IF t \in old THEN Null ELSE tickets[t]]
      /\ archived' = [t \in TicketId |-> IF t \in old THEN tickets[t] ELSE archived[t]]
      /\ UNCHANGED <<issued, purged>>
  BY DEF CommitReset, ArchiveWith
<1>. HIDE DEF old
<1>. QED BY <1>1, <1>2, <1>3 DEF NoTicketLost

LEMMA NextKeeps ==
    ASSUME Inv, NoTicketLost, [Next]_vars
    PROVE  NoTicketLost'
<1>. USE DEF store, history
<1>1. ASSUME NEW p \in Proc, Request(p) PROVE NoTicketLost'
  BY <1>1, RequestBegins, StoresFrame
<1>2. ASSUME NEW p \in Proc, Rollback(p) PROVE NoTicketLost'
  BY <1>2, StoresFrame DEF Rollback
<1>3. ASSUME NEW p \in Proc, Continue(p) PROVE NoTicketLost'
  <2>1. (Reserve(p) \/ PlanRequeue(p) \/ Save(p) \/ Dispatch(p)) => NoTicketLost'
    BY StoresFrame DEF Reserve, PlanRequeue, Save, Dispatch, TakeCounter, HasCommitted
  <2>2. (NothingToCall(p) \/ InsertArchived(p)) => NoTicketLost'
    BY <1>2, StoresFrame DEF NothingToCall, InsertArchived
  <2>3. ASSUME NEW visit \in todo[p],
               \/ LockNext(p, visit) \/ AssignOrder(p, visit)
               \/ ArchiveRow(p, visit) \/ ResetSequence(p, visit)
        PROVE  NoTicketLost'
    BY <2>3, StoresFrame DEF LockNext, AssignOrder, ArchiveRow, ResetSequence, TakeCounter, StillWaits
  <2>4. (Commit(p) \/ CommitReset(p)) => NoTicketLost'
    BY CommitKeeps, CommitResetKeeps
  <2>. QED BY <1>3, <2>1, <2>2, <2>3, <2>4 DEF Continue
<1>4. Cleanup => NoTicketLost'
  <2>. SUFFICES ASSUME Cleanup PROVE NoTicketLost'
    OBVIOUS
  <2>1. \E expired : /\ archived' = [t \in TicketId |-> IF t \in expired THEN Null ELSE archived[t]]
                     /\ purged' = purged \cup expired /\ UNCHANGED <<tickets, issued>>
    BY DEF Cleanup
  <2>2. \A m \in issued : m.id \in TicketId
    BY DEF Inv, TypeOK, Mint
  <2>. QED BY <2>1, <2>2 DEF NoTicketLost
<1>5. (Crash \/ Tick \/ UNCHANGED vars) => NoTicketLost'
  BY StoresFrame DEF Crash, Tick, vars
<1>. QED BY <1>1, <1>2, <1>3, <1>4, <1>5 DEF Next, Abort, DeadlockVictim

(* archiveTicketsBefore relocates: a reset, an abort or a crash loses no    *)
(* ticket, only a cleanup of the archive removes one.                      *)
THEOREM TicketsAreKept == Spec => []NoTicketLost
<1>1. Init => NoTicketLost
  BY DEF Init, NoTicketLost
<1>2. Inv /\ NoTicketLost /\ [Next]_vars => NoTicketLost'
  BY NextKeeps
<1>. QED BY <1>1, <1>2, Invariance, PTL DEF Spec

-----------------------------------------------------------------------------
(* The numbers of a round, continued: no gap among them.  A counter that   *)
(* has issued in its current round has a row, and the next reservation is  *)
(* one past it.                                                            *)

Gapless(k) ==
    SeqsOf(k) # {} =>
        /\ sequences[k] \in Nat
        /\ \E first \in SeqsOf(k) : SeqsOf(k) = first..sequences[k]

GapInv == \A k \in CounterKey : Gapless(k)

LEMMA GapFrame ==
    ASSUME GapInv, UNCHANGED <<sequences, round, issued>>
    PROVE  GapInv'
BY DEF GapInv, Gapless, SeqsOf

LEMMA CommitGaps ==
    ASSUME Inv, NumberInv, GapInv, NEW p \in Proc, Commit(p), Issues(p)
    PROVE  GapInv'
<1>0. NumberKey(p) \in CounterKey /\ Reserved(p)
  BY NumberKeyType DEF Inv, TypeOK, RequestShape, Commit, Reserved
<1>. PICK key \in CounterKey : key = NumberKey(p)
  BY <1>0
<1>. PICK mint : mint = [id |-> row[p].id, number |-> row[p].number]
  OBVIOUS
<1>1. mint.number = NextNumber(key)
  BY <1>0 DEF NumberInv, ReservationHolds
<1>2. /\ sequences' = [sequences EXCEPT ![key] = mint.number.seq]
      /\ issued' = issued \cup {mint} /\ UNCHANGED round
  BY DEF Commit
<1>3. sequences \in [CounterKey -> Nat \cup {Null}] /\ NextSeq(key) \in Nat
  BY DEF Inv, TypeOK, NextSeq
<1>4. /\ mint.number.seq = NextSeq(key) /\ mint.number.round = round[key]
      /\ <<mint.number.category, mint.number.day>> = key
  BY <1>1 DEF NextNumber, CounterKey
<1>5. /\ sequences'[key] = NextSeq(key)
      /\ \A k \in CounterKey \ {key} : sequences'[k] = sequences[k]
  BY <1>2, <1>3, <1>4
<1>6. SeqsOf(key)' = SeqsOf(key) \cup {NextSeq(key)}
  BY <1>2, <1>4 DEF SeqsOf
<1>7. \A k \in CounterKey \ {key} : SeqsOf(k)' = SeqsOf(k)
  BY <1>2, <1>4 DEF SeqsOf
<1>8. Gapless(key)'
  <2>1. CASE SeqsOf(key) = {}
    <3>1. SeqsOf(key)' = NextSeq(key)..NextSeq(key)
      BY <1>3, <1>6, <2>1
    <3>. QED BY <1>3, <1>5, <1>6, <3>1 DEF Gapless
  <2>2. CASE SeqsOf(key) # {}
    <3>1. PICK first \in SeqsOf(key) : SeqsOf(key) = first..sequences[key]
      BY <2>2 DEF GapInv, Gapless
    <3>2. /\ sequences[key] \in Nat /\ sequences[key] # Null
          /\ NextSeq(key) = sequences[key] + 1
      BY <2>2, TicketQueueAssumption DEF GapInv, Gapless, NextSeq
    <3>3. first \in Nat
      BY DEF SeqsOf, Inv, TypeOK, Mint, TicketNumber
    <3>4. first <= sequences[key]
      BY <3>1, <3>2, <3>3
    <3>. HIDE DEF SeqsOf
    <3>5. SeqsOf(key)' = first..sequences'[key] /\ first \in SeqsOf(key)'
      BY <1>5, <1>6, <3>1, <3>2, <3>3, <3>4
    <3>. QED BY <1>3, <1>5, <3>5 DEF Gapless
  <2>. QED BY <2>1, <2>2
<1>9. \A k \in CounterKey \ {key} : Gapless(k)'
  BY <1>5, <1>7 DEF GapInv, Gapless
<1>. QED BY <1>8, <1>9 DEF GapInv

(* A counter that is reset has issued nothing in its new round.            *)
LEMMA CommitResetGaps ==
    ASSUME Inv, NumberInv, GapInv, NEW p \in Proc, CommitReset(p)
    PROVE  GapInv'
<1>1. /\ UNCHANGED issued
      /\ \A k \in CounterKey :
            /\ seqLock[k] = p => round'[k] = round[k] + 1
            /\ seqLock[k] # p => round'[k] = round[k] /\ sequences'[k] = sequences[k]
  BY DEF CommitReset, ArchiveWith
<1>2. ASSUME NEW k \in CounterKey PROVE Gapless(k)'
  <2>1. CASE seqLock[k] = p
    <3>1. ASSUME NEW m \in issued, <<m.number.category, m.number.day>> = k
          PROVE  m.number.round # round'[k]
      <4>1. m.number.round <= round[k]
        BY <3>1 DEF NumberInv, CounterOf
      <4>2. m.number.round \in Nat /\ round[k] \in Nat
        BY DEF Inv, TypeOK, Mint, TicketNumber
      <4>. QED BY <1>1, <2>1, <4>1, <4>2
    <3>2. SeqsOf(k)' = {}
      BY <1>1, <3>1 DEF SeqsOf
    <3>. QED BY <3>2 DEF Gapless
  <2>2. CASE seqLock[k] # p
    <3>1. SeqsOf(k)' = SeqsOf(k)
      BY <1>1, <2>2 DEF SeqsOf
    <3>. QED BY <1>1, <2>2, <3>1 DEF GapInv, Gapless
  <2>. QED BY <2>1, <2>2
<1>. QED BY <1>2 DEF GapInv

LEMMA NextGaps ==
    ASSUME Inv, NumberInv, GapInv, [Next]_vars
    PROVE  GapInv'
<1>. USE DEF store, history
<1>1. ASSUME NEW p \in Proc, Request(p) PROVE GapInv'
  BY <1>1, RequestBegins, GapFrame
<1>2. ASSUME NEW p \in Proc, Rollback(p) PROVE GapInv'
  BY <1>2, GapFrame DEF Rollback
<1>3. ASSUME NEW p \in Proc, Continue(p) PROVE GapInv'
  <2>1. (Reserve(p) \/ PlanRequeue(p) \/ Save(p) \/ Dispatch(p)) => GapInv'
    BY GapFrame DEF Reserve, PlanRequeue, Save, Dispatch, TakeCounter, HasCommitted
  <2>2. (NothingToCall(p) \/ InsertArchived(p)) => GapInv'
    BY <1>2, GapFrame DEF NothingToCall, InsertArchived
  <2>3. ASSUME NEW visit \in todo[p],
               \/ LockNext(p, visit) \/ AssignOrder(p, visit)
               \/ ArchiveRow(p, visit) \/ ResetSequence(p, visit)
        PROVE  GapInv'
    BY <2>3, GapFrame DEF LockNext, AssignOrder, ArchiveRow, ResetSequence, TakeCounter, StillWaits
  <2>4. Commit(p) => GapInv'
    BY CommitGaps, GapFrame DEF Commit
  <2>. QED BY <1>3, <2>1, <2>2, <2>3, <2>4, CommitResetGaps DEF Continue
<1>4. Cleanup \/ Crash \/ Tick \/ UNCHANGED vars => GapInv'
  BY GapFrame DEF Cleanup, Crash, Tick, vars
<1>. QED BY <1>1, <1>2, <1>3, <1>4 DEF Next, Abort, DeadlockVictim

LEMMA NumbersInvariant == Spec => []NumberInv
<1>1. Init => NumberInv
  BY DEF Init, NumberInv, NumbersAreUnique, ReservationHolds, Reserved
<1>2. Inv /\ NumberInv /\ [Next]_vars => NumberInv'
  BY NextNumbers
<1>. QED BY <1>1, <1>2, Invariance, PTL DEF Spec

(* The numbers a counter has handed out since its last reset are contiguous *)
(* and end at its value: a creation or transfer that fails, or is lost in   *)
(* a crash, takes its number back with it.                                  *)
THEOREM NoNumberIsSkipped == Spec => []NoGaps
<1>1. Init => GapInv
  BY DEF Init, GapInv, Gapless, SeqsOf
<1>2. Inv /\ NumberInv /\ GapInv /\ [Next]_vars => GapInv'
  BY NextGaps
<1>3. GapInv => NoGaps
  BY DEF GapInv, Gapless, NoGaps
<1>. QED BY <1>1, <1>2, <1>3, Invariance, NumbersInvariant, PTL DEF Spec

-----------------------------------------------------------------------------
(* The events.  Whatever row a request carries, its number was committed   *)
(* before, unless the request is the one that is issuing it.               *)

MintOf(ticket) == [id |-> ticket.id, number |-> ticket.number]

CarriesAnIssuedNumber(p) == row[p] # Null /\ ~Reserved(p) => MintOf(row[p]) \in issued

IssuedInv ==
    /\ \A t \in TicketId : tickets[t] # Null => MintOf(tickets[t]) \in issued
    /\ \A p \in Proc : CarriesAnIssuedNumber(p)
    /\ OnlyCommittedAnnounced

(* No command but a transfer gives a ticket another number.                *)
LEMMA NumberIsKept ==
    ASSUME NEW ticket \in Ticket
    PROVE  /\ \A k : MintOf(CalledTo(ticket, k)) = MintOf(ticket)
           /\ MintOf(Reannounced(ticket)) = MintOf(ticket)
           /\ \A target \in Status : \A k, order :
                 MintOf(TransitionTo(ticket, target, k, order)) = MintOf(ticket)
<1>1. \A k : MintOf(CalledTo(ticket, k)) = MintOf(ticket)
  BY DEF MintOf, CalledTo, Ticket
<1>2. MintOf(Reannounced(ticket)) = MintOf(ticket)
  BY DEF MintOf, Reannounced, Ticket
<1>3. ASSUME NEW target \in Status, NEW k, NEW order
      PROVE  MintOf(TransitionTo(ticket, target, k, order)) = MintOf(ticket)
  <2>1. CASE target = "CALLING"
    BY <1>1, <2>1 DEF TransitionTo
  <2>2. CASE target # "CALLING" /\ target = ticket.status
    BY <2>2 DEF TransitionTo
  <2>3. CASE target = "WAITING" /\ target # ticket.status
    <3>1. TransitionTo(ticket, target, k, order) = [Waiting(ticket) EXCEPT !.waitingOrder = order]
      BY <2>3 DEF TransitionTo
    <3>. QED BY <3>1 DEF MintOf, Waiting, Ticket
  <2>4. CASE target # "CALLING" /\ target # "WAITING" /\ target # ticket.status
    <3>1. TransitionTo(ticket, target, k, order) =
              [ticket EXCEPT !.status    = target,
                             !.served    = @ \/ target = "SERVING",
                             !.completed = @ \/ target = "COMPLETED"]
      BY <2>4 DEF TransitionTo
    <3>. QED BY <3>1 DEF MintOf, Ticket
  <2>. QED BY <2>1, <2>2, <2>3, <2>4
<1>. QED BY <1>1, <1>2, <1>3

(* Steps that commit no row and announce nothing.                          *)
LEMMA IssuedFrame ==
    ASSUME IssuedInv, UNCHANGED <<tickets, issued, announced>>,
           \A p \in Proc : CarriesAnIssuedNumber(p)'
    PROVE  IssuedInv'
BY DEF IssuedInv, OnlyCommittedAnnounced

LEMMA IssuedStep ==
    ASSUME Inv, IssuedInv, NEW p \in Proc, UNCHANGED <<tickets, issued, announced>>,
           \A q \in Proc \ {p} : pc'[q] = pc[q] /\ cmd'[q] = cmd[q] /\ row'[q] = row[q],
           CarriesAnIssuedNumber(p)'
    PROVE  IssuedInv'
<1>1. \A q \in Proc \ {p} : CarriesAnIssuedNumber(q)'
  BY DEF IssuedInv, CarriesAnIssuedNumber, Reserved, Issues
<1>. QED BY <1>1, IssuedFrame

LEMMA RequestIssued ==
    ASSUME Inv, IssuedInv, NEW p \in Proc, Request(p)
    PROVE  IssuedInv'
<1>1. SUFFICES ASSUME NEW command, NEW ticket, NEW visits, NEW at,
                      Start(p, command, ticket, visits, at),
                      ticket # Null => MintOf(ticket) \in issued
               PROVE  IssuedInv'
  <2>1. \A t \in TicketId : tickets[t] # Null =>
            tickets[t] \in Ticket /\ MintOf(tickets[t]) \in issued
    BY DEF Inv, TypeOK, IssuedInv
  <2>2. ASSUME NEW t \in TicketId, NEW c \in Category, CreateTicket(p, t, c) PROVE IssuedInv'
    BY <1>1, <2>2 DEF CreateTicket
  <2>3. ASSUME NEW t \in TicketId, NEW c \in Category, Transfer(p, t, c) PROVE IssuedInv'
    BY <1>1, <2>1, <2>3 DEF Transfer
  <2>4. ASSUME NEW k \in Counter, CallNext(p, k) PROVE IssuedInv'
    BY <1>1, <2>4 DEF CallNext
  <2>5. ASSUME NEW t \in TicketId, NEW target \in Status, NEW k \in Counter \cup {Null},
               ApplyTransition(p, t, target, k)
        PROVE  IssuedInv'
    <3>. DEFINE command == [NoCommand EXCEPT !.op = "transition", !.id = t, !.counter = k,
                               !.target = target, !.n = DeclaredPolicy(tickets[t].status, target).n,
                               !.now = clock,
                               !.silent = target = tickets[t].status /\ target # "CALLING"]
                ticket == TransitionTo(tickets[t], target, k,
                             IF DeclaredPolicy(tickets[t].status, target).kind = "TO_BACK"
                             THEN clock ELSE tickets[t].waitingOrder)
    <3>1. tickets[t] # Null
      BY <2>5 DEF ApplyTransition
    <3>2. MintOf(tickets[t]) \in issued /\ MintOf(ticket) \in issued
      BY <2>1, <3>1, NumberIsKept
    <3>3. Start(p, command, tickets[t], {}, "plan") \/ Start(p, command, ticket, {}, "save")
      BY <2>5 DEF ApplyTransition
    <3>. HIDE DEF ticket, command
    <3>. QED BY <1>1, <3>2, <3>3
  <2>6. ASSUME NEW t \in TicketId, Reannounce(p, t) PROVE IssuedInv'
    <3>1. MintOf(Reannounced(tickets[t])) \in issued
      BY <2>1, <2>6, NumberIsKept DEF Reannounce
    <3>. QED BY <1>1, <2>6, <3>1 DEF Reannounce
  <2>7. ASSUME NEW value \in ResetTarget, NEW archive \in BOOLEAN, ResetDaily(p, value, archive)
        PROVE  IssuedInv'
    BY <1>1, <2>7 DEF ResetDaily
  <2>. QED BY <2>2, <2>3, <2>4, <2>5, <2>6, <2>7 DEF Request
<1>2. /\ row'[p] = ticket
      /\ \A q \in Proc \ {p} : /\ pc'[q] = pc[q] /\ cmd'[q] = cmd[q] /\ row'[q] = row[q]
  BY <1>1, Started DEF Inv
<1>3. UNCHANGED <<tickets, issued, announced>>
  BY <1>1 DEF Start, store, history
<1>4. CarriesAnIssuedNumber(p)'
  BY <1>1, <1>2, <1>3 DEF CarriesAnIssuedNumber
<1>. QED BY <1>2, <1>3, <1>4, IssuedStep

LEMMA RollbackIssued ==
    ASSUME Inv, IssuedInv, NEW p \in Proc, Rollback(p)
    PROVE  IssuedInv'
<1>1. /\ row'[p] = Null
      /\ \A q \in Proc \ {p} : pc'[q] = pc[q] /\ cmd'[q] = cmd[q] /\ row'[q] = row[q]
  BY DEF Rollback, Finish, Inv, TypeOK
<1>. QED BY <1>1, IssuedStep DEF Rollback, store, history, CarriesAnIssuedNumber

LEMMA CommitIssued ==
    ASSUME Inv, NumberInv, IssuedInv, NEW p \in Proc, Commit(p)
    PROVE  IssuedInv'
<1>1. /\ pc[p] = "commit" /\ row[p] \in Ticket /\ row[p].id \in TicketId /\ HoldsItsLocks(p)
      /\ row[p] # Null
  BY TicketQueueAssumption DEF Commit, Inv, TypeOK, RequestShape, WritesAreLocked, Ticket
<1>2. /\ pc' = [pc EXCEPT ![p] = "dispatch"] /\ UNCHANGED <<cmd, row, announced>>
      /\ issued \subseteq issued'
  BY DEF Commit, GoTo
<1>3. MintOf(row[p]) \in issued'
  <2>1. CASE Issues(p)
    BY <2>1 DEF Commit, MintOf
  <2>2. CASE ~Issues(p)
    BY <1>1, <1>2, <2>2 DEF IssuedInv, CarriesAnIssuedNumber, Reserved
  <2>. QED BY <2>1, <2>2
<1>4. ASSUME NEW t \in TicketId, tickets'[t] # Null PROVE MintOf(tickets'[t]) \in issued'
  <2>1. CASE t = row[p].id
    BY <1>3, <2>1 DEF Commit
  <2>2. CASE t # row[p].id /\ cmd[p].op = "transition" /\ t \in IdsOf(done[p])
    <3>1. tickets[t] # Null /\ tickets[t] \in Ticket /\ tickets'[t] = Reordered(t, done[p])
      BY <1>1, <2>2 DEF Commit, HoldsItsLocks, InTransaction, Inv, TypeOK
    <3>2. MintOf(Reordered(t, done[p])) = MintOf(tickets[t])
      BY <3>1 DEF Reordered, MintOf, Ticket
    <3>. QED BY <1>2, <3>1, <3>2 DEF IssuedInv
  <2>3. CASE t # row[p].id /\ ~(cmd[p].op = "transition" /\ t \in IdsOf(done[p]))
    BY <1>2, <1>4, <2>3 DEF Commit, IssuedInv
  <2>. QED BY <2>1, <2>2, <2>3
<1>5. ASSUME NEW q \in Proc PROVE CarriesAnIssuedNumber(q)'
  <2>1. CASE q = p
    BY <1>2, <1>3, <2>1 DEF CarriesAnIssuedNumber
  <2>2. CASE q # p
    BY <1>2, <2>2 DEF IssuedInv, CarriesAnIssuedNumber, Reserved, Issues, Inv, TypeOK
  <2>. QED BY <2>1, <2>2
<1>6. OnlyCommittedAnnounced'
  BY <1>2 DEF IssuedInv, OnlyCommittedAnnounced
<1>. QED BY <1>4, <1>5, <1>6 DEF IssuedInv

LEMMA CommitResetIssued ==
    ASSUME Inv, IssuedInv, NEW p \in Proc, CommitReset(p)
    PROVE  IssuedInv'
<1>1. /\ pc' = [pc EXCEPT ![p] = "dispatch"] /\ UNCHANGED <<cmd, row, announced, issued>>
      /\ \A t \in TicketId : tickets'[t] \in {Null, tickets[t]}
      /\ cmd[p].op = "reset"
  BY DEF CommitReset, GoTo, ArchiveWith, Inv, TypeOK, RequestShape
<1>2. ASSUME NEW q \in Proc PROVE CarriesAnIssuedNumber(q)'
  <2>1. Reserved(q) => Reserved(q)'
    BY <1>1 DEF Reserved, Issues, Inv, TypeOK
  <2>. QED BY <1>1, <2>1 DEF IssuedInv, CarriesAnIssuedNumber
<1>. QED BY <1>1, <1>2 DEF IssuedInv, OnlyCommittedAnnounced

LEMMA DispatchIssued ==
    ASSUME Inv, IssuedInv, NEW p \in Proc, Dispatch(p)
    PROVE  IssuedInv'
<1>1. /\ pc[p] = "dispatch" /\ row'[p] = Null /\ UNCHANGED <<tickets, issued>>
      /\ \A q \in Proc \ {p} : pc'[q] = pc[q] /\ cmd'[q] = cmd[q] /\ row'[q] = row[q]
  BY DEF Dispatch, HasCommitted, Finish, Inv, TypeOK, store, history
<1>2. \A q \in Proc : CarriesAnIssuedNumber(q)'
  BY <1>1 DEF IssuedInv, CarriesAnIssuedNumber, Reserved, Issues
<1>3. OnlyCommittedAnnounced'
  <2>1. CASE announced' = announced
    BY <1>1, <2>1 DEF IssuedInv, OnlyCommittedAnnounced
  <2>2. CASE row[p] # Null /\ announced' = [announced EXCEPT ![row[p].id] = row[p].number]
    <3>1. MintOf(row[p]) \in issued
      BY <1>1, <2>2 DEF IssuedInv, CarriesAnIssuedNumber, Reserved
    <3>2. announced \in [TicketId -> TicketNumber \cup {Null}]
      BY DEF Inv, TypeOK
    <3>. QED BY <1>1, <2>2, <3>1, <3>2 DEF IssuedInv, OnlyCommittedAnnounced, MintOf
  <2>. QED BY <2>1, <2>2 DEF Dispatch
<1>. QED BY <1>1, <1>2, <1>3 DEF IssuedInv

LEMMA ContinueIssued ==
    ASSUME Inv, NumberInv, IssuedInv, NEW p \in Proc, Continue(p)
    PROVE  IssuedInv'
<1>. USE DEF Inv, TypeOK, store, history, locks
<1>1. CASE Reserve(p)
  <2>1. /\ pc' = [pc EXCEPT ![p] = "save"] /\ UNCHANGED <<tickets, issued, announced, cmd>>
        /\ Issues(p)
    BY <1>1 DEF Reserve, GoTo, RequestShape, TakeCounter
  <2>2. \A q \in Proc \ {p} : pc'[q] = pc[q] /\ cmd'[q] = cmd[q] /\ row'[q] = row[q]
    BY <1>1 DEF Reserve, GoTo, TakeCounter
  <2>3. Reserved(p)'
    BY <2>1 DEF Reserved, Issues
  <2>. QED BY <2>1, <2>2, <2>3, IssuedStep DEF CarriesAnIssuedNumber
<1>2. CASE NothingToCall(p)
  BY <1>2, RollbackIssued DEF NothingToCall
<1>3. CASE PlanRequeue(p)
  <2>1. /\ row[p] \in Ticket /\ row[p] # Null /\ pc[p] = "plan"
        /\ UNCHANGED <<tickets, issued, announced>>
    BY <1>3, TicketQueueAssumption DEF PlanRequeue, RequestShape
  <2>2. \A q \in Proc \ {p} : pc'[q] = pc[q] /\ cmd'[q] = cmd[q] /\ row'[q] = row[q]
    BY <1>3 DEF PlanRequeue, GoTo
  <2>3. \E order : row' = [row EXCEPT ![p] = TransitionTo(row[p], "WAITING", cmd[p].counter, order)]
    BY <1>3 DEF PlanRequeue
  <2>4. "WAITING" \in Status
    BY FlowAssumption DEF Canonical
  <2>5. MintOf(row[p]) \in issued
    BY <2>1 DEF IssuedInv, CarriesAnIssuedNumber, Reserved
  <2>6. MintOf(row'[p]) = MintOf(row[p])
    BY <2>1, <2>3, <2>4, NumberIsKept
  <2>. QED BY <2>1, <2>2, <2>5, <2>6, IssuedStep DEF CarriesAnIssuedNumber
<1>4. CASE Save(p)
  <2>1. Reserved(p) => Reserved(p)'
    BY <1>4 DEF Save, Reserved, Issues, GoTo
  <2>2. UNCHANGED <<tickets, issued, announced, cmd, row>>
    BY <1>4 DEF Save
  <2>3. \A q \in Proc \ {p} : pc'[q] = pc[q]
    BY <1>4 DEF Save, GoTo
  <2>4. CarriesAnIssuedNumber(p)'
    BY <2>1, <2>2 DEF IssuedInv, CarriesAnIssuedNumber
  <2>. QED BY <2>2, <2>3, <2>4, IssuedStep
<1>5. CASE InsertArchived(p)
  <2>1. CASE Rollback(p)
    BY <2>1, RollbackIssued
  <2>2. CASE ~Rollback(p)
    <3>1. /\ GoTo(p, "resetSequences") /\ UNCHANGED <<tickets, issued, announced, cmd, row>>
          /\ pc[p] = "archive"
      BY <1>5, <2>2 DEF InsertArchived
    <3>2. CarriesAnIssuedNumber(p)'
      BY <3>1 DEF IssuedInv, CarriesAnIssuedNumber, Reserved
    <3>. QED BY <3>1, <3>2, IssuedStep DEF GoTo
  <2>. QED BY <2>1, <2>2
<1>6. ASSUME NEW visit \in todo[p], LockNext(p, visit)
      PROVE  IssuedInv'
  <2>1. cmd[p].op = "callNext" /\ pc[p] = "lock" /\ UNCHANGED <<tickets, issued, announced, cmd>>
    BY <1>6 DEF LockNext, RequestShape, StillWaits
  <2>2. \A q \in Proc \ {p} : pc'[q] = pc[q] /\ row'[q] = row[q]
    BY <1>6 DEF LockNext, GoTo, StillWaits
  <2>3. CarriesAnIssuedNumber(p)'
    <3>1. CASE StillWaits(p, visit.id)
      <4>1. /\ row' = [row EXCEPT ![p] = CalledTo(tickets[visit.id], cmd[p].counter)]
            /\ visit.id \in TicketId /\ tickets[visit.id] # Null /\ tickets[visit.id] \in Ticket
        BY <1>6, <2>1, <3>1 DEF LockNext, StillWaits, IsWaitingIn, RequestShape, IdsOf
      <4>2. MintOf(row'[p]) = MintOf(tickets[visit.id])
        BY <4>1, NumberIsKept
      <4>. QED BY <2>1, <4>1, <4>2 DEF IssuedInv, CarriesAnIssuedNumber
    <3>2. CASE ~StillWaits(p, visit.id)
      <4>1. row' = row
        BY <1>6, <3>2 DEF LockNext
      <4>. QED BY <2>1, <4>1 DEF IssuedInv, CarriesAnIssuedNumber, Reserved
    <3>. QED BY <3>1, <3>2
  <2>. QED BY <2>1, <2>2, <2>3, IssuedStep
<1>7. ASSUME NEW visit \in todo[p], AssignOrder(p, visit)
      PROVE  IssuedInv'
  <2>1. /\ cmd[p].op = "transition" /\ UNCHANGED <<tickets, issued, announced, cmd, row>>
        /\ pc[p] = "assign"
    BY <1>7 DEF AssignOrder, RequestShape
  <2>2. \A q \in Proc \ {p} : pc'[q] = pc[q]
    BY <1>7 DEF AssignOrder, GoTo
  <2>3. CarriesAnIssuedNumber(p)'
    BY <2>1 DEF IssuedInv, CarriesAnIssuedNumber, Reserved
  <2>. QED BY <2>1, <2>2, <2>3, IssuedStep
<1>8. ASSUME NEW visit \in todo[p], ArchiveRow(p, visit) \/ ResetSequence(p, visit)
      PROVE  IssuedInv'
  <2>1. UNCHANGED <<tickets, issued, announced, pc, cmd, row>>
    BY <1>8 DEF ArchiveRow, ResetSequence, TakeCounter
  <2>2. CarriesAnIssuedNumber(p)'
    BY <2>1 DEF IssuedInv, CarriesAnIssuedNumber, Reserved, Issues
  <2>. QED BY <2>1, <2>2, IssuedStep
<1>. QED BY <1>1, <1>2, <1>3, <1>4, <1>5, <1>6, <1>7, <1>8,
            CommitIssued, CommitResetIssued, DispatchIssued DEF Continue

LEMMA NextIssued ==
    ASSUME Inv, NumberInv, IssuedInv, [Next]_vars
    PROVE  IssuedInv'
<1>. USE DEF store, history, locks, request
<1>1. Cleanup \/ Tick \/ UNCHANGED vars => IssuedInv'
  BY IssuedFrame DEF Cleanup, Tick, vars, IssuedInv, CarriesAnIssuedNumber, Reserved, Issues
<1>2. Crash => IssuedInv'
  BY IssuedFrame DEF Crash, CarriesAnIssuedNumber
<1>. QED BY <1>1, <1>2, RequestIssued, ContinueIssued, RollbackIssued
         DEF Next, Abort, DeadlockVictim

(* Clients hear of committed changes only: whatever is broadcast about a   *)
(* ticket names a number that a committed transaction gave it, through     *)
(* stale copies, rollbacks, resets and crashes.                            *)
THEOREM OnlyTheCommittedIsHeard == Spec => []OnlyCommittedAnnounced
<1>1. Init => IssuedInv
  BY DEF Init, IssuedInv, CarriesAnIssuedNumber, OnlyCommittedAnnounced
<1>2. Inv /\ NumberInv /\ IssuedInv /\ [Next]_vars => IssuedInv'
  BY NextIssued
<1>3. IssuedInv => OnlyCommittedAnnounced
  BY DEF IssuedInv
<1>. QED BY <1>1, <1>2, <1>3, Invariance, NumbersInvariant, PTL DEF Spec

-----------------------------------------------------------------------------
(* The order of the calls, on a day on which nothing comes back to the     *)
(* queue and nothing is reset: tickets are issued, called and announced    *)
(* again.  A counter's snapshot ranks the tickets by when they were issued *)
(* (and by its category order), and no commit makes that ranking stale.    *)

QueueOps == {"create", "callNext", "reannounce", "cleanup"}

Less == {pair \in Nat \X Nat : pair[1] < pair[2]}

LEMMA Smallest ==
    ASSUME NEW T, T \subseteq Nat, T # {}
    PROVE  \E m \in T : \A n \in T : m <= n
<1>1. OpToRel(<, Nat) = Less
  BY DEF OpToRel, Less
<1>2. IsWellFoundedOn(Less, Nat)
  BY <1>1, NatLessThanWellFounded
<1>3. PICK m \in T : \A n \in T : <<n, m>> \notin Less
  BY <1>2, WFMin
<1>4. ASSUME NEW n \in T PROVE m <= n
  <2>1. n \in Nat /\ m \in Nat /\ <<n, m>> \notin Less
    BY <1>3
  <2>2. ~(n < m)
    BY <2>1 DEF Less
  <2>. QED BY <2>1, <2>2
<1>. QED BY <1>4

(* array_position finds a category the counter is assigned.                *)
LEMMA RankType ==
    ASSUME NEW k \in Counter, NEW c \in Categories(k)
    PROVE  Rank(k, c) \in Nat
<1>. DEFINE places == {i \in DOMAIN Routing[k] : Routing[k][i] = c}
<1>1. DOMAIN Routing[k] = 1..Len(Routing[k]) /\ Len(Routing[k]) \in Nat
  BY TicketQueueAssumption
<1>2. places # {} /\ places \subseteq Nat
  BY <1>1 DEF Categories
<1>3. PICK first \in places : \A i \in places : first <= i
  <2>. HIDE DEF places
  <2>. QED BY <1>2, Smallest
<1>4. first \in DOMAIN Routing[k] /\ Routing[k][first] = c /\ first \in Nat
  BY <1>2, <1>3
<1>5. \A j \in 1..(first - 1) : Routing[k][j] # c
  <2>. SUFFICES ASSUME NEW j \in 1..(first - 1), Routing[k][j] = c PROVE FALSE
    OBVIOUS
  <2>1. j \in DOMAIN Routing[k] /\ j < first
    BY <1>1, <1>4
  <2>2. first <= j
    BY <1>3, <2>1
  <2>. QED BY <1>4, <2>1, <2>2
<1>6. Rank(k, c) \in DOMAIN Routing[k]
  BY <1>4, <1>5 DEF Rank
<1>. QED BY <1>1, <1>6

InTime(ticket) == ticket.waitingOrder = ticket.createdAt

(* The rank FOR UPDATE visits a row at grows along the order of the calls. *)
LEMMA SnapshotInTurn ==
    ASSUME TypeOK, \A t \in TicketId : tickets[t] # Null => InTime(tickets[t]),
           NEW k \in Counter, NEW u \in InTurn(k, WaitingFor(k)),
           NEW v \in InTurn(k, WaitingFor(k)),
           ComesFirst(k, tickets[u.id], tickets[v.id])
    PROVE  u.order < v.order
<1>. DEFINE S == WaitingFor(k)
            before(a) == {c \in S : CalledBefore(k, c, a)}
<1>1. PICK a \in S, b \in S : /\ u = [id |-> a.id, order |-> Cardinality(before(a))]
                             /\ v = [id |-> b.id, order |-> Cardinality(before(b))]
  BY DEF InTurn
<1>2. \A c \in S : /\ c \in Ticket /\ tickets[c.id] = c /\ InTime(c)
                   /\ Rank(k, c.category) \in Nat
  <2>. SUFFICES ASSUME NEW t \in TicketId, IsWaitingIn(t, Categories(k))
                PROVE  /\ tickets[t] \in Ticket /\ tickets[t].id = t /\ InTime(tickets[t])
                       /\ Rank(k, tickets[t].category) \in Nat
    BY DEF WaitingFor
  <2>. QED BY RankType DEF IsWaitingIn, TypeOK
<1>3. \A c \in S : c.waitingOrder \in Int /\ c.createdAt \in Nat /\ c.waitingOrder = c.createdAt
  BY <1>2 DEF Ticket, InTime
<1>4. ComesFirst(k, a, b)
  BY <1>1, <1>2
<1>5. CalledBefore(k, a, b)
  BY <1>2, <1>3, <1>4 DEF ComesFirst, CalledBefore, InQueueOrder
<1>6. ~CalledBefore(k, a, a)
  BY <1>2, <1>3 DEF CalledBefore, InQueueOrder
<1>7. \A c \in S : CalledBefore(k, c, a) => CalledBefore(k, c, b)
  BY <1>2, <1>3, <1>5 DEF CalledBefore, InQueueOrder
<1>8. before(a) \subseteq before(b) /\ a \in before(b) /\ a \notin before(a)
  BY <1>5, <1>6, <1>7
<1>9. IsFiniteSet(S)
  <2>1. {t \in TicketId : IsWaitingIn(t, Categories(k))} \subseteq TicketId
    OBVIOUS
  <2>. QED BY <2>1, FiniteRows DEF WaitingFor
<1>10. before(b) \subseteq S
  OBVIOUS
<1>. HIDE DEF before, S
<1>11. IsFiniteSet(before(b)) /\ IsFiniteSet(before(a))
  BY <1>8, <1>9, <1>10, FS_Subset
<1>12. /\ Cardinality(before(a)) <= Cardinality(before(b))
       /\ Cardinality(before(a)) # Cardinality(before(b))
  BY <1>8, <1>11, FS_Subset
<1>13. Cardinality(before(a)) \in Nat /\ Cardinality(before(b)) \in Nat
  BY <1>11, FS_CardinalityType
<1>. QED BY <1>1, <1>12, <1>13

-----------------------------------------------------------------------------

SameTicket(a, b) ==
    a.id = b.id /\ a.category = b.category /\ a.createdAt = b.createdAt

Creating(p) == cmd[p].op = "create" /\ pc[p] \in {"reserve", "save", "commit"}

Calling(p) == cmd[p].op = "callNext" /\ pc[p] \in {"lock", "save", "commit"}

(* What a request is about to write: a new ticket, or a stored one called. *)
CarriesItsTicket(p) ==
    pc[p] \in {"save", "commit"} =>
        /\ InTime(row[p])
        /\ cmd[p].op = "create" => row[p].id = cmd[p].id
        /\ cmd[p].op # "create" =>
              /\ row[p].status = "CALLING" /\ tickets[row[p].id] # Null
              /\ SameTicket(row[p], tickets[row[p].id])

LooksInTurn(p) ==
    Calling(p) =>
        /\ \A t \in IdsOf(todo[p]) : t \in TicketId /\ tickets[t] # Null
        /\ \A t \in IdsOf(done[p]) :
              t \in TicketId /\ tickets[t] # Null /\ tickets[t].status # "WAITING"
        /\ \A t \in IdsOf(todo[p]) : tickets[t].category \in Categories(cmd[p].counter)
        /\ pc[p] = "lock" => \A u, v \in todo[p] :
              ComesFirst(cmd[p].counter, tickets[u.id], tickets[v.id]) => u.order < v.order
        /\ pc[p] # "lock" => \A t \in IdsOf(todo[p]) :
              ~ComesFirst(cmd[p].counter, tickets[t], row[p])

QueueInv ==
    /\ \A p \in Proc : cmd[p].op \in QueueOps \cup {Null}
    /\ \A t \in TicketId : tickets[t] # Null => InTime(tickets[t])
    /\ \A p \in Proc : Creating(p) => \A m \in issued : m.id # cmd[p].id
    /\ \A p, q \in Proc : Creating(p) /\ Creating(q) /\ p # q => cmd[p].id # cmd[q].id
    /\ \A p \in Proc : CarriesItsTicket(p) /\ LooksInTurn(p)

(* A stored ticket stays the ticket it is, and never waits again.          *)
TableGoesOn ==
    \A t \in TicketId : tickets[t] # Null =>
        /\ tickets'[t] # Null /\ SameTicket(tickets'[t], tickets[t])
        /\ tickets[t].status # "WAITING" => tickets'[t].status # "WAITING"

SameRequest(q) ==
    /\ pc'[q] = pc[q] /\ cmd'[q] = cmd[q] /\ row'[q] = row[q]
    /\ todo'[q] = todo[q] /\ done'[q] = done[q]

(* Another request's share of the invariant survives a step.               *)
LEMMA OthersInTurn ==
    ASSUME Inv, QueueInv, TableGoesOn, NEW q \in Proc, SameRequest(q)
    PROVE  CarriesItsTicket(q)' /\ LooksInTurn(q)'
<1>1. CarriesItsTicket(q) /\ LooksInTurn(q)
  BY DEF QueueInv
<1>2. pc[q] \in {"save", "commit"} => row[q].id \in TicketId
  BY DEF Inv, TypeOK, RequestShape, Ticket
<1>3. CarriesItsTicket(q)'
  BY <1>1, <1>2 DEF SameRequest, CarriesItsTicket, TableGoesOn, SameTicket
<1>4. LooksInTurn(q)'
  <2>. SUFFICES ASSUME Calling(q)' PROVE LooksInTurn(q)'
    BY DEF LooksInTurn
  <2>1. Calling(q)
    BY DEF Calling, SameRequest
  <2>2. \A t \in IdsOf(todo[q]) \cup IdsOf(done[q]) :
           /\ t \in TicketId /\ tickets[t] # Null /\ tickets'[t] # Null
           /\ tickets'[t].category = tickets[t].category
           /\ tickets'[t].createdAt = tickets[t].createdAt
           /\ tickets[t].status # "WAITING" => tickets'[t].status # "WAITING"
    BY <1>1, <2>1 DEF LooksInTurn, TableGoesOn, SameTicket
  <2>3. \A u \in todo[q] : u.id \in IdsOf(todo[q])
    BY DEF IdsOf
  <2>4. \A u, v \in todo[q] :
            ComesFirst(cmd[q].counter, tickets'[u.id], tickets'[v.id])
              <=> ComesFirst(cmd[q].counter, tickets[u.id], tickets[v.id])
    BY <2>2, <2>3 DEF ComesFirst
  <2>5. \A t \in IdsOf(todo[q]) :
            ComesFirst(cmd[q].counter, tickets'[t], row[q])
              <=> ComesFirst(cmd[q].counter, tickets[t], row[q])
    BY <2>2 DEF ComesFirst
  <2>. HIDE DEF ComesFirst
  <2>6. IdsOf(todo'[q]) = IdsOf(todo[q]) /\ IdsOf(done'[q]) = IdsOf(done[q])
    BY DEF SameRequest
  <2>7. /\ \A t \in IdsOf(todo[q]) : tickets[t].category \in Categories(cmd[q].counter)
        /\ \A t \in IdsOf(done[q]) : tickets[t].status # "WAITING"
        /\ pc[q] = "lock" => \A u, v \in todo[q] :
              ComesFirst(cmd[q].counter, tickets[u.id], tickets[v.id]) => u.order < v.order
        /\ pc[q] # "lock" => \A t \in IdsOf(todo[q]) :
              ~ComesFirst(cmd[q].counter, tickets[t], row[q])
    BY <1>1, <2>1 DEF LooksInTurn
  <2>8. \A u, v \in todo'[q] : pc'[q] = "lock" =>
            (ComesFirst(cmd'[q].counter, tickets'[u.id], tickets'[v.id]) => u.order < v.order)
    BY <2>4, <2>7 DEF SameRequest
  <2>9. \A t \in IdsOf(todo'[q]) : pc'[q] # "lock" =>
            ~ComesFirst(cmd'[q].counter, tickets'[t], row'[q])
    BY <2>5, <2>6, <2>7 DEF SameRequest
  <2>. QED BY <2>2, <2>6, <2>7, <2>8, <2>9 DEF SameRequest, LooksInTurn, ComesFirst
<1>. QED BY <1>3, <1>4

(* A step of one request that commits nothing.                             *)
LEMMA StepInTurn ==
    ASSUME Inv, QueueInv, NEW p \in Proc, UNCHANGED <<tickets, issued>>,
           \A q \in Proc \ {p} : SameRequest(q),
           cmd'[p].op \in QueueOps \cup {Null},
           Creating(p)' => Creating(p) /\ cmd'[p].id = cmd[p].id,
           CarriesItsTicket(p)', LooksInTurn(p)'
    PROVE  QueueInv'
<1>1. TableGoesOn
  BY DEF TableGoesOn, SameTicket
<1>2. \A q \in Proc \ {p} : CarriesItsTicket(q)' /\ LooksInTurn(q)'
  BY <1>1, OthersInTurn
<1>3. \A q \in Proc : cmd'[q].op \in QueueOps \cup {Null}
  BY DEF QueueInv, SameRequest
<1>4. \A q \in Proc : Creating(q)' => Creating(q) /\ cmd'[q].id = cmd[q].id
  BY DEF Creating, SameRequest
<1>. QED BY <1>2, <1>3, <1>4 DEF QueueInv

LEMMA RequestInTurn ==
    ASSUME Op \subseteq QueueOps, Inv, IssuedInv, QueueInv, NEW p \in Proc, Request(p)
    PROVE  QueueInv'
<1>. USE DEF Inv
<1>1. ASSUME NEW command, NEW ticket, NEW visits, NEW at,
             Start(p, command, ticket, visits, at), command.op \in QueueOps
      PROVE  /\ pc'[p] = at /\ cmd'[p] = command /\ row'[p] = ticket
             /\ todo'[p] = visits /\ done'[p] = {} /\ pc[p] = "idle"
             /\ UNCHANGED <<tickets, issued>> /\ \A q \in Proc \ {p} : SameRequest(q)
  <2>1. pc[p] = "idle" /\ UNCHANGED <<tickets, issued>>
    BY <1>1 DEF Start, store, history
  <2>2. /\ pc'[p] = at /\ cmd'[p] = command /\ row'[p] = ticket
        /\ todo'[p] = visits /\ done'[p] = {}
        /\ \A q \in Proc \ {p} : /\ pc'[q] = pc[q] /\ cmd'[q] = cmd[q]
                                 /\ row'[q] = row[q] /\ todo'[q] = todo[q]
                                 /\ done'[q] = done[q]
    BY <1>1, Started
  <2>. QED BY <2>1, <2>2 DEF SameRequest
<1>2. ASSUME NEW t \in TicketId, NEW c \in Category, CreateTicket(p, t, c) PROVE QueueInv'
  <2>. DEFINE command == [NoCommand EXCEPT !.op = "create", !.id = t, !.category = c, !.now = clock]
  <2>1. command.op = "create" /\ command.id = t /\ command.op \in QueueOps
    BY DEF NoCommand, QueueOps
  <2>2. Start(p, command, Null, {}, "reserve") /\ IsFresh(t)
    BY <1>2 DEF CreateTicket
  <2>. HIDE DEF command
  <2>3. /\ pc'[p] = "reserve" /\ cmd'[p] = command /\ UNCHANGED <<tickets, issued>>
        /\ \A q \in Proc \ {p} : SameRequest(q)
    BY <1>1, <2>1, <2>2
  <2>4. TableGoesOn
    BY <2>3 DEF TableGoesOn, SameTicket
  <2>5. \A q \in Proc \ {p} : CarriesItsTicket(q)' /\ LooksInTurn(q)'
    BY <2>3, <2>4, OthersInTurn
  <2>6. CarriesItsTicket(p)' /\ LooksInTurn(p)'
    BY <2>1, <2>3 DEF CarriesItsTicket, LooksInTurn, Calling
  <2>7. \A q \in Proc \ {p} : Creating(q)' => Creating(q) /\ cmd'[q] = cmd[q] /\ cmd[q].id # t
    BY <2>2, <2>3 DEF Creating, SameRequest, IsFresh
  <2>8. \A m \in issued' : m.id # t
    BY <2>2, <2>3 DEF IsFresh
  <2>9. \A q \in Proc : cmd'[q].op \in QueueOps \cup {Null}
    BY <2>1, <2>3 DEF QueueInv, SameRequest
  <2>10. cmd'[p].id = t
    BY <2>1, <2>3
  <2>. QED BY <2>3, <2>5, <2>6, <2>7, <2>8, <2>9, <2>10 DEF QueueInv
<1>3. ASSUME NEW k \in Counter, CallNext(p, k) PROVE QueueInv'
  <2>. DEFINE command == [NoCommand EXCEPT !.op = "callNext", !.counter = k, !.now = clock]
              visits  == InTurn(k, WaitingFor(k))
  <2>1. command.op = "callNext" /\ command.counter = k /\ command.op \in QueueOps
    BY DEF NoCommand, QueueOps
  <2>2. Start(p, command, Null, visits, "lock")
    BY <1>3 DEF CallNext
  <2>3. \A u, v \in visits : ComesFirst(k, tickets[u.id], tickets[v.id]) => u.order < v.order
    BY SnapshotInTurn DEF QueueInv
  <2>4. \A t \in IdsOf(visits) : /\ t \in TicketId /\ tickets[t] # Null
                                 /\ tickets[t].category \in Categories(k)
    <3>1. \A visit \in visits : \E a \in WaitingFor(k) : visit.id = a.id
      <4>. DEFINE turn(a) == Cardinality({b \in WaitingFor(k) : CalledBefore(k, b, a)})
      <4>1. visits = {[id |-> a.id, order |-> turn(a)] : a \in WaitingFor(k)}
        BY DEF InTurn
      <4>. HIDE DEF turn, visits
      <4>. QED BY <4>1
    <3>2. \A a \in WaitingFor(k) : \E t \in TicketId :
             a = tickets[t] /\ a.id = t /\ IsWaitingIn(t, Categories(k))
      <4>. DEFINE S == {u \in TicketId : IsWaitingIn(u, Categories(k))}
      <4>1. WaitingFor(k) = {tickets[t] : t \in S}
        BY DEF WaitingFor
      <4>2. \A t \in S : t \in TicketId /\ IsWaitingIn(t, Categories(k)) /\ tickets[t].id = t
        BY DEF IsWaitingIn, TypeOK
      <4>. HIDE DEF S
      <4>3. ASSUME NEW a \in WaitingFor(k)
            PROVE  \E t \in TicketId :
                      a = tickets[t] /\ a.id = t /\ IsWaitingIn(t, Categories(k))
        <5>1. PICK t \in S : a = tickets[t]
          BY <4>1, <4>3
        <5>2. t \in TicketId /\ IsWaitingIn(t, Categories(k)) /\ a.id = t
          BY <4>2, <5>1
        <5>. QED BY <5>1, <5>2
      <4>. QED BY <4>3
    <3>. HIDE DEF visits
    <3>. QED BY <3>1, <3>2 DEF IdsOf, IsWaitingIn
  <2>. HIDE DEF command, visits
  <2>5. /\ pc'[p] = "lock" /\ cmd'[p] = command /\ todo'[p] = visits /\ done'[p] = {}
        /\ UNCHANGED <<tickets, issued>> /\ \A q \in Proc \ {p} : SameRequest(q)
    BY <1>1, <2>1, <2>2
  <2>6. LooksInTurn(p)'
    <3>1. IdsOf(done'[p]) = {}
      BY <2>5 DEF IdsOf
    <3>2. \A u, v \in todo'[p] :
             ComesFirst(cmd'[p].counter, tickets'[u.id], tickets'[v.id]) => u.order < v.order
      BY <2>1, <2>3, <2>5
    <3>. QED BY <2>1, <2>4, <2>5, <3>1, <3>2 DEF LooksInTurn, ComesFirst
  <2>7. CarriesItsTicket(p)' /\ ~Creating(p)'
    BY <2>5 DEF CarriesItsTicket, Creating
  <2>8. cmd'[p].op \in QueueOps \cup {Null}
    BY <2>1, <2>5
  <2>. QED BY <2>5, <2>6, <2>7, <2>8, StepInTurn
<1>4. ASSUME NEW t \in TicketId, Reannounce(p, t) PROVE QueueInv'
  <2>. DEFINE command == [NoCommand EXCEPT !.op = "reannounce", !.id = t, !.now = clock]
  <2>1. command.op = "reannounce" /\ command.op \in QueueOps
    BY DEF NoCommand, QueueOps
  <2>2. /\ Start(p, command, Reannounced(tickets[t]), {}, "save")
        /\ tickets[t] # Null /\ tickets[t].status = "CALLING"
    BY <1>4 DEF Reannounce
  <2>. HIDE DEF command
  <2>3. /\ pc'[p] = "save" /\ cmd'[p] = command /\ row'[p] = Reannounced(tickets[t])
        /\ UNCHANGED <<tickets, issued>> /\ \A q \in Proc \ {p} : SameRequest(q)
    BY <1>1, <2>1, <2>2
  <2>4. /\ row'[p].status = "CALLING" /\ row'[p].id = t /\ SameTicket(row'[p], tickets[t])
        /\ InTime(row'[p])
    <3>1. tickets[t] \in Ticket /\ tickets[t].id = t /\ InTime(tickets[t])
      BY <2>2 DEF TypeOK, QueueInv
    <3>. QED BY <2>2, <2>3, <3>1 DEF Reannounced, Ticket, SameTicket, InTime
  <2>5. CarriesItsTicket(p)'
    BY <2>1, <2>2, <2>3, <2>4 DEF CarriesItsTicket, SameTicket, InTime
  <2>6. LooksInTurn(p)' /\ ~Creating(p)'
    BY <2>1, <2>3 DEF LooksInTurn, Calling, Creating
  <2>. QED BY <2>1, <2>3, <2>5, <2>6, StepInTurn
<1>5. /\ ~\E t \in TicketId, c \in Category : Transfer(p, t, c)
      /\ ~\E t \in TicketId, target \in Status, k \in Counter \cup {Null} :
             ApplyTransition(p, t, target, k)
      /\ ~\E value \in ResetTarget, archive \in BOOLEAN : ResetDaily(p, value, archive)
  BY DEF Transfer, ApplyTransition, ResetDaily, QueueOps
<1>. QED BY <1>2, <1>3, <1>4, <1>5 DEF Request

LEMMA RollbackInTurn ==
    ASSUME Inv, QueueInv, NEW p \in Proc, Rollback(p)
    PROVE  QueueInv'
<1>1. /\ pc'[p] = "idle" /\ cmd'[p].op = Null
      /\ \A q \in Proc \ {p} : SameRequest(q)
  BY DEF Rollback, Finish, Inv, TypeOK, NoCommand, SameRequest
<1>2. Null \notin {"create", "callNext"}
  BY TicketQueueAssumption DEF AllOps
<1>. QED BY <1>1, <1>2, StepInTurn
         DEF Rollback, store, history, Creating, CarriesItsTicket, LooksInTurn, Calling

LEMMA ReserveInTurn ==
    ASSUME Inv, QueueInv, NEW p \in Proc, Reserve(p)
    PROVE  QueueInv'
<1>1. /\ pc[p] = "reserve" /\ cmd[p].op = "create" /\ pc'[p] = "save"
      /\ row'[p] = NewTicket(cmd[p].id, NextNumber(NumberKey(p)), cmd[p].now)
      /\ UNCHANGED <<tickets, issued, cmd>> /\ \A q \in Proc \ {p} : SameRequest(q)
  <2>1. cmd[p].op = "create"
    BY TicketQueueAssumption DEF Reserve, TakeCounter, Inv, TypeOK, RequestShape, Issues, QueueInv,
           QueueOps, AllOps
  <2>2. /\ pc[p] = "reserve" /\ pc' = [pc EXCEPT ![p] = "save"]
        /\ row' = [row EXCEPT ![p] = NewTicket(cmd[p].id, NextNumber(NumberKey(p)), cmd[p].now)]
        /\ UNCHANGED <<tickets, issued, cmd, todo, done>>
    BY <2>1 DEF Reserve, TakeCounter, GoTo, store, history
  <2>. QED BY <2>1, <2>2 DEF Inv, TypeOK, SameRequest
<1>2. row'[p].id = cmd[p].id /\ InTime(row'[p])
  BY <1>1 DEF NewTicket, InTime
<1>3. CarriesItsTicket(p)' /\ LooksInTurn(p)'
  BY <1>1, <1>2 DEF CarriesItsTicket, LooksInTurn, Calling, InTime
<1>4. Creating(p)
  BY <1>1 DEF Creating
<1>. QED BY <1>1, <1>3, <1>4, StepInTurn DEF QueueInv

LEMMA SaveInTurn ==
    ASSUME Inv, QueueInv, NEW p \in Proc, Save(p)
    PROVE  QueueInv'
<1>1. /\ pc[p] = "save" /\ pc'[p] = "commit" /\ UNCHANGED <<tickets, issued, cmd, row, todo, done>>
      /\ \A q \in Proc \ {p} : SameRequest(q)
  <2>1. cmd[p].op # "transition"
    BY TicketQueueAssumption DEF QueueInv, QueueOps, AllOps
  <2>2. /\ pc[p] = "save" /\ pc' = [pc EXCEPT ![p] = "commit"]
        /\ UNCHANGED <<tickets, issued, cmd, row, todo, done>>
    BY <2>1 DEF Save, GoTo, store, history
  <2>. QED BY <2>2 DEF Inv, TypeOK, SameRequest
<1>2. CarriesItsTicket(p) /\ LooksInTurn(p) /\ cmd[p].op \in QueueOps \cup {Null}
  BY DEF QueueInv
<1>3. CarriesItsTicket(p)'
  BY <1>1, <1>2 DEF CarriesItsTicket, InTime, SameTicket
<1>4. LooksInTurn(p)'
  BY <1>1, <1>2 DEF LooksInTurn, Calling, ComesFirst
<1>5. Creating(p)' => Creating(p)
  BY <1>1 DEF Creating
<1>. QED BY <1>1, <1>2, <1>3, <1>4, <1>5, StepInTurn

(* The claim: no candidate left would have come first.                     *)
LEMMA LockNextInTurn ==
    ASSUME Inv, QueueInv, NEW p \in Proc, NEW visit \in todo[p], LockNext(p, visit)
    PROVE  QueueInv'
<1>. DEFINE t == visit.id
            k == cmd[p].counter
            rest == todo[p] \ {visit}
<1>1. /\ pc[p] = "lock" /\ cmd[p].op = "callNext" /\ LooksInTurn(p) /\ Calling(p)
      /\ \A other \in todo[p] : visit.order <= other.order
      /\ UNCHANGED <<tickets, issued, cmd>> /\ todo'[p] = rest
      /\ \A q \in Proc \ {p} : SameRequest(q)
      /\ todo[p] \subseteq Visit
  BY DEF LockNext, Visiting, StillWaits, Inv, TypeOK, RequestShape, QueueInv, Calling, GoTo,
         SameRequest, store, history
<1>2. /\ t \in TicketId /\ tickets[t] # Null /\ tickets[t] \in Ticket /\ tickets[t].id = t
      /\ tickets[t].category \in Categories(k) /\ InTime(tickets[t])
  <2>1. t \in IdsOf(todo[p])
    BY DEF IdsOf
  <2>2. t \in TicketId /\ tickets[t] # Null /\ tickets[t].category \in Categories(k)
    BY <1>1, <2>1 DEF LooksInTurn
  <2>. QED BY <2>2 DEF Inv, TypeOK, QueueInv
<1>3. /\ \A u \in IdsOf(rest) : u \in TicketId /\ tickets[u] # Null
                                /\ tickets[u].category \in Categories(k)
      /\ \A u \in IdsOf(done[p]) : u \in TicketId /\ tickets[u] # Null /\ tickets[u].status # "WAITING"
      /\ \A u, v \in rest : ComesFirst(k, tickets[u.id], tickets[v.id]) => u.order < v.order
  BY <1>1 DEF LooksInTurn, IdsOf
<1>4. CASE StillWaits(p, t)
  <2>1. /\ pc'[p] = "save" /\ row'[p] = CalledTo(tickets[t], k) /\ done'[p] = done[p]
    BY <1>4 DEF LockNext, GoTo, Inv, TypeOK
  <2>2. /\ row'[p].status = "CALLING" /\ row'[p].id = t
        /\ SameTicket(row'[p], tickets[t]) /\ InTime(row'[p])
    BY <1>2, <2>1 DEF CalledTo, Ticket, SameTicket, InTime
  <2>3. CarriesItsTicket(p)'
    BY <1>1, <1>2, <2>1, <2>2 DEF CarriesItsTicket, SameTicket, InTime
  <2>4. \A u \in IdsOf(rest) : ~ComesFirst(k, tickets[u], row'[p])
    <3>. SUFFICES ASSUME NEW other \in rest, ComesFirst(k, tickets[other.id], row'[p]) PROVE FALSE
      BY DEF IdsOf
    <3>1. ComesFirst(k, tickets[other.id], tickets[t])
      BY <2>2 DEF ComesFirst, SameTicket
    <3>2. other.order < visit.order
      BY <1>1, <3>1 DEF LooksInTurn
    <3>3. visit.order <= other.order /\ visit.order \in Int /\ other.order \in Int
      BY <1>1 DEF Visit
    <3>. QED BY <3>2, <3>3
  <2>5. LooksInTurn(p)'
    BY <1>1, <1>3, <2>1, <2>4 DEF LooksInTurn, ComesFirst
  <2>6. ~Creating(p)'
    BY <1>1 DEF Creating
  <2>. QED BY <1>1, <2>3, <2>5, <2>6, StepInTurn DEF QueueOps
<1>5. CASE ~StillWaits(p, t)
  <2>1. pc'[p] = "lock" /\ done'[p] = done[p] \cup {visit}
    BY <1>1, <1>5 DEF LockNext, Inv, TypeOK
  <2>2. tickets[t].status # "WAITING"
    BY <1>2, <1>5 DEF StillWaits, IsWaitingIn
  <2>3. \A u \in IdsOf(done'[p]) : u \in IdsOf(done[p]) \/ u = t
    BY <2>1 DEF IdsOf
  <2>4. LooksInTurn(p)'
    BY <1>1, <1>2, <1>3, <2>1, <2>2, <2>3 DEF LooksInTurn, ComesFirst
  <2>5. CarriesItsTicket(p)' /\ ~Creating(p)'
    BY <1>1, <2>1 DEF CarriesItsTicket, Creating
  <2>. QED BY <1>1, <2>4, <2>5, StepInTurn DEF QueueOps
<1>. QED BY <1>4, <1>5

LEMMA CommitInTurn ==
    ASSUME Inv, NumberInv, IssuedInv, QueueInv, NEW p \in Proc, Commit(p)
    PROVE  QueueInv'
<1>. DEFINE new == row[p].id
<1>1. /\ pc[p] = "commit" /\ row[p] \in Ticket /\ new \in TicketId /\ row[p] # Null
      /\ CarriesItsTicket(p) /\ InTime(row[p])
      /\ cmd[p].op \in QueueOps \cup {Null} /\ cmd[p].op # "transition" /\ cmd[p].op # "transfer"
  BY TicketQueueAssumption DEF Commit, Inv, TypeOK, RequestShape, Ticket, QueueInv, QueueOps,
         CarriesItsTicket, AllOps
<1>2. tickets' = [tickets EXCEPT ![new] = row[p]]
  BY <1>1 DEF Commit, Inv, TypeOK
<1>3. /\ pc'[p] = "dispatch" /\ \A q \in Proc \ {p} : SameRequest(q)
      /\ cmd'[p] = cmd[p] /\ \A q \in Proc : cmd'[q] = cmd[q]
      /\ \A m \in issued' : m \in issued \/ (cmd[p].op = "create" /\ m.id = new)
  BY <1>1 DEF Commit, GoTo, Inv, TypeOK, SameRequest, Issues
<1>4. TableGoesOn
  <2>1. cmd[p].op = "create" => tickets[new] = Null
    <3>. SUFFICES ASSUME cmd[p].op = "create", tickets[new] # Null PROVE FALSE
      OBVIOUS
    <3>1. Creating(p) /\ new = cmd[p].id
      BY <1>1 DEF Creating, CarriesItsTicket
    <3>2. MintOf(tickets[new]) \in issued /\ MintOf(tickets[new]).id = new
      BY <1>1 DEF IssuedInv, MintOf, Inv, TypeOK
    <3>. QED BY <3>1, <3>2 DEF QueueInv
  <2>2. cmd[p].op # "create" => row[p].status = "CALLING" /\ SameTicket(row[p], tickets[new])
    BY <1>1 DEF CarriesItsTicket
  <2>. QED BY <1>1, <1>2, <2>1, <2>2 DEF TableGoesOn, SameTicket, Inv, TypeOK
<1>5. \A q \in Proc \ {p} : CarriesItsTicket(q)' /\ LooksInTurn(q)'
  BY <1>3, <1>4, OthersInTurn
<1>6. CarriesItsTicket(p)' /\ LooksInTurn(p)' /\ ~Creating(p)'
  BY <1>3 DEF CarriesItsTicket, LooksInTurn, Calling, Creating
<1>7. \A t \in TicketId : tickets'[t] # Null => InTime(tickets'[t])
  BY <1>1, <1>2 DEF QueueInv, Inv, TypeOK
<1>8. ASSUME NEW q \in Proc, Creating(q)'
      PROVE  q # p /\ Creating(q) /\ \A m \in issued' : m.id # cmd'[q].id
  <2>1. q # p /\ Creating(q) /\ cmd'[q] = cmd[q]
    BY <1>3, <1>6, <1>8 DEF Creating, SameRequest
  <2>2. cmd[p].op = "create" => Creating(p) /\ new = cmd[p].id
    BY <1>1 DEF Creating, CarriesItsTicket
  <2>. QED BY <1>3, <2>1, <2>2 DEF QueueInv
<1>9. \A q, r \in Proc : Creating(q)' /\ Creating(r)' /\ q # r => cmd'[q].id # cmd'[r].id
  BY <1>3, <1>8 DEF QueueInv
<1>10. \A q \in Proc : cmd'[q].op \in QueueOps \cup {Null}
  BY <1>3 DEF QueueInv
<1>. QED BY <1>5, <1>6, <1>7, <1>8, <1>9, <1>10 DEF QueueInv, InTime

LEMMA DispatchInTurn ==
    ASSUME Inv, QueueInv, NEW p \in Proc, Dispatch(p)
    PROVE  QueueInv'
<1>1. /\ pc'[p] = "idle" /\ cmd'[p].op = Null /\ UNCHANGED <<tickets, issued>>
      /\ \A q \in Proc \ {p} : SameRequest(q)
  BY DEF Dispatch, HasCommitted, Finish, Inv, TypeOK, NoCommand, SameRequest, store, history
<1>2. Null \notin {"create", "callNext"}
  BY TicketQueueAssumption DEF AllOps
<1>. QED BY <1>1, <1>2, StepInTurn DEF Creating, CarriesItsTicket, LooksInTurn, Calling

LEMMA NextInTurn ==
    ASSUME Op \subseteq QueueOps, Inv, NumberInv, IssuedInv, QueueInv, [Next]_vars
    PROVE  QueueInv'
<1>. USE DEF store, history, locks, request
<1>1. ASSUME NEW p \in Proc, Continue(p) PROVE QueueInv'
  <2>1. cmd[p].op \notin {"transition", "reset"}
    BY TicketQueueAssumption DEF QueueInv, QueueOps, AllOps
  <2>2. pc[p] \notin {"plan", "assign", "archive", "resetSequences"}
    BY <2>1 DEF Inv, TypeOK, RequestShape
  <2>3. /\ ~PlanRequeue(p) /\ ~InsertArchived(p) /\ ~CommitReset(p)
        /\ \A visit \in todo[p] : ~AssignOrder(p, visit) /\ ~ArchiveRow(p, visit)
                                  /\ ~ResetSequence(p, visit)
    BY <2>2 DEF PlanRequeue, InsertArchived, CommitReset, AssignOrder, ArchiveRow, ResetSequence
  <2>4. NothingToCall(p) => QueueInv'
    BY RollbackInTurn DEF NothingToCall
  <2>. QED BY <1>1, <2>3, <2>4, ReserveInTurn, SaveInTurn, LockNextInTurn, CommitInTurn,
              DispatchInTurn DEF Continue
<1>2. Cleanup \/ Tick \/ UNCHANGED vars => QueueInv'
  <2>. SUFFICES ASSUME UNCHANGED <<tickets, issued, pc, cmd, row, todo, done>> PROVE QueueInv'
    BY DEF Cleanup, Tick, vars
  <2>1. TableGoesOn /\ \A q \in Proc : SameRequest(q)
    BY DEF TableGoesOn, SameTicket, SameRequest
  <2>2. \A q \in Proc : CarriesItsTicket(q)' /\ LooksInTurn(q)'
    BY <2>1, OthersInTurn
  <2>. QED BY <2>2 DEF QueueInv, Creating, InTime
<1>3. Crash => QueueInv'
  <2>. SUFFICES ASSUME Crash PROVE QueueInv'
    OBVIOUS
  <2>1. \A q \in Proc : pc'[q] = "idle" /\ cmd'[q].op = Null
    BY DEF Crash, NoCommand
  <2>2. UNCHANGED <<tickets, issued>>
    BY DEF Crash
  <2>. QED BY <2>1, <2>2
           DEF QueueInv, Creating, CarriesItsTicket, LooksInTurn, Calling, InTime
<1>. QED BY <1>1, <1>2, <1>3, RequestInTurn, RollbackInTurn DEF Next, Abort, DeadlockVictim

LEMMA IssuedInvariant == Spec => []IssuedInv
<1>1. Init => IssuedInv
  BY DEF Init, IssuedInv, CarriesAnIssuedNumber, OnlyCommittedAnnounced
<1>2. Inv /\ NumberInv /\ IssuedInv /\ [Next]_vars => IssuedInv'
  BY NextIssued
<1>. QED BY <1>1, <1>2, Invariance, NumbersInvariant, PTL DEF Spec

(* While nothing is transferred, moved by hand or reset, the ticket a      *)
(* call-next takes was the first, by the counter's category order and by   *)
(* issue time, of those that nobody else had taken since it looked: the    *)
(* rows FOR UPDATE passed over are called for good, and none of those it   *)
(* did not get to comes before the one it took.                            *)
THEOREM FirstComeFirstCalled ==
    ASSUME Op \subseteq QueueOps
    PROVE  Spec => []TakesTheFirstStillWaiting
<1>1. Init => QueueInv
  <2>. SUFFICES ASSUME Init PROVE QueueInv
    OBVIOUS
  <2>1. \A q \in Proc : pc[q] = "idle" /\ cmd[q].op = Null
    BY DEF Init, NoCommand
  <2>. QED BY <2>1 DEF Init, QueueInv, Creating, CarriesItsTicket, LooksInTurn, Calling
<1>2. Inv /\ NumberInv /\ IssuedInv /\ QueueInv /\ [Next]_vars => QueueInv'
  BY NextInTurn
<1>3. QueueInv => TakesTheFirstStillWaiting
  BY DEF QueueInv, LooksInTurn, Calling, TakesTheFirstStillWaiting
<1>. QED BY <1>1, <1>2, <1>3, Invariance, NumbersInvariant, IssuedInvariant, PTL DEF Spec

-----------------------------------------------------------------------------
(* The shape of the rows: every command of the aggregate leaves its copy   *)
(* in shape, so that a whole-row upsert of however stale a copy does too.  *)

CarriesAShapedRow(p) == row[p] # Null => WellFormed(row[p])

ShapeInv == RowShape /\ \A p \in Proc : CarriesAShapedRow(p)

LEMMA CommandsKeepShape ==
    /\ \A t, number, now : WellFormed(NewTicket(t, number, now))
    /\ \A number : \A ticket \in Ticket : WellFormed(Transferred(ticket, number))
    /\ \A ticket \in Ticket, k \in Counter : WellFormed(CalledTo(ticket, k))
    /\ \A ticket \in Ticket : WellFormed(ticket) /\ ticket.status = "CALLING" =>
          WellFormed(Reannounced(ticket))
<1>1. \A t, number, now : WellFormed(NewTicket(t, number, now))
  BY DEF NewTicket, WellFormed
<1>2. \A number : \A ticket \in Ticket : WellFormed(Transferred(ticket, number))
  BY DEF Transferred, Waiting, WellFormed, Ticket
<1>3. \A ticket \in Ticket, k \in Counter : WellFormed(CalledTo(ticket, k))
  BY NullAssumption DEF CalledTo, WellFormed, Ticket
<1>4. \A ticket \in Ticket : WellFormed(ticket) /\ ticket.status = "CALLING" =>
          WellFormed(Reannounced(ticket))
  BY DEF Reannounced, WellFormed, Ticket
<1>. QED BY <1>1, <1>2, <1>3, <1>4

LEMMA TransitionsKeepShape ==
    ASSUME NEW ticket \in Ticket, WellFormed(ticket), NEW target \in Status,
           NEW k \in Counter \cup {Null}, NEW order,
           target = "CALLING" => k # Null \/ ticket.counter # Null
    PROVE  WellFormed(TransitionTo(ticket, target, k, order))
<1>1. CASE target = "CALLING"
  <2>1. (IF k # Null THEN k ELSE ticket.counter) \in Counter
    BY <1>1 DEF Ticket
  <2>. QED BY <1>1, <2>1, CommandsKeepShape DEF TransitionTo
<1>2. CASE target # "CALLING" /\ target = ticket.status
  BY <1>2 DEF TransitionTo
<1>3. CASE target = "WAITING" /\ target # ticket.status
  <2>1. TransitionTo(ticket, target, k, order) = [Waiting(ticket) EXCEPT !.waitingOrder = order]
    BY <1>3 DEF TransitionTo
  <2>. QED BY <2>1 DEF Waiting, WellFormed, Ticket
<1>4. CASE target # "CALLING" /\ target # "WAITING" /\ target # ticket.status
  <2>1. TransitionTo(ticket, target, k, order) =
            [ticket EXCEPT !.status    = target,
                           !.served    = @ \/ target = "SERVING",
                           !.completed = @ \/ target = "COMPLETED"]
    BY <1>4 DEF TransitionTo
  <2>2. TransitionTo(ticket, target, k, order).status = target
    BY <2>1 DEF Ticket
  <2>. QED BY <1>4, <2>2 DEF WellFormed
<1>. QED BY <1>1, <1>2, <1>3, <1>4

LEMMA ShapeStep ==
    ASSUME Inv, ShapeInv, NEW p \in Proc, UNCHANGED <<tickets, archived>>,
           \A q \in Proc \ {p} : row'[q] = row[q], CarriesAShapedRow(p)'
    PROVE  ShapeInv'
<1>1. \A q \in Proc : CarriesAShapedRow(q)'
  BY DEF ShapeInv, CarriesAShapedRow
<1>2. RowShape'
  BY DEF ShapeInv, RowShape
<1>. QED BY <1>1, <1>2 DEF ShapeInv

LEMMA ShapeFrame ==
    ASSUME ShapeInv, UNCHANGED <<tickets, archived>>,
           \A q \in Proc : row'[q] \in {row[q], Null}
    PROVE  ShapeInv'
BY DEF ShapeInv, RowShape, CarriesAShapedRow

LEMMA RequestShaped ==
    ASSUME Inv, ShapeInv, NEW p \in Proc, Request(p)
    PROVE  ShapeInv'
<1>0. \A t \in TicketId : tickets[t] # Null => tickets[t] \in Ticket /\ WellFormed(tickets[t])
  BY DEF Inv, TypeOK, ShapeInv, RowShape
<1>1. ASSUME NEW command, NEW ticket, NEW visits, NEW at,
             Start(p, command, ticket, visits, at), ticket # Null => WellFormed(ticket)
      PROVE  ShapeInv'
  <2>1. row'[p] = ticket /\ \A q \in Proc \ {p} : row'[q] = row[q]
    BY <1>1, Started DEF Inv
  <2>2. UNCHANGED <<tickets, archived>>
    BY <1>1 DEF Start, store
  <2>. QED BY <1>1, <2>1, <2>2, ShapeStep DEF CarriesAShapedRow
<1>2. ASSUME NEW t \in TicketId, NEW c \in Category, CreateTicket(p, t, c) PROVE ShapeInv'
  BY <1>1, <1>2 DEF CreateTicket
<1>3. ASSUME NEW t \in TicketId, NEW c \in Category, Transfer(p, t, c) PROVE ShapeInv'
  BY <1>0, <1>1, <1>3 DEF Transfer
<1>4. ASSUME NEW k \in Counter, CallNext(p, k) PROVE ShapeInv'
  BY <1>1, <1>4 DEF CallNext
<1>5. ASSUME NEW t \in TicketId, NEW target \in Status, NEW k \in Counter \cup {Null},
             ApplyTransition(p, t, target, k)
      PROVE  ShapeInv'
  <2>. DEFINE command == [NoCommand EXCEPT !.op = "transition", !.id = t, !.counter = k,
                             !.target = target, !.n = DeclaredPolicy(tickets[t].status, target).n,
                             !.now = clock,
                             !.silent = target = tickets[t].status /\ target # "CALLING"]
              ticket == TransitionTo(tickets[t], target, k,
                           IF DeclaredPolicy(tickets[t].status, target).kind = "TO_BACK"
                           THEN clock ELSE tickets[t].waitingOrder)
  <2>1. /\ tickets[t] # Null
        /\ target = "CALLING" => k # Null \/ tickets[t].counter # Null
    BY <1>5 DEF ApplyTransition, CanTransition
  <2>2. WellFormed(tickets[t]) /\ WellFormed(ticket)
    BY <1>0, <2>1, TransitionsKeepShape
  <2>3. Start(p, command, tickets[t], {}, "plan") \/ Start(p, command, ticket, {}, "save")
    BY <1>5 DEF ApplyTransition
  <2>. HIDE DEF ticket, command
  <2>. QED BY <1>1, <2>2, <2>3
<1>6. ASSUME NEW t \in TicketId, Reannounce(p, t) PROVE ShapeInv'
  <2>1. WellFormed(Reannounced(tickets[t]))
    BY <1>0, <1>6, CommandsKeepShape DEF Reannounce
  <2>. QED BY <1>1, <1>6, <2>1 DEF Reannounce
<1>7. ASSUME NEW value \in ResetTarget, NEW archive \in BOOLEAN, ResetDaily(p, value, archive)
      PROVE  ShapeInv'
  BY <1>1, <1>7 DEF ResetDaily
<1>. QED BY <1>2, <1>3, <1>4, <1>5, <1>6, <1>7 DEF Request

LEMMA RollbackShaped ==
    ASSUME Inv, ShapeInv, NEW p \in Proc, Rollback(p)
    PROVE  ShapeInv'
BY ShapeFrame DEF Rollback, Finish, store, Inv, TypeOK

LEMMA CommitShaped ==
    ASSUME Inv, ShapeInv, NEW p \in Proc, Commit(p)
    PROVE  ShapeInv'
<1>1. /\ row[p] \in Ticket /\ WellFormed(row[p]) /\ HoldsItsLocks(p) /\ pc[p] = "commit"
      /\ UNCHANGED <<archived, row>>
  BY TicketQueueAssumption DEF Commit, Inv, TypeOK, RequestShape, WritesAreLocked, ShapeInv, CarriesAShapedRow
<1>2. ASSUME NEW t \in TicketId, tickets'[t] # Null PROVE WellFormed(tickets'[t])
  <2>1. CASE t = row[p].id
    BY <1>1, <2>1 DEF Commit
  <2>2. CASE t # row[p].id /\ cmd[p].op = "transition" /\ t \in IdsOf(done[p])
    <3>1. /\ tickets[t] # Null /\ tickets[t] \in Ticket /\ WellFormed(tickets[t])
          /\ tickets'[t] = Reordered(t, done[p])
      BY <1>1, <2>2 DEF Commit, HoldsItsLocks, InTransaction, Inv, TypeOK, ShapeInv, RowShape
    <3>. QED BY <3>1 DEF Reordered, WellFormed, Ticket
  <2>3. CASE t # row[p].id /\ ~(cmd[p].op = "transition" /\ t \in IdsOf(done[p]))
    BY <1>2, <2>3 DEF Commit, ShapeInv, RowShape
  <2>. QED BY <2>1, <2>2, <2>3
<1>3. RowShape'
  BY <1>1, <1>2 DEF ShapeInv, RowShape
<1>. QED BY <1>1, <1>3 DEF ShapeInv, CarriesAShapedRow

LEMMA ContinueShaped ==
    ASSUME Inv, ShapeInv, NEW p \in Proc, Continue(p)
    PROVE  ShapeInv'
<1>. USE DEF Inv, TypeOK, store
<1>1. CASE Reserve(p)
  <2>1. WellFormed(row'[p])
    BY <1>1, CommandsKeepShape DEF Reserve, TakeCounter, RequestShape, Issues
  <2>2. UNCHANGED <<tickets, archived>> /\ \A q \in Proc \ {p} : row'[q] = row[q]
    BY <1>1 DEF Reserve, TakeCounter
  <2>. QED BY <2>1, <2>2, ShapeStep DEF CarriesAShapedRow
<1>2. CASE NothingToCall(p) \/ Rollback(p)
  BY <1>2, RollbackShaped DEF NothingToCall
<1>3. CASE PlanRequeue(p)
  <2>1. /\ row[p] \in Ticket /\ row[p] # Null /\ UNCHANGED <<tickets, archived>>
        /\ cmd[p].counter \in Counter \cup {Null}
    BY <1>3, TicketQueueAssumption DEF PlanRequeue, RequestShape, Command
  <2>2. \E order : row' = [row EXCEPT ![p] = TransitionTo(row[p], "WAITING", cmd[p].counter, order)]
    BY <1>3 DEF PlanRequeue
  <2>3. "WAITING" \in Status
    BY FlowAssumption DEF Canonical
  <2>4. WellFormed(row[p])
    BY <2>1 DEF ShapeInv, CarriesAShapedRow
  <2>5. WellFormed(row'[p]) /\ \A q \in Proc \ {p} : row'[q] = row[q]
    <3>1. PICK order : row' = [row EXCEPT ![p] = TransitionTo(row[p], "WAITING", cmd[p].counter, order)]
      BY <2>2
    <3>2. PICK k \in Counter \cup {Null} : k = cmd[p].counter
      BY <2>1
    <3>3. WellFormed(TransitionTo(row[p], "WAITING", k, order))
      BY <2>1, <2>3, <2>4, TransitionsKeepShape
    <3>. QED BY <3>1, <3>2, <3>3
  <2>. QED BY <2>1, <2>5, ShapeStep DEF CarriesAShapedRow
<1>4. CASE Save(p) \/ (InsertArchived(p) /\ ~Rollback(p)) \/ Dispatch(p)
  BY <1>4, ShapeFrame DEF Save, InsertArchived, Dispatch, HasCommitted, Finish
<1>5. ASSUME NEW visit \in todo[p], LockNext(p, visit)
      PROVE  ShapeInv'
  <2>1. UNCHANGED <<tickets, archived>> /\ \A q \in Proc \ {p} : row'[q] = row[q]
    BY <1>5 DEF LockNext, StillWaits
  <2>2. CASE StillWaits(p, visit.id)
    <3>1. /\ row' = [row EXCEPT ![p] = CalledTo(tickets[visit.id], cmd[p].counter)]
          /\ visit.id \in TicketId /\ tickets[visit.id] \in Ticket /\ cmd[p].counter \in Counter
      BY <1>5, <2>2 DEF LockNext, StillWaits, IsWaitingIn, RequestShape, IdsOf
    <3>2. WellFormed(row'[p])
      BY <3>1, CommandsKeepShape
    <3>. QED BY <2>1, <3>2, ShapeStep DEF CarriesAShapedRow
  <2>3. CASE ~StillWaits(p, visit.id)
    BY <1>5, <2>1, <2>3, ShapeFrame DEF LockNext
  <2>. QED BY <2>2, <2>3
<1>6. ASSUME NEW visit \in todo[p],
             AssignOrder(p, visit) \/ ArchiveRow(p, visit) \/ ResetSequence(p, visit)
      PROVE  ShapeInv'
  BY <1>6, ShapeFrame DEF AssignOrder, ArchiveRow, ResetSequence, TakeCounter
<1>7. CASE CommitReset(p)
  <2>1. \A t \in TicketId : /\ tickets'[t] \in {tickets[t], Null}
                            /\ archived'[t] \in {tickets[t], archived[t]}
    BY <1>7 DEF CommitReset, ArchiveWith
  <2>. QED BY <1>7, <2>1 DEF CommitReset, ShapeInv, RowShape, CarriesAShapedRow
<1>. QED BY <1>1, <1>2, <1>3, <1>4, <1>5, <1>6, <1>7, CommitShaped DEF Continue

LEMMA NextShaped ==
    ASSUME Inv, ShapeInv, [Next]_vars
    PROVE  ShapeInv'
<1>. USE DEF store, request
<1>1. Cleanup => ShapeInv'
  <2>. SUFFICES ASSUME Cleanup PROVE ShapeInv'
    OBVIOUS
  <2>1. \A t \in TicketId : archived'[t] \in {archived[t], Null}
    BY DEF Cleanup
  <2>2. UNCHANGED <<tickets, row>>
    BY DEF Cleanup
  <2>. QED BY <2>1, <2>2 DEF ShapeInv, RowShape, CarriesAShapedRow
<1>2. Crash \/ Tick \/ UNCHANGED vars => ShapeInv'
  BY ShapeFrame DEF Crash, Tick, vars
<1>. QED BY <1>1, <1>2, RequestShaped, ContinueShaped, RollbackShaped
         DEF Next, Abort, DeadlockVictim

LEMMA ShapeInvariant == Spec => []ShapeInv
<1>1. Init => ShapeInv
  BY DEF Init, ShapeInv, RowShape, CarriesAShapedRow
<1>2. Inv /\ ShapeInv /\ [Next]_vars => ShapeInv'
  BY NextShaped
<1>. QED BY <1>1, <1>2, Invariance, PTL DEF Spec

(* Only the last step of a transaction takes a request from "commit" to    *)
(* "dispatch".                                                             *)
LEMMA OnlyCommitCommits ==
    ASSUME Inv, [Next]_vars, NEW p \in Proc, Commits(p)
    PROVE  Commit(p)
<1>. USE DEF Inv, TypeOK
<1>1. pc[p] = "commit" /\ pc'[p] = "dispatch"
  BY DEF Commits
<1>2. ASSUME NEW q \in Proc, Request(q) PROVE FALSE
  <2>1. pc[q] = "idle"
    <3>1. /\ \A t \in TicketId, c \in Category : CreateTicket(q, t, c) => pc[q] = "idle"
          /\ \A t \in TicketId, c \in Category : Transfer(q, t, c) => pc[q] = "idle"
          /\ \A k \in Counter : CallNext(q, k) => pc[q] = "idle"
          /\ \A t \in TicketId : Reannounce(q, t) => pc[q] = "idle"
      BY DEF CreateTicket, Transfer, CallNext, Reannounce, Start
    <3>2. \A t \in TicketId, target \in Status, k \in Counter \cup {Null} :
             ApplyTransition(q, t, target, k) => pc[q] = "idle"
      BY DEF ApplyTransition, Start
    <3>3. \A value \in ResetTarget, archive \in BOOLEAN :
             ResetDaily(q, value, archive) => pc[q] = "idle"
      BY DEF ResetDaily, Start
    <3>. QED BY <1>2, <3>1, <3>2, <3>3 DEF Request
  <2>. QED BY <1>1, <1>2, <2>1, RequestBegins
<1>3. ASSUME NEW q \in Proc, Rollback(q) PROVE FALSE
  BY <1>1, <1>3 DEF Rollback, Finish
<1>4. ASSUME NEW q \in Proc, Continue(q), ~(q = p /\ Commit(p)) PROVE FALSE
  <2>1. /\ ~(Reserve(q) \/ PlanRequeue(q) \/ Save(q) \/ Dispatch(q) \/ NothingToCall(q))
        /\ ~InsertArchived(q) /\ ~CommitReset(q)
    BY <1>1, <1>3 DEF Reserve, PlanRequeue, Save, Dispatch, NothingToCall, InsertArchived,
           CommitReset, GoTo, Finish, TakeCounter, HasCommitted
  <2>2. ASSUME NEW visit \in todo[q],
               \/ LockNext(q, visit) \/ AssignOrder(q, visit)
               \/ ArchiveRow(q, visit) \/ ResetSequence(q, visit)
        PROVE  FALSE
    BY <1>1, <2>2 DEF LockNext, AssignOrder, ArchiveRow, ResetSequence, GoTo, TakeCounter, StillWaits
  <2>3. Commit(q) => q = p
    BY <1>1 DEF Commit, GoTo
  <2>. QED BY <1>4, <2>1, <2>2, <2>3 DEF Continue
<1>5. ~Cleanup /\ ~Crash /\ ~Tick /\ ~UNCHANGED vars
  BY <1>1 DEF Cleanup, Crash, Tick, vars, request
<1>. QED BY <1>2, <1>3, <1>4, <1>5 DEF Next, Abort, DeadlockVictim

(* A commit writes the whole row of its ticket and, in a re-queue, the     *)
(* orders of its neighbours: whatever was called, moved or renumbered      *)
(* meanwhile stays, and every row keeps its shape, from however stale a    *)
(* copy the commit comes.                                                  *)
THEOREM CommitsKeepTheRest == Spec => RequeuesKeepTheRest
<1>. DEFINE Keeps ==
        \A p \in Proc : Commits(p) =>
             /\ RowShape'
             /\ \A t \in TicketId \ {row[p].id} : tickets[t] # Null =>
                   tickets'[t] = [tickets[t] EXCEPT !.waitingOrder = tickets'[t].waitingOrder]
<1>1. ASSUME Inv, ShapeInv, [Next]_vars, NEW p \in Proc, Commits(p)
      PROVE  /\ RowShape'
             /\ \A t \in TicketId \ {row[p].id} : tickets[t] # Null =>
                   tickets'[t] = [tickets[t] EXCEPT !.waitingOrder = tickets'[t].waitingOrder]
  <2>1. Commit(p)
    BY <1>1, OnlyCommitCommits
  <2>2. RowShape'
    BY <1>1, NextShaped DEF ShapeInv
  <2>3. ASSUME NEW t \in TicketId \ {row[p].id}, tickets[t] # Null
        PROVE  tickets'[t] = [tickets[t] EXCEPT !.waitingOrder = tickets'[t].waitingOrder]
    <3>1. tickets[t] \in Ticket
      BY <1>1, <2>3 DEF Inv, TypeOK
    <3>2. tickets'[t] = tickets[t] \/ tickets'[t] = Reordered(t, done[p])
      BY <2>1, <2>3 DEF Commit
    <3>. QED BY <3>1, <3>2 DEF Reordered, Ticket
  <2>. QED BY <2>2, <2>3
<1>2. Inv /\ ShapeInv /\ [Next]_vars => [Keeps]_vars
  BY <1>1
<1>. HIDE DEF Keeps
<1>3. Spec => [][Keeps]_vars
  BY <1>2, Invariance, ShapeInvariant, PTL DEF Spec
<1>. QED BY <1>3 DEF RequeuesKeepTheRest, Keeps
=============================================================================
