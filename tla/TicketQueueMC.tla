---------------------------- MODULE TicketQueueMC ----------------------------
(***************************************************************************)
(* Small instances of TicketQueue for TLC: two or three requests in flight *)
(* over two or three tickets, and the flows and routings they run under.   *)
(***************************************************************************)
EXTENDS TicketQueue, TLC

CONSTANTS p1, p2, p3, t1, t2, t3, A, B, k1, k2

Tickets1 == {t1}
Tickets2 == {t1, t2}
Tickets3 == {t1, t2, t3}
Procs2 == {p1, p2}
Procs3 == {p1, p2, p3}

Edge(from, to, kind, n) == [from |-> from, to |-> to, kind |-> kind, n |-> n]

(* The default flow, a way back to the end of the queue, and re-calling.   *)
BackFlow ==
    DefaultFlow \cup { Edge("SKIPPED", "WAITING", "TO_BACK", 0),
                       Edge("CALLING", "CALLING", "KEEP", 0) }

(* A ticket nobody answered to goes back behind the first waiting one, or  *)
(* is skipped and goes to the end of the queue.                            *)
BackOneFlow ==
    { Edge("WAITING", "CALLING", "KEEP", 0), Edge("CALLING", "WAITING", "BACK_N", 1),
      Edge("CALLING", "SKIPPED", "KEEP", 0),
      Edge("SKIPPED", "WAITING", "TO_BACK", 0) }

(* Counter 1 serves both categories, counter 2 the second one only.        *)
BothFirst == (k1 :> <<A, B>>) @@ (k2 :> <<B>>)
OnlyA == (k1 :> <<A>>)
AlsoB == (k1 :> <<A, B>>)

Fifo2 == [k \in {k1, k2} |-> "FIFO_GLOBAL"]
ByCategory2 == (k1 :> "CATEGORY_PRIORITY") @@ (k2 :> "FIFO_GLOBAL")
Fifo1 == (k1 :> "FIFO_GLOBAL")

(* An instance that starts in the day: three tickets issued in order, the  *)
(* first one called since.                                     *)
OneCalled ==
    LET number(i) == [category |-> A, day |-> 0, round |-> 0, seq |-> i]
        id == <<t1, t2, t3>>
        ticket(i) == NewTicket(id[i], number(i), 0)
        stored == [t \in TicketId |-> ticket(CHOOSE i \in 1..3 : id[i] = t)]
    IN  /\ tickets = [stored EXCEPT ![t1] = CalledTo(@, k1)]
        /\ archived = [t \in TicketId |-> Null]
        /\ sequences = [k \in CounterKey |-> IF k = <<A, 0>> THEN 3 ELSE Null]
        /\ rowLock = [t \in TicketId |-> Null] /\ seqLock = [k \in CounterKey |-> Null]
        /\ pc = [p \in Proc |-> "idle"] /\ cmd = [p \in Proc |-> NoCommand]
        /\ row = [p \in Proc |-> Null] /\ todo = [p \in Proc |-> {}]
        /\ done = [p \in Proc |-> {}]
        /\ clock = 0
        /\ announced = [t \in TicketId |-> number(CHOOSE i \in 1..3 : id[i] = t)]
        /\ issued = {[id |-> id[i], number |-> number(i)] : i \in 1..3}
        /\ round = [k \in CounterKey |-> 0] /\ purged = {}

(* Each re-queue may push the orders up, and one into an empty category has *)
(* no neighbours: states past these are not expanded.                      *)
BoundedOrders ==
    /\ \A t \in TicketId : tickets[t].waitingOrder <= 2
    /\ Cardinality({t \in TicketId : tickets[t].waitingOrder = 2}) <= 1
    /\ \E t \in TicketId : tickets[t].status = "WAITING"

OneCalledSpec == OneCalled /\ [][Next]_vars

ProcSymmetry == Permutations(Procs2)
RequestSymmetry2 == Permutations(Procs2) \cup Permutations(Tickets2)
RequestSymmetry3 == Permutations(Procs2) \cup Permutations(Tickets3)
=============================================================================
